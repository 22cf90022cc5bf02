--------------------------- MODULE SessionManager ---------------------------
(***************************************************************************)
(* A session: a tree of entries in memory, appended to a JSONL file        *)
(* (packages/coding-agent/src/core/session-manager.ts), with the moves of  *)
(* the leaf, the forks and the compactions that the agent session makes    *)
(* (agent-session.ts, agent-session-runtime.ts).                           *)
(*                                                                         *)
(* Every method of the manager is synchronous and is one step.  A          *)
(* compaction is two: it reads the path, waits for the model, and appends; *)
(* other steps may come between.  A write may fail at any line, having     *)
(* written nothing of it, part of it, or all of it but the newline; the    *)
(* method then throws with the entry already in memory.  A crash is such a *)
(* write, or none, followed by Reopen.                                     *)
(*                                                                         *)
(* Left out: sessions that are not persisted, migration of old versions,   *)
(* compactions written by extensions, and failures of the rewriting of a   *)
(* file when a session is forked or started afresh.                        *)
(*                                                                         *)
(* A definition introduced as a mistaken variant is in no specification:   *)
(* put in the place of the one after it, it breaks a property.             *)
(***************************************************************************)
EXTENDS Compaction, SequencesExt

CONSTANTS Kinds,       \* the kinds of entry that callers append
          MaxEntries,  \* bound: entries ever created in a session
          MaxFaults,   \* bound: writes that fail
          Forks,       \* whether sessions are forked
          MovesDuringCompaction  \* whether the leaf moves during a compaction

AppendKinds == {"user", "assistant", "toolResult", "bash", "custom_message", "setting"}
EntryKinds == AppendKinds \union {"label", "branch_summary", "compaction"}

ASSUME SessionAssumption ==
  /\ Kinds \subseteq EntryKinds \ {"compaction"}
  /\ MaxEntries \in Nat /\ MaxFaults \in Nat
  /\ Forks \in BOOLEAN /\ MovesDuringCompaction \in BOOLEAN

VARIABLES entries,   \* fileEntries without the header
          leaf,      \* leafId, 0 for null
          labels,    \* the keys of labelsById
          flushed,   \* whether the file is being appended to
          exists,    \* whether the session file exists
          file,      \* its lines
          torn,      \* its last line has no newline
          prep,      \* the compaction under way
          created,   \* entries of the session ever created; no id is used twice
          faults,    \* writes that have failed
          cleared    \* entries that were in memory when a fork emptied the file

memory == <<entries, leaf, labels>>
disk == <<flushed, exists, file, torn, faults>>
vars == <<memory, disk, prep, created, cleared>>

Header == [kind |-> "header"]
Junk == [kind |-> "junk"]     \* a line that does not parse

NoPrep == [on |-> FALSE]

Entry(n, parent, kind) == [id |-> n, parent |-> parent, kind |-> kind]
Label(n, parent, target, set) ==
  [id |-> n, parent |-> parent, kind |-> "label", target |-> target, set |-> set]

Ids(es) == {es[i].id : i \in DOMAIN es}
Find(es, n) == es[CHOOSE i \in DOMAIN es : es[i].id = n]
HasAssistant(es) == \E i \in DOMAIN es : es[i].kind = "assistant"

\* getBranch: from the root to entry n.  The walk ends where a parent is not
\* known; parents are created before their children.
Path(es, n) ==
  LET path[i \in 0..MaxEntries] ==
        IF i \in Ids(es) THEN Append(path[Find(es, i).parent], Find(es, i)) ELSE <<>>
  IN  path[n]

\* buildSessionContext: the newest compaction, what it kept, what came after.
Context(es, n) ==
  LET path == Path(es, n)
      last == LastCompaction(path)
      kept == IF last = 0 THEN {} ELSE At(SubSeq(path, 1, last), path[last].kept)
      first == IF last = 0 THEN 1 ELSE IF kept = {} THEN last ELSE Min(kept)
      messages == Shown(path, first)
  IN  IF last = 0 THEN messages ELSE <<path[last]>> \o messages

LabelsAt(es) == {i \in DOMAIN es : es[i].kind = "label"}

\* The entries that are or were labelled.
LabelsEverIn(es) == {es[i].target : i \in LabelsAt(es)}

\* labelsById as _buildIndex rebuilds it: the last label entry decides.
LabelsIn(es) ==
  {n \in LabelsEverIn(es) :
     LET about == {i \in LabelsAt(es) : es[i].target = n}
     IN  es[Max(about)].set}

Init ==
  /\ entries = <<>> /\ leaf = 0 /\ labels = {}
  /\ flushed = FALSE /\ exists = FALSE /\ file = <<>> /\ torn = FALSE
  /\ prep = NoPrep /\ created = 0 /\ faults = 0 /\ cleared = {}
-----------------------------------------------------------------------------
(* Writing *)

\* A line added to a file: after a torn one it completes that line, and the
\* two together do not parse.
AddLine(lines, unfinished, line) ==
  IF unfinished THEN Append(Front(lines), Junk) ELSE Append(lines, line)

\* k lines of new are added.
AddLines(new, k) ==
  IF k = 0 THEN file ELSE AddLine(file, torn, new[1]) \o SubSeq(new, 2, k)

\* Mistaken variant: the session counts as flushed before it is written.
FlushedEarly == TRUE

\* flushed is set after the write.
FlushedAfterFailure == flushed

\* All of new is written, or the write of a line fails, or the file cannot be
\* opened.
Written(new) ==
  \/ /\ file' = AddLines(new, Len(new)) /\ torn' = FALSE
     /\ exists' = TRUE /\ flushed' = TRUE
     /\ UNCHANGED faults
  \/ /\ faults < MaxFaults /\ faults' = faults + 1
     /\ flushed' = FlushedAfterFailure
     /\ \/ UNCHANGED <<exists, file, torn>>
        \/ \E k \in 0..(Len(new) - 1) :
             LET cut == torn /\ k = 0
             IN  /\ exists' = TRUE
                 /\ \/ file' = AddLines(new, k) /\ torn' = cut
                    \/ \E line \in {Junk, new[k + 1]} :
                         file' = AddLine(AddLines(new, k), cut, line) /\ torn' = TRUE

\* _persist: nothing is written before the first assistant message; then the
\* whole session is written to a file that must not exist yet, and from then
\* on each entry is appended.
Persist(es) ==
  \/ /\ flushed
     /\ Written(<<es[Len(es)]>>)
  \/ /\ ~flushed /\ HasAssistant(es) /\ ~exists
     /\ Written(<<Header>> \o es)
  \/ /\ ~flushed /\ (HasAssistant(es) => exists)
     /\ UNCHANGED disk

\* _appendEntry.
AppendEntry(e) ==
  /\ created < MaxEntries
  /\ created' = created + 1
  /\ entries' = Append(entries, e)
  /\ leaf' = e.id
  /\ Persist(entries')
  /\ UNCHANGED cleared
-----------------------------------------------------------------------------
(* The operations of the manager and of the agent session *)

\* A tool result comes while its turn runs: the entry before it, but for
\* settings and labels, is the newest of the session and of the path.
Newest(es) ==
  LET marks == {i \in DOMAIN es : es[i].kind \notin {"setting", "label"}}
  IN  IF marks = {} THEN Entry(0, 0, "none") ELSE es[Max(marks)]
TurnRuns ==
  /\ Newest(entries) = Newest(Path(entries, leaf))
  /\ Newest(entries).kind \in {"assistant", "toolResult"}

\* appendMessage, appendCustomMessageEntry, appendThinkingLevelChange,
\* appendModelChange, appendCustomEntry and appendSessionInfo.
AppendKind ==
  \E kind \in Kinds \intersect AppendKinds :
    /\ kind = "toolResult" => TurnRuns
    /\ AppendEntry(Entry(created + 1, leaf, kind))
    /\ UNCHANGED <<labels, prep>>

\* _persist threw: the write failed, or the file to be created was there.
Threw == faults' # faults \/ (HasAssistant(entries') /\ ~flushed')

\* appendLabelChange; when the write throws the index is not updated.
AppendLabel ==
  \E target \in Ids(entries), set \in BOOLEAN :
    /\ "label" \in Kinds
    /\ AppendEntry(Label(created + 1, leaf, target, set))
    /\ labels' = IF Threw THEN labels
                 ELSE IF set THEN labels \union {target} ELSE labels \ {target}
    /\ UNCHANGED prep

\* Where navigateTree puts the leaf: a user's message is edited again.
NewLeaf(target) ==
  IF Find(entries, target).kind \in {"user", "custom_message"}
  THEN Find(entries, target).parent ELSE target

MayMove == prep.on => MovesDuringCompaction

\* navigateTree without a summary: branch or resetLeaf.  A label given with the
\* move is an AppendLabel right after it; so it is for a summary.
Navigate ==
  \E target \in Ids(entries) \ {leaf} :
    /\ MayMove
    /\ leaf' = NewLeaf(target)
    /\ UNCHANGED <<entries, labels, disk, prep, created, cleared>>

\* navigateTree with one: branchWithSummary.
NavigateWithSummary ==
  \E target \in Ids(entries) \ {leaf} :
    /\ MayMove /\ "branch_summary" \in Kinds
    /\ AppendEntry(Entry(created + 1, NewLeaf(target), "branch_summary"))
    /\ UNCHANGED <<labels, prep>>

\* The newest summary of the path does not speak for all that precedes what it
\* keeps: it passed on no earlier one, or what it keeps is not on the path.
Lossy(path) ==
  LET prev == LastCompaction(path)
  IN  prev # 0 /\ (path[prev].forgets \/ At(SubSeq(path, 1, prev), path[prev].kept) = {})

\* compact() and _runAutoCompaction read the path and ask the model.
PrepareCompaction ==
  LET path == Path(entries, leaf)
  IN  \E reached \in BudgetPoints(path) :
        /\ ~prep.on /\ CanCompact(path, reached)
        /\ prep' = [on |-> TRUE, from |-> leaf, lossy |-> Lossy(path),
                    plan |-> Prepared(path, reached)]
        /\ UNCHANGED <<memory, disk, created, cleared>>

\* The summary is there and appendCompaction adds it at the leaf; moved says that
\* this is no longer below the entry it was prepared at.
AppendCompaction ==
  /\ prep.on
  /\ AppendEntry([id |-> created + 1, parent |-> leaf, kind |-> "compaction",
                  kept |-> prep.plan.kept, covers |-> Covers(prep.plan),
                  forgets |-> prep.lossy \/ Forgets(prep.plan),
                  moved |-> prep.from \notin Ids(Path(entries, leaf))])
  /\ prep' = NoPrep
  /\ UNCHANGED labels

\* It failed or was cancelled.
AbandonCompaction ==
  /\ prep.on
  /\ prep' = NoPrep
  /\ UNCHANGED <<memory, disk, created, cleared>>

\* loadEntriesFromFile: lines that do not parse are skipped, and without a
\* header first there is no session.
Parsed == Picked(file, {i \in DOMAIN file : file[i] # Junk})
Loaded == IF Parsed # <<>> /\ Head(Parsed) = Header THEN Tail(Parsed) ELSE <<>>
Readable == Parsed # <<>> /\ Head(Parsed) = Header

LastId(es) == IF es = <<>> THEN 0 ELSE es[Len(es)].id

\* setSessionFile in a new process; a file with no session is started afresh,
\* and one that does not exist is created by the first flush.
Reopen ==
  /\ entries' = Loaded /\ leaf' = LastId(Loaded) /\ labels' = LabelsIn(Loaded)
  /\ flushed' = exists
  /\ IF exists /\ ~Readable THEN file' = <<Header>> /\ torn' = FALSE
     ELSE UNCHANGED <<file, torn>>
  /\ prep' = NoPrep /\ cleared' = {}
  /\ UNCHANGED <<exists, created, faults>>

\* newSession has a file of its own, as has a fork before the first entry.
NewSession ==
  /\ entries' = <<>> /\ leaf' = 0 /\ labels' = {}
  /\ flushed' = FALSE /\ exists' = FALSE /\ file' = <<>> /\ torn' = FALSE
  /\ prep' = NoPrep /\ created' = 0 /\ cleared' = {}
  /\ UNCHANGED faults

\* Mistaken variant: the entries keep their parents.
KeptParents(path) == Picked(path, DOMAIN path \ LabelsAt(path))

\* The path without its labels, each entry the child of the one before it.
Rechained(path) ==
  LET kept == Picked(path, DOMAIN path \ LabelsAt(path))
  IN  [i \in DOMAIN kept |->
         [kept[i] EXCEPT !.parent = IF i = 1 THEN 0 ELSE kept[i - 1].id]]

\* Mistaken variant: a session not written yet counts as flushed.
AlwaysFlushed(es) == TRUE

\* The branched session is written at once when it has an assistant message.
WrittenAtOnce(es) == HasAssistant(es)

\* fork opens the file of the session again and createBranchedSession copies
\* the path to the target into a new one, then a label entry for each label on
\* it.  A target that is not in the file is refused.
ForkAt(target) ==
  LET old == Loaded
      path == Rechained(Path(old, target))
      kept == SetToSeq(LabelsIn(old) \intersect Ids(path))
      copies == [i \in DOMAIN kept |->
                   Label(created + i, IF i = 1 THEN LastId(path) ELSE created + i - 1,
                         kept[i], TRUE)]
      new == path \o copies
  IN  /\ Forks /\ Readable /\ target \in Ids(old)
      /\ created + Len(kept) <= MaxEntries
      /\ created' = created + Len(kept)
      /\ entries' = new /\ leaf' = LastId(new) /\ labels' = LabelsIn(new)
      /\ flushed' = WrittenAtOnce(new) /\ exists' = HasAssistant(new)
      /\ file' = IF HasAssistant(new) THEN <<Header>> \o new ELSE <<>>
      /\ torn' = FALSE
      /\ prep' = NoPrep /\ cleared' = {}
      /\ UNCHANGED faults

Fork == \E target \in Ids(entries) : ForkAt(target)

\* A file without a readable header is started afresh by the opening, and the
\* fork is then refused; the session that runs is not told.
ForkOfUnreadable ==
  /\ Forks /\ entries # <<>> /\ exists /\ ~Readable
  /\ file' = <<Header>> /\ torn' = FALSE
  /\ cleared' = Ids(entries)
  /\ UNCHANGED <<memory, flushed, exists, prep, created, faults>>

Next ==
  \/ AppendKind \/ AppendLabel \/ Navigate \/ NavigateWithSummary
  \/ PrepareCompaction \/ AppendCompaction \/ AbandonCompaction
  \/ Reopen \/ NewSession \/ Fork \/ ForkOfUnreadable

Spec == Init /\ [][Next]_vars
-----------------------------------------------------------------------------
(* Properties *)

IdRange == 1..MaxEntries

TypeOK ==
  /\ \A i \in DOMAIN entries :
       /\ entries[i].id \in IdRange /\ entries[i].parent \in {0} \union IdRange
       /\ entries[i].kind \in EntryKinds
  /\ leaf \in {0} \union (IF faults = 0 THEN Ids(entries) ELSE IdRange) /\ labels \subseteq IdRange
  /\ flushed \in BOOLEAN /\ exists \in BOOLEAN /\ torn \in BOOLEAN
  /\ \A i \in DOMAIN file : file[i] \in {Header, Junk} \/ file[i].id \in IdRange
  /\ prep.on \in BOOLEAN
  /\ created \in 0..MaxEntries /\ faults \in 0..MaxFaults
  /\ cleared \subseteq IdRange

\* "Each subsequent entry points to its parent": every entry is new and the
\* child of an earlier one, whatever was appended, forked, compacted or read
\* back, as long as no write fails.
TreeIntact ==
  faults = 0 => \A i \in DOMAIN entries :
    /\ entries[i].id \notin Ids(SubSeq(entries, 1, i - 1))
    /\ entries[i].parent \in {0} \union Ids(SubSeq(entries, 1, i - 1))

\* As long as no write fails the file holds the header and the entries, once
\* each; it does not exist before the first assistant message.
FileExact ==
  faults = 0 =>
    /\ exists = HasAssistant(entries) /\ flushed = exists
    /\ exists => ~torn /\ file = <<Header>> \o entries

\* The labels kept up to date one change at a time are those that reading the
\* entries again would give, so that a fork and a restart keep them.
LabelsExact == faults = 0 => labels = LabelsIn(entries)

\* A failed write loses at most its own entry and the one after it, as long as
\* the header is intact; where that was lost and a fork has started the file
\* afresh, the entries from then on are in it up to such losses.
LossBounded ==
  flushed /\ Header \in ToSet(file) =>
    Cardinality(Ids(entries) \ (Ids(Loaded) \union cleared)) <= 2 * faults

\* The model never sees a tool result that does not follow its call or another
\* result of it, wherever the session was cut, forked or moved; but for a summary
\* that was appended on another branch than it was made of, where what it keeps
\* may begin with a setting right before a result.
ResultsPaired ==
  faults = 0 =>
    LET path == Path(entries, leaf)
        last == LastCompaction(path)
        context == Context(entries, leaf)
    IN  (last # 0 => ~path[last].moved) =>
          \A i \in DOMAIN context : context[i].kind = "toolResult" =>
            i > 1 /\ context[i - 1].kind \in {"assistant", "toolResult"}

\* A message before a compaction is either in its summary or kept, never neither
\* and never both, unless the first entry kept is not on the path or an earlier
\* summary was not passed on.
HistoryAccounted ==
  LET path == Path(entries, leaf)
  IN  \A p \in DOMAIN path : IsCompaction(path[p]) /\ ~path[p].forgets =>
        LET kept == At(SubSeq(path, 1, p), path[p].kept)
        IN  kept # {} =>
              \A i \in 1..(p - 1) : InContext(path[i]) =>
                (path[i].id \in path[p].covers) # (i >= Min(kept))

(* A claim of the documentation that a run refutes. *)

\* clone: "Duplicate the current active branch into a new session at the
\* current position": the conversation is the same.
ContextIds == {Context(entries, leaf)[i].id : i \in DOMAIN Context(entries, leaf)}
CloneKeepsContext ==
  [][ForkAt(leaf) => ContextIds' = ContextIds]_vars
=============================================================================
