--------------------------- MODULE TranscriptionRun ---------------------------
(***************************************************************************)
(* Runs of the transcription skill on one output directory                 *)
(* (forge/skills/transcription/scripts/transcription.py): invocations of   *)
(* transcribe, retry and refresh, one after another or beside each other,  *)
(* that may be killed between any two writes and started again, while the  *)
(* recording is replaced between them.                                     *)
(*                                                                         *)
(* Only the content of files matters: the version of the recording they    *)
(* were made from.  The recording is converted before it is sent; the nine *)
(* files derived from the segments are one, as each invocation that gets   *)
(* that far writes all of them.                                            *)
(*                                                                         *)
(* A definition introduced as a mistaken variant is in no specification:   *)
(* put in the place of the one after it, it breaks a property.             *)
(***************************************************************************)
EXTENDS RunState, Sequences, FiniteSets

CONSTANTS Procs,      \* slots for invocations in progress
          Together,   \* bound: invocations at once
          Commands,   \* the commands that are given
          MaxRuns,    \* bound: invocations
          MaxCrashes, \* bound: invocations that are killed
          MaxEdits,   \* bound: times the recording is replaced
          Torn        \* what a crash leaves of a line of the journal

ASSUME TranscriptionRunAssumption ==
  /\ Nobody \notin Procs /\ Gone \notin Procs
  /\ Commands \subseteq {"transcribe", "retry", "refresh"}
  /\ Torn \subseteq {"torn", "bare"}
  /\ {Together, MaxRuns, MaxCrashes, MaxEdits} \subseteq Nat

VARIABLES media,      \* the version of the recording that is there
          dir,        \* whether the output directory exists
          state,      \* run_state.json
          journal,    \* run_events.jsonl
          lock,       \* .run.lock
          files,      \* what the run wrote into the directory
          revisions,  \* what refreshes moved away, by revision
          proc,       \* the invocations
          last,       \* how the last one ended
          written,    \* how often run_state.json was written
          finished,   \* versions a run was completed for
          lost,       \* records that an error kept out of it, or a replacement took with it
          used        \* runs, crashes and edits so far

disk == <<dir, state, journal, lock, files, revisions>>
ghosts == <<last, written, finished, lost>>
vars == <<media, disk, proc, ghosts, used>>

Versions == 1..(MaxEdits + 1)
NameSet == {"audio", "chunk_results", "transcript"}
Place == [audio |-> 1, chunk_results |-> 2, transcript |-> 3]   \* in what a refresh moves

\* A file made from version of the recording, which says it was made from sha.
NoFile == [on |-> FALSE]
File(version, sha) == [on |-> TRUE, of |-> version, sha |-> sha]
Folder == File(0, 0)   \* for the result, without one
NoItem == [status |-> "none"]
NoPlan == [revision |-> 0]
NoState == [status |-> "none"]
FirstState == [status |-> "running", input |-> media, item |-> NoItem,
               plan |-> NoPlan, history |-> <<>>]

HasItem == state # NoState /\ state.item # NoItem
Completed == HasItem /\ state.item.status = "completed"

Off == [at |-> "off"]
Active == {p \in Procs : proc[p].at # "off"}

Init ==
  /\ media = 1 /\ dir = FALSE /\ state = NoState /\ journal = NewJournal /\ lock = NoLock
  /\ files = [n \in NameSet |-> NoFile]
  /\ revisions = [r \in 1..MaxRuns |-> files]
  /\ proc = [p \in Procs |-> Off] /\ last = "none" /\ written = 0 /\ finished = {} /\ lost = 0
  /\ used = [run |-> 0, crash |-> 0, edit |-> 0]

Spend(kind, bound) == used[kind] < bound /\ used' = [used EXCEPT ![kind] = @ + 1]

At(p, step) == proc[p].at = step
Goto(p, step) == proc' = [proc EXCEPT ![p].at = step]
Leave(p, how) == proc' = [proc EXCEPT ![p] = Off] /\ last' = how

\* Process p is to make an update of the state.
Update(p, up) == [proc[p] EXCEPT !.at = "load", !.up = up]

\* What an error does where p is: the attempt fails, or the invocation does,
\* after its lock is removed if it holds one.
Raised(p) ==
  IF proc[p].up = "complete" THEN [Update(p, "fail") EXCEPT !.transient = FALSE]
                             ELSE [proc[p] EXCEPT !.at = "unlock", !.failing = TRUE]
Raises(p) == IF proc[p].held THEN proc' = [proc EXCEPT ![p] = Raised(p)] /\ UNCHANGED last
                             ELSE Leave(p, "failed")

------------------------------------------------------------------------------
(* Invocations and the recording *)

Start(p) ==
  /\ At(p, "off") /\ Cardinality(Active) < Together /\ Spend("run", MaxRuns)
  /\ \E cmd \in Commands :
       proc' = [proc EXCEPT ![p] =
                  [at |-> "open", cmd |-> cmd, seen |-> NoState, up |-> "none", attempt |-> 0,
                   transient |-> FALSE, failing |-> FALSE, held |-> FALSE, content |-> 0,
                   plan |-> NoPlan, moves |-> {}, read |-> NewJournal]]
  /\ UNCHANGED <<media, disk, ghosts>>

Edit ==
  /\ Active = {} /\ Spend("edit", MaxEdits)
  /\ media' = media + 1
  /\ UNCHANGED <<disk, proc, ghosts>>

\* What was written stays written; a line that was being appended may be cut.
Crash(p) ==
  /\ p \in Active /\ Spend("crash", MaxCrashes)
  /\ lock' = Orphaned(lock, p)
  /\ journal' \in {journal} \cup (IF At(p, "append") THEN {Cut(journal, how) : how \in Torn} ELSE {})
  /\ Leave(p, "killed")
  /\ UNCHANGED <<media, dir, state, files, revisions, written, finished, lost>>

------------------------------------------------------------------------------
(* Updates of the state: read and changed, written, and told to the journal *)

Item(attempts, of) == [status |-> "pending", attempts |-> attempts, transient |-> FALSE, sha |-> of]

\* The old input is kept for reference; mistaken variant: it is replaced first.
RefreshedFirst(s, plan) ==
  [s EXCEPT !.status = "running", !.plan = NoPlan, !.item = NoItem, !.input = plan.target,
            !.history = Append(@, [input |-> plan.target, revision |-> plan.revision])]
Refreshed(s, plan) ==
  [s EXCEPT !.status = "running", !.plan = NoPlan, !.item = NoItem, !.input = plan.target,
            !.history = Append(@, [input |-> s.input, revision |-> plan.revision])]

\* What each update makes of the state s it has read.
Draft(p, s) ==
  LET up == proc[p].up
  IN  CASE up = "items" -> [s EXCEPT !.item = Item(0, files["audio"].of)]
        [] up = "start" -> [s EXCEPT !.status = "running", !.item.status = "in_progress",
                                     !.item.attempts = proc[p].attempt]
        [] up = "complete" -> [s EXCEPT !.item.status = "completed", !.item.transient = FALSE]
        [] up = "fail" -> [s EXCEPT !.item.status = "failed", !.item.transient = proc[p].transient]
        [] up = "finish" -> [s EXCEPT !.status = "complete"]
        [] up = "retry" -> [s EXCEPT !.status = "running",
                                     !.item = IF @ = NoItem THEN @ ELSE Item(0, @.sha)]
        [] up = "plan" -> [s EXCEPT !.status = "running", !.plan = proc[p].plan]
        [] up = "refreshed" -> Refreshed(s, proc[p].plan)

Load(p) ==
  /\ At(p, "load")
  /\ IF proc[p].up \in {"start", "complete", "fail"} /\ state.item = NoItem
       THEN Raises(p)
       ELSE /\ proc' = [proc EXCEPT ![p].seen = Draft(p, state), ![p].at = "write"]
            /\ UNCHANGED last
  /\ UNCHANGED <<media, disk, written, finished, lost, used>>

Write(p) ==
  /\ At(p, "write")
  /\ state' = proc[p].seen
  /\ written' = written + 1
  /\ finished' = finished \cup (IF proc[p].up = "finish" THEN {proc[p].seen.input} ELSE {})
  /\ Goto(p, "repair")
  /\ UNCHANGED <<media, dir, journal, lock, files, revisions, last, lost, used>>

\* The journal is read, and replaced by what was read of it when its end is torn.
Repair(p) ==
  /\ At(p, "repair")
  /\ IF Readable(journal)
       THEN /\ proc' = [proc EXCEPT ![p].read = Repaired(journal),
                                    ![p].at = IF journal.tail = "torn" THEN "replace" ELSE "append"]
            /\ UNCHANGED <<last, lost>>
       ELSE Raises(p) /\ lost' = lost + 1
  /\ UNCHANGED <<media, disk, written, finished, used>>

\* What others have appended since then is in the file no longer.
Replace(p) ==
  /\ At(p, "replace")
  /\ journal' = Instead(journal, proc[p].read)
  /\ lost' = lost + journal.lines - proc[p].read.lines
  /\ proc' = [proc EXCEPT ![p].read = journal', ![p].at = "append"]
  /\ UNCHANGED <<media, dir, state, lock, files, revisions, last, written, finished, used>>

\* Where an invocation goes on after an update.
GoesTo(p) ==
  CASE proc[p].up = "init" -> "prepare"
    [] proc[p].up = "items" -> "lock"
    [] proc[p].up = "start" -> "send"
    [] proc[p].up = "complete" -> "unlock"
    [] proc[p].up = "fail" -> IF proc[p].transient /\ proc[p].attempt < MaxAttempts
                                THEN "decide" ELSE "unlock"
    [] proc[p].up = "plan" -> "move"

\* The line goes to the file that was opened, which may have been replaced since.
Record(p) ==
  /\ At(p, "append")
  /\ \/ journal' = Recorded(journal) /\ UNCHANGED lost
     \/ journal.copy # proc[p].read.copy /\ lost' = lost + 1 /\ UNCHANGED journal
  /\ IF proc[p].up \in {"finish", "retry", "refreshed"}
       THEN Leave(p, "done")
       ELSE /\ proc' = [proc EXCEPT ![p].read = NewJournal, ![p].at = GoesTo(p)]
            /\ UNCHANGED last
  /\ UNCHANGED <<media, dir, state, lock, files, revisions, written, finished, used>>

------------------------------------------------------------------------------
(* transcribe *)

OpenTranscribe(p) ==
  /\ At(p, "open") /\ proc[p].cmd = "transcribe"
  /\ \/ ~dir /\ Goto(p, "mkdir") /\ UNCHANGED last
     \/ dir /\ state = NoState /\ Leave(p, "unmarked")
     \/ state # NoState /\ state.input # media /\ Leave(p, "refused")
     \/ state # NoState /\ state.input = media /\ state.status = "complete" /\ Leave(p, "done")
     \/ /\ state # NoState /\ state.input = media /\ state.status # "complete"
        /\ proc' = [proc EXCEPT ![p].seen = state, ![p].at = "prepare"]
        /\ UNCHANGED last
  /\ UNCHANGED <<media, disk, written, finished, lost, used>>

Mkdir(p) ==
  /\ At(p, "mkdir")
  /\ IF dir THEN Leave(p, "failed") ELSE Goto(p, "init") /\ UNCHANGED last
  /\ dir' = TRUE
  /\ UNCHANGED <<media, state, journal, lock, files, revisions, written, finished, lost, used>>

Initialize(p) ==
  /\ At(p, "init")
  /\ state' = FirstState /\ written' = written + 1
  /\ proc' = [proc EXCEPT ![p].seen = FirstState, ![p].up = "init", ![p].at = "repair"]
  /\ UNCHANGED <<media, dir, journal, lock, files, revisions, last, finished, lost, used>>

\* The converted recording is made once, and so is the item that is to be sent.
Prepare(p) ==
  /\ At(p, "prepare")
  /\ files' = IF files["audio"].on THEN files ELSE [files EXCEPT !["audio"] = File(media, media)]
  /\ IF proc[p].seen.item = NoItem THEN proc' = [proc EXCEPT ![p] = Update(p, "items")]
                                   ELSE Goto(p, "lock")
  /\ UNCHANGED <<media, dir, state, journal, lock, revisions, ghosts, used>>

\* The lock: created, or looked into, removed when it is stale and created anew,
\* and only then given its content.  The folder for the result is there before.
Acquire(p) ==
  /\ At(p, "lock")
  /\ files' = [files EXCEPT !["chunk_results"] = IF @.on THEN @ ELSE Folder]
  /\ IF lock.by = Nobody THEN lock' = Lock(p) /\ Goto(p, "stamp")
                         ELSE Goto(p, "inspect") /\ UNCHANGED lock
  /\ UNCHANGED <<media, dir, state, journal, revisions, ghosts, used>>

Inspect(p) ==
  /\ At(p, "inspect")
  /\ IF Stale(lock) THEN Goto(p, "reclaim") /\ UNCHANGED last ELSE Leave(p, "locked")
  /\ UNCHANGED <<media, disk, written, finished, lost, used>>

Reclaim(p) ==
  /\ At(p, "reclaim")
  /\ lock' = NoLock /\ Goto(p, "recreate")
  /\ UNCHANGED <<media, dir, state, journal, files, revisions, ghosts, used>>

Recreate(p) ==
  /\ At(p, "recreate")
  /\ IF lock.by = Nobody THEN lock' = Lock(p) /\ Goto(p, "stamp") /\ UNCHANGED last
                         ELSE Leave(p, "failed") /\ UNCHANGED lock
  /\ UNCHANGED <<media, dir, state, journal, files, revisions, written, finished, lost, used>>

Stamp(p) ==
  /\ At(p, "stamp")
  /\ lock' = Stamped(lock, p)
  /\ proc' = [proc EXCEPT ![p].held = TRUE, ![p].at = "decide"]
  /\ UNCHANGED <<media, dir, state, journal, files, revisions, ghosts, used>>

\* The item is the one read before the lock was taken, until an update of it.
Decide(p) ==
  /\ At(p, "decide")
  /\ IF RetryableItem(proc[p].seen.item)
       THEN proc' = [proc EXCEPT ![p] = [Update(p, "start") EXCEPT
                       !.attempt = proc[p].seen.item.attempts + 1]]
       ELSE Goto(p, "unlock")
  /\ UNCHANGED <<media, disk, ghosts, used>>

\* The service answers with a transcript, or fails in a way that may pass or not.
Send(p) ==
  /\ At(p, "send")
  /\ \/ /\ files["audio"].on
        /\ proc' = [proc EXCEPT ![p].content = files["audio"].of, ![p].at = "result"]
     \/ \E transient \in BOOLEAN :
          /\ transient => files["audio"].on
          /\ proc' = [proc EXCEPT ![p] = [Update(p, "fail") EXCEPT !.transient = transient]]
  /\ UNCHANGED <<media, disk, ghosts, used>>

\* The result is committed before the item is marked complete; mistaken variant:
\* it is not there yet.
ResultLater(p) ==
  /\ At(p, "result")
  /\ proc' = [proc EXCEPT ![p] = Update(p, "complete")]
  /\ UNCHANGED <<media, disk, ghosts, used>>
Result(p) ==
  /\ At(p, "result")
  /\ files' = [files EXCEPT !["chunk_results"] = File(proc[p].content, proc[p].seen.item.sha)]
  /\ proc' = [proc EXCEPT ![p] = Update(p, "complete")]
  /\ UNCHANGED <<media, dir, state, journal, lock, revisions, ghosts, used>>

\* Whatever is in the place of the lock is removed.
Unlock(p) ==
  /\ At(p, "unlock")
  /\ lock' = NoLock
  /\ IF proc[p].failing THEN Leave(p, "failed")
       ELSE proc' = [proc EXCEPT ![p].held = FALSE, ![p].at = "check"] /\ UNCHANGED last
  /\ UNCHANGED <<media, dir, state, journal, files, revisions, written, finished, lost, used>>

\* The segments of the committed result; none if a refresh took the item away.
Committed(s) ==
  \/ s.item = NoItem
  \/ /\ s.item.status = "completed" /\ files["chunk_results"].on
     /\ files["chunk_results"].sha = s.item.sha

Check(p) ==
  /\ At(p, "check")
  /\ IF Committed(state)
       THEN /\ proc' = [proc EXCEPT ![p].at = "output",
                          ![p].content = IF state.item = NoItem THEN 0 ELSE files["chunk_results"].of]
            /\ UNCHANGED last
       ELSE Leave(p, "failed")
  /\ UNCHANGED <<media, disk, written, finished, lost, used>>

\* The outputs come before the completion.
Output(p) ==
  /\ At(p, "output")
  /\ files' = [files EXCEPT !["transcript"] = File(proc[p].content, proc[p].content)]
  /\ proc' = [proc EXCEPT ![p] = Update(p, "finish")]
  /\ UNCHANGED <<media, dir, state, journal, lock, revisions, ghosts, used>>

------------------------------------------------------------------------------
(* retry and refresh, which take no lock *)

\* The failed items, or one that is named whatever became of it.
OpenRetry(p) ==
  /\ At(p, "open") /\ proc[p].cmd = "retry"
  /\ \/ ~(HasItem /\ state.item.status = "failed") /\ Leave(p, "refused")
     \/ /\ HasItem
        /\ proc' = [proc EXCEPT ![p] = Update(p, "retry")]
        /\ UNCHANGED last
  /\ UNCHANGED <<media, disk, written, finished, lost, used>>

\* What is there to be moved; mistaken variant: the recording is forgotten.
MovableDerived == {n \in {"chunk_results", "transcript"} : files[n].on}
Movable == {n \in NameSet : files[n].on}

\* A plan that is there is carried out, whatever the recording is now.
OpenRefresh(p) ==
  /\ At(p, "open") /\ proc[p].cmd = "refresh"
  /\ \/ state = NoState /\ Leave(p, "refused")
     \/ state # NoState /\ state.plan = NoPlan /\ state.input = media /\ Leave(p, "done")
     \/ /\ state # NoState /\ state.plan = NoPlan /\ state.input # media
        /\ LET plan == [revision |-> Len(state.history) + 1, target |-> media, moves |-> Movable]
           IN  proc' = [proc EXCEPT ![p] = [Update(p, "plan") EXCEPT !.plan = plan, !.moves = plan.moves]]
        /\ UNCHANGED last
     \/ /\ state # NoState /\ state.plan # NoPlan
        /\ proc' = [proc EXCEPT ![p].plan = state.plan, ![p].moves = state.plan.moves, ![p].at = "move"]
        /\ UNCHANGED last
  /\ UNCHANGED <<media, disk, written, finished, lost, used>>

\* What is at its destination already is passed over.
Move(p) ==
  /\ At(p, "move")
  /\ \/ /\ proc[p].moves = {}
        /\ proc' = [proc EXCEPT ![p] = Update(p, "refreshed")]
        /\ UNCHANGED <<files, revisions>>
     \/ \E n \in proc[p].moves :
          /\ \A m \in proc[p].moves : Place[n] <= Place[m]
          /\ LET r == proc[p].plan.revision
             IN  IF files[n].on /\ ~revisions[r][n].on
                   THEN /\ revisions' = [revisions EXCEPT ![r][n] = files[n]]
                        /\ files' = [files EXCEPT ![n] = NoFile]
                   ELSE UNCHANGED <<files, revisions>>
          /\ proc' = [proc EXCEPT ![p].moves = @ \ {n}]
  /\ UNCHANGED <<media, dir, state, journal, lock, ghosts, used>>

------------------------------------------------------------------------------
Step(p) ==
  \/ Load(p) \/ Write(p) \/ Repair(p) \/ Replace(p) \/ Record(p)
  \/ OpenTranscribe(p) \/ Mkdir(p) \/ Initialize(p) \/ Prepare(p)
  \/ Acquire(p) \/ Inspect(p) \/ Reclaim(p) \/ Recreate(p) \/ Stamp(p)
  \/ Decide(p) \/ Send(p) \/ Result(p) \/ Unlock(p) \/ Check(p) \/ Output(p)
  \/ OpenRetry(p) \/ OpenRefresh(p) \/ Move(p)

Next ==
  \/ \E p \in Procs : Start(p) \/ Step(p) \/ Crash(p)
  \/ Edit

\* An invocation that is not killed goes on: calls of the service time out.
Fairness == \A p \in Procs : WF_vars(Step(p))

Spec == Init /\ [][Next]_vars /\ Fairness

------------------------------------------------------------------------------
(* Properties *)

Outcomes == {"none", "done", "failed", "refused", "unmarked", "locked", "killed"}

TypeOK ==
  /\ media \in Versions /\ dir \in BOOLEAN /\ journal \in Journals
  /\ lock.by \in Procs \cup {Nobody, Gone} /\ lock.stamped \in BOOLEAN
  /\ lock.stamped => lock.by # Nobody
  /\ state # NoState => /\ state.status \in {"running", "complete"} /\ state.input \in Versions
                        /\ state.item # NoItem => state.item.attempts \in Nat
  /\ files \in [NameSet -> {NoFile} \cup {File(v, s) : v, s \in 0..(MaxEdits + 1)}]
  /\ last \in Outcomes /\ written \in Nat /\ finished \subseteq Versions

\* A run that is complete holds the transcript of the recording it names, as it
\* was moved away, converted and sent, through every restart and refresh.
CompletionBacked ==
  state # NoState /\ state.status = "complete"
    => files["transcript"].on /\ files["transcript"].of = state.input

\* An item that is marked complete has its result on disk, of its own upload, up
\* to a refresh that moves it.
ResultBacked ==
  Completed /\ state.plan = NoPlan
    => /\ files["chunk_results"].on
       /\ files["chunk_results"].sha = state.item.sha /\ files["chunk_results"].of = state.item.sha

\* The transcript a run was completed with stays in the directory or in a revision,
\* and a revision holds what was made from the input it replaced, and nothing else.
RevisionsIntact ==
  /\ \A v \in finished :
       \/ files["transcript"].on /\ files["transcript"].of = v
       \/ \E r \in DOMAIN revisions : revisions[r]["transcript"].on /\ revisions[r]["transcript"].of = v
  /\ state # NoState =>
       \A i \in 1..Len(state.history), n \in NameSet :
         LET file == revisions[state.history[i].revision][n]
         IN  file.on => file.of = state.history[i].input \/ file = Folder

\* As long as the journal can be read, every write of the state is in it but for
\* the one a kill fell on, those whose invocation found it unreadable, and those
\* in a file that another invocation replaced by what it had read of it before;
\* there are none of these without a kill, and it is never ahead of the state.
JournalAccounted ==
  /\ lost > 0 => used.crash > 0
  /\ Readable(journal) =>
       /\ journal.rows <= written
       /\ written <= journal.rows + lost + used.crash
                    + Cardinality({p \in Active : proc[p].at \in {"repair", "replace", "append"}})
==============================================================================
