----------------------------- MODULE Compaction -----------------------------
(***************************************************************************)
(* Where a session is cut when its older part is summarised, and what the  *)
(* summary is made of: prepareCompaction, findCutPoint and compact of      *)
(* packages/coding-agent/src/core/compaction/compaction.ts, on the path of *)
(* entries from the root of the session tree to its leaf.                  *)
(*                                                                         *)
(* A summary is the set of entries it is made from (covers).  The sizes of *)
(* the messages and keepRecentTokens matter only through the message where *)
(* the backward count reaches the budget; that message is a parameter.     *)
(*                                                                         *)
(* A definition introduced as a mistaken variant is in no specification:   *)
(* put in the place of the one after it, it breaks a property.             *)
(***************************************************************************)
EXTENDS Integers, Sequences, FiniteSetsExt

\* Entries whose type is "message", by the role of the message.
MessageKinds == {"user", "assistant", "toolResult", "bash"}

IsMessage(e) == e.kind \in MessageKinds

\* Entries that give the model a message; a compaction gives its summary.
InContext(e) == IsMessage(e) \/ e.kind \in {"custom_message", "branch_summary"}

IsCompaction(e) == e.kind = "compaction"

\* The positions in a path of the entry with id n.
At(path, n) == {i \in DOMAIN path : path[i].id = n}

\* The newest compaction of a path, 0 when there is none.
LastCompaction(path) == Max({0} \union {i \in DOMAIN path : IsCompaction(path[i])})

\* What a sequence has at the positions picked, in its order.
Picked(s, picked) ==
  LET upTo[i \in 0..Len(s)] ==
        IF i = 0 THEN <<>>
        ELSE IF i \in picked THEN Append(upTo[i - 1], s[i]) ELSE upTo[i - 1]
  IN  upTo[Len(s)]

\* The messages a path gives the model from position first on.
Shown(path, first) ==
  Picked(path, {i \in DOMAIN path : i >= first /\ InContext(path[i])})

\* Mistaken variant: summarising resumes at the compaction, and what it kept
\* is neither kept nor summarised the next time.
StartAtCompaction(path) == LastCompaction(path) + 1

\* boundaryStart: what the previous compaction kept is summarised next, or
\* what follows that compaction when the first entry it kept is not on the path.
BoundaryStart(path) ==
  LET prev == LastCompaction(path)
  IN  IF prev = 0 THEN 1
      ELSE IF At(path, path[prev].kept) # {} THEN Min(At(path, path[prev].kept))
      ELSE prev + 1

\* Mistaken variant: a tool result may be the first entry kept.
CutAnywhere(path, start) == {i \in start..Len(path) : InContext(path[i])}

\* findValidCutPoints: never at a tool result.
CutPoints(path, start) ==
  {i \in start..Len(path) : InContext(path[i]) /\ path[i].kind # "toolResult"}

\* The first cut point at or after the message that reaches the budget, or else
\* the first of all.
BudgetCut(path, start, reached) ==
  LET later == {i \in CutPoints(path, start) : i >= reached}
  IN  IF reached # 0 /\ later # {} THEN Min(later) ELSE Min(CutPoints(path, start))

\* The entries right before the cut that are no messages of a turn are kept too.
ScanBack(path, start, cut) ==
  Min({i \in start..cut :
         \A j \in i..(cut - 1) : ~IsMessage(path[j]) /\ ~IsCompaction(path[j])})

\* findCutPoint: the first entry kept.
FirstKept(path, start, reached) ==
  IF CutPoints(path, start) = {} THEN start
  ELSE ScanBack(path, start, BudgetCut(path, start, reached))

\* findTurnStartIndex, 0 when the turn starts before the boundary.
TurnStart(path, start, cut) ==
  Max({0} \union {i \in start..cut :
                    path[i].kind \in {"user", "bash", "custom_message", "branch_summary"}})

IsSplitTurn(path, start, cut) ==
  /\ CutPoints(path, start) # {}
  /\ path[cut].kind # "user"
  /\ TurnStart(path, start, cut) # 0

\* The messages at positions lo to hi - 1.
MessageIds(path, lo, hi) ==
  {path[i].id : i \in {i \in lo..(hi - 1) : InContext(path[i])}}

\* prepareCompaction: what is kept, what is summarised, and of a turn that is
\* split the part before the cut.
Prepared(path, reached) ==
  LET prev == LastCompaction(path)
      start == BoundaryStart(path)
      cut == FirstKept(path, start, reached)
      split == IsSplitTurn(path, start, cut)
      historyEnd == IF split THEN TurnStart(path, start, cut) ELSE cut
  IN  [kept |-> path[cut].id,
       toSummarize |-> MessageIds(path, start, historyEnd),
       turnPrefix |-> IF split THEN MessageIds(path, historyEnd, cut) ELSE {},
       again |-> prev # 0,
       previous |-> IF prev = 0 THEN {} ELSE path[prev].covers]

\* compact(): "No prior history." stands for the summary of the history when a
\* turn is split and nothing of the span comes before it.
NoHistory(p) == p.turnPrefix # {} /\ p.toSummarize = {}

\* generateSummary: new messages and the summary there was.
Summary(messages, previous) == messages \union previous

\* compact(): what the new summary is made from.
Covers(p) ==
  p.turnPrefix \union (IF NoHistory(p) THEN {} ELSE Summary(p.toSummarize, p.previous))

\* An earlier summary is in none of the two parts.
Forgets(p) == p.again /\ NoHistory(p)

\* The messages whose estimated size may be what reaches the budget; 0 when
\* the whole span is within it.
BudgetPoints(path) ==
  {0} \union {i \in BoundaryStart(path)..Len(path) : IsMessage(path[i])}

\* There is something to compact: the last entry is no compaction, the first
\* kept entry exists and some message comes before it.
CanCompact(path, reached) ==
  /\ path # <<>> /\ ~IsCompaction(path[Len(path)])
  /\ FirstKept(path, BoundaryStart(path), reached) \in DOMAIN path
  /\ LET p == Prepared(path, reached)
     IN  p.toSummarize \union p.turnPrefix # {}
=============================================================================
