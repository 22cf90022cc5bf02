------------------------ MODULE TranscriptionRunProofs ------------------------
(***************************************************************************)
(* Proofs about the runs of the transcription skill.  First about the      *)
(* journal, for any number of invocations in progress: the writes that it  *)
(* does not tell of yet are those of the invocations between a write and   *)
(* its line, and those that were killed there.                             *)
(*                                                                         *)
(* Then about the files and the state, as long as two invocations that are *)
(* in progress together are both of transcribe (Beside): retry and refresh *)
(* take no lock, and promise less beside another invocation.  Any number   *)
(* of transcribes may be beside each other, and each invocation may be     *)
(* killed anywhere.  The invariant says what the state and the files have  *)
(* to do with each other whoever is at work (Inputs, Pending, Past, Done), *)
(* and what an invocation that is at work has read, holds and has made so  *)
(* far (Transcribing, Retrying, Refreshing, Opening).  Of what it has read *)
(* a transcribe may keep little, as another may write the state after it:  *)
(* that there was an item, of the input of the state (Remembered), and of  *)
(* the state it is about to write, that the files bear it out (Drafted).   *)
(***************************************************************************)
EXTENDS TranscriptionRun, FiniteSetTheorems, TLAPS

Updates == {"init", "items", "start", "complete", "fail", "finish", "retry", "plan", "refreshed"}

------------------------------------------------------------------------------
(* The journal *)

Telling == {"repair", "replace", "append"}
Unrecorded == {p \in Active : proc[p].at \in Telling}

\* What is known of the invocations: an update in progress is one of these.
Formed(r) ==
  /\ "at" \in DOMAIN r
  /\ r.at # "off" => "up" \in DOMAIN r
  /\ r.at \in {"load", "write", "repair", "replace", "append"} => r.up \in Updates
Shape == DOMAIN proc = Procs /\ \A p \in Procs : Formed(proc[p])

\* Process p alone moves, to one of these steps.
Goes(p, steps) ==
  /\ \A q \in Procs \ {p} : proc'[q] = proc[q]
  /\ proc'[p].at \in steps

LEMMA Moves ==
  ASSUME Shape, NEW p \in Procs, NEW r, Formed(r), proc' = [proc EXCEPT ![p] = r]
  PROVE  Shape' /\ Goes(p, {r.at})
BY DEF Shape, Goes

LEMMA MovesTo ==
  ASSUME Shape, NEW p \in Procs, NEW s, Goto(p, s), proc[p].at # "off",
         s \in {"load", "write", "repair", "replace", "append"} => proc[p].up \in Updates
  PROVE  Shape' /\ Goes(p, {s})
<1>1. proc' = [proc EXCEPT ![p] = [proc[p] EXCEPT !.at = s]]
  BY DEF Goto, Shape
<1>2. Formed([proc[p] EXCEPT !.at = s])
  BY DEF Shape, Formed
<1>3. [proc[p] EXCEPT !.at = s].at = s
  BY DEF Shape, Formed
<1> QED
  BY <1>1, <1>2, <1>3, Moves

LEMMA Leaves ==
  ASSUME Shape, NEW p \in Procs, NEW how, Leave(p, how)
  PROVE  Shape' /\ Goes(p, {"off"})
<1>1. Formed(Off) /\ Off.at = "off"
  BY DEF Formed, Off
<1> QED
  BY <1>1, Moves DEF Leave

LEMMA UpdateFormed ==
  ASSUME Shape, NEW p \in Procs, NEW up \in Updates, proc[p].at # "off"
  PROVE  Formed(Update(p, up)) /\ Update(p, up).at = "load"
BY DEF Shape, Formed, Update

LEMMA RaisesGoes ==
  ASSUME Shape, NEW p \in Procs, proc[p].at # "off", Raises(p)
  PROVE  Shape' /\ Goes(p, {"load", "unlock", "off"})
<1>1. Formed(Raised(p)) /\ Raised(p).at \in {"load", "unlock"}
  <2>1. "fail" \in Updates
    BY DEF Updates
  <2> QED
    BY <2>1, UpdateFormed DEF Raised, Formed, Shape
<1>2. CASE proc' = [proc EXCEPT ![p] = Raised(p)]
  BY <1>1, <1>2, Moves DEF Goes
<1>3. CASE Leave(p, "failed")
  BY <1>3, Leaves DEF Goes
<1> QED
  BY <1>2, <1>3 DEF Raises

\* The steps that neither write the state nor touch the journal.
Silently(p) ==
  /\ Shape' /\ proc[p].at \notin Telling /\ proc'[p].at \notin Telling
  /\ \A q \in Procs \ {p} : proc'[q] = proc[q]
  /\ UNCHANGED <<journal, written, lost, used>>

LEMMA LoadSilent ==
  ASSUME Shape, NEW p \in Procs, Load(p)
  PROVE  Silently(p)
<1>1. proc[p].at = "load" /\ UNCHANGED <<journal, written, lost, used>>
  BY DEF Load, At, disk
<1>2. CASE Raises(p)
  BY <1>1, <1>2, RaisesGoes DEF Silently, Goes, Telling
<1>3. CASE proc' = [proc EXCEPT ![p].seen = Draft(p, state), ![p].at = "write"]
  <2> DEFINE r == [proc[p] EXCEPT !.seen = Draft(p, state), !.at = "write"]
  <2>1. proc' = [proc EXCEPT ![p] = r]
    BY <1>3 DEF Shape
  <2>2. Formed(r) /\ r.at = "write"
    BY <1>1 DEF Shape, Formed
  <2> HIDE DEF r
  <2> QED
    BY <1>1, <2>1, <2>2, Moves DEF Silently, Goes, Telling
<1> QED
  BY <1>2, <1>3 DEF Load

LEMMA OpenTranscribeSilent ==
  ASSUME Shape, NEW p \in Procs, OpenTranscribe(p)
  PROVE  Silently(p)
<1>1. proc[p].at = "open" /\ UNCHANGED <<journal, written, lost, used>>
  BY DEF OpenTranscribe, At, disk
<1>2. CASE Goto(p, "mkdir")
  BY <1>1, <1>2, MovesTo DEF Silently, Goes, Telling
<1>3. CASE \E how \in Outcomes : Leave(p, how)
  BY <1>1, <1>3, Leaves DEF Silently, Goes, Telling
<1>4. CASE proc' = [proc EXCEPT ![p].seen = state, ![p].at = "prepare"]
  <2> DEFINE r == [proc[p] EXCEPT !.seen = state, !.at = "prepare"]
  <2>1. proc' = [proc EXCEPT ![p] = r]
    BY <1>4 DEF Shape
  <2>2. Formed(r) /\ r.at = "prepare"
    BY <1>1 DEF Shape, Formed
  <2> HIDE DEF r
  <2> QED
    BY <1>1, <2>1, <2>2, Moves DEF Silently, Goes, Telling
<1> QED
  BY <1>2, <1>3, <1>4 DEF OpenTranscribe, Outcomes

LEMMA GoingSilent ==
  ASSUME Shape, NEW p \in Procs, Mkdir(p) \/ Acquire(p) \/ Inspect(p) \/ Reclaim(p) \/ Recreate(p)
  PROVE  Silently(p)
<1>1. proc[p].at \in {"mkdir", "lock", "inspect", "reclaim", "recreate"} /\ UNCHANGED <<journal, written, lost, used>>
  BY DEF Mkdir, Acquire, Inspect, Reclaim, Recreate, At, disk, ghosts
<1>2. CASE \E s \in {"init", "stamp", "inspect", "reclaim", "recreate"} : Goto(p, s)
  BY <1>1, <1>2, MovesTo DEF Silently, Goes, Telling
<1>3. CASE \E how \in Outcomes : Leave(p, how)
  BY <1>1, <1>3, Leaves DEF Silently, Goes, Telling
<1> QED
  BY <1>2, <1>3 DEF Mkdir, Acquire, Inspect, Reclaim, Recreate, Outcomes

\* A step to a record that is formed.
LEMMA MovingSilent ==
  ASSUME Shape, NEW p \in Procs, NEW r, Formed(r), proc' = [proc EXCEPT ![p] = r],
         r.at \notin Telling, proc[p].at \notin Telling, UNCHANGED <<journal, written, lost, used>>
  PROVE  Silently(p)
BY Moves DEF Silently, Goes

LEMMA PrepareSilent ==
  ASSUME Shape, NEW p \in Procs, Prepare(p)
  PROVE  Silently(p)
<1>1. proc[p].at = "prepare" /\ UNCHANGED <<journal, written, lost, used>>
  BY DEF Prepare, At, ghosts
<1>2. CASE Goto(p, "lock")
  BY <1>1, <1>2, MovesTo DEF Silently, Goes, Telling
<1>3. CASE proc' = [proc EXCEPT ![p] = Update(p, "items")]
  BY <1>1, <1>3, UpdateFormed, MovingSilent DEF Updates, Telling
<1> QED
  BY <1>2, <1>3 DEF Prepare

LEMMA StampSilent ==
  ASSUME Shape, NEW p \in Procs, Stamp(p)
  PROVE  Silently(p)
<1> DEFINE r == [proc[p] EXCEPT !.held = TRUE, !.at = "decide"]
<1>1. proc[p].at = "stamp" /\ UNCHANGED <<journal, written, lost, used>> /\ proc' = [proc EXCEPT ![p] = r]
  BY DEF Stamp, At, ghosts, Shape
<1>2. Formed(r) /\ r.at = "decide"
  BY <1>1 DEF Shape, Formed
<1> HIDE DEF r
<1> QED
  BY <1>1, <1>2, MovingSilent DEF Telling

LEMMA DecideSilent ==
  ASSUME Shape, NEW p \in Procs, Decide(p)
  PROVE  Silently(p)
<1>1. proc[p].at = "decide" /\ UNCHANGED <<journal, written, lost, used>>
  BY DEF Decide, At, disk, ghosts
<1>2. CASE Goto(p, "unlock")
  BY <1>1, <1>2, MovesTo DEF Silently, Goes, Telling
<1>3. CASE \E n : proc' = [proc EXCEPT ![p] = [Update(p, "start") EXCEPT !.attempt = n]]
  <2> PICK n : proc' = [proc EXCEPT ![p] = [Update(p, "start") EXCEPT !.attempt = n]]
    BY <1>3
  <2>1. Formed([Update(p, "start") EXCEPT !.attempt = n]) /\ [Update(p, "start") EXCEPT !.attempt = n].at = "load"
    BY <1>1, UpdateFormed DEF Updates, Formed
  <2> QED
    BY <1>1, <2>1, MovingSilent DEF Telling
<1> QED
  BY <1>2, <1>3 DEF Decide

LEMMA SendSilent ==
  ASSUME Shape, NEW p \in Procs, Send(p)
  PROVE  Silently(p)
<1>1. proc[p].at = "send" /\ UNCHANGED <<journal, written, lost, used>>
  BY DEF Send, At, disk, ghosts
<1>2. CASE proc' = [proc EXCEPT ![p].content = files["audio"].of, ![p].at = "result"]
  <2> DEFINE r == [proc[p] EXCEPT !.content = files["audio"].of, !.at = "result"]
  <2>1. proc' = [proc EXCEPT ![p] = r]
    BY <1>2 DEF Shape
  <2>2. Formed(r) /\ r.at = "result"
    BY <1>1 DEF Shape, Formed
  <2> HIDE DEF r
  <2> QED
    BY <1>1, <2>1, <2>2, MovingSilent DEF Telling
<1>3. CASE \E b : proc' = [proc EXCEPT ![p] = [Update(p, "fail") EXCEPT !.transient = b]]
  <2> PICK b : proc' = [proc EXCEPT ![p] = [Update(p, "fail") EXCEPT !.transient = b]]
    BY <1>3
  <2>1. Formed([Update(p, "fail") EXCEPT !.transient = b]) /\ [Update(p, "fail") EXCEPT !.transient = b].at = "load"
    BY <1>1, UpdateFormed DEF Updates, Formed
  <2> QED
    BY <1>1, <2>1, MovingSilent DEF Telling
<1> QED
  BY <1>2, <1>3 DEF Send

LEMMA UpdatingSilent ==
  ASSUME Shape, NEW p \in Procs, Result(p) \/ Output(p) \/ OpenRetry(p)
  PROVE  Silently(p)
<1>1. proc[p].at \in {"result", "output", "open"} /\ UNCHANGED <<journal, written, lost, used>>
  BY DEF Result, Output, OpenRetry, At, disk, ghosts
<1>2. CASE Leave(p, "refused")
  BY <1>1, <1>2, Leaves DEF Silently, Goes, Telling
<1>3. CASE \E up \in {"complete", "finish", "retry"} : proc' = [proc EXCEPT ![p] = Update(p, up)]
  BY <1>1, <1>3, UpdateFormed, MovingSilent DEF Updates, Telling
<1> QED
  BY <1>2, <1>3 DEF Result, Output, OpenRetry

LEMMA UnlockSilent ==
  ASSUME Shape, NEW p \in Procs, Unlock(p)
  PROVE  Silently(p)
<1>1. proc[p].at = "unlock" /\ UNCHANGED <<journal, written, lost, used>>
  BY DEF Unlock, At
<1>2. CASE Leave(p, "failed")
  BY <1>1, <1>2, Leaves DEF Silently, Goes, Telling
<1>3. CASE proc' = [proc EXCEPT ![p].held = FALSE, ![p].at = "check"]
  <2> DEFINE r == [proc[p] EXCEPT !.held = FALSE, !.at = "check"]
  <2>1. proc' = [proc EXCEPT ![p] = r]
    BY <1>3 DEF Shape
  <2>2. Formed(r) /\ r.at = "check"
    BY <1>1 DEF Shape, Formed
  <2> HIDE DEF r
  <2> QED
    BY <1>1, <2>1, <2>2, MovingSilent DEF Telling
<1> QED
  BY <1>2, <1>3 DEF Unlock

LEMMA CheckSilent ==
  ASSUME Shape, NEW p \in Procs, Check(p)
  PROVE  Silently(p)
<1>1. proc[p].at = "check" /\ UNCHANGED <<journal, written, lost, used>>
  BY DEF Check, At, disk
<1>2. CASE Leave(p, "failed")
  BY <1>1, <1>2, Leaves DEF Silently, Goes, Telling
<1>3. CASE \E c : proc' = [proc EXCEPT ![p].at = "output", ![p].content = c]
  <2> PICK c : proc' = [proc EXCEPT ![p].at = "output", ![p].content = c]
    BY <1>3
  <2> DEFINE r == [proc[p] EXCEPT !.at = "output", !.content = c]
  <2>1. proc' = [proc EXCEPT ![p] = r]
    BY DEF Shape
  <2>2. Formed(r) /\ r.at = "output"
    BY <1>1 DEF Shape, Formed
  <2> HIDE DEF r
  <2> QED
    BY <1>1, <2>1, <2>2, MovingSilent DEF Telling
<1> QED
  BY <1>2, <1>3 DEF Check

LEMMA OpenRefreshSilent ==
  ASSUME Shape, NEW p \in Procs, OpenRefresh(p)
  PROVE  Silently(p)
<1>1. proc[p].at = "open" /\ UNCHANGED <<journal, written, lost, used>>
  BY DEF OpenRefresh, At, disk
<1>2. CASE \E how \in Outcomes : Leave(p, how)
  BY <1>1, <1>2, Leaves DEF Silently, Goes, Telling
<1>3. CASE \E x, m : proc' = [proc EXCEPT ![p] = [Update(p, "plan") EXCEPT !.plan = x, !.moves = m]]
  <2> PICK x, m : proc' = [proc EXCEPT ![p] = [Update(p, "plan") EXCEPT !.plan = x, !.moves = m]]
    BY <1>3
  <2> DEFINE r == [Update(p, "plan") EXCEPT !.plan = x, !.moves = m]
  <2>1. Formed(r) /\ r.at = "load"
    BY <1>1, UpdateFormed DEF Updates, Formed
  <2> QED
    BY <1>1, <2>1, MovingSilent DEF Telling
<1>4. CASE proc' = [proc EXCEPT ![p].plan = state.plan, ![p].moves = state.plan.moves, ![p].at = "move"]
  <2> DEFINE r == [proc[p] EXCEPT !.plan = state.plan, !.moves = state.plan.moves, !.at = "move"]
  <2>1. proc' = [proc EXCEPT ![p] = r]
    BY <1>4 DEF Shape
  <2>2. Formed(r) /\ r.at = "move"
    BY <1>1 DEF Shape, Formed
  <2> HIDE DEF r
  <2> QED
    BY <1>1, <2>1, <2>2, MovingSilent DEF Telling
<1> QED
  BY <1>2, <1>3, <1>4, ZenonT(60) DEF OpenRefresh, Outcomes

LEMMA MoveSilent ==
  ASSUME Shape, NEW p \in Procs, Move(p)
  PROVE  Silently(p)
<1>1. proc[p].at = "move" /\ UNCHANGED <<journal, written, lost, used>>
  BY DEF Move, At, ghosts
<1>2. CASE proc' = [proc EXCEPT ![p] = Update(p, "refreshed")]
  BY <1>1, <1>2, UpdateFormed, MovingSilent DEF Updates, Telling
<1>3. CASE \E n \in proc[p].moves : proc' = [proc EXCEPT ![p].moves = @ \ {n}]
  <2> PICK n \in proc[p].moves : proc' = [proc EXCEPT ![p].moves = @ \ {n}]
    BY <1>3
  <2> DEFINE r == [proc[p] EXCEPT !.moves = @ \ {n}]
  <2>1. proc' = [proc EXCEPT ![p] = r]
    BY DEF Shape
  <2>2. Formed(r) /\ r.at = "move"
    BY <1>1 DEF Shape, Formed
  <2> HIDE DEF r
  <2> QED
    BY <1>1, <2>1, <2>2, MovingSilent DEF Telling
<1> QED
  BY <1>2, <1>3 DEF Move

Lost == Cardinality(Unrecorded)

\* No kill has fallen on it.
Unhurt(j) == j.tail = "none" /\ ~j.broken /\ j.copy = 0

\* What the invocations have read of the journal that is to be replaced, and which
\* file they append to.
Readings ==
  \A q \in Procs :
    /\ proc[q].at = "replace" =>
         /\ proc[q].read \in Journals /\ Readable(proc[q].read) /\ proc[q].read.tail = "none"
         /\ proc[q].read.lines <= proc[q].read.rows /\ proc[q].read.rows + Lost <= written
         /\ used.crash > 0
    /\ proc[q].at = "append" /\ used.crash = 0 => proc[q].read.copy = 0

\* What the journal and the number of writes have to do with each other.
Accounted ==
  /\ IsFiniteSet(Unrecorded)
  /\ journal \in Journals /\ written \in Nat /\ lost \in Int
  /\ used \in [run : Nat, crash : Nat, edit : Nat]
  /\ journal.tail = "bare" => journal.rows > 0
  /\ Readable(journal) => journal.lines + (IF journal.tail = "bare" THEN 1 ELSE 0) <= journal.rows
  /\ journal.rows + Lost <= written
  /\ written <= journal.lines + lost + used.crash + Lost
  /\ used.crash = 0 => Unhurt(journal) /\ lost = 0

JInv == Shape /\ Accounted /\ Readings

\* What has been read stays good while p does something else.
LEMMA ReadingsStay ==
  ASSUME Readings, Accounted, NEW p \in Procs, \A q \in Procs \ {p} : proc'[q] = proc[q],
         Lost' \in Int, written' \in Int, Lost' - Lost <= written' - written,
         used'.crash \in Nat, used'.crash >= used.crash,
         proc'[p].at \notin {"replace", "append"} \/ proc'[p] = proc[p]
  PROVE  Readings'
<1> SUFFICES ASSUME NEW q \in Procs,
                    proc'[q].at \in {"replace", "append"}
             PROVE  /\ proc'[q].at = "replace" =>
                         /\ proc'[q].read \in Journals /\ Readable(proc'[q].read) /\ proc'[q].read.tail = "none"
                         /\ proc'[q].read.lines <= proc'[q].read.rows /\ proc'[q].read.rows + Lost' <= written'
                         /\ used'.crash > 0
                    /\ proc'[q].at = "append" /\ used'.crash = 0 => proc'[q].read.copy = 0
  BY DEF Readings, Readable
<1>1. proc'[q] = proc[q]
  OBVIOUS
<1>2. Lost \in Nat /\ written \in Nat /\ used.crash \in Nat
  BY FS_CardinalityType DEF Accounted, Lost
<1>3. CASE proc[q].at = "replace"
  <2>1. /\ proc[q].read \in Journals /\ Readable(proc[q].read) /\ proc[q].read.tail = "none"
        /\ proc[q].read.lines <= proc[q].read.rows /\ proc[q].read.rows + Lost <= written
        /\ used.crash > 0
    BY <1>3 DEF Readings
  <2>2. proc[q].read.rows \in Nat
    BY <2>1 DEF Journals
  <2>3. proc[q].read.rows + Lost' <= written' /\ used'.crash > 0
    BY <1>2, <2>1, <2>2
  <2> QED
    BY <1>1, <1>3, <2>1, <2>3
<1>4. CASE proc[q].at = "append"
  BY <1>1, <1>2, <1>4 DEF Readings
<1> QED
  BY <1>1, <1>3, <1>4

LEMMA LostSame ==
  ASSUME NEW p \in Procs, \A q \in Procs \ {p} : proc'[q] = proc[q],
         proc[p].at \in Telling <=> proc'[p].at \in Telling
  PROVE  Unrecorded' = Unrecorded
BY DEF Unrecorded, Active, Telling

LEMMA LostMore ==
  ASSUME NEW p \in Procs, \A q \in Procs \ {p} : proc'[q] = proc[q],
         proc[p].at \notin Telling, proc'[p].at \in Telling, IsFiniteSet(Unrecorded)
  PROVE  IsFiniteSet(Unrecorded)' /\ Lost' = Lost + 1 /\ Lost \in Nat
<1>1. Unrecorded' = Unrecorded \cup {p} /\ p \notin Unrecorded
  BY DEF Unrecorded, Active, Telling
<1> QED
  BY <1>1, FS_AddElement, FS_CardinalityType DEF Lost

LEMMA LostLess ==
  ASSUME NEW p \in Procs, \A q \in Procs \ {p} : proc'[q] = proc[q],
         proc[p].at \in Telling, proc'[p].at \notin Telling, IsFiniteSet(Unrecorded)
  PROVE  IsFiniteSet(Unrecorded)' /\ Lost' = Lost - 1 /\ Lost \in Nat \ {0}
<1>1. Unrecorded' = Unrecorded \ {p} /\ p \in Unrecorded
  BY DEF Unrecorded, Active, Telling
<1>2. IsFiniteSet(Unrecorded)' /\ Lost' = Lost - 1 /\ Lost \in Nat /\ Lost' \in Nat
  BY <1>1, FS_RemoveElement, FS_CardinalityType DEF Lost
<1> QED
  BY <1>2

LEMMA SilentAccounted ==
  ASSUME JInv, NEW p \in Procs, Silently(p)
  PROVE  JInv'
<1>1. Unrecorded' = Unrecorded
  BY LostSame DEF Silently
<1>2. Accounted' /\ Lost' = Lost /\ Lost \in Nat /\ written' = written /\ written \in Nat
  BY <1>1, FS_CardinalityType DEF JInv, Accounted, Lost, Silently, Readable, Unhurt
<1>3. used'.crash = used.crash /\ used.crash \in Nat
  BY DEF Silently, JInv, Accounted
<1>4. Readings'
  BY <1>2, <1>3, ReadingsStay DEF JInv, Silently, Telling
<1> QED
  BY <1>2, <1>4 DEF JInv, Silently

LEMMA WriteAccounted ==
  ASSUME JInv, NEW p \in Procs, Write(p) \/ Initialize(p)
  PROVE  JInv'
<1> USE DEF JInv
<1>1. proc[p].at \in {"write", "init"} /\ written' = written + 1 /\ UNCHANGED <<journal, lost, used>>
  BY DEF Write, Initialize, At
<1>2. Shape' /\ Goes(p, {"repair"})
  <2>1. CASE Write(p)
    BY <2>1, <1>1, MovesTo DEF Write, At, Shape, Formed
  <2>2. CASE Initialize(p)
    <3> DEFINE r == [proc[p] EXCEPT !.seen = FirstState, !.up = "init", !.at = "repair"]
    <3>1. proc' = [proc EXCEPT ![p] = r]
      BY <2>2 DEF Initialize, Shape
    <3>2. Formed(r) /\ r.at = "repair"
      BY <1>1 DEF Shape, Formed, Updates
    <3> HIDE DEF r
    <3> QED
      BY <3>1, <3>2, Moves
  <2> QED
    BY <2>1, <2>2
<1>3. IsFiniteSet(Unrecorded)' /\ Lost' = Lost + 1 /\ Lost \in Nat
  BY <1>1, <1>2, LostMore DEF Goes, Telling, Accounted
<1>4. Accounted'
  BY <1>1, <1>3 DEF Accounted, Readable, Journals, Unhurt
<1>5. Readings'
  <2>1. written \in Nat /\ used.crash \in Nat
    BY DEF Accounted
  <2> QED
    BY <1>1, <1>2, <1>3, <2>1, ReadingsStay DEF Goes
<1> QED
  BY <1>2, <1>4, <1>5

LEMMA RepairAccounted ==
  ASSUME JInv, NEW p \in Procs, Repair(p)
  PROVE  JInv'
<1> USE DEF JInv
<1>1. proc[p].at = "repair" /\ UNCHANGED <<journal, written, used>>
  BY DEF Repair, At, disk
<1>2. Lost \in Nat /\ written \in Nat /\ used.crash \in Nat /\ journal \in Journals
  BY FS_CardinalityType DEF Accounted, Lost
<1>3. CASE Readable(journal)
  <2> DEFINE s == IF journal.tail = "torn" THEN "replace" ELSE "append"
             r == [proc[p] EXCEPT !.read = Repaired(journal), !.at = s]
  <2>1. proc' = [proc EXCEPT ![p] = r] /\ lost' = lost
    BY <1>3 DEF Repair, Shape
  <2>2. Formed(r) /\ r.at = s /\ s \in {"replace", "append"}
    BY <1>1 DEF Shape, Formed
  <2>4. r.read = Repaired(journal)
    BY <2>1, <1>1 DEF Shape, Formed, Repair
  <2> HIDE DEF r
  <2>3. Shape' /\ Goes(p, {s}) /\ proc'[p] = r
    BY <2>1, <2>2, Moves DEF Shape
  <2>5. Unrecorded' = Unrecorded
    BY <1>1, <2>2, <2>3, LostSame DEF Goes, Telling
  <2>6. Accounted' /\ Lost' = Lost
    BY <1>1, <2>1, <2>5 DEF Accounted, Lost, Readable, Unhurt
  <2>7. /\ Repaired(journal) \in Journals /\ Readable(Repaired(journal))
        /\ Repaired(journal).rows = journal.rows /\ Repaired(journal).lines = journal.lines
        /\ Repaired(journal).copy = journal.copy
        /\ journal.tail = "torn" => Repaired(journal).tail = "none"
    BY <1>2, <1>3 DEF Repaired, Journals, Readable
  <2>8. ASSUME NEW q \in Procs \ {p} PROVE proc'[q] = proc[q]
    BY <2>3 DEF Goes
  <2>9. s = "replace" => /\ journal.tail = "torn" /\ used.crash > 0 /\ journal.lines <= journal.rows
                         /\ journal.rows + Lost <= written
    BY <1>2, <1>3 DEF Accounted, Unhurt, Journals
  <2>10. s = "append" /\ used.crash = 0 => journal.copy = 0
    BY DEF Accounted, Unhurt
  <2> HIDE DEF s
  <2>11. Readings'
    BY <1>1, <2>2, <2>3, <2>4, <2>6, <2>7, <2>8, <2>9, <2>10 DEF Readings, Readable
  <2> QED
    BY <2>3, <2>6, <2>11
<1>4. CASE ~Readable(journal)
  <2>1. Raises(p) /\ lost' = lost + 1
    BY <1>4 DEF Repair
  <2>2. Shape' /\ Goes(p, {"load", "unlock", "off"})
    BY <1>1, <2>1, RaisesGoes
  <2>3. IsFiniteSet(Unrecorded)' /\ Lost' = Lost - 1 /\ Lost \in Nat \ {0}
    BY <1>1, <2>2, LostLess DEF Goes, Telling, Accounted
  <2>4. Accounted'
    BY <1>1, <1>4, <2>1, <2>3 DEF Accounted, Readable, Journals, Unhurt
  <2>5. Readings'
    BY <1>1, <1>2, <2>2, <2>3, ReadingsStay DEF Goes
  <2> QED
    BY <2>2, <2>4, <2>5
<1> QED
  BY <1>3, <1>4

LEMMA ReplaceAccounted ==
  ASSUME JInv, NEW p \in Procs, Replace(p)
  PROVE  JInv'
<1> USE DEF JInv
<1> DEFINE new == Instead(journal, proc[p].read)
           r == [proc[p] EXCEPT !.read = new, !.at = "append"]
<1>1. /\ proc[p].at = "replace" /\ UNCHANGED <<written, used>> /\ journal' = new
      /\ lost' = lost + journal.lines - proc[p].read.lines /\ proc' = [proc EXCEPT ![p] = r]
  BY DEF Replace, At, Shape
<1>2. Lost \in Nat /\ written \in Nat /\ used.crash \in Nat /\ journal \in Journals /\ lost \in Int
  BY FS_CardinalityType DEF Accounted, Lost
<1>3. /\ proc[p].read \in Journals /\ ~proc[p].read.broken /\ proc[p].read.tail = "none"
      /\ proc[p].read.lines <= proc[p].read.rows /\ proc[p].read.rows + Lost <= written /\ used.crash > 0
  BY <1>1 DEF Readings, Readable
<1>4. /\ new \in Journals /\ ~new.broken /\ new.tail = "none"
      /\ new.lines = proc[p].read.lines /\ new.rows = proc[p].read.rows
  BY <1>2, <1>3 DEF Instead, Journals
<1>5. Formed(r) /\ r.at = "append"
  BY <1>1 DEF Shape, Formed
<1>6. Shape' /\ Goes(p, {"append"})
  BY <1>1, <1>5, Moves
<1> HIDE DEF new, r
<1>7. Unrecorded' = Unrecorded
  BY <1>1, <1>6, LostSame DEF Goes, Telling
<1>8. Lost' = Lost
  BY <1>7 DEF Lost
<1>9. proc[p].read.lines \in Nat /\ journal.lines \in Nat /\ proc[p].read.rows \in Nat
  BY <1>2, <1>3 DEF Journals
<1>10. written' <= journal'.lines + lost' + used'.crash + Lost' /\ lost' \in Int
  BY <1>1, <1>2, <1>4, <1>8, <1>9 DEF Accounted
<1>11. Accounted'
  <2>1. IsFiniteSet(Unrecorded)' /\ written' \in Nat /\ used' \in [run : Nat, crash : Nat, edit : Nat]
    BY <1>1, <1>7 DEF Accounted
  <2>2. journal' \in Journals /\ journal'.rows + Lost' <= written' /\ journal'.lines <= journal'.rows
    BY <1>1, <1>3, <1>4, <1>8
  <2>3. journal'.tail = "none" /\ used'.crash # 0
    BY <1>1, <1>2, <1>3, <1>4
  <2> QED
    BY <1>9, <1>10, <1>4, <1>1, <2>1, <2>2, <2>3 DEF Accounted
<1>12. Readings'
  BY <1>1, <1>2, <1>3, <1>6, <1>8 DEF Readings, Goes, Readable
<1> QED
  BY <1>6, <1>11, <1>12

\* What an append makes of the journal.
LEMMA RecordedJournal ==
  ASSUME NEW j \in Journals
  PROVE  /\ Recorded(j) \in Journals /\ Recorded(j).tail = "none" /\ Recorded(j).lines = j.lines + 1
         /\ Recorded(j).copy = j.copy /\ Recorded(j).rows <= j.rows + 1
         /\ Readable(Recorded(j)) => Readable(j) /\ j.tail = "none"
         /\ j.tail = "none" => Recorded(j).rows = j.rows + 1 /\ Recorded(j).broken = j.broken
<1>1. /\ j.rows \in Nat /\ j.lines \in Nat /\ j.copy \in Nat /\ j.broken \in BOOLEAN
      /\ j.tail \in {"none", "torn", "bare"}
      /\ j = [rows |-> j.rows, tail |-> j.tail, broken |-> j.broken, lines |-> j.lines, copy |-> j.copy]
  BY DEF Journals
<1>2. CASE j.tail = "none"
  <2>1. Recorded(j) = [rows |-> j.rows + 1, tail |-> "none", broken |-> j.broken, lines |-> j.lines + 1, copy |-> j.copy]
    BY <1>1, <1>2 DEF Recorded
  <2> QED
    BY <1>1, <1>2, <2>1 DEF Journals, Readable
<1>3. CASE j.tail # "none"
  <2>1. Recorded(j) = [rows |-> j.rows, tail |-> "none", broken |-> TRUE, lines |-> j.lines + 1, copy |-> j.copy]
    BY <1>1, <1>3 DEF Recorded
  <2>2. Recorded(j) \in Journals
    BY <1>1, <2>1 DEF Journals
  <2>3. /\ Recorded(j).rows = j.rows /\ Recorded(j).tail = "none" /\ Recorded(j).broken
        /\ Recorded(j).lines = j.lines + 1 /\ Recorded(j).copy = j.copy
    BY <2>1
  <2>4. Recorded(j).rows <= j.rows + 1
    BY <1>1, <2>3
  <2> QED
    BY <1>3, <2>2, <2>3, <2>4 DEF Readable
<1> QED
  BY <1>2, <1>3

LEMMA RecordAccounted ==
  ASSUME JInv, NEW p \in Procs, Record(p)
  PROVE  JInv'
<1> USE DEF JInv
<1>1. proc[p].at = "append" /\ UNCHANGED <<written, used>>
  BY DEF Record, At
<1>2. Shape' /\ proc'[p].at \notin Telling /\ \A q \in Procs \ {p} : proc'[q] = proc[q]
  <2>1. CASE Leave(p, "done")
    BY <2>1, Leaves DEF Goes, Telling
  <2>2. CASE /\ proc' = [proc EXCEPT ![p].read = NewJournal, ![p].at = GoesTo(p)]
             /\ proc[p].up \notin {"finish", "retry", "refreshed"}
    <3> DEFINE s == GoesTo(p)
               r == [proc[p] EXCEPT !.read = NewJournal, !.at = s]
    <3>1. s \in {"prepare", "lock", "send", "unlock", "decide", "move"}
      BY <1>1, <2>2 DEF GoesTo, Shape, Formed, Updates
    <3> HIDE DEF s
    <3>2. proc' = [proc EXCEPT ![p] = r]
      BY <2>2 DEF Shape, s
    <3>3. Formed(r) /\ r.at = s
      BY <1>1, <3>1 DEF Shape, Formed
    <3> HIDE DEF r
    <3> QED
      BY <3>1, <3>2, <3>3, Moves DEF Goes, Telling
  <2> QED
    BY <2>1, <2>2 DEF Record
<1>3. IsFiniteSet(Unrecorded)' /\ Lost' = Lost - 1 /\ Lost \in Nat \ {0}
  BY <1>1, <1>2, LostLess DEF Telling, Accounted
<1>4. written \in Nat /\ used.crash \in Nat /\ journal \in Journals /\ lost \in Int
  BY DEF Accounted
<1>5. Readings'
  BY <1>1, <1>2, <1>3, <1>4, ReadingsStay DEF Telling
<1>6. CASE journal' = Recorded(journal) /\ lost' = lost
  <2>1. /\ journal' \in Journals /\ journal'.tail = "none" /\ journal'.lines = journal.lines + 1
        /\ journal'.copy = journal.copy /\ journal'.rows <= journal.rows + 1
        /\ Readable(journal') => Readable(journal) /\ journal.tail = "none"
        /\ journal.tail = "none" => journal'.rows = journal.rows + 1 /\ journal'.broken = journal.broken
    BY <1>4, <1>6, RecordedJournal
  <2>2. /\ journal.rows \in Nat /\ journal.lines \in Nat /\ journal'.rows \in Nat /\ journal'.lines \in Nat
    BY <1>4, <2>1 DEF Journals
  <2>3. journal'.rows + Lost' <= written' /\ written' <= journal'.lines + lost' + used'.crash + Lost'
    BY <1>1, <1>3, <1>4, <1>6, <2>1, <2>2 DEF Accounted
  <2>4. Readable(journal)' => journal'.lines <= journal'.rows
    BY <2>1, <2>2 DEF Accounted, Readable
  <2>5. used'.crash = 0 => Unhurt(journal)' /\ lost' = 0
    BY <1>1, <1>6, <2>1 DEF Accounted, Unhurt
  <2>6. Accounted'
    BY <1>1, <1>3, <1>4, <1>6, <2>1, <2>2, <2>3, <2>4, <2>5 DEF Accounted
  <2> QED
    BY <1>2, <1>5, <2>6
<1>7. CASE journal.copy # proc[p].read.copy /\ lost' = lost + 1 /\ journal' = journal
  <2>1. used.crash # 0
    BY <1>1, <1>7 DEF Accounted, Unhurt, Readings
  <2>2. journal.rows \in Nat /\ journal.lines \in Nat
    BY <1>4 DEF Journals
  <2>3. Accounted'
    BY <1>1, <1>3, <1>4, <1>7, <2>1, <2>2 DEF Accounted, Readable
  <2> QED
    BY <1>2, <1>5, <2>3
<1> QED
  BY <1>6, <1>7 DEF Record

\* What a kill may leave of the journal.
LEMMA CutJournal ==
  ASSUME journal \in Journals, journal.tail = "bare" => journal.rows > 0, NEW how \in Torn
  PROVE  /\ Cut(journal, how) \in Journals
         /\ Cut(journal, how).broken = journal.broken /\ Cut(journal, how).lines = journal.lines
         /\ \/ Cut(journal, how).tail = "bare" /\ Cut(journal, how).rows = journal.rows + 1 /\ journal.tail = "none"
            \/ Cut(journal, how).tail = "torn" /\ Cut(journal, how).rows = journal.rows - 1 /\ journal.tail = "bare"
            \/ Cut(journal, how).tail = "torn" /\ Cut(journal, how).rows = journal.rows /\ journal.tail # "bare"
<1>1. /\ journal.rows \in Nat /\ journal.lines \in Nat /\ journal.copy \in Nat /\ journal.broken \in BOOLEAN
      /\ journal = [rows |-> journal.rows, tail |-> journal.tail, broken |-> journal.broken,
                    lines |-> journal.lines, copy |-> journal.copy]
  BY DEF Journals
<1> DEFINE with(rows, tail) == [rows |-> rows, tail |-> tail, broken |-> journal.broken,
                                lines |-> journal.lines, copy |-> journal.copy]
<1>2. CASE how = "bare" /\ journal.tail = "none"
  <2>1. Cut(journal, how) = [journal EXCEPT !.rows = journal.rows + 1, !.tail = "bare"]
    BY <1>2 DEF Cut
  <2>2. Cut(journal, how) = with(journal.rows + 1, "bare")
    BY <1>1, <2>1, Zenon
  <2>3. journal.rows + 1 \in Nat
    BY <1>1, <1>2
  <2> QED
    BY <1>1, <1>2, <2>2, <2>3 DEF Journals
<1>3. CASE ~(how = "bare" /\ journal.tail = "none") /\ journal.tail = "bare"
  <2>1. Cut(journal, how) = [journal EXCEPT !.rows = journal.rows - 1, !.tail = "torn"]
    BY <1>3 DEF Cut
  <2>2. Cut(journal, how) = with(journal.rows - 1, "torn")
    BY <1>1, <2>1, Zenon
  <2>3. journal.rows - 1 \in Nat
    BY <1>1, <1>3
  <2> QED
    BY <1>1, <1>3, <2>2, <2>3 DEF Journals
<1>4. CASE ~(how = "bare" /\ journal.tail = "none") /\ journal.tail # "bare"
  <2>1. Cut(journal, how) = [journal EXCEPT !.rows = journal.rows, !.tail = "torn"]
    BY <1>4 DEF Cut
  <2>2. Cut(journal, how) = with(journal.rows, "torn")
    BY <1>1, <2>1, Zenon
  <2>3. journal.rows \in Nat
    BY <1>1, <1>4
  <2> QED
    BY <1>1, <1>4, <2>2, <2>3 DEF Journals
<1> QED
  BY <1>2, <1>3, <1>4

LEMMA CrashAccounted ==
  ASSUME JInv, NEW p \in Procs, Crash(p)
  PROVE  JInv'
<1> USE DEF JInv
<1>1. /\ proc[p].at # "off" /\ written' = written /\ lost' = lost
      /\ used' = [used EXCEPT !.crash = @ + 1]
      /\ Leave(p, "killed")
  BY DEF Crash, Active, Spend
<1>2. Shape' /\ Goes(p, {"off"})
  BY <1>1, Leaves
<1>3. /\ used' \in [run : Nat, crash : Nat, edit : Nat] /\ used'.crash = used.crash + 1
      /\ Lost \in Nat /\ written \in Nat /\ used.crash \in Nat /\ journal \in Journals /\ lost \in Int
  BY <1>1, FS_CardinalityType DEF Accounted, Lost
<1>4. CASE proc[p].at \notin Telling
  <2>1. journal' = journal
    BY <1>4 DEF Crash, At, Telling
  <2>2. Unrecorded' = Unrecorded
    BY <1>2, <1>4, LostSame DEF Goes, Telling
  <2>3. Lost' = Lost
    BY <2>2 DEF Lost
  <2>4. Accounted'
    BY <1>1, <1>3, <2>1, <2>2, <2>3 DEF Accounted, Journals, Readable
  <2>5. Readings'
    BY <1>1, <1>2, <1>3, <2>3, ReadingsStay DEF Goes
  <2> QED
    BY <1>2, <2>4, <2>5
<1>5. CASE proc[p].at \in Telling
  <2>1. IsFiniteSet(Unrecorded)' /\ Lost' = Lost - 1 /\ Lost \in Nat \ {0}
    BY <1>2, <1>5, LostLess DEF Goes, Telling, Accounted
  <2>2. Readings'
    BY <1>1, <1>2, <1>3, <2>1, ReadingsStay DEF Goes
  <2>3. CASE journal' = journal
    BY <1>1, <1>2, <1>3, <2>1, <2>2, <2>3 DEF Accounted, Journals, Readable
  <2>4. CASE \E how \in Torn : journal' = Cut(journal, how)
    <3>1. /\ journal' \in Journals /\ journal'.broken = journal.broken /\ journal'.lines = journal.lines
          /\ \/ journal'.tail = "bare" /\ journal'.rows = journal.rows + 1 /\ journal.tail = "none"
             \/ journal'.tail = "torn" /\ journal'.rows = journal.rows - 1 /\ journal.tail = "bare"
             \/ journal'.tail = "torn" /\ journal'.rows = journal.rows /\ journal.tail # "bare"
      BY <2>4, CutJournal DEF Accounted
    <3>2. journal.rows \in Nat /\ journal.lines \in Nat
      BY <1>3 DEF Journals
    <3>3. Accounted'
      BY <1>1, <1>3, <2>1, <3>1, <3>2 DEF Accounted, Readable
    <3> QED
      BY <1>2, <2>2, <3>3
  <2> QED
    BY <2>3, <2>4 DEF Crash
<1> QED
  BY <1>4, <1>5

LEMMA StartAccounted ==
  ASSUME JInv, NEW p \in Procs, Start(p)
  PROVE  JInv'
<1> USE DEF JInv
<1>1. PICK cmd \in Commands : proc' = [proc EXCEPT ![p] =
                  [at |-> "open", cmd |-> cmd, seen |-> NoState, up |-> "none", attempt |-> 0,
                   transient |-> FALSE, failing |-> FALSE, held |-> FALSE, content |-> 0,
                   plan |-> NoPlan, moves |-> {}, read |-> NewJournal]]
  BY DEF Start
<1>2. proc[p].at = "off" /\ UNCHANGED <<journal, written, lost>> /\ used' = [used EXCEPT !.run = @ + 1]
  BY DEF Start, Spend, At, disk, ghosts
<1>3. Shape' /\ Goes(p, {"open"})
  <2> DEFINE r == [at |-> "open", cmd |-> cmd, seen |-> NoState, up |-> "none", attempt |-> 0,
                   transient |-> FALSE, failing |-> FALSE, held |-> FALSE, content |-> 0,
                   plan |-> NoPlan, moves |-> {}, read |-> NewJournal]
  <2>1. Formed(r) /\ r.at = "open"
    BY DEF Formed
  <2>2. proc' = [proc EXCEPT ![p] = r]
    BY <1>1
  <2> HIDE DEF r
  <2> QED
    BY <2>1, <2>2, Moves
<1>4. Unrecorded' = Unrecorded
  BY <1>2, <1>3, LostSame DEF Goes, Telling
<1>5. used' \in [run : Nat, crash : Nat, edit : Nat] /\ used'.crash = used.crash /\ used.crash \in Nat
  BY <1>2 DEF Accounted
<1>6. Accounted' /\ Lost' = Lost /\ Lost \in Nat /\ written \in Nat
  BY <1>2, <1>4, <1>5, FS_CardinalityType DEF Accounted, Lost, Readable, Unhurt
<1>7. Readings'
  BY <1>2, <1>3, <1>5, <1>6, ReadingsStay DEF Goes
<1> QED
  BY <1>3, <1>6, <1>7

LEMMA StillAccounted ==
  ASSUME JInv, Edit \/ UNCHANGED vars
  PROVE  JInv'
<1> USE DEF JInv
<1>1. UNCHANGED <<journal, written, lost, proc>>
  BY DEF Edit, vars, disk, ghosts
<1>2. Unrecorded' = Unrecorded /\ Shape'
  BY <1>1 DEF Unrecorded, Active, Shape
<1>3. used' \in [run : Nat, crash : Nat, edit : Nat] /\ used'.crash = used.crash
  BY DEF Accounted, Edit, Spend, vars
<1> QED
  BY <1>1, <1>2, <1>3 DEF Accounted, Lost, Readable, Unhurt, Readings

LEMMA InitAccounted == Init => JInv
<1> SUFFICES ASSUME Init PROVE JInv
  OBVIOUS
<1>1. Shape
  BY DEF Init, Shape, Formed, Off
<1>2. Unrecorded = {}
  BY DEF Init, Unrecorded, Active, Off
<1>3. IsFiniteSet(Unrecorded) /\ Lost = 0
  BY <1>2, FS_EmptySet DEF Lost
<1>4. Readings
  BY DEF Init, Readings, Off
<1> QED
  BY <1>1, <1>3, <1>4 DEF JInv, Accounted, Init, NewJournal, Journals, Readable, Unhurt

LEMMA NextAccounted ==
  ASSUME JInv, [Next]_vars
  PROVE  JInv'
BY SilentAccounted, WriteAccounted, RepairAccounted, ReplaceAccounted, RecordAccounted, CrashAccounted,
   StartAccounted, StillAccounted, LoadSilent, OpenTranscribeSilent, GoingSilent, PrepareSilent,
   StampSilent, DecideSilent, SendSilent, UpdatingSilent, UnlockSilent, CheckSilent,
   OpenRefreshSilent, MoveSilent
   DEF Next, Step, JInv

\* For any number of invocations over one directory, beside or after each other
\* and killed anywhere (run_state.py:57-157): as long as the journal can be read,
\* every write of the state is in it but for those a kill fell on, those whose
\* invocation found it unreadable, and those that went with a file replaced by what
\* had been read of it before.  None of these are without a kill, and the journal
\* tells of no write that was not made.
THEOREM JournalKept == Spec => []JournalAccounted
<1>1. JInv /\ [Next]_vars => JInv'
  BY NextAccounted
<1>2. JInv => JournalAccounted
  <2>1. {p \in Active : proc[p].at \in {"repair", "replace", "append"}} = Unrecorded
    BY DEF Unrecorded, Telling
  <2> SUFFICES ASSUME JInv PROVE JournalAccounted
    OBVIOUS
  <2>2. Lost \in Nat
    BY FS_CardinalityType DEF JInv, Accounted, Lost
  <2>3. /\ journal \in Journals /\ written \in Nat /\ used.crash \in Nat /\ lost \in Int
        /\ journal.rows + Lost <= written
        /\ Readable(journal) => journal.lines <= journal.rows
        /\ written <= journal.lines + lost + used.crash + Lost
        /\ used.crash = 0 => lost = 0
    BY DEF JInv, Accounted, Journals
  <2>4. journal.rows \in Nat /\ journal.lines \in Nat
    BY <2>3 DEF Journals
  <2>5. /\ lost > 0 => used.crash > 0
        /\ Readable(journal) => journal.rows <= written /\ written <= journal.rows + lost + used.crash + Lost
    BY <2>2, <2>3, <2>4
  <2> QED
    BY <2>1, <2>5 DEF JournalAccounted, Lost
<1> QED
  BY <1>1, <1>2, InitAccounted, PTL DEF Spec

------------------------------------------------------------------------------
(* The invariant *)

Updating == {"load", "write", "repair", "replace", "append"}
Steps == Updating \cup {"off", "open", "mkdir", "init", "prepare", "lock", "inspect", "reclaim", "recreate",
                        "stamp", "decide", "send", "result", "unlock", "check", "output", "move"}

Marks == 0..(MaxEdits + 1)
Stored == [on : {TRUE}, of : Marks, sha : Marks]
Items == [status : {"pending", "in_progress", "completed", "failed"}, attempts : Nat,
          transient : BOOLEAN, sha : Marks]
Plans == [revision : Nat \ {0}, target : Versions, moves : SUBSET NameSet]
Entries == [input : Versions, revision : Nat]
States == [status : {"running", "complete"}, input : Versions, item : {NoItem} \cup Items,
           plan : {NoPlan} \cup Plans, history : Seq(Entries)]
Invocations == [at : Steps \ {"off"}, cmd : Commands, seen : {NoState} \cup States,
                up : Updates \cup {"none"}, attempt : Nat, transient : BOOLEAN, failing : BOOLEAN,
                held : BOOLEAN, content : Marks, plan : {NoPlan} \cup Plans, moves : SUBSET NameSet,
                read : Journals]

Types ==
  /\ media \in Versions /\ dir \in BOOLEAN
  /\ state \in {NoState} \cup States
  /\ files \in [NameSet -> {NoFile} \cup Stored]
  /\ revisions \in [1..MaxRuns -> [NameSet -> {NoFile} \cup Stored]]
  /\ proc \in [Procs -> {Off} \cup Invocations]
  /\ finished \subseteq Versions
  /\ used \in [run : 0..MaxRuns, crash : Nat, edit : 0..MaxEdits] /\ media = used.edit + 1

\* Two invocations at a time are both of transcribe.
Beside ==
  \A p, q \in Active : p = q \/ (proc[p].cmd = "transcribe" /\ proc[q].cmd = "transcribe")

Made == File(state.input, state.input)
Old(file) == file \in {NoFile, Folder, Made}

\* What the files and the state have to do with each other at any time.
Inputs ==
  IF state = NoState
  THEN /\ finished = {} /\ \A n \in NameSet : files[n] = NoFile
       /\ \A r \in 1..MaxRuns, n \in NameSet : revisions[r][n] = NoFile
  ELSE /\ dir /\ state.input <= media
       /\ files["audio"] \in {NoFile, Made} /\ files["transcript"] \in {NoFile, Made}
       /\ files["chunk_results"] \in {NoFile, Folder, Made}
       /\ state.item # NoItem => state.item.sha = state.input
       /\ Completed /\ state.plan = NoPlan => files["chunk_results"] = Made
       /\ state.status = "complete" => files["transcript"] = Made

Pending ==
  state # NoState /\ state.plan # NoPlan =>
    /\ state.status = "running" /\ state.input < state.plan.target /\ state.plan.target <= media
    /\ state.plan.revision = Len(state.history) + 1
    /\ \A n \in NameSet : files[n].on =>
         n \in state.plan.moves /\ \A r \in 1..MaxRuns : r = state.plan.revision => revisions[r][n] = NoFile

Past ==
  state # NoState =>
    /\ Len(state.history) <= used.run
    /\ \A i \in 1..Len(state.history) : state.history[i].revision = i
    /\ \A r \in 1..MaxRuns, n \in NameSet :
         LET file == revisions[r][n]
         IN  \/ r <= Len(state.history) /\ file \in {NoFile, Folder, File(state.history[r].input, state.history[r].input)}
             \/ r = Len(state.history) + 1 /\ state.plan # NoPlan /\ Old(file)
             \/ file = NoFile

Done ==
  \A v \in finished :
    \/ files["transcript"].on /\ files["transcript"].of = v
    \/ \E r \in 1..MaxRuns : revisions[r]["transcript"].on /\ revisions[r]["transcript"].of = v

At1(p, steps, ups) == proc[p].at \in steps /\ proc[p].up \in ups

\* A transcribe that has not made sure yet that there is an item.
Unprepared(p) ==
  \/ proc[p].at = "prepare" \/ (proc[p].at \in Updating /\ proc[p].up = "init")
  \/ At1(p, {"load", "write"}, {"items"})

\* State s may be written by a transcribe, whatever others have written meanwhile.
Drafted(s) ==
  /\ s # NoState /\ s.input = state.input /\ s.plan = NoPlan /\ s.history = state.history
  /\ s.item # NoItem /\ s.item.sha = state.input
  /\ s.item.status = "completed" => files["chunk_results"] = Made
  /\ s.status = "complete" => files["transcript"] = Made

\* State s was read by a transcribe: an item that was there is still there.
Remembered(s) ==
  s # NoState /\ (s.item # NoItem => s.item.sha = state.input /\ state.item # NoItem)

\* An invocation of transcribe past its opening.
Transcribing(p) ==
  proc[p].cmd = "transcribe" /\ proc[p].at \notin {"open", "mkdir", "init"} =>
    /\ state # NoState /\ state.input = media /\ state.plan = NoPlan
    /\ IF proc[p].at = "write" THEN Drafted(proc[p].seen) ELSE Remembered(proc[p].seen)
    /\ proc[p].at # "move"
    /\ proc[p].at \in Updating => proc[p].up \in {"init", "items", "start", "complete", "fail", "finish"}
    /\ proc[p].up = "init" => proc[p].at \notin {"load", "write"}
    /\ At1(p, {"load", "write"}, {"items"}) => files["audio"] = Made
    /\ Unprepared(p) \/ proc[p].seen.item # NoItem
    /\ proc[p].held => \/ proc[p].at \in {"decide", "send", "result", "unlock"}
                       \/ At1(p, Updating, {"start", "complete", "fail"})
    /\ proc[p].at \in {"result", "output"} => proc[p].content = state.input
    /\ At1(p, {"load"}, {"complete"}) => files["chunk_results"] = Made
    /\ At1(p, {"load", "write"}, {"finish"}) => files["transcript"] = Made

Retrying(p) ==
  proc[p].cmd = "retry" =>
    /\ proc[p].at \in {"open"} \cup Updating
    /\ proc[p].at # "open" => state # NoState /\ state.item # NoItem /\ proc[p].up = "retry"
    /\ proc[p].at = "write" => proc[p].seen = Draft(p, state)

Refreshing(p) ==
  proc[p].cmd = "refresh" =>
    /\ proc[p].at \in {"open", "move"} \cup Updating
    /\ proc[p].at # "open" => state # NoState
    /\ proc[p].at \in Updating => proc[p].up \in {"plan", "refreshed"}
    /\ At1(p, {"load", "write"}, {"plan"}) =>
         /\ state.plan = NoPlan /\ state.input < media
         /\ proc[p].plan = [revision |-> Len(state.history) + 1, target |-> media, moves |-> Movable]
         /\ proc[p].moves = proc[p].plan.moves
    /\ proc[p].at = "move" \/ At1(p, {"repair", "replace", "append"}, {"plan"}) \/ At1(p, {"load", "write"}, {"refreshed"}) =>
         state.plan = proc[p].plan /\ state.plan # NoPlan
    /\ proc[p].at = "move" \/ At1(p, {"repair", "replace", "append"}, {"plan"}) =>
         \A n \in NameSet : files[n].on => n \in proc[p].moves
    /\ At1(p, {"load", "write"}, {"refreshed"}) => \A n \in NameSet : files[n] = NoFile
    /\ proc[p].at = "write" => proc[p].seen = Draft(p, state)

Opening(p) ==
  /\ proc[p].at \in {"mkdir", "init"} => proc[p].cmd = "transcribe"
  /\ proc[p].at = "init" => dir /\ state = NoState /\ \A q \in Procs \ {p} : proc[q].at # "init"
  /\ proc[p].held => proc[p].cmd = "transcribe" /\ proc[p].at \notin {"open", "mkdir", "init"}
  /\ ~At1(p, {"repair", "replace", "append"}, {"refreshed"}) /\ state # NoState => Len(state.history) < used.run
  /\ used.run > 0

Doing == \A p \in Active : Transcribing(p) /\ Retrying(p) /\ Refreshing(p) /\ Opening(p)

Data == Inputs /\ Pending /\ Past /\ Done
IInv == Types /\ Beside /\ Data /\ Doing
Does(p) == Transcribing(p) /\ Retrying(p) /\ Refreshing(p) /\ Opening(p)
same == <<media, dir, state, files, revisions, finished>>

------------------------------------------------------------------------------
(* Types and frames *)

LEMMA Marked ==
  /\ Versions \subseteq Marks /\ 0 \in Marks /\ 1 \in Versions
  /\ \A v, s \in Marks : File(v, s) \in Stored /\ File(v, s).on /\ File(v, s).of = v /\ File(v, s).sha = s
  /\ Folder \in Stored /\ NoFile \notin Stored /\ ~NoFile.on
  /\ \A f \in Stored : f.on
<1>1. MaxEdits \in Nat
  BY TranscriptionRunAssumption
<1>2. /\ Versions \subseteq Marks /\ 0 \in Marks /\ 1 \in Versions
  BY <1>1 DEF Versions, Marks
<1>3. \A v, s \in Marks : File(v, s) \in Stored /\ File(v, s).on /\ File(v, s).of = v /\ File(v, s).sha = s
  BY DEF File, Stored
<1>4. Folder \in Stored
  BY <1>2, <1>3 DEF Folder
<1>5. \A f \in Stored : f.on
  BY DEF Stored
<1> QED
  BY <1>2, <1>3, <1>4, <1>5 DEF NoFile

LEMMA ActiveTyped ==
  ASSUME Types, NEW p \in Active
  PROVE  p \in Procs /\ proc[p] \in Invocations
BY DEF Types, Active, Off

LEMMA Only ==
  ASSUME Types, NEW p \in Active, NEW r \in {Off} \cup Invocations,
         proc' = [proc EXCEPT ![p] = r]
  PROVE  /\ proc' \in [Procs -> {Off} \cup Invocations]
         /\ proc'[p] = r /\ \A q \in Procs \ {p} : proc'[q] = proc[q]
         /\ \A q \in Active' : q = p \/ (q \in Active /\ proc'[q] = proc[q])
<1>1. p \in Procs /\ proc \in [Procs -> {Off} \cup Invocations]
  BY ActiveTyped DEF Types
<1>2. /\ proc' \in [Procs -> {Off} \cup Invocations] /\ proc'[p] = r
      /\ \A q \in Procs \ {p} : proc'[q] = proc[q]
  BY <1>1
<1> QED
  BY <1>2 DEF Active

\* An invocation of retry or refresh has no other beside it.
LEMMA Alone ==
  ASSUME IInv, NEW p \in Active, proc[p].cmd # "transcribe", NEW r \in Invocations,
         proc' = [proc EXCEPT ![p] = r]
  PROVE  Beside' /\ \A q \in Active' : q = p
<1>1. \A q \in Active' : q = p \/ q \in Active
  BY Only DEF IInv
<1> QED
  BY <1>1 DEF IInv, Beside

\* One of transcribe goes on to another step of it.
LEMMA StaysBeside ==
  ASSUME IInv, NEW p \in Active, NEW r \in {Off} \cup Invocations,
         proc' = [proc EXCEPT ![p] = r], r = Off \/ r.cmd = proc[p].cmd
  PROVE  Beside'
<1>1. /\ proc'[p] = r
      /\ \A q \in Active' : q = p \/ (q \in Active /\ proc'[q] = proc[q])
  BY Only DEF IInv
<1>2. p \in Active' => r.cmd = proc[p].cmd
  BY <1>1 DEF Active, Off
<1> QED
  BY <1>1, <1>2 DEF IInv, Beside

\* What a step leaves as it is of what an invocation beside it relies on.
Keeping ==
  /\ media' = media /\ (dir => dir') /\ used'.run \in Nat /\ used.run <= used'.run
  /\ state = NoState => state' \in {NoState, FirstState}
  /\ state # NoState =>
       /\ state' # NoState /\ state'.input = state.input /\ state'.plan = state.plan
       /\ state'.history = state.history /\ (state.item # NoItem => state'.item # NoItem)
  /\ \A n \in NameSet : files[n] = Made => files'[n] = Made

\* The other one, q, is where it was, and what it knows is still so.
LEMMA OtherKeeps ==
  ASSUME IInv, Keeping, NEW q \in Active, proc'[q] = proc[q], proc[q].cmd = "transcribe",
         proc[q].at = "init" => state' = state /\ \A r \in Procs \ {q} : proc'[r].at # "init"
  PROVE  Does(q)'
<1>1. Transcribing(q) /\ Opening(q) /\ media' = media /\ q \in Procs
  BY ActiveTyped DEF IInv, Doing, Keeping
<1>2. Retrying(q)' /\ Refreshing(q)'
  BY DEF Retrying, Refreshing
<1>3. Transcribing(q)'
  <2>1. SUFFICES ASSUME proc[q].at \notin {"open", "mkdir", "init"} PROVE Transcribing(q)'
    BY DEF Transcribing
  <2>2. state # NoState /\ state.input = media /\ state.plan = NoPlan
    BY <1>1, <2>1 DEF Transcribing
  <2>3. /\ state' # NoState /\ state'.input = state.input /\ state'.plan = NoPlan
        /\ state'.history = state.history /\ (state.item # NoItem => state'.item # NoItem)
        /\ Made' = Made /\ \A n \in NameSet : files[n] = Made => files'[n] = Made
    BY <2>2 DEF Keeping, Made
  <2>4. Drafted(proc[q].seen) => Drafted(proc[q].seen)'
    BY <2>3 DEF Drafted, NameSet
  <2>5. Remembered(proc[q].seen) => Remembered(proc[q].seen)'
    BY <2>3 DEF Remembered
  <2>6. Unprepared(q)' = Unprepared(q)
    BY DEF Unprepared, At1
  <2>7. files["audio"] = Made => files'["audio"] = Made'
    BY <2>3 DEF NameSet
  <2>8. files["chunk_results"] = Made => files'["chunk_results"] = Made'
    BY <2>3 DEF NameSet
  <2>9. files["transcript"] = Made => files'["transcript"] = Made'
    BY <2>3 DEF NameSet
  <2> QED
    BY <1>1, <2>1, <2>2, <2>3, <2>4, <2>5, <2>6, <2>7, <2>8, <2>9 DEF Transcribing, At1
<1>4. Opening(q)'
  <2>1. used.run > 0 /\ used.run \in Nat /\ used'.run \in Nat /\ used.run <= used'.run
    BY <1>1 DEF Opening, IInv, Types, Keeping
  <2>2. used'.run > 0
    BY <2>1
  <2>3. ~At1(q, {"repair", "replace", "append"}, {"refreshed"})' /\ state' # NoState => Len(state'.history) < used'.run
    <3>1. CASE state = NoState
      <4>1. state' # NoState => Len(state'.history) = 0
        BY <3>1 DEF Keeping, FirstState
      <4> QED
        BY <2>2, <4>1
    <3>2. CASE state # NoState
      <4>1. state'.history = state.history /\ Len(state.history) \in Nat
        BY <3>2 DEF Keeping, IInv, Types, States
      <4>2. ~At1(q, {"repair", "replace", "append"}, {"refreshed"}) => Len(state.history) < used.run
        BY <1>1, <3>2 DEF Opening
      <4>3. At1(q, {"repair", "replace", "append"}, {"refreshed"})' = At1(q, {"repair", "replace", "append"}, {"refreshed"})
        BY DEF At1
      <4> QED
        BY <2>1, <4>1, <4>2, <4>3
    <3> QED
      BY <3>1, <3>2
  <2>4. proc'[q].at = "init" => dir' /\ state' = NoState /\ \A r \in Procs \ {q} : proc'[r].at # "init"
    BY <1>1 DEF Opening, Keeping
  <2> QED
    BY <1>1, <2>2, <2>3, <2>4 DEF Opening
<1> QED
  BY <1>2, <1>3, <1>4 DEF Does

\* Process p goes on, and so nothing changes for the others.
LEMMA OthersKeep ==
  ASSUME IInv, Keeping, NEW p \in Active, NEW r \in {Off} \cup Invocations, proc' = [proc EXCEPT ![p] = r],
         state = NoState /\ state' # NoState => proc[p].at = "init",
         r.at # "init" \/ Opening(p)'
  PROVE  \A q \in Active' \ {p} : Does(q)'
<1>1. /\ proc'[p] = r /\ p \in Procs /\ \A q \in Procs \ {p} : proc'[q] = proc[q]
      /\ \A q \in Active' : q = p \/ (q \in Active /\ proc'[q] = proc[q])
  BY Only, ActiveTyped DEF IInv
<1> SUFFICES ASSUME NEW q \in Active' \ {p} PROVE Does(q)'
  OBVIOUS
<1>2. q \in Active /\ proc'[q] = proc[q] /\ q # p /\ q \in Procs
  BY <1>1 DEF Active
<1>3. proc[q].cmd = "transcribe"
  BY <1>2 DEF IInv, Beside
<1>4. ASSUME proc[q].at = "init"
      PROVE  state' = state /\ \A k \in Procs \ {q} : proc'[k].at # "init"
  <2>1. state = NoState /\ \A k \in Procs \ {q} : proc[k].at # "init"
    BY <1>2, <1>4 DEF IInv, Doing, Opening
  <2>2. state' = state
    BY <1>1, <1>2, <2>1
  <2>3. proc'[p].at # "init"
    BY <1>1, <1>2, <1>4 DEF Opening
  <2> QED
    BY <1>1, <2>1, <2>2, <2>3
<1> QED
  BY <1>2, <1>3, <1>4, OtherKeeps

LEMMA SameKeeps ==
  ASSUME IInv, UNCHANGED same, used'.run = used.run
  PROVE  Keeping
BY DEF Keeping, same, IInv, Types

LEMMA DataSame ==
  ASSUME Data, UNCHANGED same, used' = used
  PROVE  Data'
BY DEF Data, Inputs, Pending, Past, Done, same, Made, Old, Completed, HasItem

\* Process p goes on to the record r.
LEMMA GoesOn ==
  ASSUME IInv, NEW p \in Active, NEW r \in Invocations, proc' = [proc EXCEPT ![p] = r],
         r.cmd = proc[p].cmd, UNCHANGED same, used' = used, Does(p)'
  PROVE  IInv'
<1>1. Data'
  BY DataSame DEF IInv
<1>2. proc' \in [Procs -> {Off} \cup Invocations] /\ Beside'
  BY Only, StaysBeside DEF IInv
<1>3. Types'
  BY <1>2 DEF IInv, Types, same
<1>4. state' = state
  BY DEF same
<1>5. \A q \in Active' \ {p} : Does(q)'
  BY <1>4, SameKeeps, OthersKeep DEF Does
<1>6. Doing'
  BY <1>5 DEF Doing, Does
<1> QED
  BY <1>1, <1>2, <1>3, <1>6 DEF IInv

\* Process p is gone.
LEMMA GoesOff ==
  ASSUME IInv, NEW p \in Active, NEW how, Leave(p, how), UNCHANGED same,
         used'.run = used.run
  PROVE  Beside' /\ Doing' /\ proc' \in [Procs -> {Off} \cup Invocations]
<1>1. proc' = [proc EXCEPT ![p] = Off] /\ Off.at = "off"
  BY DEF Leave, Off
<1>2. proc' \in [Procs -> {Off} \cup Invocations] /\ Beside' /\ proc'[p] = Off
  BY <1>1, Only, StaysBeside DEF IInv
<1>3. state' = state /\ p \notin Active'
  BY <1>1, <1>2 DEF same, Active
<1>4. \A q \in Active' \ {p} : Does(q)'
  BY <1>1, <1>3, SameKeeps, OthersKeep
<1> QED
  BY <1>2, <1>3, <1>4 DEF Doing, Does

LEMMA Ends ==
  ASSUME IInv, NEW p \in Active, NEW how, Leave(p, how), UNCHANGED same,
         used' = used
  PROVE  IInv'
<1>1. Data'
  BY DataSame DEF IInv
<1>2. Beside' /\ Doing' /\ proc' \in [Procs -> {Off} \cup Invocations]
  BY GoesOff
<1>3. Types'
  BY <1>2 DEF IInv, Types, same
<1> QED
  BY <1>1, <1>2, <1>3 DEF IInv

\* What each record step does to the fields.
LEMMA Going ==
  ASSUME Types, NEW p \in Active, NEW s \in Steps \ {"off"}
  PROVE  /\ [proc[p] EXCEPT !.at = s] \in Invocations
         /\ [proc EXCEPT ![p].at = s] = [proc EXCEPT ![p] = [proc[p] EXCEPT !.at = s]]
BY ActiveTyped DEF Invocations, Types

LEMMA UpdateTyped ==
  ASSUME Types, NEW p \in Active, NEW up \in Updates
  PROVE  /\ Update(p, up) \in Invocations
         /\ Update(p, up).at = "load" /\ Update(p, up).up = up
         /\ Update(p, up).cmd = proc[p].cmd /\ Update(p, up).seen = proc[p].seen
         /\ Update(p, up).held = proc[p].held /\ Update(p, up).content = proc[p].content
         /\ Update(p, up).plan = proc[p].plan /\ Update(p, up).moves = proc[p].moves
BY ActiveTyped, ZenonT(40) DEF Invocations, Update, Steps, Updating

\* Between its opening and its updates an invocation is a transcribe or moves files.
LEMMA CommandOf ==
  ASSUME IInv, NEW p \in Active
  PROVE  /\ proc[p].cmd \in {"transcribe", "retry", "refresh"}
         /\ proc[p].at \notin {"open", "move"} \cup Updating => proc[p].cmd = "transcribe"
         /\ proc[p].at = "move" => proc[p].cmd # "retry"
<1>1. proc[p].cmd \in {"transcribe", "retry", "refresh"}
  BY ActiveTyped, TranscriptionRunAssumption DEF IInv, Invocations
<1> QED
  BY <1>1 DEF IInv, Doing, Retrying, Refreshing, Updating

------------------------------------------------------------------------------
(* The steps that change neither the state nor the files *)

\* A transcribe goes on to step s.
LEMMA TranscribeGoes ==
  ASSUME IInv, NEW p \in Active, NEW r \in Invocations, proc' = [proc EXCEPT ![p] = r],
         UNCHANGED same, used' = used,
         r.cmd = "transcribe", proc[p].cmd = "transcribe", Transcribing(p)', Opening(p)'
  PROVE  IInv'
<1>1. proc'[p] = r
  BY Only DEF IInv
<1>2. Retrying(p)' /\ Refreshing(p)'
  BY <1>1 DEF Retrying, Refreshing
<1> QED
  BY <1>2, GoesOn DEF Does

LEMMA LockSteps ==
  ASSUME IInv, NEW p \in Active, Inspect(p) \/ Reclaim(p) \/ Recreate(p)
  PROVE  IInv'
<1>0. proc[p].at \in {"inspect", "reclaim", "recreate"} /\ UNCHANGED same /\ used' = used
  BY DEF Inspect, Reclaim, Recreate, same, At, disk, ghosts
<1>1. CASE \E how : Leave(p, how)
  BY <1>0, <1>1, Ends
<1>2. CASE \E s \in {"reclaim", "recreate", "stamp"} : Goto(p, s)
  <2> PICK s \in {"reclaim", "recreate", "stamp"} : Goto(p, s)
    BY <1>2
  <2> DEFINE r == [proc[p] EXCEPT !.at = s]
  <2>1. r \in Invocations /\ proc' = [proc EXCEPT ![p] = r]
    BY Going DEF Goto, IInv, Steps
  <2>2. proc[p] \in Invocations
    BY ActiveTyped DEF IInv
  <2>3. r.at = s /\ r = [proc[p] EXCEPT !.at = s]
    BY <2>2 DEF Invocations
  <2>4. /\ r.cmd = proc[p].cmd /\ r.seen = proc[p].seen /\ r.up = proc[p].up /\ r.held = proc[p].held
        /\ r.content = proc[p].content
    BY <2>2 DEF Invocations
  <2> HIDE DEF r
  <2>5. proc'[p] = r
    BY <2>1, Only DEF IInv
  <2>6. proc[p].cmd = "transcribe" /\ Transcribing(p) /\ Opening(p)
    BY <1>0, CommandOf DEF IInv, Doing, Updating
  <2>7. Transcribing(p)'
    BY <1>0, <2>3, <2>4, <2>5, <2>6 DEF Transcribing, same, At1, Updating, Made, Unprepared, Remembered
  <2>8. Opening(p)'
    BY <1>0, <2>3, <2>4, <2>5, <2>6 DEF Opening, same, At1
  <2> QED
    BY <1>0, <2>1, <2>4, <2>6, <2>7, <2>8, TranscribeGoes
<1> QED
  BY <1>1, <1>2 DEF Inspect, Reclaim, Recreate

LEMMA StampStep ==
  ASSUME IInv, NEW p \in Active, Stamp(p)
  PROVE  IInv'
<1> DEFINE r == [proc[p] EXCEPT !.held = TRUE, !.at = "decide"]
<1>0. proc[p].at = "stamp" /\ UNCHANGED same /\ used' = used
  BY DEF Stamp, same, At, ghosts
<1>1. proc[p] \in Invocations /\ p \in Procs
  BY ActiveTyped DEF IInv
<1>2. r \in Invocations /\ proc' = [proc EXCEPT ![p] = r]
  BY <1>1, ZenonT(40) DEF Invocations, Stamp, Steps, IInv, Types
<1>3. /\ r.at = "decide" /\ r.held
      /\ r.cmd = proc[p].cmd /\ r.seen = proc[p].seen /\ r.up = proc[p].up /\ r.content = proc[p].content
  BY <1>1 DEF Invocations
<1> HIDE DEF r
<1>4. proc'[p] = r
  BY <1>2, Only DEF IInv
<1>5. proc[p].cmd = "transcribe" /\ Transcribing(p) /\ Opening(p)
  BY <1>0, CommandOf DEF IInv, Doing, Updating
<1>6. Transcribing(p)'
  BY <1>0, <1>3, <1>4, <1>5 DEF Transcribing, same, At1, Updating, Made, Unprepared, Remembered
<1>7. Opening(p)'
  BY <1>0, <1>3, <1>4, <1>5 DEF Opening, same, At1
<1> QED
  BY <1>0, <1>2, <1>3, <1>5, <1>6, <1>7, TranscribeGoes

LEMMA DecideStep ==
  ASSUME IInv, NEW p \in Active, Decide(p)
  PROVE  IInv'
<1>0. proc[p].at = "decide" /\ UNCHANGED same /\ used' = used
  BY DEF Decide, same, At, disk, ghosts
<1>1. proc[p] \in Invocations /\ p \in Procs
  BY ActiveTyped DEF IInv
<1>2. proc[p].cmd = "transcribe" /\ Transcribing(p) /\ Opening(p)
  BY <1>0, CommandOf DEF IInv, Doing, Updating
<1>3. proc[p].seen.item \in Items
  <2>1. proc[p].seen # NoState /\ proc[p].seen.item # NoItem
    BY <1>0, <1>2 DEF Transcribing, At1, Updating, Unprepared, Remembered
  <2> QED
    BY <1>1, <2>1 DEF Invocations, States
<1>4. CASE Goto(p, "unlock")
  <2> DEFINE r == [proc[p] EXCEPT !.at = "unlock"]
  <2>1. r \in Invocations /\ proc' = [proc EXCEPT ![p] = r]
    BY <1>4, Going DEF Goto, IInv, Steps
  <2>2. /\ r.at = "unlock" /\ r.held = proc[p].held
        /\ r.cmd = proc[p].cmd /\ r.seen = proc[p].seen /\ r.up = proc[p].up /\ r.content = proc[p].content
    BY <1>1 DEF Invocations
  <2> HIDE DEF r
  <2>3. proc'[p] = r
    BY <2>1, Only DEF IInv
  <2>4. Transcribing(p)'
    BY <1>0, <1>2, <2>2, <2>3 DEF Transcribing, same, At1, Updating, Made, Unprepared, Remembered
  <2>5. Opening(p)'
    BY <1>0, <1>2, <2>2, <2>3 DEF Opening, same, At1
  <2> QED
    BY <1>0, <1>2, <2>1, <2>2, <2>4, <2>5, TranscribeGoes
<1>5. CASE proc' = [proc EXCEPT ![p] = [Update(p, "start") EXCEPT !.attempt = proc[p].seen.item.attempts + 1]]
  <2> DEFINE r == [Update(p, "start") EXCEPT !.attempt = proc[p].seen.item.attempts + 1]
  <2>0. proc[p].seen.item.attempts + 1 \in Nat
    BY <1>3 DEF Items
  <2>1. /\ r \in Invocations /\ r.at = "load" /\ r.up = "start"
        /\ r.cmd = proc[p].cmd /\ r.seen = proc[p].seen /\ r.held = proc[p].held /\ r.content = proc[p].content
    BY <2>0, UpdateTyped DEF IInv, Updates, Invocations
  <2>2. proc' = [proc EXCEPT ![p] = r]
    BY <1>5
  <2> HIDE DEF r
  <2>3. proc'[p] = r
    BY <2>1, <2>2, Only DEF IInv
  <2>4. Transcribing(p)'
    BY <1>0, <1>2, <2>1, <2>3 DEF Transcribing, same, At1, Updating, Made, Unprepared, Remembered
  <2>5. Opening(p)'
    BY <1>0, <1>2, <2>1, <2>3 DEF Opening, same, At1
  <2> QED
    BY <1>0, <1>2, <2>1, <2>2, <2>4, <2>5, TranscribeGoes
<1> QED
  BY <1>4, <1>5 DEF Decide

LEMMA SendStep ==
  ASSUME IInv, NEW p \in Active, Send(p)
  PROVE  IInv'
<1>0. proc[p].at = "send" /\ UNCHANGED same /\ used' = used
  BY DEF Send, same, At, disk, ghosts
<1>1. proc[p] \in Invocations /\ p \in Procs
  BY ActiveTyped DEF IInv
<1>2. proc[p].cmd = "transcribe" /\ Transcribing(p) /\ Opening(p)
  BY <1>0, CommandOf DEF IInv, Doing, Updating
<1>3. state \in States /\ state.input \in Marks
  BY <1>0, <1>2, Marked DEF Transcribing, IInv, Types, States
<1>4. CASE files["audio"].on /\ proc' = [proc EXCEPT ![p].content = files["audio"].of, ![p].at = "result"]
  <2> DEFINE r == [proc[p] EXCEPT !.content = files["audio"].of, !.at = "result"]
  <2>0. files["audio"].of = state.input
    BY <1>0, <1>2, <1>3, <1>4, Marked DEF IInv, Data, Inputs, Made, Transcribing
  <2>1. /\ r \in Invocations /\ r.at = "result" /\ r.held = proc[p].held /\ r.content = state.input
        /\ r.cmd = proc[p].cmd /\ r.seen = proc[p].seen /\ r.up = proc[p].up
    BY <1>1, <1>3, <2>0 DEF Invocations, Steps
  <2>2. proc' = [proc EXCEPT ![p] = r]
    BY <1>1, <1>4 DEF IInv, Types
  <2> HIDE DEF r
  <2>3. proc'[p] = r
    BY <2>1, <2>2, Only DEF IInv
  <2>4. Transcribing(p)'
    BY <1>0, <1>2, <2>1, <2>3 DEF Transcribing, same, At1, Updating, Made, Unprepared, Remembered
  <2>5. Opening(p)'
    BY <1>0, <1>2, <2>1, <2>3 DEF Opening, same, At1
  <2> QED
    BY <1>0, <1>2, <2>1, <2>2, <2>4, <2>5, TranscribeGoes
<1>5. CASE \E b \in BOOLEAN : proc' = [proc EXCEPT ![p] = [Update(p, "fail") EXCEPT !.transient = b]]
  <2> PICK b \in BOOLEAN : proc' = [proc EXCEPT ![p] = [Update(p, "fail") EXCEPT !.transient = b]]
    BY <1>5
  <2> DEFINE r == [Update(p, "fail") EXCEPT !.transient = b]
  <2>1. /\ r \in Invocations /\ r.at = "load" /\ r.up = "fail"
        /\ r.cmd = proc[p].cmd /\ r.seen = proc[p].seen /\ r.held = proc[p].held /\ r.content = proc[p].content
    BY UpdateTyped DEF IInv, Updates, Invocations
  <2>2. proc' = [proc EXCEPT ![p] = r]
    OBVIOUS
  <2> HIDE DEF r
  <2>3. proc'[p] = r
    BY <2>1, <2>2, Only DEF IInv
  <2>4. Transcribing(p)'
    BY <1>0, <1>2, <2>1, <2>3 DEF Transcribing, same, At1, Updating, Made, Unprepared, Remembered
  <2>5. Opening(p)'
    BY <1>0, <1>2, <2>1, <2>3 DEF Opening, same, At1
  <2> QED
    BY <1>0, <1>2, <2>1, <2>2, <2>4, <2>5, TranscribeGoes
<1> QED
  BY <1>4, <1>5 DEF Send

LEMMA UnlockStep ==
  ASSUME IInv, NEW p \in Active, Unlock(p)
  PROVE  IInv'
<1>0. proc[p].at = "unlock" /\ UNCHANGED same /\ used' = used
  BY DEF Unlock, same, At
<1>1. proc[p] \in Invocations /\ p \in Procs
  BY ActiveTyped DEF IInv
<1>2. proc[p].cmd = "transcribe" /\ Transcribing(p) /\ Opening(p)
  BY <1>0, CommandOf DEF IInv, Doing, Updating
<1>3. CASE Leave(p, "failed")
  BY <1>0, <1>3, Ends
<1>4. CASE proc' = [proc EXCEPT ![p].held = FALSE, ![p].at = "check"]
  <2> DEFINE r == [proc[p] EXCEPT !.held = FALSE, !.at = "check"]
  <2>1. /\ r \in Invocations /\ r.at = "check" /\ ~r.held /\ r.content = proc[p].content
        /\ r.cmd = proc[p].cmd /\ r.seen = proc[p].seen /\ r.up = proc[p].up
    BY <1>1, ZenonT(40) DEF Invocations, Steps
  <2>2. proc' = [proc EXCEPT ![p] = r]
    BY <1>1, <1>4 DEF IInv, Types
  <2> HIDE DEF r
  <2>3. proc'[p] = r
    BY <2>1, <2>2, Only DEF IInv
  <2>4. Transcribing(p)'
    BY <1>0, <1>2, <2>1, <2>3 DEF Transcribing, same, At1, Updating, Made, Unprepared, Remembered
  <2>5. Opening(p)'
    BY <1>0, <1>2, <2>1, <2>3 DEF Opening, same, At1
  <2> QED
    BY <1>0, <1>2, <2>1, <2>2, <2>4, <2>5, TranscribeGoes
<1> QED
  BY <1>3, <1>4 DEF Unlock

LEMMA CheckStep ==
  ASSUME IInv, NEW p \in Active, Check(p)
  PROVE  IInv'
<1>0. proc[p].at = "check" /\ UNCHANGED same /\ used' = used
  BY DEF Check, same, At, disk
<1>1. proc[p] \in Invocations /\ p \in Procs
  BY ActiveTyped DEF IInv
<1>2. proc[p].cmd = "transcribe" /\ Transcribing(p) /\ Opening(p)
  BY <1>0, CommandOf DEF IInv, Doing, Updating
<1>3. CASE Leave(p, "failed")
  BY <1>0, <1>3, Ends
<1>4. CASE Committed(state) /\ proc' = [proc EXCEPT ![p].at = "output",
                          ![p].content = IF state.item = NoItem THEN 0 ELSE files["chunk_results"].of]
  <2>0. /\ state # NoState /\ state.item # NoItem /\ state.plan = NoPlan
        /\ ~proc[p].held
    BY <1>0, <1>2 DEF Transcribing, At1, Updating, Unprepared, Remembered
  <2>1. state.input \in Marks /\ files["chunk_results"].of = state.input
    <3>1. state \in States /\ state.input \in Marks
      BY <2>0, Marked DEF IInv, Types, States
    <3>2. files["chunk_results"] = Made
      BY <1>4, <2>0 DEF Committed, IInv, Data, Inputs, Completed, HasItem
    <3> QED
      BY <3>1, <3>2, Marked DEF Made
  <2> DEFINE r == [proc[p] EXCEPT !.at = "output", !.content = state.input]
  <2>2. /\ r \in Invocations /\ r.at = "output" /\ r.held = proc[p].held /\ r.content = state.input
        /\ r.cmd = proc[p].cmd /\ r.seen = proc[p].seen /\ r.up = proc[p].up
    BY <1>1, <2>1 DEF Invocations, Steps
  <2>3. proc' = [proc EXCEPT ![p] = r]
    BY <1>1, <1>4, <2>0, <2>1 DEF IInv, Types
  <2> HIDE DEF r
  <2>4. proc'[p] = r
    BY <2>2, <2>3, Only DEF IInv
  <2>5. Transcribing(p)'
    BY <1>0, <1>2, <2>0, <2>2, <2>4 DEF Transcribing, same, At1, Updating, Made, Unprepared, Remembered
  <2>6. Opening(p)'
    BY <1>0, <1>2, <2>2, <2>4 DEF Opening, same, At1
  <2> QED
    BY <1>0, <1>2, <2>2, <2>3, <2>5, <2>6, TranscribeGoes
<1> QED
  BY <1>3, <1>4 DEF Check

------------------------------------------------------------------------------
(* Updates *)

\* What an update in progress is of.
LEMMA UpdateOf ==
  ASSUME IInv, NEW p \in Active, proc[p].at \in Updating
  PROVE  /\ state \in States
         /\ \/ /\ proc[p].cmd = "transcribe" /\ Transcribing(p)
               /\ proc[p].up \in {"init", "items", "start", "complete", "fail", "finish"}
            \/ proc[p].cmd = "retry" /\ Retrying(p) /\ proc[p].up = "retry"
            \/ proc[p].cmd = "refresh" /\ Refreshing(p) /\ proc[p].up \in {"plan", "refreshed"}
<1>1. Transcribing(p) /\ Retrying(p) /\ Refreshing(p)
  BY DEF IInv, Doing
<1>2. proc[p].cmd \in {"transcribe", "retry", "refresh"}
  BY CommandOf
<1>3. proc[p].at \notin {"open", "mkdir", "init", "move"}
  BY DEF Updating
<1>4. state # NoState
  BY <1>1, <1>2, <1>3 DEF Transcribing, Retrying, Refreshing
<1> QED
  BY <1>1, <1>2, <1>3, <1>4 DEF Transcribing, Retrying, Refreshing, IInv, Types

\* An update of the state is a state.
LEMMA DraftTyped ==
  ASSUME IInv, NEW p \in Active, proc[p].at = "load" \/ (proc[p].at = "write" /\ proc[p].cmd # "transcribe")
  PROVE  /\ state \in States /\ Draft(p, state) \in States
         /\ ~(proc[p].up \in {"start", "complete", "fail"} /\ state.item = NoItem)
<1>0. proc[p] \in Invocations
  BY ActiveTyped DEF IInv
<1>1. state \in States
  BY UpdateOf DEF Updating
<1>2. CASE proc[p].up = "items"
  <2>1. files["audio"] = Made /\ state.input \in Marks
    BY <1>1, <1>2, UpdateOf, Marked DEF Updating, Transcribing, At1, States
  <2>2. Item(0, files["audio"].of) \in Items
    BY <2>1, Marked DEF Item, Items, Made
  <2> QED
    BY <1>1, <1>2, <2>2 DEF Draft, States
<1>3. CASE proc[p].up \in {"start", "complete", "fail"}
  <2>1. state.item # NoItem
    BY <1>3, UpdateOf DEF Updating, Transcribing, At1, Unprepared, Remembered
  <2>2. state.item \in Items
    BY <1>1, <2>1 DEF States
  <2>3. CASE proc[p].up = "start"
    <3>1. [state.item EXCEPT !.status = "in_progress", !.attempts = proc[p].attempt] \in Items
      BY <1>0, <2>2 DEF Items, Invocations
    <3>2. Draft(p, state) = [state EXCEPT !.status = "running", !.item =
                               [state.item EXCEPT !.status = "in_progress", !.attempts = proc[p].attempt]]
      BY <1>1, <2>2, <2>3 DEF Draft, States, Items
    <3> QED
      BY <1>1, <2>1, <2>3, <3>1, <3>2 DEF States
  <2>4. CASE proc[p].up \in {"complete", "fail"}
    <3> DEFINE b == IF proc[p].up = "complete" THEN FALSE ELSE proc[p].transient
               c == IF proc[p].up = "complete" THEN "completed" ELSE "failed"
    <3>1. [state.item EXCEPT !.status = c, !.transient = b] \in Items
      BY <1>0, <2>2 DEF Items, Invocations
    <3>2. Draft(p, state) = [state EXCEPT !.item = [state.item EXCEPT !.status = c, !.transient = b]]
      BY <1>1, <2>2, <2>4 DEF Draft, States, Items
    <3> QED
      BY <1>1, <2>1, <2>4, <3>1, <3>2 DEF States
  <2> QED
    BY <1>3, <2>3, <2>4
<1>4. CASE proc[p].up = "finish"
  BY <1>1, <1>4 DEF Draft, States
<1>5. CASE proc[p].up = "retry"
  <2>1. state.item # NoItem
    BY <1>5, UpdateOf DEF Updating, Retrying
  <2>2. state.item \in Items /\ Item(0, state.item.sha) \in Items
    BY <1>1, <2>1 DEF States, Item, Items
  <2> QED
    BY <1>1, <1>5, <2>1, <2>2 DEF Draft, States
<1>6. CASE proc[p].up = "plan"
  BY <1>0, <1>1, <1>6 DEF Draft, States, Invocations
<1>7. CASE proc[p].up = "refreshed"
  <2>1. state.plan = proc[p].plan /\ proc[p].plan # NoPlan
    BY <1>7, UpdateOf DEF Updating, Refreshing, At1
  <2>2. proc[p].plan \in Plans
    BY <1>1, <2>1 DEF States
  <2>3. /\ state.history \in Seq(Entries) /\ state.input \in Versions
        /\ [input |-> state.input, revision |-> proc[p].plan.revision] \in Entries
    BY <1>1, <2>2 DEF States, Plans, Entries
  <2>4. Append(state.history, [input |-> state.input, revision |-> proc[p].plan.revision]) \in Seq(Entries)
    BY <2>3
  <2> QED
    BY <1>1, <1>7, <2>2, <2>4 DEF Draft, Refreshed, States, Plans
<1> QED
  BY <1>1, <1>2, <1>3, <1>4, <1>5, <1>6, <1>7, UpdateOf DEF Updating, Transcribing, At1, Unprepared, Remembered

\* What a transcribe makes of the state it reads may be written, then or later.
LEMMA TranscribeDrafts ==
  ASSUME IInv, NEW p \in Active, proc[p].at = "load", proc[p].cmd = "transcribe"
  PROVE  Drafted(Draft(p, state))
<1> DEFINE s == Draft(p, state)
<1>0. proc[p] \in Invocations
  BY ActiveTyped DEF IInv
<1>1. /\ state \in States /\ s \in States /\ Transcribing(p)
      /\ proc[p].up \in {"items", "start", "complete", "fail", "finish"}
  BY UpdateOf, DraftTyped DEF Updating, Transcribing
<1>2. state # NoState /\ s # NoState /\ state.plan = NoPlan
  BY <1>1 DEF States, NoState, Transcribing
<1>3. proc[p].up # "items" => state.item \in Items /\ state.item.sha = state.input
  <2>1. proc[p].up # "items" => state.item # NoItem
    BY <1>1 DEF Transcribing, At1, Updating, Unprepared, Remembered
  <2> QED
    BY <1>1, <1>2, <2>1 DEF States, IInv, Data, Inputs
<1>4. state.status = "complete" => files["transcript"] = Made
  BY <1>2 DEF IInv, Data, Inputs
<1> SUFFICES Drafted(s)
  OBVIOUS
<1> HIDE DEF s
<1>5. CASE proc[p].up = "items"
  <2>1. files["audio"] = Made
    BY <1>1, <1>5 DEF Transcribing, At1
  <2>2. Item(0, files["audio"].of).sha = state.input /\ Item(0, files["audio"].of).status = "pending"
    BY <2>1, Marked, <1>1 DEF Item, Made, States
  <2>3. s = [state EXCEPT !.item = Item(0, files["audio"].of)]
    BY <1>5 DEF s, Draft
  <2>4. Item(0, files["audio"].of) # NoItem
    BY <2>2 DEF NoItem
  <2> DEFINE i == Item(0, files["audio"].of)
  <2>5. s = [state EXCEPT !.item = i] /\ i.sha = state.input /\ i.status = "pending" /\ i # NoItem
    BY <2>2, <2>3, <2>4
  <2> HIDE DEF i
  <2> QED
    BY <1>1, <1>2, <1>4, <2>5 DEF States, Drafted
<1>6. CASE proc[p].up = "start"
  <2> DEFINE i == [state.item EXCEPT !.status = "in_progress", !.attempts = proc[p].attempt]
  <2>1. s = [state EXCEPT !.status = "running", !.item = i]
    BY <1>1, <1>3, <1>6, ZenonT(40) DEF s, Draft, States, Items
  <2>2. i.sha = state.input /\ i.status = "in_progress"
    BY <1>3, <1>6 DEF Items
  <2> HIDE DEF i
  <2> QED
    BY <1>1, <1>2, <2>1, <2>2 DEF States, NoItem, Drafted
<1>7. CASE proc[p].up \in {"complete", "fail"}
  <2>0. PICK b : b = (IF proc[p].up = "complete" THEN FALSE ELSE proc[p].transient)
    OBVIOUS
  <2> DEFINE c == IF proc[p].up = "complete" THEN "completed" ELSE "failed"
             i == [state.item EXCEPT !.status = c, !.transient = b]
  <2>1. s = [state EXCEPT !.item = i]
    BY <1>1, <1>3, <1>7, <2>0 DEF s, Draft, States, Items
  <2>2. i.sha = state.input /\ i.status = c
    BY <1>3, <1>7 DEF Items
  <2>3. c = "completed" => files["chunk_results"] = Made
    BY <1>1, <1>7 DEF Transcribing, At1
  <2>4. c \in {"completed", "failed"}
    OBVIOUS
  <2> HIDE DEF i, c
  <2> QED
    BY <1>1, <1>2, <1>4, <2>1, <2>2, <2>3, <2>4 DEF States, NoItem, Drafted
<1>8. CASE proc[p].up = "finish"
  <2>1. s = [state EXCEPT !.status = "complete"]
    BY <1>8 DEF s, Draft
  <2>2. s.item = state.item /\ s.input = state.input /\ s.plan = state.plan /\ s.history = state.history
    BY <1>1, <2>1 DEF States
  <2>3. state.item # NoItem
    BY <1>3, <1>8 DEF NoItem, Items
  <2>4. files["transcript"] = Made
    BY <1>1, <1>8 DEF Transcribing, At1
  <2> QED
    BY <1>2, <1>3, <1>8, <2>2, <2>3, <2>4 DEF IInv, Data, Inputs, Completed, HasItem, Drafted
<1> QED
  BY <1>1, <1>5, <1>6, <1>7, <1>8

LEMMA LoadStep ==
  ASSUME IInv, NEW p \in Active, Load(p)
  PROVE  IInv'
<1>0. proc[p].at = "load" /\ UNCHANGED same /\ used' = used
  BY DEF Load, same, At, disk
<1>1. proc[p] \in Invocations /\ p \in Procs
  BY ActiveTyped DEF IInv
<1>2. state \in States /\ Draft(p, state) \in States
  BY <1>0, DraftTyped
<1> DEFINE r == [proc[p] EXCEPT !.seen = Draft(p, state), !.at = "write"]
<1>3. proc' = [proc EXCEPT ![p] = r]
  BY <1>0, <1>1, DraftTyped DEF Load, IInv, Types
<1>4. /\ r \in Invocations /\ r.at = "write" /\ r.seen = Draft(p, state) /\ r.content = proc[p].content
      /\ r.cmd = proc[p].cmd /\ r.up = proc[p].up /\ r.held = proc[p].held /\ r.plan = proc[p].plan
      /\ r.moves = proc[p].moves /\ r.attempt = proc[p].attempt /\ r.transient = proc[p].transient
  BY <1>1, <1>2, ZenonT(40) DEF Invocations, Steps, Updating
<1> HIDE DEF r
<1>5. proc'[p] = r
  BY <1>3, <1>4, Only DEF IInv
<1>6. Draft(p, state)' = r.seen
  <2>1. proc[p].up \in {"items", "start", "complete", "fail", "finish", "retry", "plan", "refreshed"}
    BY <1>0, UpdateOf DEF Updating, Transcribing
  <2> QED
    BY <1>0, <1>4, <1>5, <2>1 DEF Draft, Refreshed, same
<1>7. Transcribing(p) /\ Retrying(p) /\ Refreshing(p) /\ Opening(p)
  BY DEF IInv, Doing
<1>8. Transcribing(p)'
  <2>1. proc[p].cmd = "transcribe" => Drafted(r.seen)
    BY <1>0, <1>4, TranscribeDrafts
  <2>2. proc[p].cmd = "transcribe" => Drafted(proc[p].seen)'
    BY <1>0, <1>5, <2>1 DEF Drafted, same, Made
  <2> QED
    <3> SUFFICES ASSUME proc[p].cmd = "transcribe" PROVE Transcribing(p)'
      BY <1>4, <1>5 DEF Transcribing
    <3>1. /\ proc'[p].at = "write" /\ proc'[p].up = proc[p].up /\ proc'[p].held = proc[p].held
          /\ proc'[p].content = proc[p].content /\ Made' = Made /\ state' = state /\ media' = media
          /\ files' = files
      BY <1>0, <1>4, <1>5 DEF same, Made
    <3>2. proc'[p].seen.item # NoItem
      BY <2>2 DEF Drafted
    <3> QED
      BY <1>0, <1>7, <2>2, <3>1, <3>2 DEF Transcribing, At1, Updating, Unprepared
<1>9. Retrying(p)'
  BY <1>0, <1>4, <1>5, <1>6, <1>7 DEF Retrying, same, Updating
<1>10. Refreshing(p)'
  BY <1>0, <1>4, <1>5, <1>6, <1>7 DEF Refreshing, same, At1, Updating, Movable
<1>11. Opening(p)'
  BY <1>0, <1>4, <1>5, <1>7 DEF Opening, same, At1
<1> QED
  BY <1>0, <1>3, <1>4, <1>8, <1>9, <1>10, <1>11, GoesOn DEF Does

LEMMA RepairStep ==
  ASSUME IInv, journal \in Journals, NEW p \in Active, Repair(p)
  PROVE  IInv'
<1>0. proc[p].at = "repair" /\ UNCHANGED same /\ used' = used
  BY DEF Repair, same, At, disk
<1>1. proc[p] \in Invocations /\ p \in Procs
  BY ActiveTyped DEF IInv
<1>7. Transcribing(p) /\ Retrying(p) /\ Refreshing(p) /\ Opening(p)
  BY DEF IInv, Doing
<1>2. CASE \E s \in {"replace", "append"} :
            proc' = [proc EXCEPT ![p].read = Repaired(journal), ![p].at = s]
  <2> PICK s \in {"replace", "append"} :
             proc' = [proc EXCEPT ![p].read = Repaired(journal), ![p].at = s]
    BY <1>2
  <2> DEFINE r == [proc[p] EXCEPT !.read = Repaired(journal), !.at = s]
  <2>0. Repaired(journal) \in Journals
    BY DEF Repaired, Journals
  <2>1. r \in Invocations /\ proc' = [proc EXCEPT ![p] = r]
    <3>1. s \in Steps \ {"off"}
      BY DEF Steps, Updating
    <3> QED
      BY <1>1, <2>0, <3>1 DEF Invocations, IInv, Types
  <2>4. /\ r.at = s /\ r.seen = proc[p].seen /\ r.content = proc[p].content
        /\ r.cmd = proc[p].cmd /\ r.up = proc[p].up /\ r.held = proc[p].held /\ r.plan = proc[p].plan
        /\ r.moves = proc[p].moves
    BY <1>1 DEF Invocations
  <2> HIDE DEF r
  <2>5. proc'[p] = r
    BY <2>1, Only DEF IInv
  <2>8. Transcribing(p)'
    BY <1>0, <1>7, <2>4, <2>5 DEF Transcribing, same, At1, Updating, Made, Unprepared, Remembered
  <2>9. Retrying(p)'
    BY <1>0, <1>7, <2>4, <2>5 DEF Retrying, same, Updating
  <2>10. Refreshing(p)'
    BY <1>0, <1>7, <2>4, <2>5 DEF Refreshing, same, At1, Updating, Movable
  <2>11. Opening(p)'
    BY <1>0, <1>7, <2>4, <2>5 DEF Opening, same, At1
  <2> QED
    BY <1>0, <2>1, <2>4, <2>8, <2>9, <2>10, <2>11, GoesOn DEF Does
<1>3. CASE Leave(p, "failed")
  BY <1>0, <1>3, Ends
<1>4. CASE proc[p].held /\ proc' = [proc EXCEPT ![p] = Raised(p)]
  <2>0. proc[p].cmd = "transcribe" /\ proc[p].up \in {"start", "complete", "fail"}
    BY <1>0, <1>4, <1>7 DEF Opening, Transcribing, At1
  <2> DEFINE r == Raised(p)
  <2>1. CASE proc[p].up = "complete"
    <3>1. r = [Update(p, "fail") EXCEPT !.transient = FALSE]
      BY <2>1 DEF Raised
    <3>2. /\ r \in Invocations /\ r.at = "load" /\ r.up = "fail"
          /\ r.cmd = proc[p].cmd /\ r.seen = proc[p].seen /\ r.held = proc[p].held /\ r.content = proc[p].content
      <4>1. PICK b \in BOOLEAN : b = FALSE
        OBVIOUS
      <4> DEFINE u == [Update(p, "fail") EXCEPT !.transient = b]
      <4>2. /\ u \in Invocations /\ u.at = "load" /\ u.up = "fail"
            /\ u.cmd = proc[p].cmd /\ u.seen = proc[p].seen /\ u.held = proc[p].held /\ u.content = proc[p].content
        BY UpdateTyped DEF IInv, Updates, Invocations
      <4> HIDE DEF r
      <4>3. r = u
        BY <3>1, <4>1
      <4> QED
        BY <4>2, <4>3
    <3>3. proc'[p] = r
      BY <1>4, <3>2, Only DEF IInv
    <3> HIDE DEF r
    <3>4. Transcribing(p)'
      BY <1>0, <1>7, <2>0, <3>2, <3>3 DEF Transcribing, same, At1, Updating, Made, Unprepared, Remembered
    <3>5. Opening(p)'
      BY <1>0, <1>7, <2>0, <2>1, <3>2, <3>3 DEF Opening, same, At1
    <3> QED
      BY <1>0, <1>4, <2>0, <3>2, <3>4, <3>5, TranscribeGoes DEF r
  <2>2. CASE proc[p].up # "complete"
    <3>1. r = [proc[p] EXCEPT !.at = "unlock", !.failing = TRUE]
      BY <2>2 DEF Raised
    <3>2. /\ r \in Invocations /\ r.at = "unlock" /\ r.up = proc[p].up
          /\ r.cmd = proc[p].cmd /\ r.seen = proc[p].seen /\ r.held = proc[p].held /\ r.content = proc[p].content
      BY <1>1, <3>1 DEF Invocations, Steps
    <3>3. proc'[p] = r
      BY <1>4, <3>2, Only DEF IInv
    <3> HIDE DEF r
    <3>4. Transcribing(p)'
      BY <1>0, <1>7, <2>0, <3>2, <3>3 DEF Transcribing, same, At1, Updating, Made, Unprepared, Remembered
    <3>5. Opening(p)'
      BY <1>0, <1>7, <2>0, <3>2, <3>3 DEF Opening, same, At1
    <3> QED
      BY <1>0, <1>4, <2>0, <3>2, <3>4, <3>5, TranscribeGoes DEF r
  <2> QED
    BY <2>1, <2>2
<1> QED
  BY <1>2, <1>3, <1>4 DEF Repair, Raises

LEMMA ReplaceStep ==
  ASSUME IInv, journal \in Journals, NEW p \in Active, Replace(p)
  PROVE  IInv'
<1> DEFINE new == Instead(journal, proc[p].read)
           r == [proc[p] EXCEPT !.read = new, !.at = "append"]
<1>0. /\ proc[p].at = "replace" /\ UNCHANGED same /\ used' = used
      /\ proc' = [proc EXCEPT ![p].read = new, ![p].at = "append"]
  BY DEF Replace, same, At
<1>1. proc[p] \in Invocations /\ p \in Procs
  BY ActiveTyped DEF IInv
<1>7. Transcribing(p) /\ Retrying(p) /\ Refreshing(p) /\ Opening(p)
  BY DEF IInv, Doing
<1>2. new \in Journals
  <2>1. proc[p].read \in Journals
    BY <1>1 DEF Invocations
  <2> QED
    BY <2>1 DEF Instead, Journals
<1> HIDE DEF new
<1>3. r \in Invocations /\ proc' = [proc EXCEPT ![p] = r]
  <2>1. "append" \in Steps \ {"off"}
    BY DEF Steps, Updating
  <2> QED
    BY <1>0, <1>1, <1>2, <2>1 DEF Invocations, IInv, Types
<1>4. /\ r.at = "append" /\ r.seen = proc[p].seen /\ r.content = proc[p].content
      /\ r.cmd = proc[p].cmd /\ r.up = proc[p].up /\ r.held = proc[p].held /\ r.plan = proc[p].plan
      /\ r.moves = proc[p].moves
  BY <1>1 DEF Invocations
<1> HIDE DEF r
<1>5. proc'[p] = r
  BY <1>3, Only DEF IInv
<1>8. Transcribing(p)'
  BY <1>0, <1>7, <1>4, <1>5 DEF Transcribing, same, At1, Updating, Made, Unprepared, Remembered
<1>9. Retrying(p)'
  BY <1>0, <1>7, <1>4, <1>5 DEF Retrying, same, Updating
<1>10. Refreshing(p)'
  BY <1>0, <1>7, <1>4, <1>5 DEF Refreshing, same, At1, Updating, Movable
<1>11. Opening(p)'
  BY <1>0, <1>7, <1>4, <1>5 DEF Opening, same, At1
<1> QED
  BY <1>0, <1>3, <1>4, <1>8, <1>9, <1>10, <1>11, GoesOn DEF Does

LEMMA RecordStep ==
  ASSUME IInv, NEW p \in Active, Record(p)
  PROVE  IInv'
<1>0. proc[p].at = "append" /\ UNCHANGED same /\ used' = used
  BY DEF Record, same, At
<1>1. proc[p] \in Invocations /\ p \in Procs
  BY ActiveTyped DEF IInv
<1>2. Transcribing(p) /\ Retrying(p) /\ Refreshing(p) /\ Opening(p)
  BY DEF IInv, Doing
<1>3. CASE Leave(p, "done")
  BY <1>0, <1>3, Ends
<1>4. CASE /\ proc' = [proc EXCEPT ![p].read = NewJournal, ![p].at = GoesTo(p)]
           /\ proc[p].up \notin {"finish", "retry", "refreshed"}
  <2> DEFINE s == GoesTo(p)
             r == [proc[p] EXCEPT !.read = NewJournal, !.at = s]
  <2>0. proc[p].up \in {"init", "items", "start", "complete", "fail"} \/ proc[p].up = "plan"
    BY <1>0, <1>4, UpdateOf DEF Updating
  <2>1. /\ proc[p].up = "init" => s = "prepare"
        /\ proc[p].up = "items" => s = "lock"
        /\ proc[p].up = "start" => s = "send"
        /\ proc[p].up = "complete" => s = "unlock"
        /\ proc[p].up = "fail" => s \in {"decide", "unlock"}
        /\ proc[p].up = "plan" => s = "move"
    BY DEF GoesTo
  <2>2. s \in Steps \ {"off"}
    BY <2>0, <2>1 DEF Steps
  <2>3. r \in Invocations /\ proc' = [proc EXCEPT ![p] = r]
    <3>1. NewJournal \in Journals
      BY DEF NewJournal, Journals
    <3> HIDE DEF s
    <3>2. r \in Invocations
      BY <1>1, <2>2, <3>1 DEF Invocations
    <3> QED
      BY <1>4, <3>2 DEF IInv, Types, s
  <2>4. /\ r.at = s /\ r.seen = proc[p].seen /\ r.content = proc[p].content
        /\ r.cmd = proc[p].cmd /\ r.up = proc[p].up /\ r.held = proc[p].held /\ r.plan = proc[p].plan
        /\ r.moves = proc[p].moves
    BY <1>1 DEF Invocations
  <2> HIDE DEF r, s
  <2>5. proc'[p] = r
    BY <2>3, <2>4, Only DEF IInv
  <2>6. CASE proc[p].up # "plan"
    <3>1. proc[p].cmd = "transcribe"
      BY <1>0, <2>0, <2>6, UpdateOf DEF Updating
    <3>2. Transcribing(p)'
      BY <1>0, <1>2, <2>0, <2>1, <2>4, <2>5, <2>6, <3>1 DEF Transcribing, same, At1, Updating, Made, Unprepared, Remembered
    <3>3. Opening(p)'
      BY <1>0, <1>2, <2>0, <2>1, <2>4, <2>5, <2>6 DEF Opening, same, At1
    <3> QED
      BY <1>0, <2>3, <2>4, <3>1, <3>2, <3>3, TranscribeGoes
  <2>7. CASE proc[p].up = "plan"
    <3>1. proc[p].cmd = "refresh"
      BY <1>0, <2>7, UpdateOf DEF Updating
    <3>2. Refreshing(p)'
      BY <1>0, <1>2, <2>1, <2>4, <2>5, <2>7, <3>1 DEF Refreshing, same, At1, Updating, Movable
    <3>3. Opening(p)'
      BY <1>0, <1>2, <2>1, <2>4, <2>5, <2>7 DEF Opening, same, At1
    <3>4. Transcribing(p)' /\ Retrying(p)'
      BY <2>4, <2>5, <3>1 DEF Transcribing, Retrying
    <3> QED
      BY <1>0, <2>3, <2>4, <3>2, <3>3, <3>4, GoesOn DEF Does
  <2> QED
    BY <2>6, <2>7
<1> QED
  BY <1>3, <1>4 DEF Record

------------------------------------------------------------------------------
(* The beginning and the end of an invocation *)

LEMMA OpenTranscribeStep ==
  ASSUME IInv, NEW p \in Active, OpenTranscribe(p)
  PROVE  IInv'
<1>0. proc[p].at = "open" /\ proc[p].cmd = "transcribe" /\ UNCHANGED same /\ used' = used
  BY DEF OpenTranscribe, same, At, disk
<1>1. proc[p] \in Invocations /\ p \in Procs
  BY ActiveTyped DEF IInv
<1>2. Opening(p)
  BY DEF IInv, Doing
<1>3. CASE \E how : Leave(p, how)
  BY <1>0, <1>3, Ends
<1>4. CASE Goto(p, "mkdir")
  <2> DEFINE r == [proc[p] EXCEPT !.at = "mkdir"]
  <2>1. r \in Invocations /\ proc' = [proc EXCEPT ![p] = r]
    BY <1>4, Going DEF Goto, IInv, Steps
  <2>2. /\ r.at = "mkdir" /\ r.cmd = proc[p].cmd /\ r.up = proc[p].up /\ r.held = proc[p].held
    BY <1>1 DEF Invocations
  <2> HIDE DEF r
  <2>3. proc'[p] = r
    BY <2>1, Only DEF IInv
  <2>4. Transcribing(p)' /\ Opening(p)'
    BY <1>0, <1>2, <2>2, <2>3 DEF Transcribing, Opening, same, At1
  <2> QED
    BY <1>0, <2>1, <2>2, <2>4, TranscribeGoes
<1>5. CASE /\ state # NoState /\ state.input = media /\ state.status # "complete"
           /\ proc' = [proc EXCEPT ![p].seen = state, ![p].at = "prepare"]
  <2> DEFINE r == [proc[p] EXCEPT !.seen = state, !.at = "prepare"]
  <2>1. state \in States /\ state.status = "running" /\ media \in Int
    BY <1>5, TranscriptionRunAssumption DEF IInv, Types, States, Versions
  <2>2. state.plan = NoPlan
    <3>1. state.plan # NoPlan => state.plan.target \in Int /\ state.input \in Int
      BY <2>1, TranscriptionRunAssumption DEF States, Plans, Versions
    <3> QED
      BY <1>5, <2>1, <3>1 DEF IInv, Data, Pending
  <2>3. r \in Invocations /\ proc' = [proc EXCEPT ![p] = r]
    BY <1>1, <1>5, <2>1, ZenonT(40) DEF Invocations, Steps, IInv, Types
  <2>4. /\ r.at = "prepare" /\ r.cmd = proc[p].cmd /\ r.up = proc[p].up /\ r.held = proc[p].held
        /\ r.seen = state
    BY <1>1 DEF Invocations
  <2> HIDE DEF r
  <2>5. proc'[p] = r
    BY <2>3, Only DEF IInv
  <2>6. Transcribing(p)'
    BY <1>0, <1>2, <1>5, <2>1, <2>2, <2>4, <2>5 DEF Transcribing, Opening, same, At1, Updating,
       Unprepared, Remembered, IInv, Data, Inputs
  <2>7. Opening(p)'
    BY <1>0, <1>2, <2>4, <2>5 DEF Opening, same, At1
  <2> QED
    BY <1>0, <2>3, <2>4, <2>6, <2>7, TranscribeGoes
<1> QED
  BY <1>3, <1>4, <1>5 DEF OpenTranscribe

LEMMA OpenRetryStep ==
  ASSUME IInv, NEW p \in Active, OpenRetry(p)
  PROVE  IInv'
<1>0. proc[p].at = "open" /\ proc[p].cmd = "retry" /\ UNCHANGED same /\ used' = used
  BY DEF OpenRetry, same, At, disk
<1>1. proc[p] \in Invocations /\ p \in Procs
  BY ActiveTyped DEF IInv
<1>2. Opening(p)
  BY DEF IInv, Doing
<1>3. CASE Leave(p, "refused")
  BY <1>0, <1>3, Ends
<1>4. CASE HasItem /\ proc' = [proc EXCEPT ![p] = Update(p, "retry")]
  <2> DEFINE r == Update(p, "retry")
  <2>1. /\ r \in Invocations /\ r.at = "load" /\ r.up = "retry"
        /\ r.cmd = proc[p].cmd /\ r.held = proc[p].held
    BY UpdateTyped DEF IInv, Updates
  <2> HIDE DEF r
  <2>2. proc'[p] = r /\ proc' = [proc EXCEPT ![p] = r]
    BY <1>4, <2>1, Only DEF IInv, r
  <2>3. Retrying(p)'
    BY <1>0, <1>4, <2>1, <2>2 DEF Retrying, same, HasItem, Updating
  <2>4. Opening(p)'
    BY <1>0, <1>2, <2>1, <2>2 DEF Opening, same, At1
  <2>5. Transcribing(p)' /\ Refreshing(p)'
    BY <1>0, <2>1, <2>2 DEF Transcribing, Refreshing
  <2> QED
    BY <1>0, <2>1, <2>2, <2>3, <2>4, <2>5, GoesOn DEF Does
<1> QED
  BY <1>3, <1>4 DEF OpenRetry

LEMMA OpenRefreshStep ==
  ASSUME IInv, NEW p \in Active, OpenRefresh(p)
  PROVE  IInv'
<1>0. proc[p].at = "open" /\ proc[p].cmd = "refresh" /\ UNCHANGED same /\ used' = used
  BY DEF OpenRefresh, same, At, disk
<1>1. proc[p] \in Invocations /\ p \in Procs
  BY ActiveTyped DEF IInv
<1>2. Opening(p)
  BY DEF IInv, Doing
<1>3. CASE \E how : Leave(p, how)
  BY <1>0, <1>3, Ends
<1> DEFINE plan == [revision |-> Len(state.history) + 1, target |-> media, moves |-> Movable]
<1>4. CASE /\ state # NoState /\ state.plan = NoPlan /\ state.input # media
           /\ proc' = [proc EXCEPT ![p] = [Update(p, "plan") EXCEPT !.plan = plan, !.moves = plan.moves]]
  <2> DEFINE r == [Update(p, "plan") EXCEPT !.plan = plan, !.moves = plan.moves]
  <2>1. state \in States /\ state.input < media
    <3>1. state \in States /\ state.input <= media /\ state.input \in Int /\ media \in Int
      BY <1>4, TranscriptionRunAssumption DEF IInv, Types, Data, Inputs, States, Versions
    <3> QED
      BY <1>4, <3>1
  <2>2. plan \in Plans /\ plan.moves \in SUBSET NameSet
    <3>1. Len(state.history) \in Nat
      BY <2>1 DEF States
    <3> QED
      BY <3>1 DEF Plans, Movable, IInv, Types
  <2> DEFINE m == plan.moves
             u == [Update(p, "plan") EXCEPT !.plan = plan, !.moves = m]
  <2> HIDE DEF plan, m
  <2>9. /\ u \in Invocations /\ u.at = "load" /\ u.up = "plan"
        /\ u.cmd = proc[p].cmd /\ u.held = proc[p].held /\ u.plan = plan /\ u.moves = m
    <3>1. m \in SUBSET NameSet
      BY <2>2 DEF m
    <3>2. /\ Update(p, "plan") \in Invocations /\ Update(p, "plan").at = "load"
          /\ Update(p, "plan").up = "plan" /\ Update(p, "plan").cmd = proc[p].cmd
          /\ Update(p, "plan").held = proc[p].held
      BY UpdateTyped DEF IInv, Updates
    <3> QED
      BY <2>2, <3>1, <3>2 DEF Invocations
  <2>3. /\ r \in Invocations /\ r.at = "load" /\ r.up = "plan"
        /\ r.cmd = proc[p].cmd /\ r.held = proc[p].held /\ r.plan = plan /\ r.moves = plan.moves
    BY <2>9 DEF m
  <2>4. proc' = [proc EXCEPT ![p] = r]
    BY <1>4
  <2> HIDE DEF r
  <2>5. proc'[p] = r
    BY <2>3, <2>4, Only DEF IInv
  <2>6. Refreshing(p)'
    BY <1>0, <1>4, <2>1, <2>3, <2>5, ZenonT(40) DEF Refreshing, same, At1, Updating, plan, Movable
  <2>7. Opening(p)'
    BY <1>0, <1>2, <2>3, <2>5 DEF Opening, same, At1
  <2>8. Transcribing(p)' /\ Retrying(p)'
    BY <1>0, <2>3, <2>5 DEF Transcribing, Retrying
  <2> QED
    BY <1>0, <2>3, <2>4, <2>6, <2>7, <2>8, GoesOn DEF Does
<1>5. CASE /\ state # NoState /\ state.plan # NoPlan
           /\ proc' = [proc EXCEPT ![p].plan = state.plan, ![p].moves = state.plan.moves, ![p].at = "move"]
  <2> DEFINE r == [proc[p] EXCEPT !.plan = state.plan, !.moves = state.plan.moves, !.at = "move"]
  <2>1. state \in States /\ state.plan \in Plans /\ state.plan.moves \in SUBSET NameSet
    BY <1>5 DEF IInv, Types, States, Plans
  <2>2. /\ r \in Invocations /\ r.at = "move" /\ r.up = proc[p].up
        /\ r.cmd = proc[p].cmd /\ r.held = proc[p].held /\ r.plan = state.plan /\ r.moves = state.plan.moves
    BY <1>1, <2>1 DEF Invocations, Steps
  <2>3. proc' = [proc EXCEPT ![p] = r]
    BY <1>1, <1>5 DEF IInv, Types
  <2> HIDE DEF r
  <2>4. proc'[p] = r
    BY <2>2, <2>3, Only DEF IInv
  <2>5. \A n \in NameSet : files[n].on => n \in state.plan.moves
    BY <1>5 DEF IInv, Data, Pending
  <2>6. Refreshing(p)'
    BY <1>0, <1>5, <2>2, <2>4, <2>5 DEF Refreshing, same, At1, Updating
  <2>7. Opening(p)'
    BY <1>0, <1>2, <2>2, <2>4 DEF Opening, same, At1
  <2>8. Transcribing(p)' /\ Retrying(p)'
    BY <1>0, <2>2, <2>4 DEF Transcribing, Retrying
  <2> QED
    BY <1>0, <2>2, <2>3, <2>6, <2>7, <2>8, GoesOn DEF Does
<1> QED
  BY <1>3, <1>4, <1>5 DEF OpenRefresh

LEMMA StartStep ==
  ASSUME IInv, Beside', NEW p \in Procs, Start(p)
  PROVE  IInv'
<1>1. proc[p].at = "off"
  BY DEF Start, At
<1>2. PICK cmd \in Commands : proc' = [proc EXCEPT ![p] =
                  [at |-> "open", cmd |-> cmd, seen |-> NoState, up |-> "none", attempt |-> 0,
                   transient |-> FALSE, failing |-> FALSE, held |-> FALSE, content |-> 0,
                   plan |-> NoPlan, moves |-> {}, read |-> NewJournal]]
  BY DEF Start
<1> DEFINE r == [at |-> "open", cmd |-> cmd, seen |-> NoState, up |-> "none", attempt |-> 0,
                   transient |-> FALSE, failing |-> FALSE, held |-> FALSE, content |-> 0,
                   plan |-> NoPlan, moves |-> {}, read |-> NewJournal]
<1>3. r \in Invocations
  BY Marked DEF Invocations, Steps, NewJournal, Journals
<1>4. /\ r.at = "open" /\ ~r.held /\ r.cmd = cmd /\ r.up = "none"
  OBVIOUS
<1>5. proc' = [proc EXCEPT ![p] = r]
  BY <1>2
<1> HIDE DEF r
<1>6. UNCHANGED same /\ used.run < MaxRuns /\ used' = [used EXCEPT !.run = @ + 1]
  BY DEF Start, same, Spend, disk, ghosts
<1>7. /\ used.run \in Nat /\ MaxRuns \in Nat /\ used'.run = used.run + 1
      /\ used' \in [run : 0..MaxRuns, crash : Nat, edit : 0..MaxEdits] /\ used'.edit = used.edit
  <2>1. used \in [run : 0..MaxRuns, crash : Nat, edit : 0..MaxEdits] /\ MaxRuns \in Nat
    BY TranscriptionRunAssumption DEF IInv, Types
  <2>2. used.run \in 0..MaxRuns /\ used.run + 1 \in 0..MaxRuns
    BY <1>6, <2>1
  <2> QED
    BY <1>6, <2>1, <2>2
<1>8. proc' \in [Procs -> {Off} \cup Invocations] /\ proc'[p] = r /\ \A q \in Procs \ {p} : proc'[q] = proc[q]
  BY <1>3, <1>5 DEF IInv, Types
<1>9. Keeping
  BY <1>6, <1>7 DEF Keeping, same
<1>10. Types'
  BY <1>6, <1>7, <1>8 DEF IInv, Types, same
<1>11. Data'
  <2>1. state # NoState => Len(state.history) \in Nat
    BY DEF IInv, Types, States
  <2> QED
    BY <1>6, <1>7, <2>1 DEF IInv, Data, Inputs, Pending, Past, Done, same, Made, Old, Completed, HasItem
<1>12. Opening(p)'
  <2>1. state # NoState => Len(state.history) \in Nat /\ Len(state.history) <= used.run
    BY DEF IInv, Types, States, Data, Past
  <2> QED
    BY <1>4, <1>6, <1>7, <1>8, <2>1 DEF Opening, same, At1
<1>13. Transcribing(p)' /\ Retrying(p)' /\ Refreshing(p)'
  BY <1>4, <1>6, <1>8 DEF Transcribing, Retrying, Refreshing, At1, Updating
<1>14. ASSUME NEW q \in Active', q # p PROVE Does(q)'
  <2>1. q \in Active /\ proc'[q] = proc[q] /\ p \in Active' /\ q \in Procs
    BY <1>4, <1>8, <1>14 DEF Active
  <2>2. proc[q].cmd = "transcribe"
    BY <1>14, <2>1 DEF Beside
  <2>3. proc[q].at = "init" => state' = state /\ \A k \in Procs \ {q} : proc'[k].at # "init"
    BY <1>4, <1>6, <1>8, <1>14, <2>1 DEF IInv, Doing, Opening, same
  <2> QED
    BY <1>9, <2>1, <2>2, <2>3, OtherKeeps
<1> QED
  BY <1>10, <1>11, <1>12, <1>13, <1>14 DEF IInv, Doing, Does

LEMMA CrashStep ==
  ASSUME IInv, NEW p \in Active, Crash(p)
  PROVE  IInv'
<1>1. /\ UNCHANGED same /\ used' = [used EXCEPT !.crash = @ + 1] /\ Leave(p, "killed")
  BY DEF Crash, same, Spend
<1>2. used'.run = used.run /\ used' \in [run : 0..MaxRuns, crash : Nat, edit : 0..MaxEdits] /\ used'.edit = used.edit
  BY <1>1 DEF IInv, Types
<1>3. Beside' /\ Doing' /\ proc' \in [Procs -> {Off} \cup Invocations]
  BY <1>1, <1>2, GoesOff
<1>4. Data'
  BY <1>1, <1>2 DEF IInv, Data, Inputs, Pending, Past, Done, same, Made, Old, Completed, HasItem
<1>5. Types'
  BY <1>1, <1>2, <1>3 DEF IInv, Types, same
<1> QED
  BY <1>3, <1>4, <1>5 DEF IInv

LEMMA EditStep ==
  ASSUME IInv, Edit
  PROVE  IInv'
<1>1. /\ media' = media + 1 /\ UNCHANGED <<dir, state, files, revisions, finished, proc>>
      /\ used' = [used EXCEPT !.edit = @ + 1] /\ used.edit < MaxEdits /\ Active = {}
  BY DEF Edit, Spend, disk, ghosts
<1>2. /\ used'.run = used.run /\ used' \in [run : 0..MaxRuns, crash : Nat, edit : 0..MaxEdits]
      /\ media' = used'.edit + 1 /\ media' \in Versions
  BY <1>1, TranscriptionRunAssumption, SMTT(40) DEF IInv, Types, Versions
<1>3. Active' = Active
  BY <1>1 DEF Active
<1>4. Types' /\ Beside' /\ Doing'
  BY <1>1, <1>2, <1>3 DEF IInv, Types, Beside, Doing
<1>5. /\ media \in Int
      /\ state # NoState => state.input \in Int /\ (state.plan # NoPlan => state.plan.target \in Int)
  BY TranscriptionRunAssumption DEF IInv, Types, States, Plans, Versions
<1>6. Inputs' /\ Pending'
  BY <1>1, <1>5 DEF IInv, Data, Inputs, Pending, Made, Completed, HasItem
<1>7. Past' /\ Done'
  BY <1>1, <1>2 DEF IInv, Data, Past, Done, Old, Made
<1> QED
  BY <1>4, <1>6, <1>7 DEF IInv, Data

LEMMA StutterStep ==
  ASSUME IInv, UNCHANGED vars
  PROVE  IInv'
<1>1. UNCHANGED same /\ used' = used /\ proc' = proc
  BY DEF vars, same, disk, ghosts
<1>2. Data'
  BY <1>1, DataSame DEF IInv
<1>3. Active' = Active
  BY <1>1 DEF Active
<1>4. Types' /\ Beside'
  BY <1>1, <1>3 DEF IInv, Types, Beside, same
<1>5. ASSUME NEW p \in Active PROVE Does(p)'
  <2>1. Does(p)
    BY DEF IInv, Doing, Does
  <2>2. proc[p].at = "write" => Draft(p, state)' = Draft(p, state)
    <3>1. proc[p].at = "write" => proc[p].up \in
            {"items", "start", "complete", "fail", "finish", "retry", "plan", "refreshed"}
      BY UpdateOf DEF Updating, Transcribing
    <3> QED
      BY <1>1, <3>1 DEF Draft, Refreshed, same
  <2> QED
    BY <1>1, <2>1, <2>2 DEF Does, Transcribing, Retrying, Refreshing, Opening, same, At1, Made, Movable,
       Unprepared, Remembered, Drafted
<1> QED
  BY <1>2, <1>3, <1>4, <1>5 DEF IInv, Doing, Does

------------------------------------------------------------------------------
(* The steps that make files *)

LEMMA MkdirStep ==
  ASSUME IInv, NEW p \in Active, Mkdir(p)
  PROVE  IInv'
<1>0. /\ proc[p].at = "mkdir" /\ UNCHANGED <<media, state, files, revisions, finished>> /\ used' = used
      /\ dir' = TRUE
  BY DEF Mkdir, At
<1>1. proc[p] \in Invocations /\ p \in Procs
  BY ActiveTyped DEF IInv
<1>2. CASE dir
  BY <1>0, <1>2, Ends DEF Mkdir, same
<1>3. CASE ~dir
  <2> DEFINE r == [proc[p] EXCEPT !.at = "init"]
  <2>1. r \in Invocations /\ proc' = [proc EXCEPT ![p] = r]
    BY <1>3, Going DEF Mkdir, Goto, IInv, Steps
  <2>2. /\ r.at = "init" /\ r.cmd = proc[p].cmd /\ r.up = proc[p].up /\ r.held = proc[p].held
    BY <1>1 DEF Invocations
  <2> HIDE DEF r
  <2>3. /\ proc'[p] = r /\ proc' \in [Procs -> {Off} \cup Invocations] /\ Beside'
        /\ \A q \in Procs \ {p} : proc'[q] = proc[q]
    BY <2>1, <2>2, Only, StaysBeside DEF IInv
  <2>4. state = NoState
    BY <1>3 DEF IInv, Data, Inputs
  <2>5. Opening(p) /\ proc[p].cmd = "transcribe"
    BY <1>0 DEF IInv, Doing, Opening
  <2>6. Does(p)'
    <3>1. \A q \in Procs \ {p} : proc'[q].at # "init"
      BY <1>3, <2>3, ActiveTyped DEF IInv, Doing, Opening, Active
    <3> QED
      BY <1>0, <2>2, <2>3, <2>4, <2>5, <3>1 DEF Does, Transcribing, Retrying, Refreshing, Opening, At1
  <2>7. Data'
    BY <1>0, <2>4 DEF IInv, Data, Inputs, Pending, Past, Done
  <2>8. Types'
    BY <1>0, <2>3 DEF IInv, Types
  <2>9. Keeping
    BY <1>0 DEF Keeping, IInv, Types
  <2>10. \A q \in Active' \ {p} : Does(q)'
    BY <1>0, <2>1, <2>6, <2>9, OthersKeep DEF Does
  <2> QED
    BY <2>3, <2>6, <2>7, <2>8, <2>10 DEF IInv, Doing, Does
<1> QED
  BY <1>2, <1>3

LEMMA InitializeStep ==
  ASSUME IInv, NEW p \in Active, Initialize(p)
  PROVE  IInv'
<1>0. /\ proc[p].at = "init" /\ UNCHANGED <<media, dir, files, revisions, finished>> /\ used' = used
      /\ state' = FirstState
  BY DEF Initialize, At
<1>1. proc[p] \in Invocations /\ p \in Procs
  BY ActiveTyped DEF IInv
<1>2. state = NoState /\ dir /\ proc[p].cmd = "transcribe" /\ ~proc[p].held /\ used.run > 0
  BY <1>0 DEF IInv, Doing, Opening
<1>3. /\ FirstState \in States /\ FirstState # NoState /\ FirstState.input = media
      /\ FirstState.item = NoItem /\ FirstState.plan = NoPlan /\ FirstState.status = "running"
      /\ FirstState.history = <<>>
  BY DEF FirstState, States, NoState, IInv, Types
<1> DEFINE r == [proc[p] EXCEPT !.seen = FirstState, !.up = "init", !.at = "repair"]
<1>4. proc' = [proc EXCEPT ![p] = r]
  BY <1>1 DEF Initialize, IInv, Types
<1>5. /\ r \in Invocations /\ r.at = "repair" /\ r.up = "init" /\ r.cmd = proc[p].cmd /\ r.held = proc[p].held
      /\ r.seen = FirstState
  BY <1>1, <1>3, ZenonT(40) DEF Invocations, Steps, Updating, Updates
<1> HIDE DEF r
<1>6. proc'[p] = r /\ proc' \in [Procs -> {Off} \cup Invocations] /\ Beside'
  BY <1>4, <1>5, Only, StaysBeside DEF IInv
<1>7. Types'
  BY <1>0, <1>3, <1>6 DEF IInv, Types
<1>8. Does(p)'
  BY <1>0, <1>2, <1>3, <1>5, <1>6 DEF Does, Transcribing, Retrying, Refreshing, Opening, At1, Updating,
       Unprepared, Remembered
<1>9. media \in Int
  BY TranscriptionRunAssumption DEF IInv, Types, Versions
<1>10. Inputs'
  BY <1>0, <1>2, <1>3, <1>9 DEF IInv, Data, Inputs, Completed, HasItem, NameSet
<1>11. Past'
  <2>1. \A q \in 1..MaxRuns, n \in NameSet : revisions'[q][n] = NoFile
    BY <1>0, <1>2 DEF IInv, Data, Inputs
  <2>2. Len(state'.history) = 0 /\ used'.run \in Nat
    BY <1>0, <1>3 DEF IInv, Types
  <2>3. Len(state'.history) <= used'.run /\ \A i \in 1..Len(state'.history) : state'.history[i].revision = i
    BY <2>2
  <2> QED
    BY <2>1, <2>3 DEF Past
<1>12. Pending' /\ Done'
  BY <1>0, <1>2, <1>3 DEF IInv, Data, Pending, Done
<1>13. Keeping
  BY <1>0, <1>2 DEF Keeping, IInv, Types
<1>14. \A q \in Active' \ {p} : Does(q)'
  BY <1>0, <1>4, <1>5, <1>13, OthersKeep
<1> QED
  BY <1>6, <1>7, <1>8, <1>10, <1>11, <1>12, <1>14 DEF IInv, Data, Doing, Does

\* A transcribe makes one file, or the folder of the results.
LEMMA MakesFile ==
  ASSUME IInv, NEW p \in Active, proc[p].cmd = "transcribe", proc[p].at \notin {"open", "mkdir", "init"},
         NEW n \in NameSet, NEW f, files' = [files EXCEPT ![n] = f],
         f = Made \/ f = files[n] \/ (n = "chunk_results" /\ f = Folder /\ ~files[n].on),
         UNCHANGED <<media, dir, state, revisions, finished>>, used' = used
  PROVE  /\ Data' /\ Keeping /\ files' \in [NameSet -> {NoFile} \cup Stored]
         /\ files'[n] = f /\ \A m \in NameSet \ {n} : files'[m] = files[m]
<1>1. Transcribing(p)
  BY DEF IInv, Doing
<1>2. state # NoState /\ state.plan = NoPlan
  BY <1>1 DEF Transcribing
<1>3. state \in States /\ state.input \in Marks
  BY <1>2, Marked DEF IInv, Types, States
<1>4. Made \in Stored /\ Made.on /\ Made.of = state.input /\ ~NoFile.on /\ Folder \in Stored
  BY <1>3, Marked DEF Made
<1>5. f \in {NoFile} \cup Stored
  BY <1>4 DEF IInv, Types
<1>6. /\ files' \in [NameSet -> {NoFile} \cup Stored]
      /\ files'[n] = f /\ \A m \in NameSet \ {n} : files'[m] = files[m]
  BY <1>5 DEF IInv, Types
<1>7. Made' = Made /\ Completed' = Completed
  BY DEF Made, Completed, HasItem
<1>8. Inputs'
  BY <1>2, <1>4, <1>6, <1>7 DEF IInv, Data, Inputs, NameSet
<1>9. Pending'
  BY <1>2 DEF Pending
<1>10. Past'
  BY <1>2, <1>7 DEF IInv, Data, Past, Old
<1>11. Done'
  <2>1. CASE n = "transcript"
    <3>1. f = Made \/ f = files["transcript"]
      BY <2>1
    <3>2. files["transcript"].on => files["transcript"] = Made
      BY <1>2, <1>4 DEF IInv, Data, Inputs
    <3> QED
      BY <1>4, <1>6, <2>1, <3>1, <3>2 DEF IInv, Data, Done
  <2>2. CASE n # "transcript"
    <3>1. files'["transcript"] = files["transcript"]
      BY <1>6, <2>2 DEF NameSet
    <3> QED
      BY <3>1 DEF IInv, Data, Done
  <2> QED
    BY <2>1, <2>2
<1>12. Keeping
  BY <1>2, <1>4, <1>6 DEF Keeping, IInv, Types
<1> QED
  BY <1>6, <1>8, <1>9, <1>10, <1>11, <1>12 DEF Data

\* ... and goes on to the record r.
LEMMA MakesGoes ==
  ASSUME IInv, NEW p \in Active, NEW r \in Invocations, proc' = [proc EXCEPT ![p] = r],
         UNCHANGED <<media, dir, state, revisions, finished>>, used' = used,
         Data', Keeping, files' \in [NameSet -> {NoFile} \cup Stored],
         r.cmd = "transcribe", proc[p].cmd = "transcribe", Transcribing(p)', Opening(p)'
  PROVE  IInv'
<1>1. proc'[p] = r /\ proc' \in [Procs -> {Off} \cup Invocations] /\ Beside'
  BY Only, StaysBeside DEF IInv
<1>2. Types'
  BY <1>1 DEF IInv, Types
<1>3. Retrying(p)' /\ Refreshing(p)'
  BY <1>1 DEF Retrying, Refreshing
<1>4. \A q \in Active' \ {p} : Does(q)'
  BY OthersKeep
<1> QED
  BY <1>1, <1>2, <1>3, <1>4 DEF IInv, Doing, Does

LEMMA PrepareStep ==
  ASSUME IInv, NEW p \in Active, Prepare(p)
  PROVE  IInv'
<1>0. /\ proc[p].at = "prepare" /\ UNCHANGED <<media, dir, state, revisions, finished>> /\ used' = used
  BY DEF Prepare, At, ghosts
<1>1. proc[p] \in Invocations /\ p \in Procs
  BY ActiveTyped DEF IInv
<1>2. proc[p].cmd = "transcribe" /\ Transcribing(p) /\ Opening(p)
  BY <1>0, CommandOf DEF IInv, Doing, Updating
<1>3. state # NoState /\ state.input = media /\ ~proc[p].held /\ state.plan = NoPlan
  BY <1>0, <1>2 DEF Transcribing, At1, Updating, Unprepared, Remembered
<1> DEFINE f == IF files["audio"].on THEN files["audio"] ELSE Made
<1>4. files' = [files EXCEPT !["audio"] = f]
  BY <1>3 DEF Prepare, Made, IInv, Types, NameSet
<1>5. Data' /\ Keeping /\ files' \in [NameSet -> {NoFile} \cup Stored] /\ files'["audio"] = f
  BY <1>0, <1>2, <1>4, MakesFile DEF NameSet
<1>6. f = Made
  BY <1>3, Marked DEF IInv, Data, Inputs
<1> HIDE DEF f
<1>7. Made' = Made
  BY <1>0 DEF Made
<1>8. CASE proc[p].seen.item = NoItem /\ proc' = [proc EXCEPT ![p] = Update(p, "items")]
  <2> DEFINE r == Update(p, "items")
  <2>1. /\ r \in Invocations /\ r.at = "load" /\ r.up = "items"
        /\ r.cmd = proc[p].cmd /\ r.seen = proc[p].seen /\ r.held = proc[p].held
    BY UpdateTyped DEF IInv, Updates
  <2> HIDE DEF r
  <2>2. proc' = [proc EXCEPT ![p] = r]
    BY <1>8 DEF r
  <2>3. proc'[p] = r
    BY <2>1, <2>2, Only DEF IInv
  <2>4. Transcribing(p)'
    BY <1>0, <1>2, <1>3, <1>5, <1>6, <1>7, <2>1, <2>3 DEF Transcribing, At1, Updating, Unprepared, Remembered
  <2>5. Opening(p)'
    BY <1>0, <1>2, <2>1, <2>3 DEF Opening, At1
  <2> QED
    BY <1>0, <1>2, <1>5, <2>1, <2>2, <2>4, <2>5, MakesGoes
<1>9. CASE proc[p].seen.item # NoItem /\ Goto(p, "lock")
  <2> DEFINE r == [proc[p] EXCEPT !.at = "lock"]
  <2>1. r \in Invocations /\ proc' = [proc EXCEPT ![p] = r]
    BY <1>9, Going DEF Goto, IInv, Steps
  <2>2. /\ r.at = "lock" /\ r.cmd = proc[p].cmd /\ r.up = proc[p].up /\ r.held = proc[p].held
        /\ r.seen = proc[p].seen
    BY <1>1 DEF Invocations
  <2> HIDE DEF r
  <2>3. proc'[p] = r
    BY <2>1, Only DEF IInv
  <2>4. Transcribing(p)'
    BY <1>0, <1>2, <1>3, <1>9, <2>2, <2>3 DEF Transcribing, At1, Updating, Unprepared, Remembered
  <2>5. Opening(p)'
    BY <1>0, <1>2, <2>2, <2>3 DEF Opening, At1
  <2> QED
    BY <1>0, <1>2, <1>5, <2>1, <2>2, <2>4, <2>5, MakesGoes
<1> QED
  BY <1>3, <1>8, <1>9 DEF Prepare

LEMMA AcquireStep ==
  ASSUME IInv, NEW p \in Active, Acquire(p)
  PROVE  IInv'
<1>0. /\ proc[p].at = "lock" /\ UNCHANGED <<media, dir, state, revisions, finished>> /\ used' = used
  BY DEF Acquire, At, ghosts
<1>1. proc[p] \in Invocations /\ p \in Procs
  BY ActiveTyped DEF IInv
<1>2. proc[p].cmd = "transcribe" /\ Transcribing(p) /\ Opening(p)
  BY <1>0, CommandOf DEF IInv, Doing, Updating
<1> DEFINE f == IF files["chunk_results"].on THEN files["chunk_results"] ELSE Folder
<1>4. files' = [files EXCEPT !["chunk_results"] = f]
  BY DEF Acquire, IInv, Types, NameSet
<1>5. Data' /\ Keeping /\ files' \in [NameSet -> {NoFile} \cup Stored]
  BY <1>0, <1>2, <1>4, MakesFile DEF NameSet
<1> HIDE DEF f
<1>6. PICK s \in {"stamp", "inspect"} : Goto(p, s)
  BY DEF Acquire
<1> DEFINE r == [proc[p] EXCEPT !.at = s]
<1>7. r \in Invocations /\ proc' = [proc EXCEPT ![p] = r]
  BY <1>6, Going DEF Goto, IInv, Steps
<1>8. /\ r.at = s /\ r.cmd = proc[p].cmd /\ r.up = proc[p].up /\ r.held = proc[p].held
      /\ r.seen = proc[p].seen
  BY <1>1 DEF Invocations
<1> HIDE DEF r
<1>9. proc'[p] = r
  BY <1>7, Only DEF IInv
<1>10. Transcribing(p)'
  BY <1>0, <1>2, <1>6, <1>8, <1>9 DEF Transcribing, At1, Updating, Unprepared, Remembered
<1>11. Opening(p)'
  BY <1>0, <1>2, <1>6, <1>8, <1>9 DEF Opening, At1
<1> QED
  BY <1>0, <1>2, <1>5, <1>7, <1>8, <1>10, <1>11, MakesGoes

LEMMA ResultStep ==
  ASSUME IInv, NEW p \in Active, Result(p)
  PROVE  IInv'
<1>0. /\ proc[p].at = "result" /\ UNCHANGED <<media, dir, state, revisions, finished>> /\ used' = used
      /\ files' = [files EXCEPT !["chunk_results"] = File(proc[p].content, proc[p].seen.item.sha)]
      /\ proc' = [proc EXCEPT ![p] = Update(p, "complete")]
  BY DEF Result, At, ghosts
<1>1. proc[p].cmd = "transcribe" /\ Transcribing(p) /\ Opening(p)
  BY <1>0, CommandOf DEF IInv, Doing, Updating
<1>2. /\ state # NoState /\ proc[p].seen.item.sha = state.input /\ proc[p].content = state.input
  BY <1>0, <1>1 DEF Transcribing, At1, Updating, Unprepared, Remembered
<1>3. File(proc[p].content, proc[p].seen.item.sha) = Made
  BY <1>2 DEF Made, IInv, Data, Inputs
<1>4. Data' /\ Keeping /\ files' \in [NameSet -> {NoFile} \cup Stored] /\ files'["chunk_results"] = Made
  BY <1>0, <1>1, <1>3, MakesFile DEF NameSet
<1> DEFINE r == Update(p, "complete")
<1>5. /\ r \in Invocations /\ r.at = "load" /\ r.up = "complete"
      /\ r.cmd = proc[p].cmd /\ r.seen = proc[p].seen /\ r.held = proc[p].held
  BY UpdateTyped DEF IInv, Updates
<1> HIDE DEF r
<1>6. proc' = [proc EXCEPT ![p] = r] /\ Made' = Made
  BY <1>0 DEF r, Made
<1>7. proc'[p] = r
  BY <1>5, <1>6, Only DEF IInv
<1>8. Transcribing(p)'
  BY <1>0, <1>1, <1>4, <1>5, <1>6, <1>7 DEF Transcribing, At1, Updating, Unprepared, Remembered
<1>9. Opening(p)'
  BY <1>0, <1>1, <1>5, <1>7 DEF Opening, At1
<1> QED
  BY <1>0, <1>1, <1>4, <1>5, <1>6, <1>8, <1>9, MakesGoes

LEMMA OutputStep ==
  ASSUME IInv, NEW p \in Active, Output(p)
  PROVE  IInv'
<1>0. /\ proc[p].at = "output" /\ UNCHANGED <<media, dir, state, revisions, finished>> /\ used' = used
      /\ files' = [files EXCEPT !["transcript"] = File(proc[p].content, proc[p].content)]
      /\ proc' = [proc EXCEPT ![p] = Update(p, "finish")]
  BY DEF Output, At, ghosts
<1>1. proc[p].cmd = "transcribe" /\ Transcribing(p) /\ Opening(p)
  BY <1>0, CommandOf DEF IInv, Doing, Updating
<1>2. File(proc[p].content, proc[p].content) = Made /\ ~proc[p].held
  BY <1>0, <1>1 DEF Made, Transcribing, At1, Updating
<1>3. Data' /\ Keeping /\ files' \in [NameSet -> {NoFile} \cup Stored] /\ files'["transcript"] = Made
  BY <1>0, <1>1, <1>2, MakesFile DEF NameSet
<1> DEFINE r == Update(p, "finish")
<1>4. /\ r \in Invocations /\ r.at = "load" /\ r.up = "finish"
      /\ r.cmd = proc[p].cmd /\ r.seen = proc[p].seen /\ r.held = proc[p].held
  BY UpdateTyped DEF IInv, Updates
<1> HIDE DEF r
<1>5. proc' = [proc EXCEPT ![p] = r] /\ Made' = Made
  BY <1>0 DEF r, Made
<1>6. proc'[p] = r
  BY <1>4, <1>5, Only DEF IInv
<1>7. Transcribing(p)'
  BY <1>0, <1>1, <1>2, <1>3, <1>4, <1>5, <1>6 DEF Transcribing, At1, Updating, Unprepared, Remembered
<1>8. Opening(p)'
  BY <1>0, <1>1, <1>4, <1>6 DEF Opening, At1
<1> QED
  BY <1>0, <1>1, <1>3, <1>4, <1>5, <1>7, <1>8, MakesGoes

------------------------------------------------------------------------------
(* Writes of the state *)

\* A write that keeps the input, the plan and the history.
LEMMA KeepsInput ==
  ASSUME IInv, NEW s \in States, state \in States, state' = s,
         s.input = state.input, s.plan = state.plan, s.history = state.history,
         s.item # NoItem => s.item.sha = state.input,
         s.item # NoItem /\ s.item.status = "completed" /\ s.plan = NoPlan => files["chunk_results"] = Made,
         s.status = "complete" => files["transcript"] = Made,
         s.plan # NoPlan => s.status = "running",
         finished' = finished \/ (finished' = finished \cup {s.input} /\ files["transcript"] = Made),
         UNCHANGED <<media, dir, files, revisions>>, used' = used
  PROVE  Data' /\ finished' \subseteq Versions
<1>1. state # NoState /\ s # NoState /\ Made' = Made
  BY DEF States, NoState, Made
<1>2. Made.on /\ Made.of = state.input
  BY Marked DEF Made, States
<1>3. Inputs'
  BY <1>1 DEF IInv, Data, Inputs, Completed, HasItem
<1>4. Pending'
  BY <1>1 DEF IInv, Data, Pending
<1>5. Past'
  BY <1>1 DEF IInv, Data, Past, Old
<1>6. Done'
  BY <1>1, <1>2 DEF IInv, Data, Done
<1>7. finished' \subseteq Versions
  BY DEF IInv, Types, States
<1> QED
  BY <1>3, <1>4, <1>5, <1>6, <1>7 DEF Data

\* The write that makes a plan.
LEMMA MakesPlan ==
  ASSUME IInv, NEW p \in Active, proc[p].at = "write", proc[p].up = "plan",
         state' = Draft(p, state), finished' = finished,
         UNCHANGED <<media, dir, files, revisions>>, used' = used
  PROVE  Data'
<1>1. state \in States /\ Refreshing(p) /\ proc[p].cmd = "refresh"
  BY UpdateOf DEF Updating
<1>2. /\ state.plan = NoPlan /\ state.input < media
      /\ proc[p].plan = [revision |-> Len(state.history) + 1, target |-> media, moves |-> Movable]
  BY <1>1 DEF Refreshing, At1
<1> DEFINE plan == proc[p].plan
<1>3. Draft(p, state) = [state EXCEPT !.status = "running", !.plan = plan]
  BY DEF Draft
<1>4. /\ state'.status = "running" /\ state'.plan = plan /\ state'.input = state.input
      /\ state'.item = state.item /\ state'.history = state.history /\ state' # NoState /\ state # NoState
  <2> HIDE DEF plan
  <2>1. /\ state'.status = "running" /\ state'.plan = plan /\ state'.input = state.input
        /\ state'.item = state.item /\ state'.history = state.history
    BY <1>1, <1>3 DEF States
  <2> QED
    BY <1>1, <2>1 DEF States, NoState
<1>5. Len(state.history) \in Nat
  BY <1>1 DEF States
<1>6. plan.revision = Len(state.history) + 1 /\ plan.target = media /\ plan.moves = Movable
  BY <1>2
<1>7. plan # NoPlan
  BY <1>5, <1>6 DEF NoPlan
<1>8. Made' = Made
  BY <1>4 DEF Made
<1> HIDE DEF plan
<1>9. Inputs'
  BY <1>4, <1>7, <1>8 DEF IInv, Data, Inputs, Completed, HasItem
<1>10. \A n \in NameSet, r \in 1..MaxRuns : r = plan.revision => revisions[r][n] = NoFile
  BY <1>2, <1>4, <1>5, <1>6, TranscriptionRunAssumption DEF IInv, Data, Past
<1>11. media \in Int
  BY TranscriptionRunAssumption DEF IInv, Types, Versions
<1>12. Pending'
  BY <1>2, <1>4, <1>6, <1>10, <1>11 DEF Pending, Movable
<1>13. Past'
  BY <1>2, <1>4, <1>7, <1>8 DEF IInv, Data, Past, Old
<1>14. Done'
  BY DEF IInv, Data, Done
<1> QED
  BY <1>9, <1>12, <1>13, <1>14 DEF Data

\* The write that ends a refresh.
LEMMA EndsRefresh ==
  ASSUME IInv, NEW p \in Active, proc[p].at = "write", proc[p].up = "refreshed",
         state' = Draft(p, state), finished' = finished,
         UNCHANGED <<media, dir, files, revisions>>, used' = used
  PROVE  Data'
<1>1. state \in States /\ Refreshing(p) /\ Opening(p) /\ proc[p].cmd = "refresh"
  BY UpdateOf DEF Updating, IInv, Doing
<1>2. /\ state.plan = proc[p].plan /\ state.plan # NoPlan /\ state # NoState
      /\ \A n \in NameSet : files[n] = NoFile
  BY <1>1 DEF Refreshing, At1, States, NoState
<1>3. /\ state.input < state.plan.target /\ state.plan.target <= media
      /\ state.plan.revision = Len(state.history) + 1
  BY <1>2 DEF IInv, Data, Pending
<1> DEFINE e == [input |-> state.input, revision |-> state.plan.revision]
<1>4. Draft(p, state) = [state EXCEPT !.status = "running", !.plan = NoPlan, !.item = NoItem,
                           !.input = state.plan.target, !.history = Append(state.history, e)]
  BY <1>1, <1>2 DEF Draft, Refreshed, States
<1>5. /\ state'.status = "running" /\ state'.plan = NoPlan /\ state'.item = NoItem
      /\ state'.input = state.plan.target /\ state'.history = Append(state.history, e) /\ state' # NoState
  BY <1>1, <1>4 DEF States, NoState
<1>6. state.history \in Seq(Entries) /\ Len(state.history) \in Nat /\ e.input = state.input
      /\ e.revision = Len(state.history) + 1
  BY <1>1, <1>3 DEF States
<1> HIDE DEF e
<1>7. /\ Len(state'.history) = Len(state.history) + 1
      /\ \A i \in 1..Len(state.history) : state'.history[i] = state.history[i]
      /\ state'.history[Len(state.history) + 1] = e
  BY <1>5, <1>6
<1>8. Len(state.history) < used.run /\ used.run \in Nat
  BY <1>1, <1>2 DEF Opening, At1, IInv, Types
<1>9. Inputs'
  BY <1>2, <1>3, <1>5 DEF IInv, Data, Inputs, Completed, HasItem, NameSet
<1>10. Pending'
  BY <1>5 DEF Pending
<1>11. Past'
  <2>1. \A i \in 1..Len(state'.history) : state'.history[i].revision = i
    BY <1>2, <1>6, <1>7, SMTT(40) DEF IInv, Data, Past
  <2>2. ASSUME NEW r \in 1..MaxRuns, NEW n \in NameSet
        PROVE  \/ /\ r <= Len(state'.history)
                  /\ revisions[r][n] \in {NoFile, Folder, File(state'.history[r].input, state'.history[r].input)}
               \/ revisions[r][n] = NoFile
    <3>1. CASE revisions[r][n] = NoFile
      BY <3>1
    <3>2. CASE /\ r <= Len(state.history)
               /\ revisions[r][n] \in {NoFile, Folder, File(state.history[r].input, state.history[r].input)}
      BY <1>6, <1>7, <3>2
    <3>3. CASE r = Len(state.history) + 1 /\ Old(revisions[r][n])
      BY <1>6, <1>7, <3>3 DEF Old, Made
    <3> QED
      BY <1>2, <3>1, <3>2, <3>3 DEF IInv, Data, Past
  <2>3. Len(state'.history) <= used'.run
    BY <1>6, <1>7, <1>8
  <2> QED
    BY <2>1, <2>2, <2>3 DEF Past
<1>12. Done'
  BY DEF IInv, Data, Done
<1> QED
  BY <1>9, <1>10, <1>11, <1>12 DEF Data

\* Every write of an update.
LEMMA WriteStep ==
  ASSUME IInv, NEW p \in Active, Write(p)
  PROVE  IInv'
<1>0. /\ proc[p].at = "write" /\ UNCHANGED <<media, dir, files, revisions>> /\ used' = used
      /\ state' = proc[p].seen /\ Goto(p, "repair")
      /\ finished' = finished \cup (IF proc[p].up = "finish" THEN {proc[p].seen.input} ELSE {})
  BY DEF Write, At
<1>1. proc[p] \in Invocations /\ p \in Procs
  BY ActiveTyped DEF IInv
<1>2. Transcribing(p) /\ Retrying(p) /\ Refreshing(p) /\ Opening(p)
  BY DEF IInv, Doing
<1> DEFINE s == proc[p].seen
           r == [proc[p] EXCEPT !.at = "repair"]
<1>3. state \in States
  BY <1>0, UpdateOf DEF Updating
<1>4. s # NoState /\ (proc[p].cmd # "transcribe" => s = Draft(p, state))
  <2>1. CASE proc[p].cmd = "transcribe"
    BY <1>0, <1>2, <2>1 DEF Transcribing, Drafted
  <2>2. CASE proc[p].cmd # "transcribe"
    <3>1. s = Draft(p, state)
      BY <1>0, <1>2, <2>2, CommandOf DEF Retrying, Refreshing
    <3> QED
      BY <1>0, <2>2, <3>1, DraftTyped DEF States, NoState
  <2> QED
    BY <2>1, <2>2
<1>5. r \in Invocations /\ proc' = [proc EXCEPT ![p] = r]
  BY <1>0, Going DEF Goto, IInv, Steps, Updating
<1>6. /\ r.at = "repair" /\ r.up = proc[p].up /\ r.cmd = proc[p].cmd /\ r.seen = s
      /\ r.held = proc[p].held /\ r.plan = proc[p].plan /\ r.moves = proc[p].moves
  BY <1>1 DEF Invocations
<1>7. state # NoState /\ s \in States /\ state' = s
  BY <1>0, <1>1, <1>3, <1>4 DEF States, NoState, Invocations
<1> HIDE DEF r, s
<1>8. proc'[p] = r /\ proc' \in [Procs -> {Off} \cup Invocations] /\ Beside'
  BY <1>5, <1>6, Only, StaysBeside DEF IInv
<1>9. proc[p].cmd # "transcribe" => \A q \in Active' : q = p
  BY <1>5, Alone
<1>10. SUFFICES /\ Data' /\ finished' \subseteq Versions /\ Does(p)'
                /\ proc[p].cmd = "transcribe" => Keeping
  <2>1. ASSUME proc[p].cmd = "transcribe" => Keeping
        PROVE  \A q \in Active' \ {p} : Does(q)'
    BY <1>5, <1>6, <1>7, <1>9, <2>1, OthersKeep
  <2> QED
    BY <1>0, <1>7, <1>8, <2>1 DEF IInv, Types, Doing, Does
<1>11. CASE proc[p].cmd = "transcribe" /\ proc[p].up \in {"items", "start", "complete", "fail", "finish"}
  <2>1. state.plan = NoPlan /\ state.input = media /\ Drafted(s)
    BY <1>0, <1>2, <1>11 DEF Transcribing, s
  <2>2. proc[p].up = "finish" => files["transcript"] = Made
    BY <1>0, <1>2, <1>11 DEF Transcribing, At1
  <2>3. finished' = finished \/ (finished' = finished \cup {s.input} /\ files["transcript"] = Made)
    BY <1>0, <2>2 DEF s
  <2>4. Data' /\ finished' \subseteq Versions
    BY <1>0, <1>3, <1>7, <2>1, <2>3, KeepsInput DEF Drafted
  <2>5. Transcribing(p)'
    BY <1>0, <1>2, <1>4, <1>6, <1>7, <1>8, <1>11, <2>1 DEF Transcribing, At1, Updating, Drafted, Remembered
  <2>6. Opening(p)'
    BY <1>0, <1>2, <1>6, <1>7, <1>8, <1>11, <2>1 DEF Opening, At1, Drafted
  <2>7. Retrying(p)' /\ Refreshing(p)'
    BY <1>6, <1>8, <1>11 DEF Retrying, Refreshing
  <2>8. Keeping
    BY <1>0, <1>7, <2>1 DEF Keeping, Drafted, IInv, Types
  <2> QED
    BY <2>4, <2>5, <2>6, <2>7, <2>8 DEF Does
<1>12. CASE proc[p].cmd = "retry" /\ proc[p].up = "retry"
  <2>1. state.item # NoItem /\ state.item \in Items /\ state.item.sha = state.input
    BY <1>0, <1>2, <1>3, <1>7, <1>12 DEF Retrying, States, IInv, Data, Inputs
  <2>2. s = [state EXCEPT !.status = "running", !.item = Item(0, state.item.sha)]
    BY <1>3, <1>4, <1>12, <2>1 DEF Draft, States
  <2>3. Item(0, state.item.sha).status = "pending" /\ Item(0, state.item.sha).sha = state.item.sha
    BY DEF Item
  <2> DEFINE i == Item(0, state.item.sha)
  <2> HIDE DEF i
  <2>4. /\ s.input = state.input /\ s.plan = state.plan /\ s.history = state.history
        /\ s.item = i /\ s.status = "running"
    BY <1>3, <2>2 DEF States, i
  <2>5. s.item.status = "pending" /\ s.item.sha = state.input /\ s.item # NoItem
    BY <2>1, <2>3, <2>4 DEF i, NoItem
  <2>6. finished' = finished
    BY <1>0, <1>12
  <2>7. Data' /\ finished' \subseteq Versions
    BY <1>0, <1>3, <1>7, <2>4, <2>5, <2>6, KeepsInput
  <2>8. Retrying(p)'
    BY <1>4, <1>6, <1>7, <1>8, <1>12, <2>5 DEF Retrying, Updating
  <2>9. Opening(p)'
    BY <1>0, <1>2, <1>4, <1>6, <1>7, <1>8, <1>12, <2>4 DEF Opening, At1
  <2>10. Transcribing(p)' /\ Refreshing(p)'
    BY <1>6, <1>8, <1>12 DEF Transcribing, Refreshing
  <2> QED
    BY <1>12, <2>7, <2>8, <2>9, <2>10 DEF Does
<1>13. CASE proc[p].cmd = "refresh" /\ proc[p].up = "plan"
  <2>1. finished' = finished /\ finished \subseteq Versions
    BY <1>0, <1>13 DEF IInv, Types
  <2>2. Data'
    BY <1>0, <1>4, <1>7, <1>13, <2>1, MakesPlan 
  <2>3. /\ state.plan = NoPlan /\ proc[p].moves = Movable
        /\ proc[p].plan = [revision |-> Len(state.history) + 1, target |-> media, moves |-> Movable]
    BY <1>0, <1>2, <1>13 DEF Refreshing, At1
  <2>4. s.plan = proc[p].plan /\ s.history = state.history /\ proc[p].plan # NoPlan
    <3>1. s = [state EXCEPT !.status = "running", !.plan = proc[p].plan]
      BY <1>4, <1>13 DEF Draft
    <3>2. Len(state.history) + 1 # 0
      BY <1>3 DEF States
    <3> QED
      BY <1>3, <2>3, <3>1, <3>2 DEF States, NoPlan
  <2>5. Refreshing(p)'
    BY <1>0, <1>4, <1>6, <1>7, <1>8, <1>13, <2>3, <2>4 DEF Refreshing, At1, Updating, Movable
  <2>6. Opening(p)'
    BY <1>0, <1>2, <1>4, <1>6, <1>7, <1>8, <1>13, <2>4 DEF Opening, At1
  <2>7. Transcribing(p)' /\ Retrying(p)'
    BY <1>6, <1>8, <1>13 DEF Transcribing, Retrying
  <2> QED
    BY <1>13, <2>1, <2>2, <2>5, <2>6, <2>7 DEF Does
<1>14. CASE proc[p].cmd = "refresh" /\ proc[p].up = "refreshed"
  <2>1. finished' = finished /\ finished \subseteq Versions
    BY <1>0, <1>14 DEF IInv, Types
  <2>2. Data'
    BY <1>0, <1>4, <1>7, <1>14, <2>1, EndsRefresh 
  <2>5. Refreshing(p)'
    BY <1>4, <1>6, <1>7, <1>8, <1>14 DEF Refreshing, At1, Updating
  <2>6. Opening(p)'
    BY <1>0, <1>2, <1>6, <1>8, <1>14 DEF Opening, At1
  <2>7. Transcribing(p)' /\ Retrying(p)'
    BY <1>6, <1>8, <1>14 DEF Transcribing, Retrying
  <2> QED
    BY <1>14, <2>1, <2>2, <2>5, <2>6, <2>7 DEF Does
<1> QED
  BY <1>0, <1>2, <1>11, <1>12, <1>13, <1>14, UpdateOf DEF Updating, Transcribing

------------------------------------------------------------------------------
(* The moves of a refresh *)

\* A file that is moved goes into the revision of the plan.
LEMMA MovesFile ==
  ASSUME IInv, state \in States, state.plan # NoPlan, NEW n \in NameSet, NEW k \in 1..MaxRuns,
         k = state.plan.revision, files[n].on,
         revisions' = [revisions EXCEPT ![k][n] = files[n]], files' = [files EXCEPT ![n] = NoFile],
         UNCHANGED <<media, dir, state, finished>>, used' = used
  PROVE  /\ Data' /\ files' \in [NameSet -> {NoFile} \cup Stored]
         /\ revisions' \in [1..MaxRuns -> [NameSet -> {NoFile} \cup Stored]]
         /\ files'[n] = NoFile /\ \A m \in NameSet \ {n} : files'[m] = files[m]
<1>1. /\ files' \in [NameSet -> {NoFile} \cup Stored]
      /\ files'[n] = NoFile /\ \A m \in NameSet \ {n} : files'[m] = files[m]
  BY DEF IInv, Types
<1>2. /\ revisions' \in [1..MaxRuns -> [NameSet -> {NoFile} \cup Stored]]
      /\ revisions'[k][n] = files[n]
      /\ \A r \in 1..MaxRuns, m \in NameSet : r # k \/ m # n => revisions'[r][m] = revisions[r][m]
  BY DEF IInv, Types
<1>3. state # NoState /\ Made' = Made /\ ~NoFile.on
  BY Marked DEF States, NoState, Made
<1>4. Old(files[n]) /\ state.status = "running" /\ k = Len(state.history) + 1
  BY <1>3 DEF IInv, Data, Inputs, Pending, Old, NameSet
<1>5. revisions[k][n] = NoFile
  BY <1>3 DEF IInv, Data, Pending
<1>6. Inputs'
  BY <1>1, <1>3, <1>4 DEF IInv, Data, Inputs, NameSet
<1>7. Pending'
  BY <1>1, <1>2, <1>3 DEF IInv, Data, Pending
<1>8. Past'
  BY <1>2, <1>3, <1>4 DEF IInv, Data, Past, Old
<1>9. Done'
  <2>1. ASSUME NEW v \in finished, files["transcript"].on, files["transcript"].of = v
        PROVE  \/ files'["transcript"].on /\ files'["transcript"].of = v
               \/ \E r \in 1..MaxRuns : revisions'[r]["transcript"].on /\ revisions'[r]["transcript"].of = v
    BY <1>1, <1>2, <2>1 DEF NameSet
  <2>2. ASSUME NEW v \in finished, NEW r \in 1..MaxRuns, revisions[r]["transcript"].on,
               revisions[r]["transcript"].of = v
        PROVE  revisions'[r]["transcript"].on /\ revisions'[r]["transcript"].of = v
    BY <1>2, <1>3, <1>5, <2>2 DEF NameSet
  <2> QED
    BY <2>1, <2>2 DEF IInv, Data, Done
<1> QED
  BY <1>1, <1>2, <1>6, <1>7, <1>8, <1>9 DEF Data

LEMMA MoveStep ==
  ASSUME IInv, NEW p \in Active, Move(p)
  PROVE  IInv'
<1>0. proc[p].at = "move" /\ UNCHANGED <<media, dir, state, finished>> /\ used' = used
  BY DEF Move, At, ghosts
<1>1. proc[p] \in Invocations /\ p \in Procs
  BY ActiveTyped DEF IInv
<1>2. Refreshing(p) /\ Opening(p) /\ proc[p].cmd = "refresh"
  BY <1>0, CommandOf DEF IInv, Doing, Transcribing
<1>3. /\ state \in States /\ state # NoState /\ state.plan = proc[p].plan /\ state.plan # NoPlan
      /\ \A n \in NameSet : files[n].on => n \in proc[p].moves
  BY <1>0, <1>2 DEF Refreshing, IInv, Types
<1>4. /\ state.plan.revision = Len(state.history) + 1 /\ state.plan.revision \in 1..MaxRuns
  <2>1. state.plan.revision = Len(state.history) + 1 /\ Len(state.history) \in Nat
    BY <1>3 DEF IInv, Data, Pending, States
  <2>2. Len(state.history) < used.run /\ used.run <= MaxRuns /\ used.run \in Nat /\ MaxRuns \in Nat
    BY <1>0, <1>2, <1>3, TranscriptionRunAssumption DEF Opening, At1, IInv, Types
  <2> QED
    BY <2>1, <2>2
<1>5. CASE /\ proc[p].moves = {} /\ proc' = [proc EXCEPT ![p] = Update(p, "refreshed")]
           /\ UNCHANGED <<files, revisions>>
  <2> DEFINE r == Update(p, "refreshed")
  <2>1. /\ r \in Invocations /\ r.at = "load" /\ r.up = "refreshed"
        /\ r.cmd = proc[p].cmd /\ r.held = proc[p].held /\ r.plan = proc[p].plan
    BY UpdateTyped DEF IInv, Updates
  <2> HIDE DEF r
  <2>2. proc' = [proc EXCEPT ![p] = r] /\ UNCHANGED same
    BY <1>0, <1>5 DEF r, same
  <2>3. proc'[p] = r
    BY <2>1, <2>2, Only DEF IInv
  <2>4. \A n \in NameSet : files[n] = NoFile
    BY <1>3, <1>5, Marked DEF IInv, Types
  <2>5. Refreshing(p)'
    BY <1>0, <1>2, <1>3, <1>5, <2>1, <2>3, <2>4 DEF Refreshing, At1, Updating
  <2>6. Opening(p)'
    BY <1>0, <1>2, <2>1, <2>3 DEF Opening, At1
  <2>7. Transcribing(p)' /\ Retrying(p)'
    BY <1>2, <2>1, <2>3 DEF Transcribing, Retrying
  <2> QED
    BY <1>0, <2>1, <2>2, <2>5, <2>6, <2>7, GoesOn DEF Does
<1>6. ASSUME NEW n \in proc[p].moves, proc' = [proc EXCEPT ![p].moves = @ \ {n}],
             IF files[n].on /\ ~revisions[proc[p].plan.revision][n].on
               THEN /\ revisions' = [revisions EXCEPT ![proc[p].plan.revision][n] = files[n]]
                    /\ files' = [files EXCEPT ![n] = NoFile]
               ELSE UNCHANGED <<files, revisions>>
      PROVE  IInv'
  <2> DEFINE m == proc[p].moves \ {n}
             r == [proc[p] EXCEPT !.moves = m]
  <2>0. n \in NameSet /\ m \in SUBSET NameSet
    BY <1>1 DEF Invocations
  <2> HIDE DEF m
  <2>1. /\ r \in Invocations /\ r.at = "move" /\ r.up = proc[p].up
        /\ r.cmd = proc[p].cmd /\ r.held = proc[p].held /\ r.plan = proc[p].plan /\ r.moves = m
    BY <1>0, <1>1, <2>0 DEF Invocations
  <2>2. proc' = [proc EXCEPT ![p] = r]
    BY <1>1, <1>6 DEF IInv, Types, m
  <2> HIDE DEF r
  <2>3. proc'[p] = r /\ proc' \in [Procs -> {Off} \cup Invocations] /\ Beside' /\ \A q \in Active' : q = p
    BY <1>2, <2>1, <2>2, Only, Alone DEF IInv
  <2>4. Opening(p)' /\ Transcribing(p)' /\ Retrying(p)'
    BY <1>0, <1>2, <2>1, <2>3 DEF Opening, At1, Transcribing, Retrying
  <2>5. files[n].on => revisions[state.plan.revision][n] = NoFile
    BY <1>3, <1>4, <2>0 DEF IInv, Data, Pending
  <2>6. CASE files[n].on
    <3>1. /\ revisions' = [revisions EXCEPT ![state.plan.revision][n] = files[n]]
          /\ files' = [files EXCEPT ![n] = NoFile]
      BY <1>3, <1>6, <2>5, <2>6, Marked
    <3>2. /\ Data' /\ files' \in [NameSet -> {NoFile} \cup Stored]
          /\ revisions' \in [1..MaxRuns -> [NameSet -> {NoFile} \cup Stored]]
          /\ files'[n] = NoFile /\ \A k \in NameSet \ {n} : files'[k] = files[k]
      BY <1>0, <1>3, <1>4, <2>0, <2>6, <3>1, MovesFile
    <3>3. \A k \in NameSet : files'[k].on => k \in m
      BY <1>3, <3>2, Marked DEF m
    <3>4. Refreshing(p)'
      BY <1>0, <1>2, <1>3, <2>1, <2>3, <3>3 DEF Refreshing, At1, Updating
    <3>5. Types'
      BY <1>0, <2>3, <3>2 DEF IInv, Types
    <3> QED
      BY <2>3, <2>4, <3>2, <3>4, <3>5 DEF IInv, Doing
  <2>7. CASE ~files[n].on
    <3>1. UNCHANGED same
      BY <1>0, <1>6, <2>7 DEF same
    <3>2. \A k \in NameSet : files'[k].on => k \in m
      BY <1>3, <2>7, <3>1 DEF m, same
    <3>3. Refreshing(p)'
      BY <1>0, <1>2, <1>3, <2>1, <2>3, <3>2 DEF Refreshing, At1, Updating
    <3> QED
      BY <1>0, <2>1, <2>2, <2>4, <3>1, <3>3, GoesOn DEF Does
  <2> QED
    BY <2>6, <2>7
<1> QED
  BY <1>5, <1>6 DEF Move

------------------------------------------------------------------------------
(* The specification *)

LEMMA Begins ==
  ASSUME Init
  PROVE  IInv
<1>1. Active = {}
  BY DEF Init, Active, Off
<1>2. Beside /\ Doing
  BY <1>1 DEF Beside, Doing
<1>3. Types
  <2>1. files \in [NameSet -> {NoFile} \cup Stored]
    BY DEF Init
  <2>2. revisions \in [1..MaxRuns -> [NameSet -> {NoFile} \cup Stored]]
    BY <2>1 DEF Init
  <2>3. proc \in [Procs -> {Off} \cup Invocations]
    BY DEF Init
  <2>4. /\ used \in [run : 0..MaxRuns, crash : Nat, edit : 0..MaxEdits]
        /\ media = used.edit + 1 /\ media \in Versions
    BY Marked, TranscriptionRunAssumption DEF Init
  <2> QED
    BY <2>1, <2>2, <2>3, <2>4 DEF Init, Types
<1>4. Data
  BY DEF Init, Data, Inputs, Pending, Past, Done
<1> QED
  BY <1>2, <1>3, <1>4 DEF IInv

LEMMA StepActive == ASSUME NEW p \in Procs, Step(p) \/ Crash(p) PROVE p \in Active
<1>1. CASE Load(p) \/ Write(p) \/ Repair(p) \/ Replace(p) \/ Record(p)
  BY <1>1 DEF Active, At, Load, Write, Repair, Replace, Record
<1>2. CASE \/ OpenTranscribe(p) \/ Mkdir(p) \/ Initialize(p) \/ Prepare(p)
           \/ Acquire(p) \/ Inspect(p) \/ Reclaim(p) \/ Recreate(p) \/ Stamp(p)
  BY <1>2 DEF Active, At, OpenTranscribe, Mkdir, Initialize, Prepare, Acquire, Inspect, Reclaim, Recreate, Stamp
<1>3. CASE Decide(p) \/ Send(p) \/ Result(p) \/ Unlock(p) \/ Check(p) \/ Output(p)
  BY <1>3 DEF Active, At, Decide, Send, Result, Unlock, Check, Output
<1>4. CASE OpenRetry(p) \/ OpenRefresh(p) \/ Move(p) \/ Crash(p)
  BY <1>4 DEF Active, At, OpenRetry, OpenRefresh, Move, Crash
<1> QED
  BY <1>1, <1>2, <1>3, <1>4 DEF Step

LEMMA StepKeeps ==
  ASSUME IInv, JInv, NEW p \in Procs, Step(p)
  PROVE  IInv'
BY StepActive, LoadStep, WriteStep, RepairStep, ReplaceStep, RecordStep, OpenTranscribeStep, MkdirStep,
     InitializeStep, PrepareStep, AcquireStep, LockSteps, StampStep, DecideStep, SendStep,
     ResultStep, UnlockStep, CheckStep, OutputStep, OpenRetryStep, OpenRefreshStep, MoveStep DEF Step, JInv, Accounted

LEMMA NextKeeps ==
  ASSUME IInv, JInv, [Next]_vars, Beside'
  PROVE  IInv'
BY StartStep, StepKeeps, CrashStep, EditStep, StutterStep DEF Next, Crash

LEMMA InvKept == Spec /\ []Beside => []IInv
<1>1. Init => IInv
  BY Begins
<1>2. IInv /\ JInv /\ [Next]_vars /\ Beside' => IInv'
  BY NextKeeps
<1>3. Init => JInv
  BY InitAccounted
<1>4. JInv /\ [Next]_vars => JInv'
  BY NextAccounted
<1> QED
  BY <1>1, <1>2, <1>3, <1>4, PTL DEF Spec

\* A step of an invocation leaves the others where they are.
LEMMA OthersStay ==
  ASSUME IInv, NEW p \in Active, Step(p) \/ Crash(p)
  PROVE  Active' \subseteq Active
<1>1. DOMAIN proc = Procs /\ p \in Procs
  BY ActiveTyped DEF IInv, Types
<1>2. SUFFICES \A q \in Procs \ {p} : proc'[q] = proc[q]
  BY DEF Active
<1>3. ASSUME NEW how, Leave(p, how) PROVE \A q \in Procs \ {p} : proc'[q] = proc[q]
  BY <1>1, <1>3 DEF Leave
<1>4. ASSUME NEW s, Goto(p, s) PROVE \A q \in Procs \ {p} : proc'[q] = proc[q]
  BY <1>1, <1>4 DEF Goto
<1>5. ASSUME NEW r, proc' = [proc EXCEPT ![p] = r] PROVE \A q \in Procs \ {p} : proc'[q] = proc[q]
  BY <1>1, <1>5
<1>6. CASE Load(p) \/ Repair(p) \/ Replace(p) \/ Record(p)
  BY <1>1, <1>3, <1>4, <1>5, <1>6 DEF Load, Repair, Replace, Record, Raises
<1>7. CASE Write(p) \/ Crash(p) \/ Mkdir(p) \/ Acquire(p) \/ Inspect(p) \/ Reclaim(p) \/ Recreate(p)
  BY <1>3, <1>4, <1>7 DEF Write, Crash, Mkdir, Acquire, Inspect, Reclaim, Recreate
<1>8. CASE OpenTranscribe(p) \/ Initialize(p) \/ Prepare(p) \/ Stamp(p)
  BY <1>1, <1>3, <1>4, <1>8 DEF OpenTranscribe, Initialize, Prepare, Stamp
<1>9. CASE Decide(p) \/ Send(p) \/ Result(p) \/ Unlock(p) \/ Check(p) \/ Output(p)
  BY <1>1, <1>3, <1>4, <1>9 DEF Decide, Send, Result, Unlock, Check, Output
<1>10. CASE OpenRetry(p) \/ OpenRefresh(p) \/ Move(p)
  BY <1>1, <1>3, <1>10 DEF OpenRetry, OpenRefresh, Move
<1> QED
  BY <1>6, <1>7, <1>8, <1>9, <1>10 DEF Step

Solo == IsFiniteSet(Active) /\ \A p, q \in Active : p = q

LEMMA SoloKept ==
  ASSUME Together = 1, IInv, Solo, [Next]_vars
  PROVE  Solo'
<1>1. ASSUME Active' \subseteq Active PROVE Solo'
  BY <1>1, FS_Subset DEF Solo
<1>2. ASSUME NEW p \in Procs, Start(p) PROVE Solo'
  <2>1. Cardinality(Active) < 1 /\ Cardinality(Active) \in Nat
    BY <1>2, FS_CardinalityType DEF Start, Solo
  <2>2. Active = {}
    BY <2>1, FS_EmptySet DEF Solo
  <2>3. DOMAIN proc = Procs /\ \E r : proc' = [proc EXCEPT ![p] = r]
    BY <1>2 DEF Start, IInv, Types
  <2>4. Active' \subseteq {p}
    BY <2>2, <2>3 DEF Active
  <2> QED
    BY <2>4, FS_Singleton, FS_Subset DEF Solo
<1>3. ASSUME NEW p \in Procs, Step(p) \/ Crash(p) PROVE Solo'
  BY <1>1, <1>3, StepActive, OthersStay
<1>4. CASE Edit \/ UNCHANGED vars
  BY <1>1, <1>4 DEF Edit, vars, Active
<1> QED
  BY <1>2, <1>3, <1>4 DEF Next

LEMMA TranscribesOnly ==
  ASSUME Commands \subseteq {"transcribe"}, IInv, NEW p \in Procs, Start(p)
  PROVE  Beside'
<1>1. DOMAIN proc = Procs /\ \E r : r.cmd \in Commands /\ proc' = [proc EXCEPT ![p] = r]
  BY DEF Start, IInv, Types
<1>2. \A q \in Active : proc[q].cmd \in Commands
  BY ActiveTyped DEF IInv, Invocations
<1>3. \A q \in Active' : proc'[q].cmd \in Commands
  BY <1>1, <1>2 DEF Active
<1> QED
  BY <1>3 DEF Beside

\* The assumption of the theorems below is met where invocations come one after
\* another, and where all of them are of transcribe (transcription.py:537-668), which
\* alone takes the lock of the directory.
THEOREM BesideKept ==
  ASSUME Together = 1 \/ Commands \subseteq {"transcribe"}
  PROVE  Spec => []Beside
<1>3. (Init => JInv) /\ (JInv /\ [Next]_vars => JInv')
  BY InitAccounted, NextAccounted
<1>1. CASE Together = 1
  <2>1. Init => IInv /\ Solo
    <3>1. Init => Active = {}
      BY DEF Init, Active, Off
    <3> QED
      BY <3>1, Begins, FS_EmptySet DEF Solo
  <2>2. IInv /\ JInv /\ Solo /\ [Next]_vars => (IInv /\ Solo)'
    BY <1>1, SoloKept, NextKeeps DEF Solo, Beside
  <2>3. IInv => Beside
    BY DEF IInv
  <2> QED
    BY <1>3, <2>1, <2>2, <2>3, PTL DEF Spec
<1>2. CASE Commands \subseteq {"transcribe"}
  <2>1. Init => IInv
    BY Begins
  <2>2. IInv /\ JInv /\ [Next]_vars => IInv'
    <3> SUFFICES ASSUME IInv, JInv, [Next]_vars PROVE IInv'
      OBVIOUS
    <3>1. ASSUME NEW p \in Procs, Start(p) PROVE IInv'
      BY <1>2, <3>1, TranscribesOnly, StartStep
    <3> QED
      BY <3>1, StepActive, StepKeeps, CrashStep, EditStep, StutterStep DEF Next
  <2>3. IInv => Beside
    BY DEF IInv
  <2> QED
    BY <1>3, <2>1, <2>2, <2>3, PTL DEF Spec
<1> QED
  BY <1>1, <1>2

\* Whatever is killed anywhere and started again, retried and refreshed, one
\* invocation after another (transcription.py:537-884): a run that is complete holds
\* the transcript of the recording its state names.
THEOREM CompletionKept == Spec /\ []Beside => []CompletionBacked
<1>1. IInv => CompletionBacked
  <2> SUFFICES ASSUME IInv, state # NoState, state.status = "complete" PROVE CompletionBacked
    BY DEF CompletionBacked
  <2>1. files["transcript"] = Made /\ state.input \in Marks
    BY Marked DEF IInv, Data, Inputs, Types, States
  <2> QED
    BY <2>1, Marked DEF CompletionBacked, Made
<1> QED
  BY <1>1, InvKept, PTL

\* Likewise (transcription.py:643-668, 836-884): an item that is marked complete has
\* its result on disk, of the upload it names, until a refresh moves it away.
THEOREM ResultKept == Spec /\ []Beside => []ResultBacked
<1>1. IInv => ResultBacked
  <2> SUFFICES ASSUME IInv, Completed, state.plan = NoPlan PROVE ResultBacked
    BY DEF ResultBacked
  <2>1. /\ files["chunk_results"] = Made /\ state.input \in Marks /\ state.item.sha = state.input
    BY Marked DEF IInv, Data, Inputs, Types, States, Completed, HasItem
  <2> QED
    BY <2>1, Marked DEF ResultBacked, Made
<1> QED
  BY <1>1, InvKept, PTL

\* Likewise (transcription.py:836-884): the transcript of every completed run stays,
\* in the directory or in a revision, and a revision holds what was made from the
\* input it replaced and nothing else, however often its moves were interrupted.
THEOREM RevisionsKept == Spec /\ []Beside => []RevisionsIntact
<1>1. IInv => RevisionsIntact
  <2> SUFFICES ASSUME IInv PROVE RevisionsIntact
    OBVIOUS
  <2>1. DOMAIN revisions = 1..MaxRuns
    BY DEF IInv, Types
  <2>2. ASSUME state # NoState, NEW i \in 1..Len(state.history), NEW n \in NameSet,
               revisions[state.history[i].revision][n].on
        PROVE  \/ revisions[state.history[i].revision][n].of = state.history[i].input
               \/ revisions[state.history[i].revision][n] = Folder
    <3>1. /\ state \in States /\ state.history[i].revision = i /\ Len(state.history) <= used.run
          /\ used.run <= MaxRuns /\ used.run \in Nat /\ MaxRuns \in Nat /\ Len(state.history) \in Nat
      BY <2>2, TranscriptionRunAssumption DEF IInv, Types, Data, Past, States
    <3>2. i \in 1..MaxRuns
      BY <3>1
    <3>3. state.history[i] \in Entries
      BY <3>1 DEF States
    <3>4. state.history[i].input \in Marks
      BY <3>3, Marked DEF Entries
    <3>5. revisions[i][n] \in {NoFile, Folder, File(state.history[i].input, state.history[i].input)}
      BY <2>2, <3>1, <3>2 DEF IInv, Data, Past
    <3> QED
      BY <2>2, <3>1, <3>4, <3>5, Marked
  <2> QED
    BY <2>1, <2>2 DEF RevisionsIntact, IInv, Data, Done
<1> QED
  BY <1>1, InvKept, PTL
==============================================================================
