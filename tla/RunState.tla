------------------------------- MODULE RunState -------------------------------
(***************************************************************************)
(* The files of a restartable run (forge/lib/run_state.py, of which        *)
(* lib/run-state.mjs is the twin): what an append, a repair, a crash and a *)
(* lock do to them.  run_state.json is replaced whole; run_events.jsonl    *)
(* grows by a line at a time, and a crash may cut the last one anywhere,   *)
(* just before its line end too.                                           *)
(*                                                                         *)
(* A definition introduced as a mistaken variant is in no specification:   *)
(* put in the place of the one after it, it breaks a property.             *)
(***************************************************************************)
EXTENDS Naturals

CONSTANT MaxAttempts   \* DEFAULT_MAX_ATTEMPTS

ASSUME RunStateAssumption == MaxAttempts \in Nat \ {0}

\* The journal: how many records it holds, what is left of a line a crash cut
\* ("torn": no longer a record; "bare": all of it but the line end), and whether
\* a line before the last one is no record.  For the properties: how many appends
\* to it were completed, and how often it was replaced.
NewJournal == [rows |-> 0, tail |-> "none", broken |-> FALSE, lines |-> 0, copy |-> 0]
Journals == [rows : Nat, tail : {"none", "torn", "bare"}, broken : BOOLEAN, lines : Nat, copy : Nat]

Readable(j) == ~j.broken

\* Reading with repair: what it makes of a file with an end that does not parse;
\* mistaken variant: with it goes the record before it.
RepairedTooMuch(j) == IF j.tail = "torn" /\ j.rows > 0
                      THEN [j EXCEPT !.tail = "none", !.rows = @ - 1] ELSE j
Repaired(j) == IF j.tail = "torn" THEN [j EXCEPT !.tail = "none"] ELSE j

\* A record that is appended to an unfinished line makes one bad line of both.
Recorded(j) == IF j.tail = "none" THEN [j EXCEPT !.lines = @ + 1, !.rows = @ + 1]
                                  ELSE [j EXCEPT !.lines = @ + 1, !.broken = TRUE, !.tail = "none"]

\* A file in the place of j; what was opened before it was is another file.
Instead(j, new) == [new EXCEPT !.copy = j.copy + 1]

\* An append that is cut short.
Cut(j, how) ==
  LET whole == how = "bare" /\ j.tail = "none"
  IN  [j EXCEPT !.rows = IF whole THEN @ + 1 ELSE IF j.tail = "bare" THEN @ - 1 ELSE @,
                !.tail = IF whole THEN "bare" ELSE "torn"]

\* Whether a unit of work is up for another attempt.
RetryableItem(item) ==
  \/ item.status \in {"pending", "in_progress"}
  \/ item.status = "failed" /\ item.transient /\ item.attempts < MaxAttempts

\* The lock file: who created it, and whether its content is written yet.  The
\* content goes to the file that was created, wherever it is.
Nobody == "nobody"   \* no file
Gone == "gone"       \* a process that is no more
NoLock == [by |-> Nobody, stamped |-> FALSE]
Lock(p) == [by |-> p, stamped |-> FALSE]
Stamped(lock, p) == IF lock.by = p THEN [lock EXCEPT !.stamped = TRUE] ELSE lock
Orphaned(lock, p) == IF lock.by = p THEN [lock EXCEPT !.by = Gone] ELSE lock

\* A lock that cannot be read, or that names no living process, may be taken.
Stale(lock) == ~lock.stamped \/ lock.by = Gone
==============================================================================
