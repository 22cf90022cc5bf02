---------------------------- MODULE EventStream ----------------------------
(***************************************************************************)
(* The event stream between the producer of a response and its readers     *)
(* (packages/ai/src/utils/event-stream.ts), as a value: the events not yet *)
(* asked for, the readers that wait for one, whether the stream is over,   *)
(* and what its promise of a result was resolved with.  A reader whose     *)
(* wait was answered goes on in a later microtask: until then the answer   *)
(* is in its hand.                                                         *)
(***************************************************************************)
EXTENDS Sequences, TLC

CONSTANT Readers          \* the readers: iterations of the stream

ASSUME ReadersAssumption == Readers # {}

\* no event yet, and the end of an iteration
NoEvent == [type |-> "none"]
Closed == [type |-> "closed"]

NewStream ==
  [queue |-> <<>>, waiting |-> <<>>, done |-> FALSE, result |-> NoEvent,
   hand |-> [r \in Readers |-> NoEvent]]

\* the events that complete a stream and carry its result
IsComplete(e) == e.type \in {"done", "error"}

\* a promise is resolved once: later results change nothing
Resolve(result, e) == IF result = NoEvent THEN e ELSE result

\* mutant of Push: no reader that waits is ever served
PushQueued(s, e) == IF s.done THEN s ELSE [s EXCEPT !.queue = Append(@, e), !.done = IsComplete(e)]

\* push(): nothing once the stream is over; else to the first reader that
\* waits, or into the queue
Push(s, e) ==
  IF s.done
  THEN s
  ELSE LET t == [s EXCEPT
                   !.done = IsComplete(e),
                   !.result = IF IsComplete(e) THEN Resolve(@, e) ELSE @]
       IN  IF s.waiting = <<>>
           THEN [t EXCEPT !.queue = Append(@, e)]
           ELSE [t EXCEPT !.hand = [@ EXCEPT ![Head(s.waiting)] = e],
                          !.waiting = Tail(@)]

\* end(): with a result or with NoEvent, and every reader that waits is told
End(s, e) ==
  [s EXCEPT
     !.done = TRUE,
     !.result = Resolve(@, e),
     !.hand = [r \in Readers |-> IF \E i \in DOMAIN s.waiting : s.waiting[i] = r
                                 THEN Closed ELSE s.hand[r]],
     !.waiting = <<>>]

\* what a reader that asks is given at once: NoEvent when it has to wait
Offered(s) ==
  IF s.queue # <<>> THEN Head(s.queue) ELSE IF s.done THEN Closed ELSE NoEvent

\* the stream once reader r has asked
Asked(s, r) ==
  CASE s.queue # <<>> -> [s EXCEPT !.queue = Tail(@)]
    [] s.queue = <<>> /\ s.done -> s
    [] OTHER -> [s EXCEPT !.waiting = Append(@, r)]

\* the stream once reader r has taken the answer in its hand
Woken(s, r) == [s EXCEPT !.hand = [@ EXCEPT ![r] = NoEvent]]
=============================================================================
