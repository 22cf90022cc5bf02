--------------------------- MODULE StreamReaders ---------------------------
(***************************************************************************)
(* One event stream, its producer and its readers                          *)
(* (packages/ai/src/utils/event-stream.ts).  The producer pushes events    *)
(* and ends the stream, with a result or without one; each reader iterates *)
(* over it and may leave its loop early.  The event pushed k-th is         *)
(* numbered k.  No name is one of AgentLoop, so that a module can extend   *)
(* both ends.                                                              *)
(***************************************************************************)
EXTENDS EventStream, Integers

CONSTANT MaxEvents        \* bound: events pushed

ASSUME MaxEventsAssumption == MaxEvents \in Nat

VARIABLES
  stream,     \* the stream
  pushed,     \* how many events it accepted
  reader,     \* per reader: "asks", "waits" or "over"
  got         \* per reader: the events it was given, in order

streamVars == <<stream, pushed, reader, got>>

\* an event, and the result that end() may be given
Event(t, n) == [type |-> t, n |-> n]
Kinds == {"delta", "done"}
Events == [type : Kinds, n : 1..MaxEvents]
Given == [type |-> "given"]

StreamInit ==
  /\ stream = NewStream
  /\ pushed = 0
  /\ reader = [r \in Readers |-> "asks"]
  /\ got = [r \in Readers |-> <<>>]

\* push()
PushEvent(t) ==
  /\ pushed < MaxEvents
  /\ stream' = Push(stream, Event(t, pushed + 1))
  /\ pushed' = IF stream.done THEN pushed ELSE pushed + 1
  /\ UNCHANGED <<reader, got>>

\* end(), with a result or without one; a producer may call it twice
EndStream(e) ==
  /\ stream' = End(stream, e)
  /\ UNCHANGED <<pushed, reader, got>>

\* a reader that asks is given the first event of the queue ...
Take(r) ==
  /\ reader[r] = "asks"
  /\ stream.queue # <<>>
  /\ got' = [got EXCEPT ![r] = Append(@, Offered(stream))]
  /\ stream' = Asked(stream, r)
  /\ UNCHANGED <<pushed, reader>>

\* ... is told that there is nothing more ...
Finish(r) ==
  /\ reader[r] = "asks"
  /\ Offered(stream) = Closed
  /\ stream' = Asked(stream, r)
  /\ reader' = [reader EXCEPT ![r] = "over"]
  /\ UNCHANGED <<pushed, got>>

\* ... or waits
Wait(r) ==
  /\ reader[r] = "asks"
  /\ Offered(stream) = NoEvent
  /\ stream' = Asked(stream, r)
  /\ reader' = [reader EXCEPT ![r] = "waits"]
  /\ UNCHANGED <<pushed, got>>

\* a reader whose wait was answered goes on
Resume(r) ==
  /\ reader[r] = "waits"
  /\ stream.hand[r] # NoEvent
  /\ IF stream.hand[r] = Closed
     THEN /\ reader' = [reader EXCEPT ![r] = "over"]
          /\ got' = got
     ELSE /\ reader' = [reader EXCEPT ![r] = "asks"]
          /\ got' = [got EXCEPT ![r] = Append(@, stream.hand[r])]
  /\ stream' = Woken(stream, r)
  /\ UNCHANGED <<pushed>>

\* a reader leaves its loop between two events
Leave(r) ==
  /\ reader[r] = "asks"
  /\ reader' = [reader EXCEPT ![r] = "over"]
  /\ UNCHANGED <<stream, pushed, got>>

Reading(r) == Take(r) \/ Finish(r) \/ Wait(r) \/ Resume(r)

StreamNext ==
  \/ \E t \in Kinds : PushEvent(t)
  \/ \E e \in {NoEvent, Given} : EndStream(e)
  \/ \E r \in Readers : Reading(r) \/ Leave(r)

\* microtasks run: a reader that can go on does
StreamSpec ==
  /\ StreamInit /\ [][StreamNext]_streamVars
  /\ \A r \in Readers : WF_streamVars(Reading(r))

-----------------------------------------------------------------------------
(* Properties *)

\* event-stream.ts:5-7: each part of the state is of its kind.
StreamTypeOK ==
  /\ stream \in [queue : Seq(Events), waiting : Seq(Readers), done : BOOLEAN,
                 result : Events \union {NoEvent, Given},
                 hand : [Readers -> Events \union {NoEvent, Closed}]]
  /\ pushed \in 0..MaxEvents
  /\ reader \in [Readers -> {"asks", "waits", "over"}]
  /\ got \in [Readers -> Seq(Events)]

\* the events of a sequence, by number
Numbers(s) == {s[i].n : i \in DOMAIN s}

\* the events a reader was given or has in its hand
Held(r) == Numbers(got[r]) \union
           (IF stream.hand[r] \in Events THEN {stream.hand[r].n} ELSE {})

\* Every event that was accepted is in the queue or was given to a reader,
\* and never both or to two readers (event-stream.ts:34-40, 55-66): the event
\* handed to a waiting reader skips the queue, and the events pushed before
\* that reader runs again must stay behind it.
EachOnce ==
  /\ Numbers(stream.queue) \union UNION {Held(r) : r \in Readers} = 1..pushed
  /\ \A r \in Readers :
       /\ Held(r) \intersect Numbers(stream.queue) = {}
       /\ \A q \in Readers \ {r} : Held(r) \intersect Held(q) = {}

\* A reader is given events in the order they were pushed, whatever part of
\* them came through the queue and whatever part by waiting.
ReadInOrder ==
  \A r \in Readers :
    /\ \A i, j \in DOMAIN got[r] : i < j => got[r][i].n < got[r][j].n
    /\ stream.hand[r] \in Events => \A i \in DOMAIN got[r] : got[r][i].n < stream.hand[r].n

\* No reader sleeps while there is an event to read: the queue is empty as
\* long as a reader is on the waiting list (event-stream.ts:35-39, 57-64).
NoneStalled == stream.waiting # <<>> => stream.queue = <<>>
=============================================================================
