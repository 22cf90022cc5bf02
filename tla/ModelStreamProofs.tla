------------------------- MODULE ModelStreamProofs -------------------------
(***************************************************************************)
(* Proofs about ModelStream for every set of calls and texts, any number   *)
(* of deltas, blocks and reads.  The inductive invariant follows one       *)
(* answer from the service to the reader: StreamsKept says what each       *)
(* stream holds and when it is over, AnswerKept what of the answer is in   *)
(* the blocks, in the events and still on the wire, WholeKept what is true *)
(* of a response that ended with "done".                                   *)
(***************************************************************************)
EXTENDS ModelStream, SequenceTheorems, WellFoundedInduction, TLAPS

------------------------------------------------------------------------------
(* The invariant *)

Names == {"index", "id"}
EventTypes == {"start", "open", "delta", "close", "done", "error"}
Events == [type : EventTypes, index : Nat, n : Nat]
Lines == [type : EventTypes \union {"garbage"}, index : Nat, n : Nat]
Chunks == [type : {"delta", "stop", "error"}, key : Keys \union {"none"}, ids : SUBSET Names, n : Nat]
Answers == Events \union {NoEvent, Closed}
Streams == [queue : Seq(Events), waiting : Seq(Readers), done : BOOLEAN,
            result : Events \union {NoEvent}, hand : [Readers -> Answers]]
Blocks == [key : Keys \union {"none"} \union Nat, ids : SUBSET Names, text : Seq(Nat)]
Messages == [blocks : Seq(Blocks), stop : {"stop", "error", "aborted"}]

Types ==
  /\ route \in {"lazy", "direct", "proxy"} /\ aborted \in BOOLEAN
  /\ remote \in {"sending", "closed", "cut"}
  /\ wire \in (IF route = "proxy" THEN Seq(Lines) ELSE Seq(Chunks))
  /\ sent \in Seq(Keys \union Nat) /\ served \in Seq(BOOLEAN)
  /\ at \in {"load", "request", "reading", "over"}
  /\ message \in Messages /\ finished \in BOOLEAN
  /\ inner \in Streams /\ outer \in Streams
  /\ forwarder \in {"off", "asks", "waits", "over"}
  /\ reader \in {"asks", "waits", "result", "over", "thrown"}
  /\ seen \in Seq(Events) /\ pushed \in Seq(Events)

\* Stream s is read by r alone, which is at rd: what is in its hand comes before
\* what is queued, and it waits only for what is not there.
Serves(s, r, rd) ==
  /\ s.waiting \in {<<>>, <<r>>}
  /\ s.waiting = <<r>> => rd = "waits" /\ s.hand[r] = NoEvent /\ s.queue = <<>> /\ ~s.done
  /\ s.hand[r] # NoEvent => rd = "waits"
  /\ s.hand[r] = Closed => s.queue = <<>> /\ s.done

Serving ==
  IF route = "lazy"
  THEN Serves(outer, "reader", reader) /\ Serves(inner, "forwarder", forwarder)
  ELSE Serves(inner, "reader", reader) /\ forwarder = "off"

Complete(es) == \E p \in DOMAIN es : IsComplete(es[p])

\* A stream is over with the event that completes it: nothing is accepted after.
Final ==
  /\ \A p \in DOMAIN pushed : IsComplete(pushed[p]) => p = Len(pushed)
  /\ Complete(pushed) => inner.done \/ (at = "over" /\ forwarder = "off")
  /\ route = "lazy" /\ outer.done =>
       forwarder = "off" \/ (inner.done /\ Pending(inner, "forwarder") = <<>>)
  /\ inner.done => at = "over" \/ (route = "proxy" /\ at = "reading" /\ wire = <<>>)
  /\ at = "over" => inner.done \/ forwarder = "off"

Unstarted ==
  /\ at \in {"load", "request"} =>
       wire = <<>> /\ sent = <<>> /\ served = <<>> /\ message.blocks = <<>> /\ pushed = <<>>
  /\ at = "load" => /\ forwarder = "off" /\ seen = <<>>
                    /\ Pending(outer, "reader") = <<>> /\ ~outer.done
                    /\ route # "lazy" => reader # "waits"

\* the block a chunk or a line belongs to
KeyOf(c) == IF route = "proxy" THEN c.index ELSE c.key
Numbers(w) == {w[p].n : p \in DOMAIN w}

KeysApart(blocks) ==
  \A i, j \in DOMAIN blocks : blocks[i].key = blocks[j].key => i = j

\* the text of each block: deltas sent, of its key, not on the wire w, in order
TextsInOrder(blocks, w) ==
  \A i \in DOMAIN blocks :
    /\ \A k \in DOMAIN blocks[i].text :
         /\ blocks[i].text[k] \in Sent \ Numbers(w)
         /\ sent[blocks[i].text[k]] = blocks[i].key
    /\ \A a, b \in DOMAIN blocks[i].text : a < b => blocks[i].text[a] < blocks[i].text[b]

NoneLost(blocks, w) ==
  \A n \in Sent \ Numbers(w) :
    \E i \in DOMAIN blocks : \E k \in DOMAIN blocks[i].text : blocks[i].text[k] = n

WireInOrder(w) ==
  /\ \A p \in DOMAIN w : w[p].type # "delta" => w[p].n = 0
  /\ \A p \in DOMAIN w : w[p].type = "delta" =>
       /\ w[p].n \in Sent /\ sent[w[p].n] = KeyOf(w[p])
       /\ \A n \in Sent \ Numbers(w) : n < w[p].n
       /\ \A q \in DOMAIN w : p < q /\ w[q].type = "delta" => w[p].n < w[q].n

\* What of the answer is in the blocks and what is still on the wire w.
Texts(blocks, w) ==
  KeysApart(blocks) /\ TextsInOrder(blocks, w) /\ NoneLost(blocks, w) /\ WireInOrder(w)

\* the ways the call of chunk p of the wire w was named by before
NamedBefore(blocks, w, p) ==
  {x \in Names : \/ \E i \in DOMAIN blocks : blocks[i].key = w[p].key /\ x \in blocks[i].ids
                 \/ \E q \in DOMAIN w : q < p /\ w[q].key = w[p].key /\ x \in w[q].ids}

\* The service names each call by a way it has named it by before.
NamesKept(blocks, w) ==
  /\ \A i \in DOMAIN blocks : blocks[i].key \in Calls => blocks[i].ids # {}
  /\ \A p \in DOMAIN w : w[p].type # "delta" => w[p].ids = {}
  /\ \A p \in DOMAIN w : w[p].type = "delta" =>
       /\ w[p].key \in Keys
       /\ w[p].key \in Calls =>
            /\ w[p].ids # {}
            /\ NamedBefore(blocks, w, p) # {} => w[p].ids \intersect NamedBefore(blocks, w, p) # {}

CallsNamed == route # "proxy" => NamesKept(message.blocks, wire)

\* The events T of a provider that reads tell the blocks.
Tells(blocks, T) ==
  /\ T # <<>> /\ T[1] = Start
  /\ \A p \in DOMAIN T : T[p].type \in {"start", "open", "delta"}
  /\ \A p \in DOMAIN T : T[p].type = "start" => p = 1 /\ T[p].index = 0
  /\ \A p \in DOMAIN T : T[p].type = "open" =>
       /\ T[p].index \in DOMAIN blocks /\ T[p].n = 0
       /\ \A q \in DOMAIN T : T[q].index = T[p].index => p = q \/ (p < q /\ T[q].type = "delta")
  /\ \A i \in DOMAIN blocks : \E p \in DOMAIN T : T[p] = Event("open", i, 0)
  /\ \A p \in DOMAIN T : T[p].type = "delta" =>
       /\ T[p].index \in DOMAIN blocks
       /\ \E k \in DOMAIN blocks[T[p].index].text : blocks[T[p].index].text[k] = T[p].n
       /\ \A q \in DOMAIN T : T[q].type = "delta" /\ p < q => T[p].n < T[q].n
  /\ \A i \in DOMAIN blocks : \A k \in DOMAIN blocks[i].text :
       \E p \in DOMAIN T : T[p] = Event("delta", i, blocks[i].text[k])

Telling == route # "proxy" /\ at = "reading" => Tells(message.blocks, pushed)

\* The lines T of a server, read or not: open tells the blocks it has open, all
\* the deltas it has sent.
ToldBy(T, open, all) ==
  /\ T # <<>> => T[1] = Start
  /\ \A p \in DOMAIN T : T[p].type \in {"start", "done", "error", "garbage"} => T[p].index = 0
  /\ \A p \in DOMAIN T : T[p].type \in {"done", "error", "garbage"} => p = Len(T)
  /\ \A p \in DOMAIN T : T[p].type = "done" => T[p] = Done /\ \A i \in DOMAIN open : ~open[i]
  /\ \A p \in DOMAIN T : T[p].type = "open" =>
         /\ T[p].index \in DOMAIN open /\ T[p].n = 0
         /\ \A q \in DOMAIN T : T[q].index = T[p].index => p <= q
         /\ \A q \in DOMAIN T : T[q].type = "open" /\ p < q => T[p].index < T[q].index
  /\ \A i \in DOMAIN open : \E p \in DOMAIN T : T[p] = Event("open", i, 0)
  /\ \A p \in DOMAIN T : T[p].type = "close" =>
         /\ T[p].index \in DOMAIN open /\ ~open[T[p].index] /\ T[p].n = 0
         /\ \A q \in DOMAIN T : T[q].index = T[p].index => q <= p
  /\ \A i \in DOMAIN open : ~open[i] => \E p \in DOMAIN T : T[p] = Event("close", i, 0)
  /\ \A p \in DOMAIN T : T[p].type = "delta" =>
         /\ T[p].index \in DOMAIN open
         /\ T[p].n \in 1..Len(all) /\ all[T[p].n] = T[p].index
         /\ \A q \in DOMAIN T : T[q].type = "delta" /\ p < q => T[p].n < T[q].n
  /\ \A n \in 1..Len(all) : \E p \in DOMAIN T : T[p] = Event("delta", all[n], n)

\* As many blocks as lines that open one.
Opened(blocks, T) ==
  /\ \A i \in DOMAIN blocks : blocks[i].key = i
  /\ \A p \in DOMAIN T : T[p].type = "open" => T[p].index \in DOMAIN blocks
  /\ \A i \in DOMAIN blocks : \E p \in DOMAIN T : T[p] = Event("open", i, 0)

Served ==
  route = "proxy" /\ at = "reading" /\ ~inner.done =>
    ToldBy(pushed \o wire, served, sent) /\ Opened(message.blocks, pushed)

\* The answer T is whole: it and the blocks tell all that was sent.
WholeIn(blocks, T, all) ==
  /\ UNION {Range(blocks[i].text) : i \in DOMAIN blocks} = 1..Len(all)
  /\ Head(T) = Start
  /\ \A i \in DOMAIN blocks :
       LET mine == {p \in DOMAIN T : T[p].index = i}
           deltas == {p \in mine : T[p].type = "delta"}
       IN  /\ \E o, c \in mine :
                /\ T[o] = Event("open", i, 0) /\ T[c] = Event("close", i, 0) /\ o < c
                /\ \A p \in mine \ {o, c} : p \in deltas /\ o < p /\ p < c
           /\ {T[p].n : p \in deltas} = Range(blocks[i].text)
           /\ \A p, q \in deltas : p < q => T[p].n < T[q].n

WholeKept ==
  Answered => /\ wire = <<>> /\ (at = "over" \/ (inner.done /\ at = "reading" /\ route = "proxy"))
              /\ WholeIn(message.blocks, pushed, sent)

\* What the service says of its answer, as far as it has come: a response that
\* ends with "done" was said to be complete.
Said ==
  /\ reason \in {"none", "stop", "error"}
  /\ route # "proxy" =>
       /\ \A p \in DOMAIN wire : wire[p].type # "delta" => wire[p].type = reason
       /\ finished => /\ reason # "none" /\ at \in {"reading", "over"}
                      /\ at = "reading" => message.stop = reason
  /\ route = "proxy" => \A p \in DOMAIN wire : wire[p].type = "done" => reason = "stop"
  /\ Answered => reason = "stop"

AnswerKept == Texts(message.blocks, wire) /\ CallsNamed /\ Telling /\ Served

StreamsKept == Types /\ Serving /\ Final /\ Unstarted /\ EventsInOrder

IInv ==
  /\ StreamsKept
  /\ AnswerKept /\ WholeKept

------------------------------------------------------------------------------
(* Numbers *)

LEMMA Least ==
  ASSUME NEW T \in SUBSET Nat, T # {}
  PROVE  \E x \in T : \A y \in T : x <= y
<1> DEFINE Less == {ss \in Nat \X Nat : ss[1] < ss[2]}
<1>1. IsWellFoundedOn(Less, Nat)
  BY NatLessThanWellFounded DEF OpToRel
<1>2. \A x, y \in Nat : <<y, x>> \in Less <=> y < x
  OBVIOUS
<1> HIDE DEF Less
<1>3. PICK x \in T : \A y \in T : ~(<<y, x>> \in Less)
  BY <1>1, WFMin
<1>4. \A y \in T : x <= y
  <2>1. ASSUME NEW y \in T PROVE x <= y
    <3>1. ~(y < x)
      BY <1>2, <1>3
    <3>2. x \in Nat /\ y \in Nat
      OBVIOUS
    <3>3. QED
      BY <3>1, <3>2
  <2>2. QED
    BY <2>1
<1>5. QED
  BY <1>4

LEMMA Below ==
  ASSUME NEW T \in SUBSET Nat, \A n \in Nat : (\A m \in 0..(n - 1) : m \in T) => n \in T
  PROVE  T = Nat
<1> SUFFICES ASSUME Nat \ T # {} PROVE FALSE
  OBVIOUS
<1>1. PICK x \in Nat \ T : \A y \in Nat \ T : x <= y
  BY Least
<1>2. \A m \in 0..(x - 1) : m \in T
  BY <1>1
<1>3. QED
  BY <1>1, <1>2

------------------------------------------------------------------------------
(* Events *)

\* An event is neither "none yet" nor the end of an iteration.
LEMMA EventsApart ==
  /\ NoEvent \notin Events /\ Closed \notin Events /\ NoEvent # Closed
  /\ Start \in Events /\ Done \in Events /\ Error \in Events
  /\ Start # Done /\ Start # Error /\ Done # Error
  /\ IsComplete(Done) /\ IsComplete(Error) /\ ~IsComplete(Start)
  /\ \A e \in Events : IsComplete(e) \in BOOLEAN
<1>1. NoEvent.type = "none" /\ Closed.type = "closed"
  BY DEF NoEvent, Closed
<1>2. \A e \in Events : e.type \notin {"none", "closed"}
  BY DEF Events, EventTypes
<1>3. NoEvent \notin Events /\ Closed \notin Events /\ NoEvent # Closed
  BY <1>1, <1>2
<1>4. /\ Start \in Events /\ Done \in Events /\ Error \in Events
      /\ Start.type = "start" /\ Done.type = "done" /\ Error.type = "error"
  BY DEF Start, Done, Error, Event, Events, EventTypes
<1> QED
  BY <1>3, <1>4 DEF IsComplete

\* The fields of an event of the producer.
LEMMA EventFields ==
  ASSUME NEW t \in EventTypes, NEW i \in Nat, NEW n \in Nat
  PROVE  /\ Event(t, i, n) \in Events
         /\ Event(t, i, n).type = t /\ Event(t, i, n).index = i /\ Event(t, i, n).n = n
BY DEF Event, Events

\* An event is known by its fields.
LEMMA EventKnown ==
  ASSUME NEW e \in Events
  PROVE  e = Event(e.type, e.index, e.n) /\ e.type \in EventTypes /\ e.index \in Nat /\ e.n \in Nat
BY DEF Event, Events

------------------------------------------------------------------------------
(* The operations of a stream *)

\* What is pending is a sequence of events.
LEMMA PendingTyped ==
  ASSUME NEW s \in Streams, NEW r \in Readers
  PROVE  /\ Pending(s, r) \in Seq(Events)
         /\ s.hand[r] \in {NoEvent, Closed} => Pending(s, r) = s.queue
         /\ s.hand[r] \notin {NoEvent, Closed} =>
              s.hand[r] \in Events /\ Pending(s, r) = <<s.hand[r]>> \o s.queue
<1>1. s.queue \in Seq(Events) /\ s.hand[r] \in Answers
  BY DEF Streams
<1>2. CASE s.hand[r] \in {NoEvent, Closed}
  <2>1. Pending(s, r) = <<>> \o s.queue
    BY <1>2 DEF Pending
  <2> QED
    BY <1>1, <1>2, <2>1, ConcatEmptySeq
<1>3. CASE s.hand[r] \notin {NoEvent, Closed}
  <2>1. s.hand[r] \in Events
    BY <1>1, <1>3 DEF Answers
  <2>2. <<s.hand[r]>> \in Seq(Events)
    BY <2>1
  <2>3. Pending(s, r) = <<s.hand[r]>> \o s.queue
    BY <1>3 DEF Pending
  <2> QED
    BY <1>1, <1>3, <2>1, <2>2, <2>3, ConcatProperties
<1> QED
  BY <1>2, <1>3

\* The new stream.
LEMMA NewStreamServes ==
  /\ NewStream \in Streams /\ ~NewStream.done
  /\ \A r \in Readers : Pending(NewStream, r) = <<>> /\ \A x : Serves(NewStream, r, x)
<1>1. [r \in Readers |-> NoEvent] \in [Readers -> Answers]
  BY DEF Answers
<1>2. NewStream \in Streams
  BY <1>1 DEF NewStream, Streams
<1>3. /\ NewStream.queue = <<>> /\ NewStream.waiting = <<>> /\ NewStream.done = FALSE
      /\ \A r \in Readers : NewStream.hand[r] = NoEvent
  BY DEF NewStream
<1>4. ASSUME NEW r \in Readers PROVE Pending(NewStream, r) = <<>>
  BY <1>2, <1>3, PendingTyped
<1>5. ASSUME NEW r \in Readers, NEW x PROVE Serves(NewStream, r, x)
  BY <1>3, EventsApart DEF Serves
<1> QED
  BY <1>2, <1>3, <1>4, <1>5

\* An event pushed onto a stream that is not over is pending behind the
\* others, whether its reader waits or not.
LEMMA PushOne ==
  ASSUME NEW s \in Streams, NEW r \in Readers, NEW rd, Serves(s, r, rd), NEW e \in Events
  PROVE  /\ Push(s, e) \in Streams
         /\ Serves(Push(s, e), r, rd)
         /\ Push(s, e).done = (s.done \/ IsComplete(e))
         /\ Pending(Push(s, e), r) = IF s.done THEN Pending(s, r) ELSE Append(Pending(s, r), e)
<1> DEFINE p == Push(s, e)
<1>0. IsComplete(e) \in BOOLEAN /\ s.done \in BOOLEAN
  BY EventsApart DEF Streams
<1>1. CASE s.done
  BY <1>0, <1>1 DEF Push
<1>2. CASE ~s.done /\ s.waiting = <<>>
  <2> DEFINE b == IsComplete(e)
             v == IF b THEN Resolve(s.result, e) ELSE s.result
             q == Append(s.queue, e)
  <2>1. v \in Events \union {NoEvent} /\ b \in BOOLEAN /\ q \in Seq(Events)
    BY <1>0 DEF Streams, Resolve
  <2>2. p = [s EXCEPT !.done = b, !.result = v, !.queue = q]
    BY <1>2 DEF Push, IsComplete, Resolve, Streams
  <2> HIDE DEF b, v, q
  <2>3. p \in Streams /\ p.queue = q /\ p.waiting = s.waiting /\ p.hand = s.hand /\ p.done = b
    BY <2>1, <2>2 DEF Streams
  <2> HIDE DEF p
  <2>4. Serves(p, r, rd)
    BY <1>2, <2>3 DEF Serves
  <2>5. s.hand[r] # Closed
    BY <1>2 DEF Serves
  <2>6. CASE s.hand[r] = NoEvent
    <3>1. Pending(p, r) = q /\ Pending(s, r) = s.queue
      BY <2>3, <2>6, PendingTyped
    <3> QED
      BY <1>0, <1>2, <2>3, <2>4, <3>1 DEF p, b, q
  <2>7. CASE s.hand[r] # NoEvent
    <3>1. /\ s.hand[r] \in Events
          /\ Pending(p, r) = <<s.hand[r]>> \o q /\ Pending(s, r) = <<s.hand[r]>> \o s.queue
      BY <2>3, <2>5, <2>7, PendingTyped
    <3>2. <<s.hand[r]>> \o Append(s.queue, e) = Append(<<s.hand[r]>> \o s.queue, e)
      BY <3>1 DEF Streams
    <3> QED
      BY <1>0, <1>2, <2>3, <2>4, <3>1, <3>2 DEF p, b, q
  <2> QED
    BY <2>6, <2>7
<1>3. CASE ~s.done /\ s.waiting # <<>>
  <2> DEFINE b == IsComplete(e)
             v == IF b THEN Resolve(s.result, e) ELSE s.result
             h == [s.hand EXCEPT ![Head(s.waiting)] = e]
  <2>1. s.waiting = <<r>> /\ s.hand[r] = NoEvent /\ s.queue = <<>> /\ rd = "waits"
    BY <1>3 DEF Serves
  <2>2. Head(s.waiting) = r /\ Tail(s.waiting) = <<>>
    BY <2>1
  <2>3. v \in Events \union {NoEvent} /\ b \in BOOLEAN /\ h \in [Readers -> Answers]
    BY <1>0 DEF Streams, Resolve, Answers
  <2>4. p = [s EXCEPT !.done = b, !.result = v, !.hand = h, !.waiting = <<>>]
    BY <1>3, <2>2 DEF Push, IsComplete, Resolve, Streams
  <2>5. h[r] = e /\ <<>> \in Seq(Readers)
    BY <2>2 DEF Streams
  <2> HIDE DEF b, v, h
  <2>6. p \in Streams /\ p.queue = <<>> /\ p.waiting = <<>> /\ p.hand = h /\ p.done = b
    BY <2>1, <2>3, <2>4, <2>5 DEF Streams
  <2> HIDE DEF p
  <2>7. e \notin {NoEvent, Closed}
    BY EventsApart
  <2>8. Serves(p, r, rd)
    BY <2>1, <2>5, <2>6, <2>7 DEF Serves
  <2>9. Pending(s, r) = <<>> /\ Pending(p, r) = <<e>> \o <<>>
    BY <2>1, <2>5, <2>6, <2>7, PendingTyped
  <2>10. <<e>> \o <<>> = Append(<<>>, e)
    OBVIOUS
  <2> QED
    BY <1>0, <1>3, <2>6, <2>8, <2>9, <2>10 DEF p, b
<1> QED
  BY <1>1, <1>2, <1>3

\* The end of a stream takes nothing that is pending away.
LEMMA EndKeeps ==
  ASSUME NEW s \in Streams, NEW r \in Readers, NEW rd, Serves(s, r, rd),
         NEW e \in Events \union {NoEvent}
  PROVE  /\ End(s, e) \in Streams
         /\ Serves(End(s, e), r, rd)
         /\ End(s, e).done
         /\ Pending(End(s, e), r) = Pending(s, r)
<1> DEFINE p == End(s, e)
           v == Resolve(s.result, e)
           h == [x \in Readers |-> IF \E i \in DOMAIN s.waiting : s.waiting[i] = x
                                   THEN Closed ELSE s.hand[x]]
<1>1. v \in Events \union {NoEvent}
  BY DEF Streams, Resolve
<1>2. h \in [Readers -> Answers] /\ <<>> \in Seq(Readers)
  BY DEF Streams, Answers
<1>3. s.waiting = <<>> => h[r] = s.hand[r]
  OBVIOUS
<1>4. s.waiting = <<r>> => h[r] = Closed /\ s.hand[r] = NoEvent /\ s.queue = <<>> /\ rd = "waits"
  BY DEF Serves
<1>5. p = [s EXCEPT !.done = TRUE, !.result = v, !.hand = h, !.waiting = <<>>]
  BY DEF End, Resolve, Streams
<1> HIDE DEF v, h
<1>6. /\ p \in Streams /\ p.done /\ p.queue = s.queue /\ p.waiting = <<>> /\ p.hand = h
  BY <1>1, <1>2, <1>5 DEF Streams
<1> HIDE DEF p
<1>7. s.waiting \in {<<>>, <<r>>}
  BY DEF Serves
<1>8. Serves(p, r, rd)
  BY <1>3, <1>4, <1>6, <1>7 DEF Serves
<1>9. Pending(p, r) = Pending(s, r)
  <2>1. CASE s.waiting = <<>>
    BY <1>3, <1>6, <2>1, PendingTyped
  <2>2. CASE s.waiting = <<r>>
    BY <1>4, <1>6, <2>2, PendingTyped
  <2> QED
    BY <1>7, <2>1, <2>2
<1> QED
  BY <1>6, <1>8, <1>9 DEF p

\* A reader that asks, or goes on with the answer it waited for, takes what is
\* pending first; it goes away with nothing only when nothing is pending.
LEMMA Taking ==
  ASSUME NEW s \in Streams, NEW r \in Readers, NEW rd \in {"asks", "waits"}, Serves(s, r, rd),
         Answer(s, r, rd = "asks") # NoEvent \/ rd = "asks"
  PROVE  LET e == Answer(s, r, rd = "asks")
             t == Taken(s, r, rd = "asks")
         IN  /\ t \in Streams /\ t.done = s.done
             /\ \/ /\ e = NoEvent /\ ~s.done /\ Serves(t, r, "waits")
                   /\ Pending(s, r) = <<>> /\ Pending(t, r) = <<>>
                \/ /\ e = Closed /\ s.done /\ \A x : Serves(t, r, x)
                   /\ Pending(s, r) = <<>> /\ Pending(t, r) = <<>>
                \/ /\ e \in Events /\ \A x : Serves(t, r, x)
                   /\ Pending(s, r) = <<e>> \o Pending(t, r)
<1> DEFINE e == Answer(s, r, rd = "asks")
           t == Taken(s, r, rd = "asks")
<1>0. /\ s.queue \in Seq(Events) /\ s.hand \in [Readers -> Answers] /\ s.done \in BOOLEAN
      /\ s.waiting \in Seq(Readers)
  BY DEF Streams
<1>1. CASE rd = "asks"
  <2>1. s.waiting = <<>> /\ s.hand[r] = NoEvent
    BY <1>1 DEF Serves
  <2>2. e = Offered(s) /\ t = Asked(s, r) /\ Pending(s, r) = s.queue
    BY <1>1, <2>1, PendingTyped DEF Answer, Taken
  <2>3. CASE s.queue # <<>>
    <3>1. t = [s EXCEPT !.queue = Tail(s.queue)] /\ e = Head(s.queue)
      BY <2>2, <2>3 DEF Asked, Offered
    <3>2. Tail(s.queue) \in Seq(Events) /\ Head(s.queue) \in Events /\ s.queue = <<Head(s.queue)>> \o Tail(s.queue)
      BY <1>0, <2>3
    <3> HIDE DEF e, t
    <3>3. /\ t \in Streams /\ t.done = s.done /\ t.queue = Tail(s.queue)
          /\ t.waiting = s.waiting /\ t.hand = s.hand
      BY <3>1, <3>2 DEF Streams
    <3>4. Pending(t, r) = Tail(s.queue)
      BY <2>1, <3>3, PendingTyped
    <3>5. \A x : Serves(t, r, x)
      BY <2>1, <3>3, EventsApart DEF Serves
    <3>6. e \in Events /\ Pending(s, r) = <<e>> \o Pending(t, r)
      BY <2>2, <3>1, <3>2, <3>4
    <3> QED
      BY <3>3, <3>5, <3>6 DEF e, t
  <2>4. CASE s.queue = <<>> /\ s.done
    <3>1. t = s /\ e = Closed
      BY <2>2, <2>4 DEF Asked, Offered
    <3>2. \A x : Serves(s, r, x)
      BY <2>1, EventsApart DEF Serves
    <3> QED
      BY <2>2, <2>4, <3>1, <3>2
  <2>5. CASE s.queue = <<>> /\ ~s.done
    <3>1. t = [s EXCEPT !.waiting = <<r>>] /\ e = NoEvent
      BY <2>1, <2>2, <2>5 DEF Asked, Offered, Streams
    <3> HIDE DEF e, t
    <3>2. <<r>> \in Seq(Readers)
      OBVIOUS
    <3>3. /\ t \in Streams /\ t.done = s.done /\ t.queue = s.queue
          /\ t.waiting = <<r>> /\ t.hand = s.hand
      BY <3>1, <3>2 DEF Streams
    <3>4. Pending(t, r) = <<>>
      BY <2>1, <2>5, <3>3, PendingTyped
    <3>5. Serves(t, r, "waits")
      BY <2>1, <2>5, <3>3, EventsApart DEF Serves
    <3> QED
      BY <2>2, <2>5, <3>1, <3>3, <3>4, <3>5 DEF e, t
  <2> QED
    BY <1>0, <2>3, <2>4, <2>5
<1>2. CASE rd # "asks"
  <2> DEFINE h == [s.hand EXCEPT ![r] = NoEvent]
  <2>1. e = s.hand[r] /\ t = Woken(s, r) /\ e # NoEvent
    BY <1>2 DEF Answer, Taken
  <2>2. s.waiting = <<>>
    BY <2>1 DEF Serves
  <2>3. h \in [Readers -> Answers] /\ h[r] = NoEvent
    BY <1>0 DEF Answers
  <2>4. t = [s EXCEPT !.hand = h]
    BY <2>1 DEF Woken, Streams
  <2>5. e \in Events \union {Closed}
    BY <1>0, <2>1 DEF Answers
  <2> HIDE DEF e, t, h
  <2>6. /\ t \in Streams /\ t.done = s.done /\ t.queue = s.queue
        /\ t.waiting = <<>> /\ t.hand = h
    BY <2>2, <2>3, <2>4 DEF Streams
  <2>7. Pending(t, r) = s.queue
    BY <2>3, <2>6, PendingTyped
  <2>8. \A x : Serves(t, r, x)
    BY <2>3, <2>6, EventsApart DEF Serves
  <2>9. CASE e = Closed
    <3>1. s.queue = <<>> /\ s.done
      BY <2>1, <2>9 DEF Serves
    <3>2. Pending(s, r) = <<>>
      BY <2>1, <2>9, <3>1, PendingTyped
    <3> QED
      BY <2>6, <2>7, <2>8, <2>9, <3>1, <3>2 DEF e, t
  <2>10. CASE e \in Events
    <3>1. Pending(s, r) = <<e>> \o s.queue
      BY <2>1, <2>10, EventsApart, PendingTyped
    <3> QED
      BY <2>6, <2>7, <2>8, <2>10, <3>1 DEF e, t
  <2> QED
    BY <2>5, <2>9, <2>10
<1> QED
  BY <1>1, <1>2

------------------------------------------------------------------------------
(* Several events, several lines *)

\* An event handed on from the front of b to the back of a.
LEMMA HandedOn ==
  ASSUME NEW s \in Seq(Events), NEW a \in Seq(Events), NEW b \in Seq(Events), NEW e \in Events
  PROVE  /\ Append(s \o a, e) = s \o Append(a, e)
         /\ (s \o a) \o (<<e>> \o b) = (s \o Append(a, e)) \o b
<1> DEFINE c == s \o a
           f == Append(a, e)
<1>1. c \in Seq(Events) /\ <<e>> \in Seq(Events) /\ f \in Seq(Events)
  BY ConcatProperties
<1>2. c \o <<e>> = s \o (a \o <<e>>)
  BY <1>1, ConcatAssociative
<1>3. a \o <<e>> = f
  BY AppendIsConcat
<1> HIDE DEF c, f
<1>4. c \o <<e>> = Append(c, e)
  BY <1>1, AppendIsConcat
<1>5. c \o (<<e>> \o b) = (c \o <<e>>) \o b
  BY <1>1, ConcatAssociative, SMTT(40)
<1>6. Append(c, e) = s \o f /\ c \o (<<e>> \o b) = (s \o f) \o b
  BY <1>2, <1>3, <1>4, <1>5
<1> QED
  BY <1>6 DEF c, f

IsPushed(s, es, N, f) == f = [n \in 0..N |-> IF n = 0 THEN s ELSE Push(f[n - 1], es[n])]
PushedUpTo(s, es) == CHOOSE f : IsPushed(s, es, Len(es), f)

LEMMA PushAllIs ==
  ASSUME NEW s, NEW es
  PROVE  PushAll(s, es) = PushedUpTo(s, es)[Len(es)]
BY DEF PushAll, PushedUpTo, IsPushed

LEMMA PushedExists ==
  ASSUME NEW s, NEW es, NEW M \in Nat
  PROVE  \E f : IsPushed(s, es, M, f)
<1> DEFINE T == {N \in Nat : \E f : IsPushed(s, es, N, f)}
<1>1. ASSUME NEW N \in Nat, \A m \in 0..(N - 1) : m \in T PROVE N \in T
  <2> SUFFICES \E f : IsPushed(s, es, N, f)
    OBVIOUS
  <2>1. CASE N = 0
    <3>1. IsPushed(s, es, N, [n \in 0..0 |-> s])
      BY <2>1 DEF IsPushed
    <3> QED
      BY <3>1
  <2>2. CASE N # 0
    <3>1. PICK f : IsPushed(s, es, N - 1, f)
      <4>1. N - 1 \in 0..(N - 1)
        BY <2>2
      <4> QED
        BY <1>1, <4>1
    <3> DEFINE g == [n \in 0..N |-> IF n = N THEN Push(f[n - 1], es[n]) ELSE f[n]]
    <3>2. ASSUME NEW n \in 0..N
          PROVE  g[n] = IF n = 0 THEN s ELSE Push(g[n - 1], es[n])
      <4>1. CASE n = 0
        BY <2>2, <3>1, <4>1 DEF IsPushed
      <4>2. CASE n # 0
        <5>1. n - 1 \in 0..N /\ n - 1 # N /\ n - 1 \in 0..(N - 1)
          BY <4>2
        <5>2. g[n - 1] = f[n - 1]
          BY <5>1
        <5>3. CASE n = N
          BY <4>2, <5>2, <5>3
        <5>4. CASE n # N
          <6>1. n \in 0..(N - 1)
            BY <5>4
          <6>2. f[n] = Push(f[n - 1], es[n])
            BY <3>1, <4>2, <6>1, Zenon DEF IsPushed
          <6> QED
            BY <4>2, <5>2, <5>4, <6>2
        <5> QED
          BY <5>3, <5>4
      <4> QED
        BY <4>1, <4>2
    <3>3. IsPushed(s, es, N, g)
      <4>1. g = [n \in 0..N |-> g[n]]
        OBVIOUS
      <4> HIDE DEF g
      <4> QED
        BY <3>2, <4>1 DEF IsPushed
    <3> QED
      BY <3>3
  <2> QED
    BY <2>1, <2>2
<1> HIDE DEF T
<1>2. T = Nat
  BY <1>1, Below DEF T
<1> QED
  BY <1>2 DEF T

LEMMA PushedValue ==
  ASSUME NEW s, NEW es, NEW N, NEW f, IsPushed(s, es, N, f), NEW n \in 0..N
  PROVE  f[n] = IF n = 0 THEN s ELSE Push(f[n - 1], es[n])
BY Zenon DEF IsPushed

\* Events of which only the last may complete the stream are all pending
\* behind the others, unless the stream was over.
LEMMA PushAllTells ==
  ASSUME NEW s \in Streams, NEW r \in Readers, NEW rd, Serves(s, r, rd), NEW es \in Seq(Events),
         \A p \in DOMAIN es : IsComplete(es[p]) => p = Len(es)
  PROVE  /\ PushAll(s, es) \in Streams
         /\ Serves(PushAll(s, es), r, rd)
         /\ PushAll(s, es).done = (s.done \/ Complete(es))
         /\ Pending(PushAll(s, es), r) = IF s.done THEN Pending(s, r) ELSE Pending(s, r) \o es
<1> DEFINE f == PushedUpTo(s, es)
           N == Len(es)
           Good(n) == /\ f[n] \in Streams /\ Serves(f[n], r, rd)
                      /\ f[n].done = (s.done \/ \E p \in 1..n : IsComplete(es[p]))
                      /\ Pending(f[n], r) = IF s.done THEN Pending(s, r)
                                            ELSE Pending(s, r) \o SubSeq(es, 1, n)
           T == {n \in Nat : n <= N => Good(n)}
<1>1. N \in Nat
  OBVIOUS
<1>2. IsPushed(s, es, N, f)
  BY <1>1, PushedExists DEF PushedUpTo
<1>3. Pending(s, r) \in Seq(Events) /\ s.done \in BOOLEAN
  BY PendingTyped DEF Streams
<1> HIDE DEF f
<1>4. ASSUME NEW n \in Nat, \A m \in 0..(n - 1) : m \in T PROVE n \in T
  <2> SUFFICES ASSUME n <= N PROVE Good(n)
    OBVIOUS
  <2>0. n \in 0..N
    OBVIOUS
  <2>1. CASE n = 0
    <3>1. f[n] = s
      BY <1>2, <2>0, <2>1, PushedValue
    <3>2. SubSeq(es, 1, 0) = <<>>
      OBVIOUS
    <3>3. Pending(s, r) \o <<>> = Pending(s, r)
      BY <1>3
    <3>4. ~\E p \in 1..0 : IsComplete(es[p])
      OBVIOUS
    <3> QED
      BY <1>3, <2>1, <3>1, <3>2, <3>3, <3>4
  <2>2. CASE n # 0
    <3>1. n - 1 \in T /\ n - 1 \in Nat /\ n - 1 <= N /\ n \in 1..N
      BY <1>4, <2>2
    <3>2. Good(n - 1)
      BY <3>1
    <3> DEFINE t == f[n - 1]
    <3>3. f[n] = Push(t, es[n])
      BY <1>2, <2>0, <2>2, PushedValue
    <3>4. es[n] \in Events
      BY <3>1
    <3>5. t.done = s.done
      <4>1. \A p \in 1..(n - 1) : ~IsComplete(es[p])
        BY <3>1
      <4> QED
        BY <1>3, <3>2, <4>1
    <3>6. /\ Push(t, es[n]) \in Streams
          /\ Serves(Push(t, es[n]), r, rd)
          /\ Push(t, es[n]).done = (t.done \/ IsComplete(es[n]))
          /\ Pending(Push(t, es[n]), r) = IF t.done THEN Pending(t, r) ELSE Append(Pending(t, r), es[n])
      BY <3>2, <3>4, PushOne
    <3>7. (\E p \in 1..n : IsComplete(es[p])) <=> IsComplete(es[n])
      BY <3>1
    <3>8. ASSUME ~s.done
          PROVE  Append(Pending(t, r), es[n]) = Pending(s, r) \o SubSeq(es, 1, n)
      <4>1. Pending(t, r) = Pending(s, r) \o SubSeq(es, 1, n - 1)
        BY <3>2, <3>8
      <4>2. SubSeq(es, 1, n) = SubSeq(es, 1, n - 1) \o <<es[n]>>
        BY <3>1, SubSeqRecursiveSecond
      <4>3. SubSeq(es, 1, n - 1) \in Seq(Events) /\ <<es[n]>> \in Seq(Events)
        BY <3>1, <3>4
      <4>4. SubSeq(es, 1, n) = Append(SubSeq(es, 1, n - 1), es[n])
        BY <3>4, <4>2, <4>3, AppendIsConcat
      <4>5. Append(Pending(s, r) \o SubSeq(es, 1, n - 1), es[n]) = Pending(s, r) \o Append(SubSeq(es, 1, n - 1), es[n])
        BY <1>3, <3>4, <4>3, HandedOn
      <4> QED
        BY <4>1, <4>4, <4>5, Zenon
    <3> HIDE DEF t
    <3> QED
      BY <1>3, <3>3, <3>5, <3>6, <3>7, <3>8, <3>2 DEF t
  <2> QED
    BY <2>1, <2>2
<1> HIDE DEF T
<1>5. T = Nat
  <2>1. T \in SUBSET Nat
    BY DEF T
  <2> QED
    BY <1>4, <2>1, Below
<1>6. Good(N)
  BY <1>1, <1>5 DEF T
<1>7. PushAll(s, es) = f[N] /\ SubSeq(es, 1, N) = es
  BY PushAllIs DEF f
<1>8. (\E p \in 1..N : IsComplete(es[p])) <=> Complete(es)
  BY DEF Complete
<1> QED
  BY <1>6, <1>7, <1>8

\* and they are the events the stream accepts.
LEMMA AcceptedAre ==
  ASSUME NEW s, s.done \in BOOLEAN, NEW es \in Seq(Events),
         \A p \in DOMAIN es : IsComplete(es[p]) => p = Len(es)
  PROVE  Accepted(s, es) = IF s.done THEN <<>> ELSE es
<1> DEFINE last == {i \in DOMAIN es : IsComplete(es[i])}
<1>1. CASE s.done
  BY <1>1 DEF Accepted
<1>2. CASE ~s.done /\ last = {}
  BY <1>2 DEF Accepted
<1>3. CASE ~s.done /\ last # {}
  <2>1. last = {Len(es)}
    BY <1>3
  <2>2. (CHOOSE i \in last : \A j \in last : i <= j) = Len(es)
    BY <2>1
  <2>3. SubSeq(es, 1, Len(es)) = es
    OBVIOUS
  <2> QED
    BY <1>3, <2>2, <2>3 DEF Accepted
<1> QED
  BY <1>1, <1>2, <1>3

IsMade(m, lines, N, f) == f = [n \in 0..N |-> IF n = 0 THEN m ELSE Processed(f[n - 1], lines[n])]
MadeUpTo(m, lines) == CHOOSE f : IsMade(m, lines, Len(lines), f)

LEMMA MadeIs ==
  ASSUME NEW m, NEW lines
  PROVE  Made(m, lines) = MadeUpTo(m, lines)[Len(lines)]
BY DEF Made, MadeUpTo, IsMade

LEMMA MadeExists ==
  ASSUME NEW m, NEW lines, NEW M \in Nat
  PROVE  \E f : IsMade(m, lines, M, f)
<1> DEFINE T == {N \in Nat : \E f : IsMade(m, lines, N, f)}
<1>1. ASSUME NEW N \in Nat, \A k \in 0..(N - 1) : k \in T PROVE N \in T
  <2> SUFFICES \E f : IsMade(m, lines, N, f)
    OBVIOUS
  <2>1. CASE N = 0
    <3>1. IsMade(m, lines, N, [n \in 0..0 |-> m])
      BY <2>1 DEF IsMade
    <3> QED
      BY <3>1
  <2>2. CASE N # 0
    <3>1. PICK f : IsMade(m, lines, N - 1, f)
      <4>1. N - 1 \in 0..(N - 1)
        BY <2>2
      <4> QED
        BY <1>1, <4>1
    <3> DEFINE g == [n \in 0..N |-> IF n = N THEN Processed(f[n - 1], lines[n]) ELSE f[n]]
    <3>2. ASSUME NEW n \in 0..N
          PROVE  g[n] = IF n = 0 THEN m ELSE Processed(g[n - 1], lines[n])
      <4>1. CASE n = 0
        BY <2>2, <3>1, <4>1 DEF IsMade
      <4>2. CASE n # 0
        <5>1. n - 1 \in 0..N /\ n - 1 # N /\ n - 1 \in 0..(N - 1)
          BY <4>2
        <5>2. g[n - 1] = f[n - 1]
          BY <5>1
        <5>3. CASE n = N
          BY <4>2, <5>2, <5>3
        <5>4. CASE n # N
          <6>1. n \in 0..(N - 1)
            BY <5>4
          <6>2. f[n] = Processed(f[n - 1], lines[n])
            BY <3>1, <4>2, <6>1, Zenon DEF IsMade
          <6> QED
            BY <4>2, <5>2, <5>4, <6>2
        <5> QED
          BY <5>3, <5>4
      <4> QED
        BY <4>1, <4>2
    <3>3. IsMade(m, lines, N, g)
      <4>1. g = [n \in 0..N |-> g[n]]
        OBVIOUS
      <4> HIDE DEF g
      <4> QED
        BY <3>2, <4>1 DEF IsMade
    <3> QED
      BY <3>3
  <2> QED
    BY <2>1, <2>2
<1> HIDE DEF T
<1>2. T = Nat
  BY <1>1, Below DEF T
<1> QED
  BY <1>2 DEF T

LEMMA MadeValue ==
  ASSUME NEW m, NEW lines, NEW N, NEW f, IsMade(m, lines, N, f), NEW n \in 0..N
  PROVE  f[n] = IF n = 0 THEN m ELSE Processed(f[n - 1], lines[n])
BY Zenon DEF IsMade

------------------------------------------------------------------------------
(* The steps and the streams: what is pending where *)

LEMMA ReadersHere == "forwarder" \in Readers /\ "reader" \in Readers
BY ReadersAre

\* A stream nobody waits at serves whatever its reader does next.
LEMMA ServesAny ==
  ASSUME NEW s, NEW r, NEW rd, Serves(s, r, rd), rd # "waits"
  PROVE  \A x : Serves(s, r, x)
BY DEF Serves

\* The order of events, stream by stream.
LEMMA OrderIs ==
  ASSUME Types
  PROVE  /\ route = "lazy" =>
              (EventsInOrder <=> pushed = (seen \o Pending(outer, "reader")) \o Pending(inner, "forwarder"))
         /\ route # "lazy" => (EventsInOrder <=> pushed = seen \o Pending(inner, "reader"))
<1>1. seen \in Seq(Events) /\ Pending(inner, "reader") \in Seq(Events)
  BY PendingTyped, ReadersHere DEF Types
<1>2. seen \o Pending(inner, "reader") \in Seq(Events)
  BY <1>1, ConcatProperties
<1>3. (seen \o Pending(inner, "reader")) \o <<>> = seen \o Pending(inner, "reader")
  BY <1>2, ConcatEmptySeq
<1> QED
  BY <1>3 DEF EventsInOrder, Source

LEMMA OrderIsNext ==
  ASSUME Types'
  PROVE  /\ route' = "lazy" =>
              (EventsInOrder' <=> pushed' = (seen' \o Pending(outer', "reader")) \o Pending(inner', "forwarder"))
         /\ route' # "lazy" => (EventsInOrder' <=> pushed' = seen' \o Pending(inner', "reader"))
<1>1. seen' \in Seq(Events) /\ Pending(inner', "reader") \in Seq(Events)
  BY PendingTyped, ReadersHere DEF Types
<1>2. seen' \o Pending(inner', "reader") \in Seq(Events)
  BY <1>1, ConcatProperties
<1>3. (seen' \o Pending(inner', "reader")) \o <<>> = seen' \o Pending(inner', "reader")
  BY <1>2, ConcatEmptySeq
<1> QED
  BY <1>3 DEF EventsInOrder, Source

\* The producer pushes events of which only the last may complete its stream.
LEMMA PushesKeep ==
  ASSUME Types, Types', Serving, Final, EventsInOrder,
         at \in {"request", "reading"},
         NEW es \in Seq(Events), \A p \in DOMAIN es : IsComplete(es[p]) => p = Len(es),
         NEW through \in BOOLEAN, Pushes(es, through),
         UNCHANGED <<route, outer, forwarder, reader, seen>>,
         through \/ (inner.done \/ Complete(es) => route = "proxy" /\ wire' = <<>>)
  PROVE  /\ Serving' /\ Final' /\ EventsInOrder'
         /\ pushed' = IF inner.done THEN pushed ELSE pushed \o es
         /\ inner'.done = (inner.done \/ Complete(es) \/ through)
<1> DEFINE r == IF route = "lazy" THEN "forwarder" ELSE "reader"
           rd == IF route = "lazy" THEN forwarder ELSE reader
           s == PushAll(inner, es)
<1>1. r \in Readers /\ inner \in Streams /\ inner.done \in BOOLEAN /\ pushed \in Seq(Events)
  BY ReadersHere DEF Types, Streams
<1>2. Serves(inner, r, rd)
  BY DEF Serving
<1> HIDE DEF r, rd
<1>3. /\ s \in Streams /\ Serves(s, r, rd)
      /\ s.done = (inner.done \/ Complete(es))
      /\ Pending(s, r) = IF inner.done THEN Pending(inner, r) ELSE Pending(inner, r) \o es
  BY <1>1, <1>2, PushAllTells
<1>4. pushed' = IF inner.done THEN pushed ELSE pushed \o es
  <2>1. pushed' = pushed \o (IF inner.done THEN <<>> ELSE es)
    <3>1. Accepted(inner, es) = IF inner.done THEN <<>> ELSE es
      BY <1>1, AcceptedAre
    <3> QED
      BY <3>1 DEF Pushes
  <2>2. pushed \o <<>> = pushed
    BY <1>1, ConcatEmptySeq
  <2> QED
    BY <2>1, <2>2
<1>5. /\ End(s, NoEvent) \in Streams /\ Serves(End(s, NoEvent), r, rd)
      /\ End(s, NoEvent).done /\ Pending(End(s, NoEvent), r) = Pending(s, r)
  BY <1>1, <1>3, EndKeeps
<1>6. Complete(es) \in BOOLEAN /\ End(s, NoEvent).done = TRUE
  BY <1>5 DEF Complete, Streams
<1>7. inner' = IF through THEN End(s, NoEvent) ELSE s
  BY DEF Pushes
<1>8. /\ Serves(inner', r, rd)
      /\ inner'.done = (inner.done \/ Complete(es) \/ through)
      /\ Pending(inner', r) = IF inner.done THEN Pending(inner, r) ELSE Pending(inner, r) \o es
  BY <1>1, <1>3, <1>5, <1>6, <1>7
<1> HIDE DEF s
<1>9. Serving'
  BY <1>8 DEF Serving, r, rd
<1>10. EventsInOrder'
  <2>1. CASE route = "lazy"
    <3> DEFINE a == seen \o Pending(outer, "reader")
               b == Pending(inner, "forwarder")
    <3>1. a \in Seq(Events) /\ b \in Seq(Events)
      BY PendingTyped, ConcatProperties, ReadersHere DEF Types
    <3>2. pushed = a \o b
      BY <2>1, OrderIs
    <3> HIDE DEF a, b
    <3>3. (a \o b) \o es = a \o (b \o es)
      BY <3>1, ConcatAssociative
    <3>4. pushed' = a \o Pending(inner', "forwarder")
      BY <1>4, <1>8, <2>1, <3>2, <3>3 DEF r, b
    <3> QED
      BY <2>1, <3>4, OrderIsNext DEF a
  <2>2. CASE route # "lazy"
    <3> DEFINE b == Pending(inner, "reader")
    <3>1. seen \in Seq(Events) /\ b \in Seq(Events)
      BY PendingTyped, ReadersHere DEF Types
    <3>2. pushed = seen \o b
      BY <2>2, OrderIs
    <3> HIDE DEF b
    <3>3. (seen \o b) \o es = seen \o (b \o es)
      BY <3>1, ConcatAssociative
    <3>4. pushed' = seen \o Pending(inner', "reader")
      BY <1>4, <1>8, <2>2, <3>2, <3>3 DEF r, b
    <3> QED
      BY <2>2, <3>4, OrderIsNext
  <2> QED
    BY <2>1, <2>2
<1>11. Complete(pushed) => inner.done
  BY DEF Final
<1>12. \A p \in DOMAIN pushed' : IsComplete(pushed'[p]) => p = Len(pushed') /\ inner'.done
  <2>1. CASE inner.done
    BY <1>4, <1>8, <2>1 DEF Final
  <2>2. CASE ~inner.done
    <3>1. \A p \in DOMAIN pushed : ~IsComplete(pushed[p])
      BY <1>11, <2>2 DEF Complete
    <3>2. /\ Len(pushed \o es) = Len(pushed) + Len(es)
          /\ DOMAIN (pushed \o es) = 1..(Len(pushed) + Len(es))
          /\ \A p \in 1..(Len(pushed) + Len(es)) :
               (pushed \o es)[p] = IF p <= Len(pushed) THEN pushed[p] ELSE es[p - Len(pushed)]
      BY <1>1, ConcatProperties
    <3> SUFFICES ASSUME NEW p \in 1..(Len(pushed) + Len(es)), IsComplete((pushed \o es)[p])
                 PROVE  p = Len(pushed) + Len(es) /\ inner'.done
      BY <1>4, <2>2, <3>2
    <3>3. p > Len(pushed)
      BY <1>1, <3>1, <3>2
    <3>4. p - Len(pushed) \in DOMAIN es /\ IsComplete(es[p - Len(pushed)])
      BY <1>1, <3>2, <3>3
    <3>5. Complete(es) /\ p - Len(pushed) = Len(es)
      BY <3>4 DEF Complete
    <3>6. p = Len(pushed) + Len(es)
      BY <1>1, <3>5
    <3>7. inner'.done
      BY <1>8, <3>5, Zenon
    <3> QED
      BY <3>6, <3>7
  <2> QED
    BY <2>1, <2>2
<1>13. Final'
  <2>1. at' = IF through THEN "over" ELSE "reading"
    BY DEF Pushes
  <2>2. Complete(pushed') => inner'.done
    BY <1>12 DEF Complete
  <2>3. route = "lazy" /\ outer.done => forwarder = "off" \/ (inner'.done /\ Pending(inner', "forwarder") = <<>>)
    <3> SUFFICES ASSUME route = "lazy", outer.done, forwarder # "off"
                 PROVE  inner'.done /\ Pending(inner', "forwarder") = <<>>
      OBVIOUS
    <3>1. inner.done /\ Pending(inner, "forwarder") = <<>>
      BY DEF Final
    <3> QED
      BY <1>8, <3>1 DEF r
  <2>4. inner'.done => at' = "over" \/ (route = "proxy" /\ at' = "reading" /\ wire' = <<>>)
    BY <1>8, <2>1
  <2>5. at' = "over" => inner'.done
    BY <1>8, <2>1
  <2> QED
    BY <1>12, <2>2, <2>3, <2>4, <2>5 DEF Final, Complete
<1> QED
  BY <1>4, <1>8, <1>9, <1>10, <1>13

\* The types that the service, the message and the signal keep.
OthersTyped ==
  /\ route \in {"lazy", "direct", "proxy"} /\ aborted \in BOOLEAN
  /\ remote \in {"sending", "closed", "cut"}
  /\ wire \in (IF route = "proxy" THEN Seq(Lines) ELSE Seq(Chunks))
  /\ sent \in Seq(Keys \union Nat) /\ served \in Seq(BOOLEAN)
  /\ message \in Messages /\ finished \in BOOLEAN

LEMMA PushingKeeps ==
  ASSUME StreamsKept, OthersTyped', at \in {"request", "reading"},
         NEW es \in Seq(Events), \A p \in DOMAIN es : IsComplete(es[p]) => p = Len(es),
         NEW through \in BOOLEAN, Pushes(es, through),
         UNCHANGED <<route, outer, forwarder, reader, seen>>,
         through \/ (inner.done \/ Complete(es) => route = "proxy" /\ wire' = <<>>)
  PROVE  /\ StreamsKept'
         /\ pushed' = IF inner.done THEN pushed ELSE pushed \o es
         /\ inner'.done = (inner.done \/ Complete(es) \/ through)
         /\ at' = IF through THEN "over" ELSE "reading"
<1> DEFINE r == IF route = "lazy" THEN "forwarder" ELSE "reader"
           rd == IF route = "lazy" THEN forwarder ELSE reader
           s == PushAll(inner, es)
<1>0. Types /\ Serving /\ Final /\ EventsInOrder
  BY DEF StreamsKept
<1>1. r \in Readers /\ inner \in Streams /\ inner.done \in BOOLEAN /\ pushed \in Seq(Events)
  BY <1>0, ReadersHere DEF Types, Streams
<1>2. Serves(inner, r, rd)
  BY <1>0 DEF Serving
<1> HIDE DEF r, rd
<1>3. s \in Streams /\ Serves(s, r, rd)
  BY <1>1, <1>2, PushAllTells
<1>4. End(s, NoEvent) \in Streams
  BY <1>1, <1>3, EndKeeps
<1>5. inner' \in Streams /\ at' = IF through THEN "over" ELSE "reading"
  BY <1>3, <1>4 DEF Pushes
<1>6. pushed' \in Seq(Events)
  <2>1. Accepted(inner, es) \in Seq(Events)
    <3>1. Accepted(inner, es) = IF inner.done THEN <<>> ELSE es
      BY <1>1, AcceptedAre
    <3> QED
      BY <3>1
  <2> QED
    BY <1>1, <2>1, ConcatProperties DEF Pushes
<1>7. Types'
  BY <1>0, <1>5, <1>6 DEF Types, OthersTyped
<1>8. Unstarted'
  BY <1>5 DEF Unstarted
<1> QED
  BY <1>0, <1>5, <1>7, <1>8, PushesKeep DEF StreamsKept

\* The handler of every failure.
LEMMA FailingKeeps ==
  ASSUME StreamsKept, OthersTyped', at \in {"request", "reading"},
         NEW es \in Seq(Events), \A p \in DOMAIN es : ~IsComplete(es[p]),
         NEW m \in Messages, Fails(es, m),
         UNCHANGED <<route, outer, forwarder, reader, seen>>
  PROVE  /\ StreamsKept'
         /\ pushed' = IF inner.done THEN pushed ELSE pushed \o Append(es, Error)
         /\ inner'.done /\ at' = "over"
         /\ message'.blocks = m.blocks
         /\ aborted => message'.stop = "aborted"
<1> DEFINE fs == Append(es, Error)
<1>1. /\ fs \in Seq(Events) /\ Len(fs) = Len(es) + 1
      /\ \A p \in 1..Len(es) : fs[p] = es[p]
  BY EventsApart, AppendProperties
<1>2. \A p \in DOMAIN fs : IsComplete(fs[p]) => p = Len(fs)
  BY <1>1
<1>3. Pushes(fs, TRUE)
  BY DEF Fails
<1> HIDE DEF fs
<1>4. /\ StreamsKept'
      /\ pushed' = IF inner.done THEN pushed ELSE pushed \o fs
      /\ inner'.done = (inner.done \/ Complete(fs) \/ TRUE)
      /\ at' = "over"
  BY <1>1, <1>2, <1>3, PushingKeeps
<1>5. message'.blocks = m.blocks /\ (aborted => message'.stop = "aborted")
  BY DEF Fails, Messages
<1> QED
  BY <1>4, <1>5 DEF fs

LEMMA FailingTyped ==
  ASSUME NEW es, NEW m \in Messages, Fails(es, m)
  PROVE  message' \in Messages
BY DEF Fails, Messages

\* A step that leaves the streams alone.
LEMMA StreamsSame ==
  ASSUME StreamsKept, OthersTyped',
         UNCHANGED <<route, inner, outer, forwarder, reader, seen, pushed, at>>,
         inner.done => wire' = wire,
         at \in {"load", "request"} => UNCHANGED <<wire, sent, served, message>>
  PROVE  StreamsKept'
<1>1. Types'
  BY DEF StreamsKept, Types, OthersTyped
<1>2. Serving'
  BY DEF StreamsKept, Serving
<1>3. Final'
  BY DEF StreamsKept, Final
<1>4. Unstarted'
  BY DEF StreamsKept, Unstarted
<1>5. EventsInOrder'
  BY DEF StreamsKept, EventsInOrder, Source
<1> QED
  BY <1>1, <1>2, <1>3, <1>4, <1>5 DEF StreamsKept

------------------------------------------------------------------------------
(* The streams, action by action *)

LEMMA OthersAre ==
  ASSUME StreamsKept
  PROVE  OthersTyped
BY DEF StreamsKept, Types, OthersTyped

LEMMA SendTyped ==
  ASSUME OthersTyped, NEW c, IF route = "proxy" THEN c \in Lines ELSE c \in Chunks, Send(c)
  PROVE  wire' \in (IF route = "proxy" THEN Seq(Lines) ELSE Seq(Chunks))
BY DEF OthersTyped, Send

LEMMA LinesAre ==
  ASSUME NEW t \in EventTypes \union {"garbage"}, NEW i \in Nat, NEW n \in Nat
  PROVE  /\ Event(t, i, n) \in Lines
         /\ Event(t, i, n).type = t /\ Event(t, i, n).index = i /\ Event(t, i, n).n = n
BY DEF Event, Lines

LEMMA StreamsService ==
  ASSUME StreamsKept, ServiceSends \/ ServerSends \/ ServiceEnds,
         UNCHANGED <<route, mode, aborted, producing, outer, forwarder, reading>>
  PROVE  StreamsKept'
<1>0. OthersTyped
  BY OthersAre
<1>1. UNCHANGED <<route, aborted, at, message, finished, inner, pushed, outer, forwarder, reader, seen>>
  BY DEF producing, reading
<1>2. at = "reading" /\ (inner.done => wire' = wire)
  <2>1. at = "reading"
    BY DEF ServiceSends, ServerSends, ServiceEnds
  <2>2. ASSUME inner.done PROVE wire' = wire
    <3>1. route = "proxy"
      BY <2>1, <2>2 DEF StreamsKept, Final
    <3> QED
      BY <2>2, <3>1 DEF ServiceSends, ServerSends, ServiceEnds
  <2> QED
    BY <2>1, <2>2
<1>3. OthersTyped'
  <2>1. CASE ServiceSends
    <3>1. Len(sent) + 1 \in Nat /\ route # "proxy"
      BY <1>0, <2>1 DEF OthersTyped, ServiceSends
    <3>2. ASSUME NEW key \in Keys, NEW ids \in SUBSET {"index", "id"},
                 Send(Delta(key, ids)), sent' = Append(sent, key)
          PROVE  OthersTyped'
      <4>1. Delta(key, ids) \in Chunks
        BY <3>1 DEF Delta, Chunks, Names
      <4>2. wire' \in Seq(Chunks)
        BY <1>0, <3>1, <3>2, <4>1, SendTyped
      <4> QED
        BY <1>0, <1>1, <2>1, <3>1, <3>2, <4>2 DEF OthersTyped, ServiceSends
    <3>3. ASSUME NEW k \in {"stop", "error"}, Send(Reason(k)), sent' = sent
          PROVE  OthersTyped'
      <4>1. Reason(k) \in Chunks
        BY DEF Reason, Chunks
      <4>2. wire' \in Seq(Chunks)
        BY <1>0, <3>1, <3>3, <4>1, SendTyped
      <4> QED
        BY <1>0, <1>1, <2>1, <3>1, <3>3, <4>2 DEF OthersTyped, ServiceSends
    <3> QED
      BY <2>1, <3>2, <3>3 DEF ServiceSends
  <2>2. CASE ServerSends
    <3>1. /\ route = "proxy" /\ remote' = remote
          /\ sent \in Seq(Keys \union Nat) /\ served \in Seq(BOOLEAN)
          /\ Len(sent) + 1 \in Nat /\ Len(served) + 1 \in Nat
      BY <1>0, <2>2 DEF OthersTyped, ServerSends
    <3> DEFINE Ends(c) == /\ Send(c) /\ c \in Lines
                          /\ sent' \in Seq(Keys \union Nat) /\ served' \in Seq(BOOLEAN)
    <3>2. \E c : Ends(c)
      <4>1. CASE Send(Start) /\ UNCHANGED <<sent, served>>
        <5>1. Start \in Lines
          BY LinesAre DEF Start, EventTypes
        <5> QED
          BY <3>1, <4>1, <5>1
      <4>2. CASE Send(Event("open", Len(served) + 1, 0)) /\ served' = Append(served, TRUE) /\ UNCHANGED sent
        <5>1. Event("open", Len(served) + 1, 0) \in Lines
          BY <3>1, LinesAre DEF EventTypes
        <5>2. Append(served, TRUE) \in Seq(BOOLEAN)
          BY <3>1
        <5> QED
          BY <3>1, <4>2, <5>1, <5>2
      <4>3. ASSUME NEW i \in DOMAIN served, Send(Event("delta", i, Len(sent) + 1)), sent' = Append(sent, i), UNCHANGED served
            PROVE  \E c : Ends(c)
        <5>1. i \in Nat
          BY <3>1
        <5>2. Event("delta", i, Len(sent) + 1) \in Lines
          BY <3>1, <5>1, LinesAre DEF EventTypes
        <5>3. Append(sent, i) \in Seq(Keys \union Nat)
          BY <3>1, <5>1
        <5> QED
          BY <3>1, <4>3, <5>2, <5>3
      <4>4. ASSUME NEW i \in DOMAIN served, Send(Event("close", i, 0)), served' = [served EXCEPT ![i] = FALSE], UNCHANGED sent
            PROVE  \E c : Ends(c)
        <5>1. i \in Nat
          BY <3>1
        <5>2. Event("close", i, 0) \in Lines
          BY <5>1, LinesAre DEF EventTypes
        <5>3. [served EXCEPT ![i] = FALSE] \in Seq(BOOLEAN)
          BY <3>1
        <5> QED
          BY <3>1, <4>4, <5>2, <5>3
      <4>5. CASE (Send(Done) \/ Send(Error) \/ Send(Event("garbage", 0, 0))) /\ UNCHANGED <<sent, served>>
        <5>1. Done \in Lines /\ Error \in Lines /\ Event("garbage", 0, 0) \in Lines
          BY LinesAre DEF Done, Error, EventTypes
        <5> QED
          BY <3>1, <4>5, <5>1
      <4> HIDE DEF Ends
      <4> QED
        BY <2>2, <4>1, <4>2, <4>3, <4>4, <4>5 DEF ServerSends
    <3>3. wire' \in Seq(Lines)
      BY <1>0, <3>1, <3>2, SendTyped
    <3> QED
      BY <1>0, <1>1, <3>1, <3>2, <3>3 DEF OthersTyped
  <2>3. CASE ServiceEnds
    BY <1>0, <1>1, <2>3 DEF OthersTyped, ServiceEnds
  <2> QED
    BY <2>1, <2>2, <2>3
<1> QED
  BY <1>1, <1>2, <1>3, StreamsSame

LEMMA StreamsAbort ==
  ASSUME StreamsKept, UserAborts
  PROVE  StreamsKept'
<1>1. /\ UNCHANGED <<route, inner, outer, forwarder, reader, seen, pushed, at>>
      /\ UNCHANGED <<wire, sent, served, message, remote, finished>> /\ aborted' = TRUE
  BY DEF UserAborts, service, producing, reading
<1>2. OthersTyped'
  BY <1>1, OthersAre DEF OthersTyped
<1> QED
  BY <1>1, <1>2, StreamsSame

LEMMA StreamsLoad ==
  ASSUME StreamsKept, Load
  PROVE  StreamsKept'
<1>1. /\ at = "load" /\ at' = "request" /\ forwarder' = IF route = "lazy" THEN "asks" ELSE "off"
      /\ UNCHANGED <<route, aborted, remote, wire, sent, served, message, finished, inner, pushed, outer, reader, seen>>
  BY DEF Load, service, reading
<1>2. forwarder = "off" /\ ~outer.done /\ pushed = <<>> /\ ~inner.done
  BY <1>1 DEF StreamsKept, Unstarted, Final
<1>3. Types'
  BY <1>1 DEF StreamsKept, Types
<1>4. Serving'
  <2>1. route = "lazy" => Serves(inner, "forwarder", "asks")
    BY <1>2, ServesAny DEF StreamsKept, Serving
  <2> QED
    BY <1>1, <2>1 DEF StreamsKept, Serving
<1>5. Final'
  <2>1. ~Complete(pushed')
    BY <1>1, <1>2 DEF Complete
  <2> QED
    BY <1>1, <1>2, <2>1 DEF Final, Complete
<1>6. Unstarted'
  BY <1>1 DEF StreamsKept, Unstarted
<1>7. EventsInOrder'
  BY <1>1 DEF StreamsKept, EventsInOrder, Source
<1> QED
  BY <1>3, <1>4, <1>5, <1>6, <1>7 DEF StreamsKept

LEMMA StreamsLoadFails ==
  ASSUME StreamsKept, LoadFails
  PROVE  /\ StreamsKept'
         /\ at = "load" /\ at' = "over" /\ UNCHANGED <<wire, sent, served, inner>>
         /\ message'.blocks = message.blocks
         /\ pushed' \in {pushed, <<Error>>}
<1>0. Types /\ Serving /\ Final /\ Unstarted /\ EventsInOrder
  BY DEF StreamsKept
<1>1. /\ at = "load" /\ at' = "over"
      /\ UNCHANGED <<route, aborted, remote, wire, sent, served, finished, inner, forwarder, seen>>
  BY DEF LoadFails, service
<1>2. forwarder = "off" /\ ~outer.done /\ pushed = <<>> /\ seen = <<>> /\ Pending(outer, "reader") = <<>>
  BY <1>0, <1>1 DEF Unstarted
<1>3. CASE route = "lazy"
  <2> DEFINE s == Push(outer, Error)
             t == End(s, Error)
  <2>1. /\ message' = [message EXCEPT !.stop = "error"] /\ outer' = t
        /\ pushed' = Accepted(outer, <<Error>>) /\ reader' = reader
    BY <1>3 DEF LoadFails, reading
  <2>2. message' \in Messages /\ message'.blocks = message.blocks
    BY <1>0, <2>1 DEF Types, Messages
  <2>3. outer \in Streams /\ Serves(outer, "reader", reader) /\ Error \in Events
    BY <1>0, <1>3, EventsApart DEF Types, Serving
  <2>4. s \in Streams /\ Serves(s, "reader", reader) /\ Pending(s, "reader") = Append(<<>>, Error)
    BY <1>2, <2>3, PushOne, ReadersHere, ZenonT(40)
  <2>5. t \in Streams /\ Serves(t, "reader", reader) /\ Pending(t, "reader") = <<Error>>
    BY <2>3, <2>4, EndKeeps, ReadersHere
  <2> HIDE DEF s, t
  <2>6. pushed' = <<Error>>
    <3> DEFINE es == <<Error>>
    <3>1. es \in Seq(Events) /\ outer.done \in BOOLEAN
      BY <2>3 DEF Streams
    <3>2. \A p \in DOMAIN es : IsComplete(es[p]) => p = Len(es)
      OBVIOUS
    <3> HIDE DEF es
    <3>3. Accepted(outer, es) = IF outer.done THEN <<>> ELSE es
      BY <3>1, <3>2, AcceptedAre
    <3> QED
      BY <1>2, <2>1, <3>3 DEF es
  <2>7. Types'
    <3>1. <<Error>> \in Seq(Events)
      BY <2>3
    <3> QED
      BY <1>0, <1>1, <2>1, <2>2, <2>5, <2>6, <3>1 DEF Types
  <2>8. Serving'
    BY <1>0, <1>1, <1>3, <2>1, <2>5 DEF Serving
  <2>9. Final'
    BY <1>1, <1>2, <2>6 DEF Final, Complete
  <2>10. Unstarted'
    BY <1>1 DEF Unstarted
  <2>11. EventsInOrder'
    <3>1. Pending(inner, "forwarder") = <<>>
      <4>1. Pending(inner, "forwarder") \in Seq(Events)
        BY <1>0, PendingTyped, ReadersHere DEF Types
      <4>2. <<>> = (<<>> \o <<>>) \o Pending(inner, "forwarder")
        BY <1>0, <1>2, <1>3, OrderIs
      <4> QED
        BY <4>1, <4>2
    <3>2. <<Error>> = (<<>> \o <<Error>>) \o <<>>
      OBVIOUS
    <3> QED
      BY <1>1, <1>2, <1>3, <2>1, <2>5, <2>6, <2>7, <3>1, <3>2, OrderIsNext
  <2> QED
    BY <1>1, <2>2, <2>6, <2>7, <2>8, <2>9, <2>10, <2>11 DEF StreamsKept
<1>4. CASE route # "lazy"
  <2>1. reader' = "thrown" /\ UNCHANGED <<message, outer, pushed>>
    BY <1>4 DEF LoadFails
  <2>2. Types'
    BY <1>0, <1>1, <2>1 DEF Types
  <2>3. Serving'
    <3>1. Serves(inner, "reader", "thrown")
      BY <1>0, <1>1, <1>4, ServesAny DEF Serving, Unstarted
    <3> QED
      BY <1>0, <1>1, <1>4, <2>1, <3>1 DEF Serving
  <2>4. Final'
    BY <1>1, <1>2, <1>4, <2>1 DEF Final, Complete
  <2>5. Unstarted'
    BY <1>1 DEF Unstarted
  <2>6. EventsInOrder'
    BY <1>0, <1>1, <2>1 DEF EventsInOrder, Source
  <2> QED
    BY <1>1, <2>1, <2>2, <2>3, <2>4, <2>5, <2>6 DEF StreamsKept
<1> QED
  BY <1>3, <1>4


LEMMA StreamsForward ==
  ASSUME StreamsKept, Forward
  PROVE  StreamsKept' /\ UNCHANGED <<route, at, wire, sent, served, message, pushed>> /\ inner'.done = inner.done
<1>0. Types /\ Serving /\ Final /\ Unstarted /\ EventsInOrder
  BY DEF StreamsKept
<1> DEFINE e == Answer(inner, "forwarder", forwarder = "asks")
           t == Taken(inner, "forwarder", forwarder = "asks")
<1>1. /\ forwarder \in {"asks", "waits"}
      /\ e # NoEvent \/ forwarder = "asks"
      /\ inner' = t
      /\ forwarder' = (CASE e = NoEvent -> "waits" [] e = Closed -> "over" [] OTHER -> "asks")
      /\ outer' = (CASE e = NoEvent -> outer [] e = Closed -> End(outer, NoEvent) [] OTHER -> Push(outer, e))
      /\ UNCHANGED <<route, aborted, remote, wire, sent, served, at, message, finished, pushed, reader, seen>>
  BY Zenon DEF Forward, service, reading
<1>2. route = "lazy" /\ at # "load" /\ forwarder # "off"
  BY <1>0, <1>1 DEF Serving, Unstarted
<1>3. /\ inner \in Streams /\ outer \in Streams /\ inner.done \in BOOLEAN /\ outer.done \in BOOLEAN
      /\ Serves(inner, "forwarder", forwarder) /\ Serves(outer, "reader", reader)
      /\ pushed \in Seq(Events) /\ seen \in Seq(Events)
  BY <1>0, <1>2 DEF Types, Serving, Streams
<1>4. /\ t \in Streams /\ t.done = inner.done
      /\ \/ /\ e = NoEvent /\ ~inner.done /\ Serves(t, "forwarder", "waits")
            /\ Pending(inner, "forwarder") = <<>> /\ Pending(t, "forwarder") = <<>>
         \/ /\ e = Closed /\ inner.done /\ \A x : Serves(t, "forwarder", x)
            /\ Pending(inner, "forwarder") = <<>> /\ Pending(t, "forwarder") = <<>>
         \/ /\ e \in Events /\ \A x : Serves(t, "forwarder", x)
            /\ Pending(inner, "forwarder") = <<e>> \o Pending(t, "forwarder")
  BY <1>1, <1>3, Taking, ReadersHere
<1> HIDE DEF e, t
<1> DEFINE a == Pending(outer, "reader")
           b == Pending(t, "forwarder")
<1>5. a \in Seq(Events) /\ b \in Seq(Events) /\ seen \in Seq(Events)
  BY <1>3, <1>4, PendingTyped, ReadersHere
<1>6. pushed = (seen \o a) \o Pending(inner, "forwarder")
  BY <1>0, <1>2, OrderIs
<1>7. Complete(pushed) => inner.done
  BY <1>0, <1>2 DEF Final
<1>8. outer.done => inner.done /\ Pending(inner, "forwarder") = <<>>
  BY <1>0, <1>2 DEF Final
<1>9. /\ forwarder' \in {"asks", "waits", "over"}
      /\ outer' \in Streams /\ Serves(outer', "reader", reader) /\ Serves(inner', "forwarder", forwarder')
      /\ pushed = (seen \o Pending(outer', "reader")) \o b
      /\ outer'.done => inner.done /\ b = <<>>
  <2>1. CASE e = NoEvent
    <3>1. forwarder' = "waits" /\ outer' = outer
      BY <1>1, <2>1, EventsApart
    <3> QED
      BY <1>1, <1>3, <1>4, <1>6, <1>8, <2>1, <3>1, EventsApart
  <2>2. CASE e = Closed
    <3>1. forwarder' = "over" /\ outer' = End(outer, NoEvent)
      BY <1>1, <2>2, EventsApart
    <3>2. outer' \in Streams /\ Serves(outer', "reader", reader) /\ Pending(outer', "reader") = a
      BY <1>3, <3>1, EndKeeps, ReadersHere
    <3> QED
      BY <1>1, <1>4, <1>6, <2>2, <3>1, <3>2, EventsApart
  <2>3. CASE e \in Events
    <3>0. Append(seen \o a, e) = seen \o Append(a, e)
      BY <1>5, <2>3, HandedOn
    <3>1. e # NoEvent /\ e # Closed
      BY <2>3, EventsApart
    <3>2. forwarder' = "asks" /\ outer' = Push(outer, e)
      BY <1>1, <3>1
    <3>3. Pending(inner, "forwarder") = <<e>> \o b /\ \A x : Serves(t, "forwarder", x)
      BY <1>4, <3>1
    <3>4. ~outer.done
      <4>1. <<e>> \o b # <<>>
        BY <1>5, <2>3
      <4> QED
        BY <1>8, <3>3, <4>1
    <3>5. /\ outer' \in Streams /\ Serves(outer', "reader", reader)
          /\ outer'.done = IsComplete(e)
          /\ Pending(outer', "reader") = Append(a, e)
      BY <1>3, <2>3, <3>2, <3>4, PushOne, ReadersHere, EventsApart
    <3>6. pushed = (seen \o Append(a, e)) \o b
      <4>1. (seen \o a) \o (<<e>> \o b) = (seen \o Append(a, e)) \o b
        BY <1>5, <2>3, HandedOn, ZenonT(40)
      <4> QED
        BY <1>6, <3>3, <4>1
    <3>7. IsComplete(e) => inner.done /\ b = <<>>
      <4> SUFFICES ASSUME IsComplete(e) PROVE inner.done /\ b = <<>>
        OBVIOUS
      <4> DEFINE c == seen \o Append(a, e)
      <4>1. c \in Seq(Events) /\ c[Len(c)] = e /\ Len(c) \in Nat \ {0}
        <5>1. c = Append(seen \o a, e)
          BY <3>0
        <5>2. seen \o a \in Seq(Events)
          BY <1>3, <1>5, ConcatProperties
        <5> HIDE DEF c
        <5> QED
          BY <2>3, <5>1, <5>2, AppendProperties
      <4> HIDE DEF c
      <4>2. pushed = c \o b
        BY <3>6 DEF c
      <4>3. Len(c) \in DOMAIN pushed /\ pushed[Len(c)] = e /\ Len(pushed) = Len(c) + Len(b)
        BY <1>5, <4>1, <4>2, ConcatProperties
      <4>4. Len(c) = Len(pushed)
        BY <1>0, <4>3 DEF Final
      <4>5. Complete(pushed)
        BY <4>3 DEF Complete
      <4> QED
        BY <1>5, <1>7, <4>1, <4>3, <4>4, <4>5
    <3> QED
      BY <1>1, <3>2, <3>3, <3>5, <3>6, <3>7
  <2> QED
    BY <1>4, <2>1, <2>2, <2>3
<1>10. Types'
  BY <1>0, <1>1, <1>4, <1>9 DEF Types
<1>11. Serving'
  BY <1>1, <1>2, <1>9 DEF Serving
<1>12. Final'
  BY <1>0, <1>1, <1>2, <1>4, <1>9 DEF Final, Complete
<1>13. Unstarted'
  BY <1>0, <1>1, <1>2 DEF Unstarted
<1>14. EventsInOrder'
  BY <1>1, <1>2, <1>9, <1>10, OrderIsNext
<1> QED
  BY <1>1, <1>4, <1>10, <1>11, <1>12, <1>13, <1>14 DEF StreamsKept

LEMMA StreamsReadEvent ==
  ASSUME StreamsKept, ReadEvent
  PROVE  StreamsKept' /\ UNCHANGED <<route, at, wire, sent, served, message, pushed>> /\ inner'.done = inner.done
<1>0. Types /\ Serving /\ Final /\ Unstarted /\ EventsInOrder
  BY DEF StreamsKept
<1> DEFINE e == Answer(Source, "reader", reader = "asks")
           t == Taken(Source, "reader", reader = "asks")
<1>1. /\ reader \in {"asks", "waits"} /\ (at # "load" \/ route = "lazy")
      /\ e # NoEvent \/ reader = "asks"
      /\ SourceIs(t)
      /\ reader' = (CASE e = NoEvent -> "waits" [] e = Closed \/ IsComplete(e) -> "result" [] OTHER -> "asks")
      /\ seen' = IF e \in {NoEvent, Closed} THEN seen ELSE Append(seen, e)
      /\ UNCHANGED <<route, aborted, remote, wire, sent, served, at, message, finished, pushed, forwarder>>
  BY Zenon DEF ReadEvent, service
<1>2. /\ inner \in Streams /\ outer \in Streams /\ inner.done \in BOOLEAN /\ outer.done \in BOOLEAN
      /\ pushed \in Seq(Events) /\ seen \in Seq(Events)
  BY <1>0 DEF Types, Streams
<1>3. Source \in Streams /\ Serves(Source, "reader", reader)
  BY <1>0, <1>2 DEF Source, Serving
<1>4. /\ t \in Streams /\ t.done = Source.done
      /\ \/ /\ e = NoEvent /\ ~Source.done /\ Serves(t, "reader", "waits")
            /\ Pending(Source, "reader") = <<>> /\ Pending(t, "reader") = <<>>
         \/ /\ e = Closed /\ Source.done /\ \A x : Serves(t, "reader", x)
            /\ Pending(Source, "reader") = <<>> /\ Pending(t, "reader") = <<>>
         \/ /\ e \in Events /\ \A x : Serves(t, "reader", x)
            /\ Pending(Source, "reader") = <<e>> \o Pending(t, "reader")
  BY <1>1, <1>3, Taking, ReadersHere
<1> HIDE DEF e, t
<1>5. Pending(t, "reader") \in Seq(Events)
  BY <1>4, PendingTyped, ReadersHere
<1>6. /\ seen' \in Seq(Events) /\ reader' \in {"asks", "waits", "result"}
      /\ Serves(t, "reader", reader')
      /\ seen \o Pending(Source, "reader") = seen' \o Pending(t, "reader")
  <2>1. CASE e = NoEvent
    <3>1. ~IsComplete(NoEvent)
      BY DEF IsComplete, NoEvent
    <3>2. reader' = "waits" /\ seen' = seen
      BY <1>1, <2>1, <3>1, EventsApart
    <3> QED
      BY <1>2, <1>4, <2>1, <3>2, EventsApart
  <2>2. CASE e = Closed
    BY <1>1, <1>2, <1>4, <2>2, EventsApart
  <2>3. CASE e \in Events
    <3>1. e # NoEvent /\ e # Closed
      BY <2>3, EventsApart
    <3>2. seen' = Append(seen, e) /\ reader' \in {"asks", "result"}
      BY <1>1, <3>1
    <3>3. Append(seen, e) = seen \o <<e>> /\ <<e>> \in Seq(Events) /\ Append(seen, e) \in Seq(Events)
      BY <1>2, <2>3, AppendIsConcat
    <3>4. seen \o (<<e>> \o Pending(t, "reader")) = (seen \o <<e>>) \o Pending(t, "reader")
      BY <1>2, <1>5, <3>3, ConcatAssociative, SMTT(40)
    <3> QED
      BY <1>4, <3>1, <3>2, <3>3, <3>4
  <2> QED
    BY <1>4, <2>1, <2>2, <2>3
<1>7. CASE route = "lazy"
  <2>1. outer' = t /\ inner' = inner /\ Source = outer
    BY <1>1, <1>7 DEF SourceIs, Source
  <2>2. Types'
    BY <1>0, <1>1, <1>4, <1>6, <2>1 DEF Types
  <2>3. Serving'
    BY <1>0, <1>1, <1>6, <1>7, <2>1 DEF Serving
  <2>4. Final'
    BY <1>0, <1>1, <1>4, <2>1 DEF Final, Complete
  <2>5. Unstarted'
    <3> SUFFICES ASSUME at = "load"
                 PROVE  seen' = <<>> /\ Pending(outer', "reader") = <<>>
      BY <1>0, <1>1, <1>4, <1>7, <2>1 DEF Unstarted
    <3>1. Pending(outer, "reader") = <<>> /\ seen = <<>>
      BY <1>0 DEF Unstarted
    <3>2. seen' \o Pending(outer', "reader") = <<>>
      BY <1>6, <2>1, <3>1
    <3> QED
      BY <1>5, <1>6, <2>1, <3>2, ConcatProperties
  <2>6. EventsInOrder'
    <3>1. pushed = (seen \o Pending(outer, "reader")) \o Pending(inner, "forwarder")
      BY <1>0, <1>7, OrderIs
    <3>2. pushed' = (seen' \o Pending(outer', "reader")) \o Pending(inner', "forwarder")
      BY <1>1, <1>6, <2>1, <3>1
    <3> QED
      BY <1>1, <1>7, <2>2, <3>2, OrderIsNext
  <2> QED
    BY <1>1, <2>1, <2>2, <2>3, <2>4, <2>5, <2>6 DEF StreamsKept
<1>8. CASE route # "lazy"
  <2>1. inner' = t /\ outer' = outer /\ Source = inner /\ at # "load"
    BY <1>1, <1>8 DEF SourceIs, Source
  <2>2. Types'
    BY <1>0, <1>1, <1>4, <1>6, <2>1 DEF Types
  <2>3. Serving'
    BY <1>0, <1>1, <1>6, <1>8, <2>1 DEF Serving
  <2>4. Final'
    BY <1>0, <1>1, <1>4, <1>8, <2>1 DEF Final, Complete
  <2>5. Unstarted'
    BY <1>0, <1>1, <2>1 DEF Unstarted
  <2>6. EventsInOrder'
    <3>1. pushed = seen \o Pending(inner, "reader")
      BY <1>0, <1>8, OrderIs
    <3>2. pushed' = seen' \o Pending(inner', "reader")
      BY <1>1, <1>6, <2>1, <3>1
    <3> QED
      BY <1>1, <1>8, <2>2, <3>2, OrderIsNext
  <2> QED
    BY <1>1, <1>4, <2>1, <2>2, <2>3, <2>4, <2>5, <2>6 DEF StreamsKept
<1> QED
  BY <1>7, <1>8

LEMMA StreamsTakeResult ==
  ASSUME StreamsKept, TakeResult
  PROVE  StreamsKept' /\ UNCHANGED <<route, at, wire, sent, served, message, pushed, inner>>
<1>0. Types /\ Serving /\ Final /\ Unstarted /\ EventsInOrder
  BY DEF StreamsKept
<1>1. /\ reader = "result" /\ reader' = "over"
      /\ UNCHANGED <<route, aborted, remote, wire, sent, served, at, message, finished, inner, pushed, outer, forwarder, seen>>
  BY DEF TakeResult, service, producing
<1>2. Types'
  BY <1>0, <1>1 DEF Types
<1>3. Serving'
  BY <1>0, <1>1, ServesAny DEF Serving
<1>4. Final'
  BY <1>0, <1>1 DEF Final
<1>5. Unstarted'
  BY <1>0, <1>1 DEF Unstarted
<1>6. EventsInOrder'
  BY <1>0, <1>1 DEF EventsInOrder, Source
<1> QED
  BY <1>1, <1>2, <1>3, <1>4, <1>5, <1>6 DEF StreamsKept

------------------------------------------------------------------------------
(* The texts: what is read from the wire goes into its block *)

\* what the wire w2 is once the first of w is read
FirstRead(w, w2) ==
  /\ Len(w2) = Len(w) - 1 /\ DOMAIN w2 = 1..Len(w2)
  /\ \A p \in 1..Len(w2) : w2[p] = w[p + 1]

\* a wire with a chunk to read
Waiting(w) == DOMAIN w = 1..Len(w) /\ Len(w) \in Nat \ {0} /\ \A p \in DOMAIN w : w[p].n \in Nat

\* the blocks after n has gone to the end of the text of block i
Grown(blocks, after, i, n) ==
  /\ DOMAIN after = DOMAIN blocks
  /\ \A j \in DOMAIN blocks : after[j].key = blocks[j].key /\ (j # i => after[j].text = blocks[j].text)
  /\ after[i].text = Append(blocks[i].text, n)

LEMMA NumbersRead ==
  ASSUME NEW w, DOMAIN w = 1..Len(w), Len(w) \in Nat \ {0}, NEW w2, FirstRead(w, w2)
  PROVE  Numbers(w) = {w[1].n} \union Numbers(w2)
<1>1. ASSUME NEW p \in DOMAIN w, p # 1 PROVE w[p].n \in Numbers(w2)
  <2>1. p - 1 \in DOMAIN w2 /\ w2[p - 1] = w[p]
    BY <1>1 DEF FirstRead
  <2> QED
    BY <2>1 DEF Numbers
<1>2. ASSUME NEW p \in DOMAIN w2 PROVE w2[p].n \in Numbers(w)
  <2>1. p + 1 \in DOMAIN w /\ w2[p] = w[p + 1]
    BY DEF FirstRead
  <2> QED
    BY <2>1 DEF Numbers
<1>3. 1 \in DOMAIN w
  OBVIOUS
<1> QED
  BY <1>1, <1>2, <1>3 DEF Numbers

\* A wire whose first chunk is read stays in order; a delta that was read was
\* the next one of all.
LEMMA WireRead ==
  ASSUME NEW w, DOMAIN w = 1..Len(w), Len(w) \in Nat \ {0}, NEW w2, FirstRead(w, w2),
         WireInOrder(w), \A p \in DOMAIN w : w[p].n \in Nat, Len(sent) \in Nat
  PROVE  /\ WireInOrder(w2)
         /\ w[1].type # "delta" => Sent \ Numbers(w2) = Sent \ Numbers(w)
         /\ w[1].type = "delta" => /\ w[1].n \in Sent /\ sent[w[1].n] = KeyOf(w[1])
                                   /\ Sent \ Numbers(w2) = (Sent \ Numbers(w)) \union {w[1].n}
                                   /\ \A n \in Sent \ Numbers(w) : n < w[1].n
<1>0. 1 \in DOMAIN w /\ Numbers(w) = {w[1].n} \union Numbers(w2)
  BY NumbersRead
<1>1. ASSUME NEW p \in DOMAIN w2
      PROVE  p + 1 \in DOMAIN w /\ w2[p] = w[p + 1] /\ p \in Nat /\ 1 < p + 1
  BY DEF FirstRead
<1>2. ASSUME w[1].type = "delta" PROVE w[1].n \notin Numbers(w2)
  <2> SUFFICES ASSUME NEW p \in DOMAIN w2, w2[p].n = w[1].n PROVE FALSE
    BY DEF Numbers
  <2>1. p + 1 \in DOMAIN w /\ w2[p] = w[p + 1] /\ 1 < p + 1
    BY <1>1
  <2>2. w[1].n \in Sent
    BY <1>0, <1>2 DEF WireInOrder
  <2>3. w[p + 1].type = "delta"
    BY <2>1, <2>2 DEF WireInOrder, Sent
  <2>4. w[1].n < w[p + 1].n
    BY <1>0, <1>2, <2>1, <2>3 DEF WireInOrder
  <2> QED
    BY <2>1, <2>2, <2>4 DEF Sent
<1>3. w[1].type # "delta" => w[1].n \notin Sent
  BY <1>0 DEF WireInOrder, Sent
<1>4. /\ w[1].type # "delta" => Sent \ Numbers(w2) = Sent \ Numbers(w)
      /\ w[1].type = "delta" => /\ w[1].n \in Sent /\ sent[w[1].n] = KeyOf(w[1])
                                /\ Sent \ Numbers(w2) = (Sent \ Numbers(w)) \union {w[1].n}
                                /\ \A n \in Sent \ Numbers(w) : n < w[1].n
  <2>1. w[1].type = "delta" => /\ w[1].n \in Sent /\ sent[w[1].n] = KeyOf(w[1])
                               /\ \A n \in Sent \ Numbers(w) : n < w[1].n
    BY <1>0 DEF WireInOrder
  <2> QED
    BY <1>0, <1>2, <1>3, <2>1
<1>5. \A p \in DOMAIN w2 : w2[p].type # "delta" => w2[p].n = 0
  BY <1>1 DEF WireInOrder
<1>6. ASSUME NEW p \in DOMAIN w2, w2[p].type = "delta"
      PROVE  /\ w2[p].n \in Sent /\ sent[w2[p].n] = KeyOf(w2[p])
             /\ \A n \in Sent \ Numbers(w2) : n < w2[p].n
             /\ \A q \in DOMAIN w2 : p < q /\ w2[q].type = "delta" => w2[p].n < w2[q].n
  <2>1. p + 1 \in DOMAIN w /\ w2[p] = w[p + 1] /\ p \in Nat /\ 1 < p + 1
    BY <1>1
  <2>2. w2[p].n \in Sent /\ sent[w2[p].n] = KeyOf(w2[p]) /\ \A n \in Sent \ Numbers(w) : n < w2[p].n
    BY <1>6, <2>1 DEF WireInOrder
  <2>3. w[1].type = "delta" => w[1].n < w2[p].n
    BY <1>0, <1>6, <2>1 DEF WireInOrder
  <2>4. ASSUME NEW q \in DOMAIN w2, p < q, w2[q].type = "delta" PROVE w2[p].n < w2[q].n
    <3>1. q + 1 \in DOMAIN w /\ w2[q] = w[q + 1] /\ q \in Nat /\ p + 1 < q + 1
      BY <1>1, <2>1, <2>4
    <3> QED
      BY <1>6, <2>1, <2>4, <3>1 DEF WireInOrder
  <2> QED
    BY <1>4, <2>2, <2>3, <2>4
<1> QED
  BY <1>4, <1>5, <1>6 DEF WireInOrder

\* A new block has no text.
LEMMA OpenKeeps ==
  ASSUME NEW blocks \in Seq(Blocks), NEW w, Texts(blocks, w),
         NEW b \in Blocks, b.text = <<>>, \A i \in DOMAIN blocks : blocks[i].key # b.key
  PROVE  Texts(Append(blocks, b), w)
<1> DEFINE more == Append(blocks, b)
<1>1. /\ DOMAIN more = 1..(Len(blocks) + 1) /\ Len(blocks) \in Nat
      /\ \A i \in DOMAIN blocks : more[i] = blocks[i]
      /\ DOMAIN blocks = 1..Len(blocks) /\ more[Len(blocks) + 1] = b
  BY AppendProperties
<1> HIDE DEF more
<1>2. ASSUME NEW i \in DOMAIN more
      PROVE  (i \in DOMAIN blocks /\ more[i] = blocks[i]) \/ (i = Len(blocks) + 1 /\ more[i] = b)
  BY <1>1
<1>3. DOMAIN b.text = {}
  OBVIOUS
<1>4. KeysApart(more)
  BY <1>1, <1>2 DEF Texts, KeysApart
<1>5. TextsInOrder(more, w)
  BY <1>2, <1>3 DEF Texts, TextsInOrder
<1>6. NoneLost(more, w)
  <2> SUFFICES ASSUME NEW n \in Sent \ Numbers(w)
               PROVE  \E i \in DOMAIN more : \E k \in DOMAIN more[i].text : more[i].text[k] = n
    BY DEF NoneLost
  <2>1. PICK i \in DOMAIN blocks : \E k \in DOMAIN blocks[i].text : blocks[i].text[k] = n
    BY DEF Texts, NoneLost
  <2> QED
    BY <1>1, <2>1
<1> QED
  BY <1>4, <1>5, <1>6 DEF Texts, more

\* A delta goes to the end of the text of the block of its key.
LEMMA DeltaKeeps ==
  ASSUME NEW blocks \in Seq(Blocks), NEW w, Texts(blocks, w), Len(sent) \in Nat,
         Waiting(w), NEW w2, FirstRead(w, w2), w[1].type = "delta",
         NEW i \in DOMAIN blocks, blocks[i].key = KeyOf(w[1]),
         NEW after, Grown(blocks, after, i, w[1].n)
  PROVE  Texts(after, w2)
<1>w. DOMAIN w = 1..Len(w) /\ Len(w) \in Nat \ {0} /\ \A p \in DOMAIN w : w[p].n \in Nat
  BY DEF Waiting
<1>g. /\ DOMAIN after = DOMAIN blocks
      /\ \A j \in DOMAIN blocks : after[j].key = blocks[j].key /\ (j # i => after[j].text = blocks[j].text)
      /\ after[i].text = Append(blocks[i].text, w[1].n)
  BY DEF Grown
<1> DEFINE n == w[1].n
           text == blocks[i].text
<1>0. WireInOrder(w) /\ KeysApart(blocks) /\ TextsInOrder(blocks, w) /\ NoneLost(blocks, w)
  BY DEF Texts
<1>1. /\ WireInOrder(w2) /\ n \in Sent /\ sent[n] = blocks[i].key /\ n \in Nat
      /\ Sent \ Numbers(w2) = (Sent \ Numbers(w)) \union {n}
      /\ \A m \in Sent \ Numbers(w) : m < n
  <2>1. 1 \in DOMAIN w
    BY <1>w
  <2>2. /\ WireInOrder(w2)
        /\ w[1].type = "delta" => /\ w[1].n \in Sent /\ sent[w[1].n] = KeyOf(w[1])
                                  /\ Sent \ Numbers(w2) = (Sent \ Numbers(w)) \union {w[1].n}
                                  /\ \A m \in Sent \ Numbers(w) : m < w[1].n
    BY <1>0, <1>w, WireRead
  <2> QED
    BY <1>w, <2>1, <2>2
<1>2. /\ Len(text) \in Nat /\ DOMAIN text = 1..Len(text)
      /\ DOMAIN after[i].text = 1..(Len(text) + 1)
      /\ \A k \in 1..Len(text) : after[i].text[k] = text[k]
      /\ after[i].text[Len(text) + 1] = n
  <2>0. blocks[i] \in Blocks
    OBVIOUS
  <2>1. text \in Seq(Nat)
    BY <2>0 DEF Blocks
  <2> QED
    BY <1>1, <1>g, <2>1, AppendProperties
<1> HIDE DEF n, text
<1>3. KeysApart(after)
  BY <1>0, <1>g DEF KeysApart
<1>4. TextsInOrder(after, w2)
  <2>1. ASSUME NEW j \in DOMAIN blocks, j # i
        PROVE  /\ \A k \in DOMAIN after[j].text :
                    /\ after[j].text[k] \in Sent \ Numbers(w2)
                    /\ sent[after[j].text[k]] = after[j].key
               /\ \A a, b \in DOMAIN after[j].text : a < b => after[j].text[a] < after[j].text[b]
    BY <1>0, <1>1, <1>g, <2>1 DEF TextsInOrder
  <2>2. ASSUME NEW k \in DOMAIN after[i].text
        PROVE  after[i].text[k] \in Sent \ Numbers(w2) /\ sent[after[i].text[k]] = after[i].key
    <3>1. CASE k = Len(text) + 1
      BY <1>1, <1>2, <1>g, <3>1
    <3>2. CASE k # Len(text) + 1
      <4>1. k \in DOMAIN text /\ after[i].text[k] = text[k]
        BY <1>2, <3>2
      <4>2. text[k] \in Sent \ Numbers(w) /\ sent[text[k]] = blocks[i].key
        BY <1>0, <4>1 DEF TextsInOrder, text
      <4> QED
        BY <1>1, <1>g, <4>1, <4>2
    <3> QED
      BY <3>1, <3>2
  <2>3. ASSUME NEW a \in DOMAIN after[i].text, NEW b \in DOMAIN after[i].text, a < b
        PROVE  after[i].text[a] < after[i].text[b]
    <3>1. a \in DOMAIN text /\ after[i].text[a] = text[a]
      BY <1>2, <2>3
    <3>2. CASE b = Len(text) + 1
      <4>1. text[a] \in Sent \ Numbers(w)
        BY <1>0, <3>1 DEF TextsInOrder, text
      <4> QED
        BY <1>1, <1>2, <3>1, <3>2, <4>1
    <3>3. CASE b # Len(text) + 1
      <4>1. b \in DOMAIN text /\ after[i].text[b] = text[b]
        BY <1>2, <3>3
      <4> QED
        BY <1>0, <2>3, <3>1, <4>1 DEF TextsInOrder, text
    <3> QED
      BY <3>2, <3>3
  <2> QED
    BY <1>g, <2>1, <2>2, <2>3 DEF TextsInOrder
<1>5. NoneLost(after, w2)
  <2> SUFFICES ASSUME NEW m \in Sent \ Numbers(w2)
               PROVE  \E j \in DOMAIN after : \E k \in DOMAIN after[j].text : after[j].text[k] = m
    BY DEF NoneLost
  <2>1. CASE m = n
    <3>1. Len(text) + 1 \in DOMAIN after[i].text
      BY <1>2
    <3> QED
      BY <1>2, <1>g, <2>1, <3>1
  <2>2. CASE m # n
    <3>0. PICK j \in DOMAIN blocks : \E k \in DOMAIN blocks[j].text : blocks[j].text[k] = m
      BY <1>0, <1>1, <2>2 DEF NoneLost
    <3>1. PICK k \in DOMAIN blocks[j].text : blocks[j].text[k] = m
      BY <3>0
    <3>2. k \in DOMAIN after[j].text /\ after[j].text[k] = m
      <4>1. CASE j = i
        <5>1. k \in DOMAIN text /\ text[k] = m
          BY <3>1, <4>1 DEF text
        <5> QED
          BY <1>2, <4>1, <5>1
      <4>2. CASE j # i
        BY <1>g, <3>1, <4>2
      <4> QED
        BY <4>1, <4>2
    <3> QED
      BY <1>g, <3>1, <3>2
  <2> QED
    BY <2>1, <2>2
<1> QED
  BY <1>1, <1>3, <1>4, <1>5 DEF Texts

\* Any other chunk changes no text.
LEMMA OtherKeeps ==
  ASSUME NEW blocks, NEW w, Texts(blocks, w), Len(sent) \in Nat,
         Waiting(w), NEW w2, FirstRead(w, w2), w[1].type # "delta"
  PROVE  Texts(blocks, w2)
<1>1. WireInOrder(w2) /\ Sent \ Numbers(w2) = Sent \ Numbers(w)
  BY WireRead DEF Texts, Waiting
<1> QED
  BY <1>1 DEF Texts, TextsInOrder, NoneLost

------------------------------------------------------------------------------
(* The names of the calls *)

\* the names of the blocks after those of chunk c have gone to its block
NamesMoved(blocks, after, c) ==
  /\ \A i \in DOMAIN after : after[i].key \in Calls => after[i].ids # {}
  /\ \A key, x : (\E i \in DOMAIN after : after[i].key = key /\ x \in after[i].ids)
                 <=> \/ \E i \in DOMAIN blocks : blocks[i].key = key /\ x \in blocks[i].ids
                     \/ key = c.key /\ x \in c.ids

\* A chunk that is read names its call in a block instead of on the wire.
LEMMA NamesRead ==
  ASSUME NEW blocks, NEW after, NEW w, Waiting(w), NEW w2, FirstRead(w, w2),
         NamesKept(blocks, w), NamesMoved(blocks, after, w[1])
  PROVE  NamesKept(after, w2)
<1>0. DOMAIN w = 1..Len(w) /\ Len(w) \in Nat \ {0}
  BY DEF Waiting
<1>1. ASSUME NEW p \in DOMAIN w2
      PROVE  p + 1 \in DOMAIN w /\ w2[p] = w[p + 1] /\ p \in Nat
  BY <1>0 DEF FirstRead
<1>2. ASSUME NEW p \in DOMAIN w2
      PROVE  NamedBefore(after, w2, p) = NamedBefore(blocks, w, p + 1)
  <2> SUFFICES ASSUME NEW x
               PROVE  (\/ \E i \in DOMAIN after : after[i].key = w2[p].key /\ x \in after[i].ids
                       \/ \E q \in DOMAIN w2 : q < p /\ w2[q].key = w2[p].key /\ x \in w2[q].ids)
                      <=> (\/ \E i \in DOMAIN blocks : blocks[i].key = w[p + 1].key /\ x \in blocks[i].ids
                           \/ \E q \in DOMAIN w : q < p + 1 /\ w[q].key = w[p + 1].key /\ x \in w[q].ids)
    BY DEF NamedBefore
  <2>1. w2[p].key = w[p + 1].key /\ 1 \in DOMAIN w /\ p \in Nat /\ p >= 1
    BY <1>0, <1>1 DEF FirstRead
  <2>2. ASSUME NEW q \in DOMAIN w2, q < p, w2[q].key = w2[p].key, x \in w2[q].ids
        PROVE  \E k \in DOMAIN w : k < p + 1 /\ w[k].key = w[p + 1].key /\ x \in w[k].ids
    <3>1. q + 1 \in DOMAIN w /\ w2[q] = w[q + 1] /\ q + 1 < p + 1
      BY <1>1, <2>1, <2>2
    <3> QED
      BY <2>1, <2>2, <3>1
  <2>3. ASSUME NEW k \in DOMAIN w, k < p + 1, w[k].key = w[p + 1].key, x \in w[k].ids, k # 1
        PROVE  \E q \in DOMAIN w2 : q < p /\ w2[q].key = w2[p].key /\ x \in w2[q].ids
    <3>1. k - 1 \in DOMAIN w2 /\ w2[k - 1] = w[k] /\ k - 1 < p
      BY <1>0, <2>1, <2>3 DEF FirstRead
    <3> QED
      BY <2>1, <2>3, <3>1
  <2>4. 1 < p + 1
    BY <2>1
  <2>5. (\E i \in DOMAIN after : after[i].key = w[p + 1].key /\ x \in after[i].ids)
        <=> \/ \E i \in DOMAIN blocks : blocks[i].key = w[p + 1].key /\ x \in blocks[i].ids
            \/ w[p + 1].key = w[1].key /\ x \in w[1].ids
    BY SMTT(40) DEF NamesMoved
  <2>6. (w[p + 1].key = w[1].key /\ x \in w[1].ids)
        => \E q \in DOMAIN w : q < p + 1 /\ w[q].key = w[p + 1].key /\ x \in w[q].ids
    BY <2>1, <2>4
  <2>7. (\E q \in DOMAIN w : q < p + 1 /\ w[q].key = w[p + 1].key /\ x \in w[q].ids)
        => \/ w[p + 1].key = w[1].key /\ x \in w[1].ids
           \/ \E q \in DOMAIN w2 : q < p /\ w2[q].key = w2[p].key /\ x \in w2[q].ids
    BY <2>3
  <2>8. (\E q \in DOMAIN w2 : q < p /\ w2[q].key = w2[p].key /\ x \in w2[q].ids)
        => \E q \in DOMAIN w : q < p + 1 /\ w[q].key = w[p + 1].key /\ x \in w[q].ids
    BY <2>2
  <2> QED
    BY <2>1, <2>5, <2>6, <2>7, <2>8
<1>3. \A p \in DOMAIN w2 : w2[p].type # "delta" => w2[p].ids = {}
  BY <1>1 DEF NamesKept
<1>4. ASSUME NEW p \in DOMAIN w2, w2[p].type = "delta"
      PROVE  /\ w2[p].key \in Keys
             /\ w2[p].key \in Calls =>
                  /\ w2[p].ids # {}
                  /\ NamedBefore(after, w2, p) # {} => w2[p].ids \intersect NamedBefore(after, w2, p) # {}
  <2>1. p + 1 \in DOMAIN w /\ w2[p] = w[p + 1]
    BY <1>1
  <2>2. NamedBefore(after, w2, p) = NamedBefore(blocks, w, p + 1)
    BY <1>2
  <2> QED
    BY <1>4, <2>1, <2>2 DEF NamesKept
<1> QED
  BY <1>3, <1>4 DEF NamesKept, NamesMoved

\* what the wire w2 is once c is sent behind w
SentBehind(w, c, w2) ==
  /\ DOMAIN w = 1..Len(w) /\ Len(w) \in Nat
  /\ DOMAIN w2 = 1..(Len(w) + 1) /\ \A p \in DOMAIN w : w2[p] = w[p]
  /\ w2[Len(w) + 1] = c

\* chunk c, the last of the wire w2, names its call by a way it was named by before
NamedAgain(blocks, w2, L, c) ==
  /\ c.type # "delta" => c.ids = {}
  /\ c.type = "delta" => c.key \in Keys
  /\ c.type = "delta" /\ c.key \in Calls =>
       /\ c.ids # {}
       /\ NamedBefore(blocks, w2, L) # {} => c.ids \intersect NamedBefore(blocks, w2, L) # {}

\* A chunk that is sent names its call by a way it was named by before.
LEMMA NamesSent ==
  ASSUME NEW blocks, NEW w, NEW c, NEW w2, SentBehind(w, c, w2),
         NamesKept(blocks, w), NamedAgain(blocks, w2, Len(w) + 1, c)
  PROVE  NamesKept(blocks, w2)
<1>0. /\ DOMAIN w = 1..Len(w) /\ Len(w) \in Nat
      /\ DOMAIN w2 = 1..(Len(w) + 1) /\ \A p \in DOMAIN w : w2[p] = w[p]
      /\ w2[Len(w) + 1] = c
  BY DEF SentBehind
<1>1. ASSUME NEW p \in DOMAIN w2, p # Len(w) + 1
      PROVE  p \in DOMAIN w /\ w2[p] = w[p]
  BY <1>0, <1>1
<1>2. ASSUME NEW p \in DOMAIN w PROVE NamedBefore(blocks, w2, p) = NamedBefore(blocks, w, p)
  <2>1. \A q \in DOMAIN w2 : q < p => q \in DOMAIN w
    BY <1>0
  <2>2. \A q \in DOMAIN w : q \in DOMAIN w2 /\ w2[q] = w[q]
    BY <1>0
  <2> QED
    BY <2>1, <2>2 DEF NamedBefore
<1>3. \A p \in DOMAIN w2 : w2[p].type # "delta" => w2[p].ids = {}
  BY <1>0, <1>1 DEF NamesKept, NamedAgain
<1>4. ASSUME NEW p \in DOMAIN w2, w2[p].type = "delta"
      PROVE  /\ w2[p].key \in Keys
             /\ w2[p].key \in Calls =>
                  /\ w2[p].ids # {}
                  /\ NamedBefore(blocks, w2, p) # {} => w2[p].ids \intersect NamedBefore(blocks, w2, p) # {}
  <2>1. CASE p = Len(w) + 1
    BY <1>0, <1>4, <2>1 DEF NamedAgain
  <2>2. CASE p # Len(w) + 1
    <3>1. p \in DOMAIN w /\ w2[p] = w[p]
      BY <1>1, <2>2
    <3>2. NamedBefore(blocks, w2, p) = NamedBefore(blocks, w, p)
      BY <1>2, <3>1
    <3> QED
      BY <1>4, <3>1, <3>2 DEF NamesKept
  <2> QED
    BY <2>1, <2>2
<1> QED
  BY <1>3, <1>4 DEF NamesKept

\* A delta that finds no block has none of its kind, and one that finds a
\* block finds the one of its kind.
LEMMA BlockFound ==
  ASSUME Types, route # "proxy", wire # <<>>, KeysApart(message.blocks), NamesKept(message.blocks, wire), wire[1].type = "delta"
  PROVE  /\ BlockOf(wire[1]) = {i \in DOMAIN message.blocks : message.blocks[i].key = wire[1].key}
         /\ wire[1].key \in Keys
<1> DEFINE c == wire[1]
           blocks == message.blocks
<1>1. blocks \in Seq(Blocks) /\ wire \in Seq(Chunks)
  BY DEF Types, Messages
<1>2. 1 \in DOMAIN wire /\ DOMAIN wire = 1..Len(wire) /\ Len(wire) \in Nat
  BY <1>1
<1>3. c \in Chunks /\ c.key \in Keys /\ \A i \in DOMAIN blocks : blocks[i] \in Blocks
  BY <1>1, <1>2 DEF NamesKept
<1>4. ASSUME NEW i \in DOMAIN blocks, blocks[i].key = c.key, c.key \in Calls
      PROVE  blocks[i].ids \intersect c.ids # {}
  <2>1. blocks[i].ids # {} /\ blocks[i].ids \subseteq Names
    BY <1>3, <1>4 DEF NamesKept, Blocks
  <2>2. NamedBefore(blocks, wire, 1) = blocks[i].ids
    <3>1. \A q \in DOMAIN wire : ~(q < 1)
      BY <1>2
    <3>2. \A j \in DOMAIN blocks : blocks[j].key = c.key => j = i
      BY <1>4 DEF KeysApart
    <3> QED
      BY <1>4, <2>1, <3>1, <3>2 DEF NamedBefore
  <2> QED
    BY <1>2, <1>4, <2>1, <2>2 DEF NamesKept
<1>5. BlockOf(c) = {i \in DOMAIN blocks : blocks[i].key = c.key /\ (c.key \in Calls => blocks[i].ids \intersect c.ids # {})}
  BY DEF BlockOf
<1> QED
  BY <1>3, <1>4, <1>5

------------------------------------------------------------------------------
(* The events of a provider tell its blocks *)

LEMMA StartTells ==
  Tells(<<>>, <<Start>>)
<1> DEFINE T == <<Start>>
<1>1. DOMAIN T = {1} /\ T[1] = Start /\ T # <<>>
  OBVIOUS
<1>2. Start.type = "start" /\ Start.index = 0
  BY LinesAre DEF Start, EventTypes
<1>3. DOMAIN <<>> = {}
  OBVIOUS
<1> HIDE DEF T
<1>4. Tells(<<>>, T)
  BY <1>1, <1>2, <1>3 DEF Tells
<1> QED
  BY <1>4 DEF T

LEMMA OpenTells ==
  ASSUME NEW blocks \in Seq(Blocks), NEW T \in Seq(Events), Tells(blocks, T),
         NEW b \in Blocks, b.text = <<>>
  PROVE  Tells(Append(blocks, b), Append(T, Event("open", Len(blocks) + 1, 0)))
<1> DEFINE N == Len(blocks) + 1
           e == Event("open", N, 0)
           after == Append(blocks, b)
           U == Append(T, e)
           M == Len(T) + 1
<1>1. N \in Nat /\ N >= 1 /\ DOMAIN blocks = 1..Len(blocks) /\ Len(blocks) \in Nat
  OBVIOUS
<1>2. e \in Events /\ e.type = "open" /\ e.index = N /\ e.n = 0
  <2>1. "open" \in EventTypes
    BY DEF EventTypes
  <2> QED
    BY <1>1, <2>1, EventFields
<1> HIDE DEF e
<1>3. /\ DOMAIN after = 1..N /\ \A i \in DOMAIN blocks : after[i] = blocks[i]
      /\ after[N] = b
  BY <1>1, AppendProperties
<1>4. /\ U \in Seq(Events) /\ U # <<>> /\ DOMAIN U = 1..M /\ M \in Nat
      /\ \A p \in DOMAIN T : U[p] = T[p]
      /\ U[M] = e /\ DOMAIN T = 1..Len(T) /\ Len(T) \in Nat
  BY <1>2, AppendProperties
<1> HIDE DEF after, U, N, M
<1>5. ASSUME NEW p \in DOMAIN U PROVE (p \in DOMAIN T /\ U[p] = T[p] /\ p < M) \/ (p = M /\ U[p] = e)
  BY <1>4 DEF M
<1>6. ASSUME NEW p \in DOMAIN T PROVE T[p].index # N /\ p \in DOMAIN U /\ p < M
  <2>1. T[p].type \in {"start", "open", "delta"} /\ p \in DOMAIN U /\ p < M
    BY <1>4 DEF Tells, M
  <2>2. CASE T[p].type = "start"
    BY <1>1, <2>1, <2>2 DEF Tells
  <2>3. CASE T[p].type # "start"
    <3>1. T[p].index \in DOMAIN blocks
      BY <2>1, <2>3 DEF Tells
    <3> QED
      BY <1>1, <2>1, <3>1 DEF N
  <2> QED
    BY <2>2, <2>3
<1>7. M \in DOMAIN U /\ N \in DOMAIN after
  BY <1>1, <1>3, <1>4 DEF M, N
<1>8. \A i \in DOMAIN blocks : i \in DOMAIN after
  BY <1>1, <1>3 DEF N
<1>9. ASSUME NEW i \in DOMAIN after PROVE (i \in DOMAIN blocks /\ after[i] = blocks[i]) \/ (i = N /\ after[i] = b)
  BY <1>1, <1>3 DEF N
<1>10. U[1] = Start
  <2>1. 1 \in DOMAIN T
    BY <1>4 DEF Tells
  <2> QED
    BY <1>4, <2>1 DEF Tells
<1>11. /\ \A p \in DOMAIN U : U[p].type \in {"start", "open", "delta"}
       /\ \A p \in DOMAIN U : U[p].type = "start" => p = 1 /\ U[p].index = 0
  BY <1>2, <1>5, SMTT(40) DEF Tells
<1>12. ASSUME NEW p \in DOMAIN U, U[p].type = "open"
       PROVE  /\ U[p].index \in DOMAIN after /\ U[p].n = 0
              /\ \A q \in DOMAIN U : U[q].index = U[p].index => p = q \/ (p < q /\ U[q].type = "delta")
  <2>1. CASE p = M
    BY <1>2, <1>4, <1>5, <1>6, <1>7, <2>1
  <2>2. CASE p # M
    <3>1. p \in DOMAIN T /\ U[p] = T[p]
      BY <1>5, <2>2
    <3>2. /\ T[p].index \in DOMAIN blocks /\ T[p].n = 0
          /\ \A q \in DOMAIN T : T[q].index = T[p].index => p = q \/ (p < q /\ T[q].type = "delta")
      BY <1>12, <3>1 DEF Tells
    <3> QED
      BY <1>2, <1>5, <1>6, <1>8, <3>1, <3>2
  <2> QED
    BY <2>1, <2>2
<1>13. ASSUME NEW i \in DOMAIN after PROVE \E p \in DOMAIN U : U[p] = Event("open", i, 0)
  <2>1. CASE i = N
    BY <1>4, <1>7, <2>1 DEF e
  <2>2. CASE i # N
    <3>1. i \in DOMAIN blocks
      BY <1>9, <2>2
    <3>2. PICK p \in DOMAIN T : T[p] = Event("open", i, 0)
      BY <3>1 DEF Tells
    <3> QED
      BY <1>4, <1>6, <3>2
  <2> QED
    BY <2>1, <2>2
<1>14. ASSUME NEW p \in DOMAIN U, U[p].type = "delta"
       PROVE  /\ U[p].index \in DOMAIN after
              /\ \E k \in DOMAIN after[U[p].index].text : after[U[p].index].text[k] = U[p].n
              /\ \A q \in DOMAIN U : U[q].type = "delta" /\ p < q => U[p].n < U[q].n
  <2>1. p \in DOMAIN T /\ U[p] = T[p]
    BY <1>2, <1>5, <1>14
  <2>2. /\ T[p].index \in DOMAIN blocks
        /\ \E k \in DOMAIN blocks[T[p].index].text : blocks[T[p].index].text[k] = T[p].n
        /\ \A q \in DOMAIN T : T[q].type = "delta" /\ p < q => T[p].n < T[q].n
    BY <1>14, <2>1 DEF Tells
  <2>3. after[T[p].index] = blocks[T[p].index]
    BY <1>3, <2>2
  <2>4. ASSUME NEW q \in DOMAIN U, U[q].type = "delta" PROVE q \in DOMAIN T /\ U[q] = T[q]
    BY <1>2, <1>5, <2>4
  <2> QED
    BY <1>8, <2>1, <2>2, <2>3, <2>4
<1>15. ASSUME NEW i \in DOMAIN after, NEW k \in DOMAIN after[i].text
       PROVE  \E p \in DOMAIN U : U[p] = Event("delta", i, after[i].text[k])
  <2>1. i \in DOMAIN blocks /\ after[i] = blocks[i]
    BY <1>9
  <2>2. PICK p \in DOMAIN T : T[p] = Event("delta", i, blocks[i].text[k])
    BY <2>1 DEF Tells
  <2> QED
    BY <1>4, <1>6, <2>1, <2>2
<1>16. Tells(after, U)
  BY <1>4, <1>10, <1>11, <1>12, <1>13, <1>14, <1>15 DEF Tells
<1> QED
  BY <1>16 DEF after, U, e, N

LEMMA DeltaTells ==
  ASSUME NEW blocks \in Seq(Blocks), NEW T \in Seq(Events), Tells(blocks, T),
         NEW i \in DOMAIN blocks, NEW n \in Nat,
         \A p \in DOMAIN T : T[p].type = "delta" => T[p].n < n,
         NEW after, Grown(blocks, after, i, n)
  PROVE  Tells(after, Append(T, Event("delta", i, n)))
<1>0. /\ DOMAIN after = DOMAIN blocks
      /\ \A j \in DOMAIN blocks : j # i => after[j].text = blocks[j].text
      /\ after[i].text = Append(blocks[i].text, n)
  BY DEF Grown
<1> DEFINE e == Event("delta", i, n)
           U == Append(T, e)
           M == Len(T) + 1
           text == blocks[i].text
<1>1. i \in Nat /\ i >= 1 /\ DOMAIN blocks = 1..Len(blocks) /\ Len(blocks) \in Nat
  OBVIOUS
<1>2. e \in Events /\ e.type = "delta" /\ e.index = i /\ e.n = n
  <2>1. "delta" \in EventTypes
    BY DEF EventTypes
  <2> QED
    BY <1>1, <2>1, EventFields
<1> HIDE DEF e
<1>3. /\ Len(text) \in Nat /\ DOMAIN text = 1..Len(text)
      /\ DOMAIN after[i].text = 1..(Len(text) + 1)
      /\ \A k \in 1..Len(text) : after[i].text[k] = text[k]
      /\ after[i].text[Len(text) + 1] = n
  <2>0. blocks[i] \in Blocks
    OBVIOUS
  <2>1. text \in Seq(Nat)
    BY <2>0 DEF Blocks
  <2> QED
    BY <1>0, <2>1, AppendProperties
<1>4. /\ U \in Seq(Events) /\ U # <<>> /\ DOMAIN U = 1..M /\ M \in Nat
      /\ \A p \in DOMAIN T : U[p] = T[p]
      /\ U[M] = e /\ DOMAIN T = 1..Len(T) /\ Len(T) \in Nat
  BY <1>2, AppendProperties
<1> HIDE DEF U, M
<1>5. ASSUME NEW p \in DOMAIN U PROVE (p \in DOMAIN T /\ U[p] = T[p] /\ p < M) \/ (p = M /\ U[p] = e)
  BY <1>4 DEF M
<1>6. ASSUME NEW p \in DOMAIN T PROVE p \in DOMAIN U /\ p < M
  BY <1>4 DEF M
<1>7. M \in DOMAIN U
  BY <1>4 DEF M
<1>8. U[1] = Start
  <2>1. 1 \in DOMAIN T
    BY <1>4 DEF Tells
  <2> QED
    BY <1>4, <2>1 DEF Tells
<1>9. /\ \A p \in DOMAIN U : U[p].type \in {"start", "open", "delta"}
      /\ \A p \in DOMAIN U : U[p].type = "start" => p = 1 /\ U[p].index = 0
  BY <1>2, <1>5, SMTT(40) DEF Tells
<1>10. ASSUME NEW p \in DOMAIN U, U[p].type = "open"
       PROVE  /\ U[p].index \in DOMAIN after /\ U[p].n = 0
              /\ \A q \in DOMAIN U : U[q].index = U[p].index => p = q \/ (p < q /\ U[q].type = "delta")
  <2>1. p \in DOMAIN T /\ U[p] = T[p] /\ p < M
    BY <1>2, <1>5, <1>10
  <2>2. /\ T[p].index \in DOMAIN blocks /\ T[p].n = 0
        /\ \A q \in DOMAIN T : T[q].index = T[p].index => p = q \/ (p < q /\ T[q].type = "delta")
    BY <1>10, <2>1 DEF Tells
  <2> QED
    BY <1>0, <1>2, <1>5, <2>1, <2>2
<1>11. ASSUME NEW j \in DOMAIN after PROVE \E p \in DOMAIN U : U[p] = Event("open", j, 0)
  <2>1. PICK p \in DOMAIN T : T[p] = Event("open", j, 0)
    BY <1>0 DEF Tells
  <2> QED
    BY <1>4, <1>6, <2>1
<1>12. ASSUME NEW j \in DOMAIN blocks, NEW k \in DOMAIN blocks[j].text
       PROVE  k \in DOMAIN after[j].text /\ after[j].text[k] = blocks[j].text[k]
  <2>1. CASE j = i
    <3>1. k \in 1..Len(text) /\ blocks[j].text[k] = text[k]
      BY <1>3, <2>1
    <3> QED
      BY <1>3, <2>1, <3>1
  <2>2. CASE j # i
    BY <1>0, <2>2
  <2> QED
    BY <2>1, <2>2
<1> HIDE DEF text
<1>13. ASSUME NEW p \in DOMAIN U, U[p].type = "delta"
       PROVE  /\ U[p].index \in DOMAIN after
              /\ \E k \in DOMAIN after[U[p].index].text : after[U[p].index].text[k] = U[p].n
              /\ \A q \in DOMAIN U : U[q].type = "delta" /\ p < q => U[p].n < U[q].n
  <2>1. CASE p = M
    <3>1. Len(text) + 1 \in DOMAIN after[i].text
      BY <1>3
    <3>2. \A q \in DOMAIN U : ~(M < q)
      BY <1>4
    <3> QED
      BY <1>0, <1>2, <1>3, <1>4, <2>1, <3>1, <3>2
  <2>2. CASE p # M
    <3>1. p \in DOMAIN T /\ U[p] = T[p]
      BY <1>5, <2>2
    <3>2. /\ T[p].index \in DOMAIN blocks
          /\ \E k \in DOMAIN blocks[T[p].index].text : blocks[T[p].index].text[k] = T[p].n
          /\ \A q \in DOMAIN T : T[q].type = "delta" /\ p < q => T[p].n < T[q].n
      BY <1>13, <3>1 DEF Tells
    <3>3. \E k \in DOMAIN after[T[p].index].text : after[T[p].index].text[k] = T[p].n
      BY <1>12, <3>2
    <3>4. ASSUME NEW q \in DOMAIN U, U[q].type = "delta", p < q PROVE T[p].n < U[q].n
      BY <1>2, <1>5, <1>13, <3>1, <3>2, <3>4
    <3> QED
      BY <1>0, <3>1, <3>2, <3>3, <3>4
  <2> QED
    BY <2>1, <2>2
<1>14. ASSUME NEW j \in DOMAIN after, NEW k \in DOMAIN after[j].text
       PROVE  \E p \in DOMAIN U : U[p] = Event("delta", j, after[j].text[k])
  <2>1. CASE j = i /\ k = Len(text) + 1
    BY <1>3, <1>4, <1>7, <2>1 DEF e
  <2>2. CASE ~(j = i /\ k = Len(text) + 1)
    <3>1. k \in DOMAIN blocks[j].text
      <4>1. CASE j = i
        <5>1. k \in DOMAIN text
          BY <1>3, <2>2, <4>1
        <5> QED
          BY <4>1, <5>1 DEF text
      <4>2. CASE j # i
        BY <1>0, <4>2
      <4> QED
        BY <4>1, <4>2
    <3>2. PICK p \in DOMAIN T : T[p] = Event("delta", j, blocks[j].text[k])
      BY <1>0, <3>1 DEF Tells
    <3> QED
      BY <1>0, <1>4, <1>6, <1>12, <3>1, <3>2
  <2> QED
    BY <2>1, <2>2
<1>15. Tells(after, U)
  BY <1>4, <1>8, <1>9, <1>10, <1>11, <1>13, <1>14 DEF Tells
<1> QED
  BY <1>15 DEF U, e

------------------------------------------------------------------------------
(* The invariant, action by action: the service and the provider *)

\* A step that reads nothing, and pushes only what ends the response.
LEMMA AnswerSame ==
  ASSUME AnswerKept, UNCHANGED <<route, wire, sent, served>>, message'.blocks = message.blocks,
         at' = "reading" => at = "reading" /\ pushed' = pushed /\ (inner.done => inner'.done)
  PROVE  AnswerKept'
<1>1. Texts(message.blocks, wire)'
  BY DEF AnswerKept, Texts, KeysApart, TextsInOrder, NoneLost, WireInOrder, Sent, Numbers, KeyOf
<1>2. CallsNamed'
  BY DEF AnswerKept, CallsNamed
<1>3. Telling'
  BY DEF AnswerKept, Telling
<1>4. Served'
  <2> SUFFICES ASSUME route = "proxy", at' = "reading", ~inner'.done
               PROVE  ToldBy(pushed \o wire, served, sent)' /\ Opened(message.blocks, pushed)'
    BY DEF Served
  <2>1. ToldBy(pushed \o wire, served, sent) /\ Opened(message.blocks, pushed) /\ pushed' = pushed
    BY DEF AnswerKept, Served
  <2>2. Opened(message.blocks, pushed)'
    BY <2>1
  <2>3. ToldBy(pushed \o wire, served, sent)'
    BY <2>1 DEF ToldBy
  <2> QED
    BY <2>2, <2>3
<1> QED
  BY <1>1, <1>2, <1>3, <1>4 DEF AnswerKept

LEMMA TextsNext ==
  ASSUME UNCHANGED <<route, sent>>, Texts(message'.blocks, wire')
  PROVE  Texts(message.blocks, wire)'
BY DEF Texts, KeysApart, TextsInOrder, NoneLost, WireInOrder, Sent, Numbers, KeyOf

\* A response that does not end with "done" owes nothing.
LEMMA NotAnswered ==
  ASSUME NEW T \in Seq(Events), T # <<>>, T[Len(T)] # Done, pushed' = T
  PROVE  WholeKept'
BY DEF WholeKept, Answered, Last

\* One that has ended stays as it is.
LEMMA WholeSame ==
  ASSUME WholeKept, UNCHANGED <<route, wire, sent, pushed>>, message'.blocks = message.blocks,
         at = "over" => at' = "over",
         at = "reading" /\ inner.done => at' = "over" \/ (at' = "reading" /\ inner'.done)
  PROVE  WholeKept'
<1> SUFFICES ASSUME Answered' PROVE WholeKept'
  BY DEF WholeKept
<1>1. Answered /\ wire = <<>> /\ (at = "over" \/ (inner.done /\ at = "reading" /\ route = "proxy"))
      /\ WholeIn(message.blocks, pushed, sent)
  BY DEF Answered, WholeKept
<1> QED
  BY <1>1 DEF WholeKept

LEMMA NotDoneYet ==
  ASSUME StreamsKept, at = "reading" \/ at = "request", route # "proxy" \/ wire # <<>> \/ at = "request"
  PROVE  inner.done = FALSE
BY DEF StreamsKept, Types, Streams, Final

\* A delta goes into its block, the one there is or a new one.
LEMMA KeepsReadDelta ==
  ASSUME IInv, route # "proxy", at = "reading", wire # <<>>, ReadDelta, wire' = Tail(wire),
         UNCHANGED <<route, mode, aborted, remote, sent, served, outer, forwarder, reading>>
  PROVE  IInv'
<1> DEFINE c == wire[1]
           old == message.blocks
           opens == BlockOf(c) = {}
           b == Block(c.key, {})
           blocks == IF opens THEN Append(old, b) ELSE old
           i == IF opens THEN Len(blocks) ELSE CHOOSE k \in BlockOf(c) : TRUE
           after == [blocks EXCEPT ![i].ids = @ \union c.ids, ![i].text = Append(@, c.n)]
           first == IF opens THEN <<Event("open", i, 0)>> ELSE <<>>
           delta == Event("delta", i, c.n)
           es == first \o <<delta>>
           T == IF opens THEN Append(pushed, Event("open", i, 0)) ELSE pushed
<1>1. /\ StreamsKept /\ Types /\ Texts(old, wire) /\ NamesKept(old, wire) /\ Tells(old, pushed)
      /\ inner.done = FALSE /\ KeysApart(old)
  BY NotDoneYet DEF IInv, StreamsKept, AnswerKept, CallsNamed, Telling, Texts
<1>2. /\ wire \in Seq(Chunks) /\ DOMAIN wire = 1..Len(wire) /\ Len(wire) \in Nat \ {0}
      /\ old \in Seq(Blocks) /\ pushed \in Seq(Events) /\ sent \in Seq(Keys \union Nat)
  BY <1>1 DEF Types, Messages
<1>3. Head(wire) = c /\ c \in Chunks /\ 1 \in DOMAIN wire
  BY <1>2
<1>4. /\ c.type = "delta"
      /\ message' = [message EXCEPT !.blocks = after]
      /\ Pushes(es, FALSE)
      /\ finished' = finished
  BY <1>3, Zenon DEF ReadDelta
<1>5. BlockOf(c) = {k \in DOMAIN old : old[k].key = c.key} /\ c.key \in Keys
  BY <1>1, <1>4, BlockFound
<1>6. /\ FirstRead(wire, wire') /\ \A p \in DOMAIN wire : wire[p].n \in Nat
      /\ wire' \in Seq(Chunks) /\ Len(sent) \in Nat /\ Waiting(wire)
  <2>1. Tail(wire) \in Seq(Chunks) /\ Len(Tail(wire)) = Len(wire) - 1 /\ \A p \in 1..Len(Tail(wire)) : Tail(wire)[p] = wire[p + 1]
    BY <1>2, HeadTailProperties
  <2>2. \A p \in DOMAIN wire : wire[p] \in Chunks
    BY <1>2
  <2> QED
    BY <1>2, <2>1, <2>2 DEF FirstRead, Chunks, Waiting
<1> DEFINE w2 == Tail(wire)
<1>60. w2 = wire' /\ FirstRead(wire, w2)
  BY <1>6
<1> HIDE DEF w2
<1>7. c.n \in Nat /\ c.ids \subseteq Names /\ KeyOf(c) = c.key
  BY <1>3 DEF Chunks, KeyOf
<1>8. b \in Blocks /\ b.text = <<>> /\ b.key = c.key /\ b.ids = {}
  BY <1>5 DEF Block, Blocks
<1>9. \A p \in DOMAIN pushed : pushed[p].type = "delta" => pushed[p].n < c.n
  <2> SUFFICES ASSUME NEW p \in DOMAIN pushed, pushed[p].type = "delta" PROVE pushed[p].n < c.n
    OBVIOUS
  <2>1. PICK k \in DOMAIN old[pushed[p].index].text : old[pushed[p].index].text[k] = pushed[p].n
    BY <1>1 DEF Tells
  <2>2. pushed[p].index \in DOMAIN old
    BY <1>1 DEF Tells
  <2>3. pushed[p].n \in Sent \ Numbers(wire)
    BY <1>1, <2>1, <2>2 DEF Texts, TextsInOrder
  <2> QED
    BY <1>1, <1>3, <1>4, <2>3 DEF Texts, WireInOrder
<1> HIDE DEF b
<1>10. /\ blocks \in Seq(Blocks) /\ Texts(blocks, wire) /\ i \in DOMAIN blocks /\ blocks[i].key = c.key
       /\ T \in Seq(Events) /\ Tells(blocks, T)
       /\ \A p \in DOMAIN T : T[p].type = "delta" => T[p].n < c.n
       /\ \A k \in DOMAIN old : k \in DOMAIN blocks /\ blocks[k] = old[k]
       /\ \A k \in DOMAIN blocks : k \in DOMAIN old \/ (opens /\ k = i /\ blocks[k] = b)
       /\ i \in Nat
  <2>1. CASE ~opens
    <3>1. blocks = old /\ T = pushed /\ i = CHOOSE k \in BlockOf(c) : TRUE
      BY <2>1
    <3>2. i \in BlockOf(c)
      BY <2>1, <3>1
    <3>3. \A k \in BlockOf(c) : k \in DOMAIN old /\ old[k].key = c.key /\ k \in Nat
      BY <1>2, <1>5
    <3>4. i \in DOMAIN old /\ old[i].key = c.key /\ i \in Nat
      BY <3>2, <3>3
    <3> QED
      BY <1>1, <1>2, <1>9, <2>1, <3>1, <3>4
  <2>2. CASE opens
    <3> DEFINE o == Event("open", Len(old) + 1, 0)
    <3>1. blocks = Append(old, b) /\ i = Len(old) + 1 /\ T = Append(pushed, o)
      <4>1. blocks = Append(old, b) /\ Len(Append(old, b)) = Len(old) + 1
        BY <1>2, <1>8, <2>2, AppendProperties
      <4>2. i = Len(old) + 1
        BY <2>2, <4>1
      <4> QED
        BY <2>2, <4>1, <4>2
    <3>2. \A k \in DOMAIN old : old[k].key # b.key
      BY <1>5, <1>8, <2>2
    <3>3. Texts(Append(old, b), wire)
      BY <1>1, <1>2, <1>8, <3>2, OpenKeeps
    <3>4. Tells(Append(old, b), Append(pushed, o))
      BY <1>1, <1>2, <1>8, OpenTells
    <3>5. /\ Append(old, b) \in Seq(Blocks) /\ DOMAIN Append(old, b) = 1..(Len(old) + 1)
          /\ \A k \in 1..Len(old) : Append(old, b)[k] = old[k]
          /\ Append(old, b)[Len(old) + 1] = b /\ DOMAIN old = 1..Len(old) /\ Len(old) \in Nat
      BY <1>2, <1>8, AppendProperties
    <3>6. o \in Events /\ o.type = "open"
      BY <3>5, EventFields DEF EventTypes
    <3> HIDE DEF o
    <3>7. /\ Append(pushed, o) \in Seq(Events) /\ DOMAIN Append(pushed, o) = 1..(Len(pushed) + 1)
          /\ \A p \in 1..Len(pushed) : Append(pushed, o)[p] = pushed[p]
          /\ Append(pushed, o)[Len(pushed) + 1] = o /\ DOMAIN pushed = 1..Len(pushed) /\ Len(pushed) \in Nat
      BY <1>2, <3>6, AppendProperties
    <3>8. \A p \in DOMAIN Append(pushed, o) : Append(pushed, o)[p].type = "delta" => Append(pushed, o)[p].n < c.n
      BY <1>9, <3>6, <3>7
    <3> HIDE DEF blocks, i, T
    <3> QED
      BY <1>8, <2>2, <3>1, <3>3, <3>4, <3>5, <3>7, <3>8
  <2> QED
    BY <2>1, <2>2
<1>11. es \in Seq(Events) /\ pushed \o es = Append(T, delta) /\ delta \in Events /\ delta.type = "delta"
       /\ \A p \in DOMAIN es : ~IsComplete(es[p])
  <2>0. i \in Nat /\ "open" \in EventTypes /\ "delta" \in EventTypes
    BY <1>10 DEF EventTypes
  <2> HIDE DEF i
  <2>1. delta \in Events /\ delta.type = "delta"
    <3>1. Event("delta", i, c.n) \in Events /\ Event("delta", i, c.n).type = "delta"
      BY <1>7, <2>0, EventFields
    <3> QED
      BY <3>1 DEF delta
  <2> DEFINE o == Event("open", i, 0)
  <2>2. o \in Events /\ o.type = "open"
    BY <2>0, EventFields
  <2>3. ~IsComplete(delta) /\ ~IsComplete(o)
    BY <2>1, <2>2 DEF IsComplete
  <2> HIDE DEF delta
  <2>4. CASE opens
    <3>0. es = <<o>> \o <<delta>> /\ T = Append(pushed, o)
      BY <2>4
    <3> HIDE DEF o, es, T
    <3>1. <<o>> \in Seq(Events) /\ <<delta>> \in Seq(Events) /\ Append(pushed, o) \in Seq(Events)
      BY <1>2, <2>1, <2>2
    <3>2. pushed \o es = (pushed \o <<o>>) \o <<delta>>
      BY <1>2, <3>0, <3>1, ConcatAssociative
    <3>3. pushed \o <<o>> = T /\ T \o <<delta>> = Append(T, delta)
      BY <1>2, <2>1, <2>2, <3>0, <3>1, AppendIsConcat
    <3>4. /\ es \in Seq(Events) /\ DOMAIN es = 1..2 /\ es[1] = o /\ es[2] = delta
      BY <3>0, <3>1
    <3> QED
      BY <2>1, <2>3, <3>2, <3>3, <3>4
  <2>5. CASE ~opens
    <3>1. es = <<delta>> /\ T = pushed
      BY <2>5
    <3>2. pushed \o <<delta>> = Append(pushed, delta)
      BY <1>2, <2>1
    <3> QED
      BY <2>1, <2>3, <3>1, <3>2
  <2> QED
    BY <2>4, <2>5
<1> HIDE DEF blocks, i, es, T
<1>12. /\ after \in Seq(Blocks) /\ DOMAIN after = DOMAIN blocks
       /\ \A k \in DOMAIN blocks : after[k].key = blocks[k].key
       /\ \A k \in DOMAIN blocks : k # i => after[k] = blocks[k]
       /\ after[i].text = Append(blocks[i].text, c.n) /\ after[i].ids = blocks[i].ids \union c.ids
  <2>1. blocks[i] \in Blocks
    BY <1>10
  <2> DEFINE x == [blocks[i] EXCEPT !.ids = @ \union c.ids, !.text = Append(@, c.n)]
  <2>2. after = [blocks EXCEPT ![i] = x]
    BY <1>10, <2>1
  <2>3. /\ x \in Blocks /\ x.key = blocks[i].key
        /\ x.ids = blocks[i].ids \union c.ids /\ x.text = Append(blocks[i].text, c.n)
    <3> DEFINE t == Append(blocks[i].text, c.n)
               d == blocks[i].ids \union c.ids
    <3>1. t \in Seq(Nat) /\ d \in SUBSET Names
      BY <1>7, <2>1 DEF Blocks
    <3>2. x = [blocks[i] EXCEPT !.ids = d, !.text = t]
      BY <2>1 DEF Blocks
    <3> HIDE DEF t, d, x
    <3>3. x \in Blocks /\ x.key = blocks[i].key /\ x.ids = d /\ x.text = t
      BY <2>1, <3>1, <3>2 DEF Blocks
    <3> QED
      BY <3>3 DEF t, d
  <2> HIDE DEF x, after
  <2> QED
    BY <1>10, <2>2, <2>3
<1> HIDE DEF after
<1>13. Texts(after, wire')
  <2>1. Grown(blocks, after, i, wire[1].n)
    BY <1>12 DEF Grown
  <2>2. blocks[i].key = KeyOf(wire[1]) /\ wire[1].type = "delta"
    BY <1>4, <1>7, <1>10
  <2>3. Texts(after, w2)
    BY <1>6, <1>60, <1>10, <2>1, <2>2, DeltaKeeps
  <2> QED
    BY <1>60, <2>3
<1>14. Tells(after, Append(T, delta))
  <2>1. Grown(blocks, after, i, c.n)
    BY <1>12 DEF Grown
  <2> QED
    BY <1>7, <1>10, <2>1, DeltaTells
<1>15. NamesKept(after, wire')
  <2>1. \A k \in DOMAIN after : after[k].key \in Calls => after[k].ids # {}
    <3> SUFFICES ASSUME NEW k \in DOMAIN blocks, blocks[k].key \in Calls PROVE after[k].ids # {}
      BY <1>12
    <3>1. CASE k = i
      <4>1. c.ids # {}
        BY <1>1, <1>3, <1>4, <1>10, <3>1 DEF NamesKept
      <4> QED
        BY <1>12, <3>1, <4>1
    <3>2. CASE k # i
      <4>1. k \in DOMAIN old /\ blocks[k] = old[k] /\ after[k] = blocks[k]
        BY <1>10, <1>12, <3>2
      <4> QED
        BY <1>1, <4>1 DEF NamesKept
    <3> QED
      BY <3>1, <3>2
  <2>2. ASSUME NEW key, NEW x
        PROVE  (\E k \in DOMAIN after : after[k].key = key /\ x \in after[k].ids)
               <=> \/ \E k \in DOMAIN old : old[k].key = key /\ x \in old[k].ids
                   \/ key = c.key /\ x \in c.ids
    <3>1. ASSUME NEW k \in DOMAIN after, after[k].key = key, x \in after[k].ids
          PROVE  \/ \E j \in DOMAIN old : old[j].key = key /\ x \in old[j].ids
                 \/ key = c.key /\ x \in c.ids
      <4>1. k \in DOMAIN blocks /\ blocks[k].key = key /\ (x \in blocks[k].ids \/ (k = i /\ x \in c.ids))
        BY <1>12, <3>1
      <4>2. CASE x \in blocks[k].ids
        <5>1. k \in DOMAIN old
          BY <1>8, <1>10, <4>1, <4>2
        <5> QED
          BY <1>10, <4>1, <4>2, <5>1
      <4>3. CASE k = i /\ x \in c.ids
        BY <1>10, <4>1, <4>3
      <4> QED
        BY <4>1, <4>2, <4>3
    <3>2. ASSUME NEW j \in DOMAIN old, old[j].key = key, x \in old[j].ids
          PROVE  \E k \in DOMAIN after : after[k].key = key /\ x \in after[k].ids
      <4>1. j \in DOMAIN blocks /\ blocks[j] = old[j]
        BY <1>10
      <4>2. j \in DOMAIN after /\ after[j].key = key /\ x \in after[j].ids
        BY <1>10, <1>12, <3>2, <4>1
      <4> QED
        BY <4>2
    <3>3. ASSUME key = c.key, x \in c.ids
          PROVE  \E k \in DOMAIN after : after[k].key = key /\ x \in after[k].ids
      <4>1. i \in DOMAIN after /\ after[i].key = key /\ x \in after[i].ids
        BY <1>10, <1>12, <3>3
      <4> QED
        BY <4>1
    <3> QED
      BY <3>1, <3>2, <3>3
  <2>3. NamesMoved(old, after, wire[1])
    BY <2>1, <2>2 DEF NamesMoved
  <2> HIDE DEF old
  <2>4. NamesKept(after, w2)
    BY <1>1, <1>6, <1>60, <2>3, NamesRead
  <2> QED
    BY <1>60, <2>4
<1>16. OthersTyped'
  <2>1. message' \in Messages
    BY <1>1, <1>4, <1>12 DEF Types, Messages
  <2> QED
    BY <1>1, <1>4, <1>6, <2>1 DEF Types, OthersTyped
<1>17. StreamsKept' /\ pushed' = Append(T, delta) /\ at' = "reading"
  <2>1. UNCHANGED <<reader, seen>>
    BY DEF reading
  <2>2. ~Complete(es)
    BY <1>11 DEF Complete
  <2>3. StreamsKept' /\ pushed' = (IF inner.done THEN pushed ELSE pushed \o es) /\ at' = "reading"
    BY <1>1, <1>4, <1>11, <1>16, <2>1, <2>2, PushingKeeps
  <2> QED
    BY <1>1, <1>11, <2>3
<1>18. message'.blocks = after
  BY <1>1, <1>4 DEF Types, Messages
<1>19. AnswerKept'
  <2>1. Texts(message.blocks, wire)'
    BY <1>13, <1>18, TextsNext
  <2> QED
    BY <1>14, <1>15, <1>17, <1>18, <2>1 DEF AnswerKept, CallsNamed, Telling, Served
<1>20. WholeKept'
  <2> DEFINE U == Append(T, delta)
  <2>1. U \in Seq(Events) /\ U # <<>> /\ U[Len(U)] = delta
    BY <1>10, <1>11, AppendProperties
  <2>2. delta # Done
    BY <1>11, LinesAre DEF Done, EventTypes
  <2> HIDE DEF U
  <2>3. pushed' = U
    BY <1>17 DEF U
  <2> QED
    BY <2>1, <2>2, <2>3, NotAnswered
<1> QED
  BY <1>17, <1>19, <1>20 DEF IInv

\* A chunk that is sent comes behind the others.
SentOne(c) ==
  /\ DOMAIN wire' = 1..(Len(wire) + 1) /\ Len(wire') = Len(wire) + 1
  /\ \A p \in DOMAIN wire : wire'[p] = wire[p]
  /\ wire'[Len(wire) + 1] = c
  /\ \/ c.type = "delta" /\ c.n = Len(sent) + 1 /\ sent' = Append(sent, KeyOf(c)) /\ KeyOf(c) \in Keys \union Nat
     \/ c.type # "delta" /\ c.n = 0 /\ sent' = sent

LEMMA SendKeeps ==
  ASSUME Texts(message.blocks, wire), message'.blocks = message.blocks, route' = route,
         DOMAIN wire = 1..Len(wire), Len(wire) \in Nat, sent \in Seq(Keys \union Nat),
         NEW c, SentOne(c)
  PROVE  Texts(message.blocks, wire)'
<1> DEFINE L == Len(wire) + 1
<1>1. /\ DOMAIN wire' = 1..L /\ \A p \in DOMAIN wire : wire'[p] = wire[p]
      /\ wire'[L] = c /\ L \in Nat /\ L \in DOMAIN wire'
      /\ DOMAIN wire = 1..(L - 1)
  BY DEF SentOne
<1>2. \/ c.type = "delta" /\ c.n = Len(sent) + 1 /\ sent' = Append(sent, KeyOf(c)) /\ KeyOf(c) \in Keys \union Nat
      \/ c.type # "delta" /\ c.n = 0 /\ sent' = sent
  BY DEF SentOne
<1> HIDE DEF L
<1>3. ASSUME NEW p \in DOMAIN wire' PROVE (p \in DOMAIN wire /\ wire'[p] = wire[p] /\ p < L) \/ (p = L /\ wire'[p] = c)
  BY <1>1
<1>4. \A p \in DOMAIN wire : p \in DOMAIN wire'
  BY <1>1
<1>5. Numbers(wire') = Numbers(wire) \union {c.n}
  BY <1>1, <1>3, <1>4 DEF Numbers
<1>6. Len(sent) \in Nat /\ Sent = 1..Len(sent) /\ Sent' = 1..Len(sent')
  BY DEF Sent
<1>7. \A n \in Sent : n \in Sent' /\ sent'[n] = sent[n]
  BY <1>2, <1>6
<1>8. \A p \in DOMAIN wire : wire[p].n \in Sent \/ wire[p].n = 0
  BY DEF Texts, WireInOrder
<1>9. Sent' \ Numbers(wire') = Sent \ Numbers(wire)
  <2>1. \A m \in Numbers(wire) : m \in Sent \/ m = 0
    BY <1>8 DEF Numbers
  <2>2. CASE c.type = "delta"
    <3>1. Len(sent') = Len(sent) + 1 /\ c.n = Len(sent) + 1
      BY <1>2, <2>2
    <3>2. Sent' = Sent \union {c.n} /\ c.n \notin Sent /\ c.n # 0
      BY <1>6, <3>1
    <3> QED
      BY <1>5, <2>1, <3>2
  <2>3. CASE c.type # "delta"
    BY <1>2, <1>5, <1>6, <2>3
  <2> QED
    BY <2>2, <2>3
<1>10. \A x : KeyOf(x)' = KeyOf(x')
  BY DEF KeyOf
<1>11. KeysApart(message'.blocks) /\ KeysApart(message.blocks)' /\ TextsInOrder(message.blocks, wire)'
  BY <1>7, <1>9 DEF Texts, KeysApart, TextsInOrder
<1>12. NoneLost(message.blocks, wire)'
  BY <1>9 DEF Texts, NoneLost
<1>13. WireInOrder(wire)'
  <2>1. \A p \in DOMAIN wire' : wire'[p].type # "delta" => wire'[p].n = 0
    BY <1>2, <1>3 DEF Texts, WireInOrder
  <2>2. ASSUME NEW p \in DOMAIN wire', wire'[p].type = "delta"
        PROVE  /\ wire'[p].n \in Sent' /\ sent'[wire'[p].n] = (IF route = "proxy" THEN wire'[p].index ELSE wire'[p].key)
               /\ \A n \in Sent \ Numbers(wire) : n < wire'[p].n
               /\ \A q \in DOMAIN wire' : p < q /\ wire'[q].type = "delta" => wire'[p].n < wire'[q].n
    <3>1. CASE p = L
      <4>1. wire'[p] = c /\ c.type = "delta"
        BY <1>1, <2>2, <3>1
      <4>2. c.n = Len(sent) + 1 /\ sent' = Append(sent, KeyOf(c)) /\ KeyOf(c) \in Keys \union Nat
        BY <1>2, <4>1
      <4>3. c.n \in Sent' /\ sent'[c.n] = KeyOf(c)
        BY <1>6, <4>2
      <4>4. \A n \in Sent : n < c.n
        BY <1>6, <4>2
      <4>5. \A q \in DOMAIN wire' : ~(p < q)
        BY <1>1, <3>1
      <4> QED
        BY <4>1, <4>3, <4>4, <4>5 DEF KeyOf
    <3>2. CASE p # L
      <4>1. p \in DOMAIN wire /\ wire'[p] = wire[p]
        BY <1>3, <3>2
      <4>2. /\ wire[p].n \in Sent /\ sent[wire[p].n] = KeyOf(wire[p])
            /\ \A n \in Sent \ Numbers(wire) : n < wire[p].n
            /\ \A q \in DOMAIN wire : p < q /\ wire[q].type = "delta" => wire[p].n < wire[q].n
        BY <2>2, <4>1 DEF Texts, WireInOrder
      <4>3. ASSUME NEW q \in DOMAIN wire', p < q, wire'[q].type = "delta" PROVE wire[p].n < wire'[q].n
        <5>1. CASE q = L
          <6>1. c.type = "delta"
            BY <1>1, <4>3, <5>1
          <6>2. wire'[q].n = Len(sent) + 1
            BY <1>1, <1>2, <5>1, <6>1
          <6> QED
            BY <1>6, <4>2, <6>2
        <5>2. CASE q # L
          BY <1>3, <4>2, <4>3, <5>2
        <5> QED
          BY <5>1, <5>2
      <4> QED
        BY <1>7, <4>1, <4>2, <4>3 DEF KeyOf
    <3> QED
      BY <3>1, <3>2
  <2> QED
    BY <1>9, <2>1, <2>2 DEF WireInOrder, KeyOf
<1> QED
  BY <1>11, <1>12, <1>13 DEF Texts

LEMMA SendIs ==
  ASSUME NEW X, wire \in Seq(X), NEW c \in X, Send(c),
         \/ c.type = "delta" /\ c.n = Len(sent) + 1 /\ sent' = Append(sent, KeyOf(c)) /\ KeyOf(c) \in Keys \union Nat
         \/ c.type # "delta" /\ c.n = 0 /\ sent' = sent
  PROVE  SentOne(c) /\ wire' = Append(wire, c) /\ DOMAIN wire = 1..Len(wire) /\ Len(wire) \in Nat
<1>1. wire' = Append(wire, c)
  BY DEF Send
<1>2. /\ Len(Append(wire, c)) = Len(wire) + 1 /\ DOMAIN Append(wire, c) = 1..(Len(wire) + 1)
      /\ \A p \in 1..Len(wire) : Append(wire, c)[p] = wire[p]
      /\ Append(wire, c)[Len(wire) + 1] = c /\ DOMAIN wire = 1..Len(wire) /\ Len(wire) \in Nat
  BY AppendProperties
<1> QED
  BY <1>1, <1>2 DEF SentOne

LEMMA KeepsServiceSends ==
  ASSUME IInv, ServiceSends, UNCHANGED <<route, mode, aborted, producing, outer, forwarder, reading>>
  PROVE  IInv'
<1>1. StreamsKept'
  BY StreamsService DEF IInv
<1>2. /\ StreamsKept /\ Types /\ Texts(message.blocks, wire) /\ NamesKept(message.blocks, wire)
      /\ route # "proxy" /\ at = "reading" /\ Telling /\ WholeKept
      /\ UNCHANGED <<route, at, message, pushed, inner, served>>
  BY DEF IInv, StreamsKept, AnswerKept, CallsNamed, ServiceSends, producing
<1>3. /\ wire \in Seq(Chunks) /\ DOMAIN wire = 1..Len(wire) /\ Len(wire) \in Nat
      /\ sent \in Seq(Keys \union Nat) /\ Len(sent) \in Nat
      /\ message.blocks \in Seq(Blocks) /\ pushed \in Seq(Events)
  BY <1>2 DEF Types, Messages
<1>4. ~Answered
  BY <1>2 DEF WholeKept, StreamsKept, Final
<1>5. ASSUME NEW key \in Keys, NEW ids \in SUBSET {"index", "id"},
             key \in Calls => ids # {} /\ (Named(key) # {} => ids \intersect Named(key) # {}),
             key \notin Calls => ids = {},
             Send(Delta(key, ids)), sent' = Append(sent, key)
      PROVE  \E c : SentOne(c) /\ NamesKept(message.blocks, wire')
  <2> DEFINE c == Delta(key, ids)
  <2>1. c \in Chunks /\ c.type = "delta" /\ c.key = key /\ c.ids = ids /\ c.n = Len(sent) + 1
    BY <1>3 DEF Delta, Chunks, Names
  <2>2. KeyOf(c) = key
    BY <1>2, <2>1 DEF KeyOf
  <2> HIDE DEF c
  <2>3. SentOne(c)
    BY <1>3, <1>5, <2>1, <2>2, SendIs DEF c
  <2>4. /\ DOMAIN wire' = 1..(Len(wire) + 1) /\ \A p \in DOMAIN wire : wire'[p] = wire[p]
        /\ wire'[Len(wire) + 1] = c
    BY <2>3 DEF SentOne
  <2>5. ASSUME key \in Calls
        PROVE  /\ ids # {}
               /\ NamedBefore(message.blocks, wire', Len(wire) + 1) # {} =>
                    ids \intersect NamedBefore(message.blocks, wire', Len(wire) + 1) # {}
    <3>1. NamedBefore(message.blocks, wire', Len(wire) + 1) = Named(key)
      <4>1. \A q \in DOMAIN wire : wire[q].ids \subseteq Names /\ q < Len(wire) + 1 /\ q \in DOMAIN wire' /\ wire'[q] = wire[q]
        <5>1. \A q \in DOMAIN wire : wire[q] \in Chunks
          BY <1>3
        <5> QED
          BY <1>3, <2>4, <5>1 DEF Chunks
      <4>2. \A q \in DOMAIN wire' : q < Len(wire) + 1 => q \in DOMAIN wire /\ wire'[q] = wire[q]
        BY <1>3, <2>4
      <4>3. \A j \in DOMAIN message.blocks : message.blocks[j].ids \subseteq Names
        <5>1. \A j \in DOMAIN message.blocks : message.blocks[j] \in Blocks
          BY <1>3
        <5> QED
          BY <5>1 DEF Blocks
      <4>4. wire'[Len(wire) + 1].key = key
        BY <2>1, <2>4
      <4>5. ASSUME NEW x
            PROVE  x \in NamedBefore(message.blocks, wire', Len(wire) + 1)
                   <=> \/ \E j \in DOMAIN message.blocks : message.blocks[j].key = key /\ x \in message.blocks[j].ids
                       \/ \E q \in DOMAIN wire : wire[q].key = key /\ x \in wire[q].ids
        BY <4>1, <4>2, <4>3, <4>4 DEF NamedBefore
      <4>6. ASSUME NEW x
            PROVE  x \in Named(key)
                   <=> \/ \E j \in DOMAIN message.blocks : message.blocks[j].key = key /\ x \in message.blocks[j].ids
                       \/ \E q \in DOMAIN wire : wire[q].key = key /\ x \in wire[q].ids
        <5> DEFINE A == {j \in DOMAIN message.blocks : message.blocks[j].key = key}
                   B == {j \in DOMAIN wire : wire[j].key = key}
                   U == UNION {message.blocks[j].ids : j \in A}
                   W == UNION {wire[j].ids : j \in B}
        <5>1. Named(key) = U \union W
          BY DEF Named
        <5>2. x \in U <=> \E j \in DOMAIN message.blocks : message.blocks[j].key = key /\ x \in message.blocks[j].ids
          OBVIOUS
        <5>3. x \in W <=> \E q \in DOMAIN wire : wire[q].key = key /\ x \in wire[q].ids
          OBVIOUS
        <5> HIDE DEF U, W
        <5> QED
          BY <5>1, <5>2, <5>3
      <4> QED
        BY <4>5, <4>6
    <3> QED
      BY <1>5, <2>5, <3>1
  <2>6. NamesKept(message.blocks, wire')
    <3>1. SentBehind(wire, c, wire')
      BY <1>3, <2>4 DEF SentBehind
    <3>2. NamedAgain(message.blocks, wire', Len(wire) + 1, c)
      BY <1>5, <2>1, <2>5 DEF NamedAgain
    <3> QED
      BY <1>2, <3>1, <3>2, NamesSent
  <2> QED
    BY <2>3, <2>6
<1>6. ASSUME NEW k \in {"stop", "error"}, Send(Reason(k)), sent' = sent
      PROVE  \E c : SentOne(c) /\ NamesKept(message.blocks, wire')
  <2> DEFINE c == Reason(k)
  <2>1. c \in Chunks /\ c.type # "delta" /\ c.ids = {} /\ c.n = 0
    BY DEF Reason, Chunks
  <2> HIDE DEF c
  <2>3. SentOne(c)
    BY <1>3, <1>6, <2>1, SendIs DEF c
  <2>4. /\ DOMAIN wire' = 1..(Len(wire) + 1) /\ \A p \in DOMAIN wire : wire'[p] = wire[p]
        /\ wire'[Len(wire) + 1] = c
    BY <2>3 DEF SentOne
  <2>6. NamesKept(message.blocks, wire')
    <3>1. SentBehind(wire, c, wire')
      BY <1>3, <2>4 DEF SentBehind
    <3>2. NamedAgain(message.blocks, wire', Len(wire) + 1, c)
      BY <2>1 DEF NamedAgain
    <3> QED
      BY <1>2, <3>1, <3>2, NamesSent
  <2> QED
    BY <2>3, <2>6
<1>7. PICK c : SentOne(c) /\ NamesKept(message.blocks, wire')
  BY <1>5, <1>6 DEF ServiceSends
<1>8. Texts(message.blocks, wire)'
  BY <1>2, <1>3, <1>7, SendKeeps
<1>9. AnswerKept'
  BY <1>2, <1>7, <1>8 DEF AnswerKept, CallsNamed, Telling, Served
<1>10. WholeKept'
  BY <1>2, <1>4 DEF WholeKept, Answered
<1> QED
  BY <1>1, <1>9, <1>10 DEF IInv

LEMMA KeepsServiceEnds ==
  ASSUME IInv, ServiceEnds, UNCHANGED <<route, mode, aborted, producing, outer, forwarder, reading>>
  PROVE  IInv'
<1>1. StreamsKept'
  BY StreamsService DEF IInv
<1>2. UNCHANGED <<route, wire, sent, served, message, pushed, at, inner>>
  BY DEF ServiceEnds, producing
<1>3. AnswerKept'
  BY <1>2, AnswerSame DEF IInv
<1>4. WholeKept'
  BY <1>2, WholeSame DEF IInv
<1> QED
  BY <1>1, <1>3, <1>4 DEF IInv

LEMMA KeepsUserAborts ==
  ASSUME IInv, UserAborts
  PROVE  IInv'
<1>1. StreamsKept'
  BY StreamsAbort DEF IInv
<1>2. UNCHANGED <<route, wire, sent, served, message, pushed, at, inner>>
  BY DEF UserAborts, service, producing
<1>3. AnswerKept'
  BY <1>2, AnswerSame DEF IInv
<1>4. WholeKept'
  BY <1>2, WholeSame DEF IInv
<1> QED
  BY <1>1, <1>3, <1>4 DEF IInv

LEMMA KeepsLoad ==
  ASSUME IInv, Load
  PROVE  IInv'
<1>1. StreamsKept'
  BY StreamsLoad DEF IInv
<1>2. UNCHANGED <<route, wire, sent, served, message, pushed, inner>> /\ at = "load" /\ at' = "request"
  BY DEF Load, service
<1>3. AnswerKept'
  BY <1>2, AnswerSame DEF IInv
<1>4. WholeKept'
  BY <1>2, WholeSame DEF IInv
<1> QED
  BY <1>1, <1>3, <1>4 DEF IInv

LEMMA KeepsLoadFails ==
  ASSUME IInv, LoadFails
  PROVE  IInv'
<1>1. /\ StreamsKept' /\ at = "load" /\ at' = "over" /\ UNCHANGED <<wire, sent, served, inner>>
      /\ message'.blocks = message.blocks /\ pushed' \in {pushed, <<Error>>}
  BY StreamsLoadFails DEF IInv
<1>2. route' = route /\ inner' = inner
  BY DEF LoadFails
<1>3. AnswerKept'
  BY <1>1, <1>2, AnswerSame DEF IInv
<1>4. WholeKept'
  <2>1. CASE pushed' = pushed
    BY <1>1, <1>2, <2>1, WholeSame DEF IInv
  <2>2. CASE pushed' = <<Error>>
    <3> DEFINE T == <<Error>>
    <3>1. T \in Seq(Events) /\ T # <<>> /\ T[Len(T)] # Done
      BY EventsApart
    <3> QED
      BY <2>2, <3>1, NotAnswered
  <2> QED
    BY <1>1, <2>1, <2>2
<1> QED
  BY <1>1, <1>3, <1>4 DEF IInv

LEMMA KeepsForward ==
  ASSUME IInv, Forward
  PROVE  IInv'
<1>1. StreamsKept' /\ UNCHANGED <<route, at, wire, sent, served, message, pushed>> /\ inner'.done = inner.done
  BY StreamsForward DEF IInv
<1>2. AnswerKept'
  BY <1>1, AnswerSame DEF IInv
<1>3. WholeKept'
  BY <1>1, WholeSame DEF IInv
<1> QED
  BY <1>1, <1>2, <1>3 DEF IInv

LEMMA KeepsReadEvent ==
  ASSUME IInv, ReadEvent
  PROVE  IInv'
<1>1. StreamsKept' /\ UNCHANGED <<route, at, wire, sent, served, message, pushed>> /\ inner'.done = inner.done
  BY StreamsReadEvent DEF IInv
<1>2. AnswerKept'
  BY <1>1, AnswerSame DEF IInv
<1>3. WholeKept'
  BY <1>1, WholeSame DEF IInv
<1> QED
  BY <1>1, <1>2, <1>3 DEF IInv

LEMMA KeepsTakeResult ==
  ASSUME IInv, TakeResult
  PROVE  IInv'
<1>1. StreamsKept' /\ UNCHANGED <<route, at, wire, sent, served, message, pushed, inner>>
  BY StreamsTakeResult DEF IInv
<1>2. AnswerKept'
  BY <1>1, AnswerSame DEF IInv
<1>3. WholeKept'
  BY <1>1, WholeSame DEF IInv
<1> QED
  BY <1>1, <1>2, <1>3 DEF IInv

LEMMA KeepsReadReason ==
  ASSUME IInv, route # "proxy", at = "reading", wire # <<>>, ReadReason, wire' = Tail(wire),
         UNCHANGED <<route, mode, aborted, remote, sent, served, outer, forwarder, reading>>
  PROVE  IInv'
<1> DEFINE c == wire[1]
           w2 == Tail(wire)
<1>1. /\ StreamsKept /\ Types /\ Texts(message.blocks, wire) /\ NamesKept(message.blocks, wire)
      /\ Telling /\ WholeKept
  BY DEF IInv, StreamsKept, AnswerKept, CallsNamed
<1>2. /\ wire \in Seq(Chunks) /\ DOMAIN wire = 1..Len(wire) /\ Len(wire) \in Nat \ {0}
      /\ sent \in Seq(Keys \union Nat) /\ message \in Messages
  BY <1>1 DEF Types
<1>3. Head(wire) = c /\ c \in Chunks /\ 1 \in DOMAIN wire
  BY <1>2
<1>4. /\ c.type # "delta" /\ message' = [message EXCEPT !.stop = c.type] /\ finished' = TRUE
      /\ UNCHANGED <<at, inner, pushed>>
  BY <1>3 DEF ReadReason
<1>5. /\ FirstRead(wire, w2) /\ Waiting(wire) /\ w2 \in Seq(Chunks) /\ Len(sent) \in Nat
  <2>1. Tail(wire) \in Seq(Chunks) /\ Len(Tail(wire)) = Len(wire) - 1 /\ \A p \in 1..Len(Tail(wire)) : Tail(wire)[p] = wire[p + 1]
    BY <1>2, HeadTailProperties
  <2>2. \A p \in DOMAIN wire : wire[p] \in Chunks
    BY <1>2
  <2> QED
    BY <1>2, <2>1, <2>2 DEF FirstRead, Chunks, Waiting
<1> HIDE DEF w2
<1>6. w2 = wire'
  BY DEF w2
<1>7. message' \in Messages /\ message'.blocks = message.blocks
  <2>1. c.type \in {"stop", "error"}
    BY <1>3, <1>4 DEF Chunks
  <2> QED
    BY <1>2, <1>4, <2>1 DEF Messages
<1>8. Texts(message.blocks, w2)
  BY <1>1, <1>4, <1>5, OtherKeeps
<1>9. NamesKept(message.blocks, w2)
  <2>1. c.ids = {}
    BY <1>1, <1>3, <1>4 DEF NamesKept
  <2>2. NamesMoved(message.blocks, message.blocks, c)
    BY <1>1, <2>1 DEF NamesMoved, NamesKept
  <2> QED
    BY <1>1, <1>5, <2>2, NamesRead
<1>10. OthersTyped'
  BY <1>1, <1>4, <1>5, <1>6, <1>7 DEF Types, OthersTyped
<1>11. inner.done = FALSE
  BY <1>1, NotDoneYet
<1>12. StreamsKept'
  <2>1. UNCHANGED <<route, inner, outer, forwarder, reader, seen, pushed, at>>
    BY <1>4 DEF reading
  <2> QED
    BY <1>1, <1>10, <1>11, <2>1, StreamsSame
<1>13. AnswerKept'
  <2>1. Texts(message.blocks, wire)'
    BY <1>6, <1>7, <1>8, TextsNext
  <2> QED
    BY <1>1, <1>4, <1>6, <1>7, <1>9, <2>1 DEF AnswerKept, CallsNamed, Telling, Served
<1>14. WholeKept'
  BY <1>1, <1>4, <1>11 DEF WholeKept, Answered
<1> QED
  BY <1>12, <1>13, <1>14 DEF IInv

\* The request is answered: nothing is sent yet, and nothing is told.
LEMMA KeepsConnect ==
  ASSUME IInv, Connect
  PROVE  IInv'
<1> DEFINE es == IF route = "proxy" THEN <<>> ELSE <<Start>>
<1>1. StreamsKept /\ Types /\ inner.done = FALSE /\ at = "request"
  BY NotDoneYet DEF IInv, StreamsKept, Connect
<1>2. /\ Pushes(es, FALSE)
      /\ UNCHANGED <<route, aborted, remote, wire, sent, served, message, finished, outer, forwarder, reader, seen>>
  BY DEF Connect, service, reading
<1>3. /\ wire = <<>> /\ sent = <<>> /\ served = <<>> /\ message.blocks = <<>> /\ pushed = <<>>
  BY <1>1 DEF StreamsKept, Unstarted
<1>4. es \in Seq(Events) /\ \A p \in DOMAIN es : ~IsComplete(es[p])
  BY EventsApart
<1>5. OthersTyped'
  BY <1>1, <1>2, OthersAre DEF OthersTyped
<1>6. es \in {<<>>, <<Start>>}
  OBVIOUS
<1>7. route # "proxy" => es = <<Start>>
  OBVIOUS
<1>8. route = "proxy" => es = <<>>
  OBVIOUS
<1> HIDE DEF es
<1>9. StreamsKept' /\ pushed' = es /\ at' = "reading"
  <2>1. ~Complete(es)
    BY <1>4 DEF Complete
  <2>2. StreamsKept' /\ pushed' = (IF inner.done THEN pushed ELSE pushed \o es) /\ at' = "reading"
    BY <1>1, <1>2, <1>4, <1>5, <2>1, PushingKeeps
  <2>3. pushed \o es = es
    BY <1>3, <1>4
  <2> QED
    BY <1>1, <2>2, <2>3
<1>10. DOMAIN <<>> = {} /\ Len(<<>>) = 0 /\ <<>> \o <<>> = <<>>
  OBVIOUS
<1>11. Texts(message.blocks, wire)'
  <2>1. Texts(message'.blocks, wire')
    BY <1>2, <1>3, <1>10 DEF Texts, KeysApart, TextsInOrder, NoneLost, WireInOrder, Sent
  <2> QED
    BY <1>2, <2>1, TextsNext
<1>12. CallsNamed'
  BY <1>2, <1>3, <1>10 DEF CallsNamed, NamesKept
<1>13. Telling'
  BY <1>2, <1>3, <1>7, <1>9, StartTells DEF Telling
<1>14. Served'
  <2> SUFFICES ASSUME route = "proxy" PROVE ToldBy(pushed \o wire, served, sent)' /\ Opened(message.blocks, pushed)'
    BY <1>2 DEF Served
  <2>1. pushed' = <<>> /\ wire' = <<>> /\ served' = <<>> /\ sent' = <<>> /\ message'.blocks = <<>>
    BY <1>2, <1>3, <1>8, <1>9
  <2>2. pushed' \o wire' = <<>>
    BY <2>1, <1>10
  <2>3. 1..Len(sent') = {}
    BY <2>1, <1>10
  <2> QED
    BY <1>10, <2>1, <2>2, <2>3 DEF ToldBy, Opened
<1>15. WholeKept'
  <2>1. ~Answered'
    <3>1. CASE es = <<>>
      BY <1>9, <3>1 DEF Answered
    <3>2. CASE es = <<Start>>
      BY <1>9, <3>2, EventsApart DEF Answered, Last
    <3> QED
      BY <1>6, <3>1, <3>2
  <2> QED
    BY <2>1 DEF WholeKept
<1> QED
  BY <1>9, <1>11, <1>12, <1>13, <1>14, <1>15 DEF IInv, AnswerKept

\* A failure ends the response without "done".
LEMMA KeepsFailing ==
  ASSUME IInv, at \in {"request", "reading"}, NEW es \in Seq(Events), \A p \in DOMAIN es : ~IsComplete(es[p]),
         Fails(es, message),
         UNCHANGED <<route, aborted, service, finished, outer, forwarder, reading>>
  PROVE  IInv' /\ inner'.done /\ (aborted => message'.stop = "aborted")
<1>1. /\ StreamsKept /\ Types /\ AnswerKept /\ WholeKept /\ message \in Messages
      /\ UNCHANGED <<route, aborted, remote, wire, sent, served, finished, outer, forwarder, reader, seen>>
  BY DEF IInv, StreamsKept, Types, service, reading
<1>2. OthersTyped'
  <2>1. message' \in Messages
    BY <1>1, FailingTyped
  <2> QED
    BY <1>1, <2>1, OthersAre DEF OthersTyped
<1>3. /\ StreamsKept'
      /\ pushed' = IF inner.done THEN pushed ELSE pushed \o Append(es, Error)
      /\ inner'.done /\ at' = "over"
      /\ message'.blocks = message.blocks
      /\ aborted => message'.stop = "aborted"
  BY <1>1, <1>2, FailingKeeps
<1>4. AnswerKept'
  BY <1>1, <1>3, AnswerSame
<1>5. WholeKept'
  <2>1. CASE inner.done
    BY <1>1, <1>3, <2>1, WholeSame
  <2>2. CASE ~inner.done
    <3> DEFINE U == pushed \o Append(es, Error)
    <3>1. pushed \in Seq(Events) /\ Error \in Events /\ Error # Done
      BY <1>1, EventsApart DEF Types
    <3>2. U = Append(pushed \o es, Error) /\ pushed \o es \in Seq(Events)
      BY <3>1, HandedOn, ConcatProperties
    <3> HIDE DEF U
    <3>3. U \in Seq(Events) /\ U # <<>> /\ U[Len(U)] = Error
      BY <3>1, <3>2, AppendProperties
    <3>4. pushed' = U
      BY <1>3, <2>2 DEF U
    <3> QED
      BY <3>1, <3>3, <3>4, NotAnswered
  <2> QED
    BY <2>1, <2>2
<1> QED
  BY <1>3, <1>4, <1>5 DEF IInv

LEMMA KeepsBreaks ==
  ASSUME IInv, Breaks
  PROVE  IInv' /\ inner'.done /\ (aborted => message'.stop = "aborted")
<1> DEFINE es == <<>>
<1>1. es \in Seq(Events) /\ \A p \in DOMAIN es : ~IsComplete(es[p])
  OBVIOUS
<1>2. /\ at \in {"request", "reading"} /\ Fails(es, message)
      /\ UNCHANGED <<route, aborted, service, finished, outer, forwarder, reading>>
  BY DEF Breaks
<1> HIDE DEF es
<1> QED
  BY <1>1, <1>2, KeepsFailing

\* The events of a provider that comes to its end, once its blocks are closed.
Ended(T, U, N) ==
  /\ DOMAIN U = 1..(Len(T) + N + 1)
  /\ \A p \in DOMAIN T : U[p] = T[p]
  /\ \A i \in 1..N : U[Len(T) + i] = Event("close", i, 0)
  /\ U[Len(T) + N + 1] = Done

LEMMA ProviderWhole ==
  ASSUME NEW blocks \in Seq(Blocks), Texts(blocks, <<>>), NEW T \in Seq(Events), Tells(blocks, T),
         NEW U \in Seq(Events), Ended(T, U, Len(blocks)), Len(sent) \in Nat
  PROVE  WholeIn(blocks, U, sent)
<1> DEFINE N == Len(blocks)
           L == Len(T)
<1>1. /\ N \in Nat /\ L \in Nat /\ DOMAIN blocks = 1..N /\ DOMAIN T = 1..L
      /\ DOMAIN U = 1..(L + N + 1)
      /\ \A p \in DOMAIN T : U[p] = T[p]
      /\ \A i \in 1..N : U[L + i] = Event("close", i, 0)
      /\ U[L + N + 1] = Done
  BY DEF Ended
<1> HIDE DEF N, L
<1>2. Sent \ Numbers(<<>>) = 1..Len(sent)
  BY DEF Sent, Numbers
<1>3. UNION {Range(blocks[i].text) : i \in DOMAIN blocks} = 1..Len(sent)
  <2>1. ASSUME NEW i \in DOMAIN blocks PROVE Range(blocks[i].text) \subseteq 1..Len(sent)
    BY <1>2 DEF Texts, TextsInOrder, Range
  <2>2. ASSUME NEW n \in 1..Len(sent) PROVE \E i \in DOMAIN blocks : n \in Range(blocks[i].text)
    <3>1. PICK i \in DOMAIN blocks : \E k \in DOMAIN blocks[i].text : blocks[i].text[k] = n
      BY <1>2 DEF Texts, NoneLost
    <3> QED
      BY <3>1 DEF Range
  <2> QED
    BY <2>1, <2>2
<1>4. Head(U) = Start
  <2>1. 1 \in DOMAIN T /\ T[1] = Start
    BY <1>1 DEF Tells
  <2>2. U # <<>>
    BY <1>1
  <2> QED
    BY <1>1, <2>1, <2>2, SMTT(40)
<1>5. Done.index = 0 /\ Done.type = "done"
  BY LinesAre DEF Done, EventTypes
<1>6. ASSUME NEW i \in DOMAIN blocks
      PROVE  LET mine == {p \in DOMAIN U : U[p].index = i}
                 deltas == {p \in mine : U[p].type = "delta"}
             IN  /\ \E o, c \in mine :
                      /\ U[o] = Event("open", i, 0) /\ U[c] = Event("close", i, 0) /\ o < c
                      /\ \A p \in mine \ {o, c} : p \in deltas /\ o < p /\ p < c
                 /\ {U[p].n : p \in deltas} = Range(blocks[i].text)
                 /\ \A p, q \in deltas : p < q => U[p].n < U[q].n
  <2> DEFINE mine == {p \in DOMAIN U : U[p].index = i}
             deltas == {p \in mine : U[p].type = "delta"}
             c == L + i
  <2>1. i \in 1..N /\ i \in Nat /\ c \in DOMAIN U /\ c > L
    BY <1>1
  <2>2. "open" \in EventTypes /\ "close" \in EventTypes /\ "delta" \in EventTypes
    BY DEF EventTypes
  <2>3. U[c] = Event("close", i, 0) /\ U[c].index = i /\ U[c].type = "close"
    BY <1>1, <2>1, <2>2, EventFields, SMTT(40)
  <2>4. PICK o \in DOMAIN T : T[o] = Event("open", i, 0)
    BY DEF Tells
  <2>5. T[o].type = "open" /\ T[o].index = i
    BY <2>1, <2>2, <2>4, EventFields
  <2>6. o \in mine /\ U[o] = T[o] /\ o < c /\ o \in Nat
    BY <1>1, <2>1, <2>5
  <2>7. ASSUME NEW p \in mine, p # c PROVE p \in DOMAIN T /\ U[p] = T[p] /\ p < c
    <3>1. p \in 1..(L + N + 1) /\ U[p].index = i
      BY <1>1
    <3>2. p # L + N + 1
      BY <1>1, <1>5, <2>1, <3>1
    <3>3. ~(p > L)
      <4> SUFFICES ASSUME p > L PROVE FALSE
        OBVIOUS
      <4>1. p - L \in 1..N /\ p = L + (p - L)
        BY <1>1, <3>1, <3>2
      <4>2. U[L + (p - L)] = Event("close", p - L, 0)
        BY <1>1, <4>1
      <4>3. U[p].index = p - L
        <5>1. p - L \in Nat
          BY <4>1
        <5> QED
          BY <2>2, <4>1, <4>2, <5>1, EventFields, SMTT(40)
      <4> QED
        BY <1>1, <2>1, <2>7, <3>1, <4>3
    <3> QED
      BY <1>1, <2>1, <3>1, <3>3
  <2>8. \A p \in DOMAIN T : T[p].index = i => p = o \/ (o < p /\ T[p].type = "delta")
    BY <2>4, <2>5 DEF Tells
  <2>9. \A p \in mine \ {o, c} : p \in deltas /\ o < p /\ p < c
    BY <2>7, <2>8
  <2>10. \A p \in deltas : p \in DOMAIN T /\ U[p] = T[p] /\ T[p].type = "delta" /\ T[p].index = i
    BY <2>3, <2>7
  <2>11. {U[p].n : p \in deltas} = Range(blocks[i].text)
    <3>1. ASSUME NEW p \in deltas PROVE U[p].n \in Range(blocks[i].text)
      <4>1. p \in DOMAIN T /\ U[p] = T[p] /\ T[p].type = "delta" /\ T[p].index = i
        BY <2>10
      <4>2. \E k \in DOMAIN blocks[i].text : blocks[i].text[k] = T[p].n
        BY <4>1 DEF Tells
      <4> QED
        BY <4>1, <4>2 DEF Range
    <3>2. ASSUME NEW n \in Range(blocks[i].text) PROVE \E p \in deltas : U[p].n = n
      <4>1. PICK k \in DOMAIN blocks[i].text : n = blocks[i].text[k]
        BY DEF Range
      <4>2. PICK p \in DOMAIN T : T[p] = Event("delta", i, n)
        BY <4>1 DEF Tells
      <4>3. n \in Nat
        <5>1. blocks[i] \in Blocks
          OBVIOUS
        <5>2. blocks[i].text \in Seq(Nat)
          BY <5>1 DEF Blocks
        <5> QED
          BY <4>1, <5>2
      <4>4. T[p].type = "delta" /\ T[p].index = i /\ T[p].n = n
        BY <2>1, <2>2, <4>2, <4>3, EventFields, SMTT(40)
      <4>5. p \in deltas /\ U[p].n = n
        BY <1>1, <4>4
      <4> QED
        BY <4>5
    <3> HIDE DEF deltas
    <3> QED
      BY <3>1, <3>2
  <2>12. ASSUME NEW p \in deltas, NEW q \in deltas, p < q PROVE U[p].n < U[q].n
    BY <2>10, <2>12 DEF Tells
  <2>13. c \in mine
    BY <2>1, <2>3
  <2> HIDE DEF c, mine, deltas
  <2>14. /\ \E oo, cc \in mine :
                      /\ U[oo] = Event("open", i, 0) /\ U[cc] = Event("close", i, 0) /\ oo < cc
                      /\ \A p \in mine \ {oo, cc} : p \in deltas /\ oo < p /\ p < cc
        /\ {U[p].n : p \in deltas} = Range(blocks[i].text)
        /\ \A p, q \in deltas : p < q => U[p].n < U[q].n
    BY <2>3, <2>4, <2>6, <2>9, <2>11, <2>12, <2>13
  <2> QED
    BY <2>14 DEF mine, deltas
<1> QED
  BY <1>3, <1>4, <1>6 DEF WholeIn

\* A provider at the end of its chunks closes the blocks, and is done only
\* when nothing is left to read.
LEMMA KeepsEndOfChunks ==
  ASSUME IInv, EndOfChunks
  PROVE  IInv' /\ inner'.done /\ (aborted => message'.stop = "aborted")
<1> DEFINE N == Len(message.blocks)
           cs == Closes
           es == Append(cs, Done)
<1>1. /\ StreamsKept /\ Types /\ AnswerKept /\ WholeKept /\ message \in Messages /\ message.blocks \in Seq(Blocks)
      /\ UNCHANGED <<route, aborted, remote, wire, sent, served, finished, outer, forwarder, reader, seen>>
      /\ route # "proxy" /\ at = "reading" /\ inner.done = FALSE
  BY NotDoneYet DEF IInv, StreamsKept, Types, Messages, EndOfChunks, service, reading
<1>2. /\ N \in Nat /\ cs \in Seq(Events) /\ Len(cs) = N /\ DOMAIN cs = 1..N
      /\ \A i \in 1..N : cs[i] = Event("close", i, 0)
      /\ \A i \in DOMAIN cs : ~IsComplete(cs[i])
  <2>1. N \in Nat /\ DOMAIN message.blocks = 1..N
    BY <1>1
  <2>2. "close" \in EventTypes
    BY DEF EventTypes
  <2> HIDE DEF N
  <2>3. cs = [i \in 1..N |-> Event("close", i, 0)]
    BY <2>1 DEF Closes
  <2>4. \A i \in 1..N : Event("close", i, 0) \in Events /\ Event("close", i, 0).type = "close"
    BY <2>1, <2>2, EventFields
  <2> HIDE DEF cs
  <2>5. cs \in [1..N -> Events]
    BY <2>3, <2>4
  <2>6. cs \in Seq(Events) /\ Len(cs) = N
    BY <2>1, <2>5, IsASeq, LenProperties
  <2> QED
    BY <2>1, <2>3, <2>4, <2>6 DEF IsComplete
<1>3. CASE ~Succeeds
  <2>1. Fails(cs, message)
    BY <1>3 DEF EndOfChunks
  <2> HIDE DEF cs
  <2> QED
    BY <1>1, <1>2, <2>1, KeepsFailing DEF EndOfChunks
<1>4. CASE Succeeds
  <2>1. Pushes(es, TRUE) /\ message' = message /\ ~aborted /\ wire = <<>>
    BY <1>4 DEF EndOfChunks, Succeeds
  <2> HIDE DEF cs
  <2>2. /\ es \in Seq(Events) /\ Len(es) = N + 1 /\ DOMAIN es = 1..(N + 1)
        /\ \A i \in 1..N : es[i] = cs[i]
        /\ es[N + 1] = Done
    BY <1>2, EventsApart, AppendProperties
  <2>3. \A p \in DOMAIN es : IsComplete(es[p]) => p = Len(es)
    BY <1>2, <2>2
  <2> HIDE DEF es
  <2>4. OthersTyped'
    BY <1>1, <2>1, OthersAre DEF OthersTyped
  <2>5. /\ StreamsKept' /\ pushed' = (IF inner.done THEN pushed ELSE pushed \o es)
        /\ inner'.done = (inner.done \/ Complete(es) \/ TRUE) /\ at' = "over"
    BY <1>1, <2>1, <2>2, <2>3, <2>4, PushingKeeps
  <2>6. pushed' = pushed \o es /\ inner'.done
    BY <1>1, <2>5
  <2>7. AnswerKept'
    BY <1>1, <2>1, <2>5, AnswerSame
  <2>8. WholeKept'
    <3> DEFINE U == pushed \o es
    <3>1. pushed \in Seq(Events) /\ Len(pushed) \in Nat /\ DOMAIN pushed = 1..Len(pushed) /\ Len(sent) \in Nat
      BY <1>1 DEF Types
    <3>0. /\ U \in Seq(Events) /\ Len(U) = Len(pushed) + Len(es)
          /\ \A i \in 1..(Len(pushed) + Len(es)) : U[i] = IF i <= Len(pushed) THEN pushed[i] ELSE es[i - Len(pushed)]
      <4>1. es \in Seq(Events)
        BY <2>2
      <4> QED
        BY <3>1, <4>1, ConcatProperties
    <3>2. /\ U \in Seq(Events) /\ Len(U) = Len(pushed) + Len(es) /\ DOMAIN U = 1..(Len(pushed) + Len(es))
          /\ \A i \in 1..(Len(pushed) + Len(es)) : U[i] = IF i <= Len(pushed) THEN pushed[i] ELSE es[i - Len(pushed)]
      <4> HIDE DEF U
      <4>1. DOMAIN U = 1..Len(U)
        BY <3>0
      <4> QED
        BY <3>0, <4>1
    <3> HIDE DEF U
    <3>3. Ended(pushed, U, N)
      <4>1. DOMAIN U = 1..(Len(pushed) + N + 1) /\ \A p \in DOMAIN pushed : U[p] = pushed[p]
        BY <1>2, <2>2, <3>1, <3>2
      <4>2. ASSUME NEW i \in 1..(N + 1) PROVE U[Len(pushed) + i] = es[i]
        <5>1. Len(pushed) + i \in 1..(Len(pushed) + Len(es)) /\ ~(Len(pushed) + i <= Len(pushed)) /\ (Len(pushed) + i) - Len(pushed) = i
          BY <1>2, <2>2, <3>1
        <5> QED
          BY <3>2, <5>1
      <4>3. \A i \in 1..N : U[Len(pushed) + i] = Event("close", i, 0)
        BY <1>2, <2>2, <4>2
      <4>4. U[Len(pushed) + N + 1] = Done
        <5>1. N + 1 \in 1..(N + 1) /\ Len(pushed) + (N + 1) = Len(pushed) + N + 1
          BY <1>2, <3>1
        <5> QED
          BY <2>2, <4>2, <5>1
      <4> QED
        BY <4>1, <4>3, <4>4 DEF Ended
    <3>4. WholeIn(message.blocks, U, sent)
      BY <1>1, <2>1, <3>1, <3>2, <3>3, ProviderWhole DEF AnswerKept, Telling
    <3> QED
      BY <1>1, <2>1, <2>5, <2>6, <3>4 DEF WholeKept, U
  <2> QED
    BY <2>1, <2>5, <2>6, <2>7, <2>8 DEF IInv
<1> QED
  BY <1>3, <1>4

------------------------------------------------------------------------------
(* The invariant, action by action: the server of the proxy *)

\* What the server sends next, having sent the lines T.
Sends(T, c, open, all, open2, all2) ==
  \/ T = <<>> /\ c = Start /\ open2 = open /\ all2 = all
  \/ T # <<>> /\ c = Event("open", Len(open) + 1, 0) /\ open2 = Append(open, TRUE) /\ all2 = all
  \/ \E i \in DOMAIN open : open[i] /\ c = Event("delta", i, Len(all) + 1) /\ open2 = open /\ all2 = Append(all, i)
  \/ \E i \in DOMAIN open : open[i] /\ c = Event("close", i, 0) /\ open2 = [open EXCEPT ![i] = FALSE] /\ all2 = all
  \/ T # <<>> /\ c \in {Error, Event("garbage", 0, 0)} /\ open2 = open /\ all2 = all
  \/ T # <<>> /\ c = Done /\ (\A i \in DOMAIN open : ~open[i]) /\ open2 = open /\ all2 = all

\* What such a line adds to what is told.
Adds(T, c, open, all, open2, all2) ==
  /\ c.type = "start" => T = <<>>
  /\ T = <<>> => c = Start
  /\ c.type \in {"start", "done", "error", "garbage"} => c.index = 0
  /\ c.type \in {"start", "open", "delta", "close", "done", "error", "garbage"}
  /\ \A i \in DOMAIN open : i \in DOMAIN open2 /\ (open2[i] => open[i]) /\ i \in Nat \ {0}
  /\ \A i \in DOMAIN open : ~open2[i] => ~open[i] \/ c = Event("close", i, 0)
  /\ \A i \in DOMAIN open2 : i \in DOMAIN open \/ (c = Event("open", i, 0) /\ open2[i])
  /\ \A n \in 1..Len(all) : n \in 1..Len(all2) /\ all2[n] = all[n]
  /\ \A n \in 1..Len(all2) : n \in 1..Len(all) \/ c = Event("delta", all2[n], n)
  /\ c.type = "done" => c = Done /\ \A i \in DOMAIN open2 : ~open2[i]
  /\ c.type = "open" => /\ c.index \in DOMAIN open2 /\ c.n = 0 /\ c.index \notin DOMAIN open /\ c.index # 0
                        /\ \A i \in DOMAIN open : i < c.index
  /\ c.type \in {"delta", "close"} => c.index \in DOMAIN open /\ open[c.index]
  /\ c.type = "close" => c.n = 0 /\ ~open2[c.index]
  /\ c.type = "delta" => /\ c.n \in 1..Len(all2) /\ all2[c.n] = c.index
                         /\ \A n \in 1..Len(all) : n < c.n

LEMMA SendsAdd ==
  ASSUME NEW T, NEW c, NEW open \in Seq(BOOLEAN), NEW open2, NEW X, NEW all \in Seq(X), NEW all2,
         T = <<>> => open = <<>>, \A i \in DOMAIN open : i \in X, Sends(T, c, open, all, open2, all2)
  PROVE  Adds(T, c, open, all, open2, all2)
<1>1. /\ DOMAIN open = 1..Len(open) /\ Len(open) \in Nat /\ DOMAIN all = 1..Len(all) /\ Len(all) \in Nat
      /\ \A i \in DOMAIN open : i \in Nat \ {0} /\ open[i] \in BOOLEAN
  OBVIOUS
<1>2. /\ Start.type = "start" /\ Start.index = 0 /\ Done.type = "done" /\ Done.index = 0
      /\ Error.type = "error" /\ Error.index = 0
  BY LinesAre DEF Start, Done, Error, EventTypes
<1>3. CASE T = <<>> /\ c = Start /\ open2 = open /\ all2 = all
  BY <1>1, <1>2, <1>3 DEF Adds
<1>4. CASE T # <<>> /\ c = Event("open", Len(open) + 1, 0) /\ open2 = Append(open, TRUE) /\ all2 = all
  <2>1. c.type = "open" /\ c.index = Len(open) + 1 /\ c.n = 0
    BY <1>1, <1>4, LinesAre DEF EventTypes
  <2>2. /\ DOMAIN open2 = 1..(Len(open) + 1) /\ \A i \in DOMAIN open : open2[i] = open[i]
        /\ open2[Len(open) + 1]
    BY <1>1, <1>4, AppendProperties
  <2> QED
    BY <1>1, <1>4, <2>1, <2>2 DEF Adds
<1>5. ASSUME NEW i \in DOMAIN open, open[i], c = Event("delta", i, Len(all) + 1), open2 = open, all2 = Append(all, i)
      PROVE  Adds(T, c, open, all, open2, all2)
  <2>0. i \in Nat
    BY <1>1
  <2>1. c.type = "delta" /\ c.index = i /\ c.n = Len(all) + 1
    BY <1>1, <1>5, <2>0, LinesAre DEF EventTypes
  <2>2. /\ Len(all2) = Len(all) + 1 /\ \A n \in 1..Len(all) : all2[n] = all[n]
        /\ all2[Len(all) + 1] = i
    BY <1>1, <1>5, AppendProperties
  <2> QED
    BY <1>1, <1>5, <2>1, <2>2 DEF Adds
<1>6. ASSUME NEW i \in DOMAIN open, open[i], c = Event("close", i, 0), open2 = [open EXCEPT ![i] = FALSE], all2 = all
      PROVE  Adds(T, c, open, all, open2, all2)
  <2>0. i \in Nat
    BY <1>1
  <2>1. c.type = "close" /\ c.index = i /\ c.n = 0
    BY <1>1, <1>6, <2>0, LinesAre, SMTT(40) DEF EventTypes
  <2>2. DOMAIN open2 = DOMAIN open /\ ~open2[i] /\ \A j \in DOMAIN open : j # i => open2[j] = open[j]
    BY <1>6
  <2> QED
    BY <1>1, <1>6, <2>1, <2>2 DEF Adds
<1>7. CASE T # <<>> /\ c \in {Error, Event("garbage", 0, 0)} /\ open2 = open /\ all2 = all
  <2>1. c.type \in {"error", "garbage"} /\ c.index = 0
    BY <1>2, <1>7, LinesAre
  <2> QED
    BY <1>1, <1>7, <2>1 DEF Adds
<1>8. CASE T # <<>> /\ c = Done /\ (\A i \in DOMAIN open : ~open[i]) /\ open2 = open /\ all2 = all
  BY <1>1, <1>2, <1>8 DEF Adds
<1> QED
  BY <1>3, <1>4, <1>5, <1>6, <1>7, <1>8 DEF Sends

\* The server goes on as it began: until it has come to an end, whatever it
\* sends keeps what it tells in order.
LEMMA ToldOn ==
  ASSUME NEW T \in Seq(Lines), NEW c \in Lines, NEW open, NEW all, NEW open2, NEW all2,
         ToldBy(T, open, all), Adds(T, c, open, all, open2, all2),
         \A p \in DOMAIN T : T[p].type \notin {"done", "error", "garbage"}
  PROVE  ToldBy(Append(T, c), open2, all2)
<1> DEFINE U == Append(T, c)
           M == Len(T) + 1
<1>1. /\ DOMAIN T = 1..Len(T) /\ Len(T) \in Nat /\ M = Len(T) + 1
      /\ DOMAIN U = 1..M /\ Len(U) = M /\ U[M] = c /\ \A p \in DOMAIN T : U[p] = T[p]
  BY AppendProperties
<1>2. T # <<>> => 1 \in DOMAIN T
  OBVIOUS
<1>3. T = <<>> => M = 1
  OBVIOUS
<1> HIDE DEF U, M
<1>4. ASSUME NEW p \in DOMAIN U
      PROVE  (p \in DOMAIN T /\ U[p] = T[p] /\ p < M) \/ (p = M /\ U[p] = c)
  BY <1>1
<1>5. M \in DOMAIN U /\ \A p \in DOMAIN T : p \in DOMAIN U /\ p < M
  BY <1>1
<1>6. \A p \in DOMAIN T : T[p].index \in DOMAIN open \/ T[p].index = 0
  <2>1. \A p \in DOMAIN T : T[p].type \in {"start", "open", "delta", "close"}
    <3>1. \A p \in DOMAIN T : T[p] \in Lines
      OBVIOUS
    <3> QED
      BY <3>1 DEF Lines, EventTypes
  <2> QED
    BY <2>1 DEF ToldBy
<1>7. U # <<>> => U[1] = Start
  <2>1. CASE T = <<>>
    BY <1>1, <1>3, <2>1 DEF Adds
  <2>2. CASE T # <<>>
    BY <1>1, <1>2, <2>2 DEF ToldBy
  <2> QED
    BY <2>1, <2>2
<1>8. \A p \in DOMAIN U : U[p].type \in {"start", "done", "error", "garbage"} => U[p].index = 0
  BY <1>4 DEF ToldBy, Adds
<1>9. \A p \in DOMAIN U : U[p].type \in {"done", "error", "garbage"} => p = Len(U)
  BY <1>1, <1>4
<1>10. \A p \in DOMAIN U : U[p].type = "done" => U[p] = Done /\ \A i \in DOMAIN open2 : ~open2[i]
  BY <1>4 DEF Adds
<1>11. ASSUME NEW p \in DOMAIN U, U[p].type = "open"
       PROVE  /\ U[p].index \in DOMAIN open2 /\ U[p].n = 0
              /\ \A q \in DOMAIN U : U[q].index = U[p].index => p <= q
              /\ \A q \in DOMAIN U : U[q].type = "open" /\ p < q => U[p].index < U[q].index
  <2>1. CASE p = M
    <3>1. U[p] = c /\ c.index \in DOMAIN open2 /\ c.n = 0 /\ c.index \notin DOMAIN open /\ c.index # 0
      BY <1>1, <1>11, <2>1 DEF Adds
    <3>2. \A q \in DOMAIN U : U[q].index = c.index => q = M
      BY <1>4, <1>6, <3>1
    <3>3. \A q \in DOMAIN U : ~(M < q)
      BY <1>1
    <3> QED
      BY <1>1, <2>1, <3>1, <3>2, <3>3
  <2>2. CASE p # M
    <3>1. p \in DOMAIN T /\ U[p] = T[p] /\ p < M
      BY <1>4, <2>2
    <3>2. /\ T[p].index \in DOMAIN open /\ T[p].n = 0
          /\ \A q \in DOMAIN T : T[q].index = T[p].index => p <= q
          /\ \A q \in DOMAIN T : T[q].type = "open" /\ p < q => T[p].index < T[q].index
      BY <1>11, <3>1 DEF ToldBy
    <3>3. T[p].index \in DOMAIN open2 /\ (c.type = "open" => T[p].index < c.index)
      BY <3>2 DEF Adds
    <3>4. ASSUME NEW q \in DOMAIN U, U[q].index = U[p].index PROVE p <= q
      BY <1>1, <1>4, <3>1, <3>2, <3>4
    <3>5. ASSUME NEW q \in DOMAIN U, U[q].type = "open", p < q PROVE U[p].index < U[q].index
      BY <1>4, <3>1, <3>2, <3>3, <3>5
    <3> QED
      BY <3>1, <3>2, <3>3, <3>4, <3>5
  <2> QED
    BY <2>1, <2>2
<1>12. ASSUME NEW i \in DOMAIN open2 PROVE \E p \in DOMAIN U : U[p] = Event("open", i, 0)
  <2>1. CASE i \in DOMAIN open
    <3>1. PICK p \in DOMAIN T : T[p] = Event("open", i, 0)
      BY <2>1 DEF ToldBy
    <3> QED
      BY <1>1, <1>5, <3>1
  <2>2. CASE i \notin DOMAIN open
    <3>1. c = Event("open", i, 0)
      BY <2>2 DEF Adds
    <3> QED
      BY <1>1, <1>5, <3>1
  <2> QED
    BY <2>1, <2>2
<1>13. ASSUME NEW p \in DOMAIN U, U[p].type = "close"
       PROVE  /\ U[p].index \in DOMAIN open2 /\ ~open2[U[p].index] /\ U[p].n = 0
              /\ \A q \in DOMAIN U : U[q].index = U[p].index => q <= p
  <2>1. CASE p = M
    <3>1. U[p] = c /\ c.index \in DOMAIN open2 /\ ~open2[c.index] /\ c.n = 0
      BY <1>1, <1>13, <2>1 DEF Adds
    <3>2. \A q \in DOMAIN U : q <= M
      BY <1>1
    <3> QED
      BY <2>1, <3>1, <3>2
  <2>2. CASE p # M
    <3>1. p \in DOMAIN T /\ U[p] = T[p] /\ p < M
      BY <1>4, <2>2
    <3>2. /\ T[p].index \in DOMAIN open /\ ~open[T[p].index] /\ T[p].n = 0
          /\ \A q \in DOMAIN T : T[q].index = T[p].index => q <= p
      BY <1>13, <3>1 DEF ToldBy
    <3>3. T[p].index \in DOMAIN open2 /\ ~open2[T[p].index] /\ T[p].index # 0
      BY <3>2 DEF Adds
    <3>4. c.index # T[p].index
      BY <3>2, <3>3 DEF Adds
    <3>5. ASSUME NEW q \in DOMAIN U, U[q].index = U[p].index PROVE q <= p
      BY <1>4, <3>1, <3>2, <3>4, <3>5
    <3> QED
      BY <3>1, <3>2, <3>3, <3>5
  <2> QED
    BY <2>1, <2>2
<1>14. ASSUME NEW i \in DOMAIN open2, ~open2[i] PROVE \E p \in DOMAIN U : U[p] = Event("close", i, 0)
  <2>0. i \in DOMAIN open
    BY <1>14 DEF Adds
  <2>1. CASE ~open[i]
    <3>1. PICK p \in DOMAIN T : T[p] = Event("close", i, 0)
      BY <2>0, <2>1 DEF ToldBy
    <3> QED
      BY <1>1, <1>5, <3>1
  <2>2. CASE open[i]
    <3>1. c = Event("close", i, 0)
      BY <1>14, <2>0, <2>2 DEF Adds
    <3> QED
      BY <1>1, <1>5, <3>1
  <2> QED
    BY <2>1, <2>2
<1>15. ASSUME NEW p \in DOMAIN U, U[p].type = "delta"
       PROVE  /\ U[p].index \in DOMAIN open2
              /\ U[p].n \in 1..Len(all2) /\ all2[U[p].n] = U[p].index
              /\ \A q \in DOMAIN U : U[q].type = "delta" /\ p < q => U[p].n < U[q].n
  <2>1. CASE p = M
    <3>1. U[p] = c /\ c.index \in DOMAIN open2 /\ c.n \in 1..Len(all2) /\ all2[c.n] = c.index
      BY <1>1, <1>15, <2>1 DEF Adds
    <3>2. \A q \in DOMAIN U : ~(M < q)
      BY <1>1
    <3> QED
      BY <2>1, <3>1, <3>2
  <2>2. CASE p # M
    <3>1. p \in DOMAIN T /\ U[p] = T[p] /\ p < M
      BY <1>4, <2>2
    <3>2. /\ T[p].index \in DOMAIN open
          /\ T[p].n \in 1..Len(all) /\ all[T[p].n] = T[p].index
          /\ \A q \in DOMAIN T : T[q].type = "delta" /\ p < q => T[p].n < T[q].n
      BY <1>15, <3>1 DEF ToldBy
    <3>3. /\ T[p].index \in DOMAIN open2 /\ T[p].n \in 1..Len(all2) /\ all2[T[p].n] = T[p].index
          /\ c.type = "delta" => T[p].n < c.n
      BY <3>2 DEF Adds
    <3>4. ASSUME NEW q \in DOMAIN U, U[q].type = "delta", p < q PROVE U[p].n < U[q].n
      BY <1>4, <3>1, <3>2, <3>3, <3>4
    <3> QED
      BY <3>1, <3>3, <3>4
  <2> QED
    BY <2>1, <2>2
<1>16. ASSUME NEW n \in 1..Len(all2) PROVE \E p \in DOMAIN U : U[p] = Event("delta", all2[n], n)
  <2>1. CASE n \in 1..Len(all)
    <3>1. PICK p \in DOMAIN T : T[p] = Event("delta", all[n], n)
      BY <2>1 DEF ToldBy
    <3>2. all2[n] = all[n]
      BY <2>1 DEF Adds
    <3> QED
      BY <1>1, <1>5, <3>1, <3>2
  <2>2. CASE n \notin 1..Len(all)
    <3>1. c = Event("delta", all2[n], n)
      BY <2>2 DEF Adds
    <3> QED
      BY <1>1, <1>5, <3>1
  <2> QED
    BY <2>1, <2>2
<1>17. ToldBy(U, open2, all2)
  BY <1>7, <1>8, <1>9, <1>10, <1>11, <1>12, <1>13, <1>14, <1>15, <1>16 DEF ToldBy
<1> QED
  BY <1>17 DEF U

LEMMA LineBehind ==
  ASSUME NEW s \in Seq(Events), NEW w \in Seq(Lines), NEW c \in Lines
  PROVE  /\ s \o w \in Seq(Lines) /\ s \o Append(w, c) = Append(s \o w, c)
         /\ s \o w = <<>> <=> s = <<>> /\ w = <<>>
<1>1. s \in Seq(Lines)
  <2>1. Events \subseteq Lines
    BY DEF Events, Lines
  <2> QED
    BY <2>1
<1> DEFINE t == s \o w
<1>2. t \in Seq(Lines) /\ (t = <<>> <=> s = <<>> /\ w = <<>>)
  BY <1>1, ConcatProperties, ConcatEqualIffEmpty
<1>3. t \o <<c>> = s \o (w \o <<c>>)
  BY <1>1, ConcatAssociative
<1> HIDE DEF t
<1>4. t \o <<c>> = Append(t, c) /\ w \o <<c>> = Append(w, c)
  BY <1>2, AppendIsConcat
<1>5. Append(t, c) = s \o Append(w, c)
  BY <1>3, <1>4
<1> QED
  BY <1>2, <1>5 DEF t

LEMMA KeepsServerSends ==
  ASSUME IInv, ServerSends, UNCHANGED <<route, mode, aborted, producing, outer, forwarder, reading>>
  PROVE  IInv'
<1> DEFINE T == pushed \o wire
<1>1. StreamsKept'
  BY StreamsService DEF IInv
<1>2. /\ StreamsKept /\ Types /\ Final /\ Texts(message.blocks, wire) /\ Served /\ WholeKept
      /\ route = "proxy" /\ at = "reading" /\ ~inner.done
      /\ UNCHANGED <<route, at, message, pushed, inner>>
      /\ \A i \in DOMAIN wire : wire[i].type \notin {"done", "error", "garbage"}
  BY DEF IInv, StreamsKept, AnswerKept, ServerSends, producing
<1>3. /\ wire \in Seq(Lines) /\ DOMAIN wire = 1..Len(wire) /\ Len(wire) \in Nat
      /\ sent \in Seq(Keys \union Nat) /\ Len(sent) \in Nat
      /\ served \in Seq(BOOLEAN) /\ Len(served) \in Nat /\ DOMAIN served = 1..Len(served)
      /\ pushed \in Seq(Events)
  BY <1>2 DEF Types
<1>4. ~Answered
  BY <1>2 DEF WholeKept
<1>5. ToldBy(T, served, sent) /\ Opened(message.blocks, pushed)
  BY <1>2 DEF Served
<1> DEFINE Goes(c) == Send(c) /\ c \in Lines /\ Sends(T, c, served, sent, served', sent')
<1>6. T = <<>> <=> pushed = <<>> /\ wire = <<>>
  <2>1. Start \in Lines
    BY LinesAre DEF Start, EventTypes
  <2> QED
    BY <1>3, <2>1, LineBehind
<1> HIDE DEF T
<1>7. PICK c : Goes(c)
  <2>1. CASE T = <<>> /\ Send(Start) /\ UNCHANGED <<sent, served>>
    <3>1. Start \in Lines
      BY LinesAre DEF Start, EventTypes
    <3> QED
      BY <2>1, <3>1 DEF Sends
  <2>2. CASE T # <<>> /\ Send(Event("open", Len(served) + 1, 0)) /\ served' = Append(served, TRUE) /\ UNCHANGED sent
    <3>1. Event("open", Len(served) + 1, 0) \in Lines
      BY <1>3, LinesAre DEF EventTypes
    <3> QED
      BY <2>2, <3>1 DEF Sends
  <2>3. ASSUME NEW i \in DOMAIN served, served[i], Send(Event("delta", i, Len(sent) + 1)), sent' = Append(sent, i), UNCHANGED served
        PROVE  \E c : Goes(c)
    <3>1. Event("delta", i, Len(sent) + 1) \in Lines
      BY <1>3, LinesAre, SMTT(40) DEF EventTypes
    <3> QED
      BY <2>3, <3>1 DEF Sends
  <2>4. ASSUME NEW i \in DOMAIN served, served[i], Send(Event("close", i, 0)), served' = [served EXCEPT ![i] = FALSE], UNCHANGED sent
        PROVE  \E c : Goes(c)
    <3>1. Event("close", i, 0) \in Lines
      BY <1>3, LinesAre, SMTT(40) DEF EventTypes
    <3> QED
      BY <2>4, <3>1 DEF Sends
  <2>5. ASSUME T # <<>>, UNCHANGED <<sent, served>>,
               \/ {i \in DOMAIN served : served[i]} = {} /\ Send(Done)
               \/ Send(Error)
               \/ Send(Event("garbage", 0, 0))
        PROVE  \E c : Goes(c)
    <3>1. Done \in Lines /\ Error \in Lines /\ Event("garbage", 0, 0) \in Lines
      BY LinesAre DEF Done, Error, EventTypes
    <3> QED
      BY <2>5, <3>1 DEF Sends
  <2> HIDE DEF Goes
  <2> QED
    BY <1>6, <2>1, <2>2, <2>3, <2>4, <2>5 DEF ServerSends
<1>8. T \in Seq(Lines) /\ pushed \o Append(wire, c) = Append(T, c)
  BY <1>3, <1>7, LineBehind DEF T
<1>9. Adds(T, c, served, sent, served', sent')
  <2>1. T = <<>> => served = <<>>
    BY <1>3, <1>5, SMTT(40) DEF ToldBy
  <2>2. \A i \in DOMAIN served : i \in Keys \union Nat
    BY <1>3
  <2> QED
    BY <1>3, <1>7, <2>1, <2>2, SendsAdd
<1>10. \A p \in DOMAIN T : T[p].type \notin {"done", "error", "garbage"}
  <2>1. \A p \in DOMAIN pushed : pushed[p].type \notin {"done", "error", "garbage"}
    <3>1. \A p \in DOMAIN pushed : ~IsComplete(pushed[p])
      BY <1>2 DEF Final, Complete
    <3>2. \A p \in DOMAIN pushed : pushed[p] \in Events
      BY <1>3
    <3> QED
      BY <3>1, <3>2 DEF IsComplete, Events, EventTypes
  <2>2. pushed \in Seq(Lines)
    <3>1. Events \subseteq Lines
      BY DEF Events, Lines
    <3> QED
      BY <1>3, <3>1
  <2>3. /\ Len(T) = Len(pushed) + Len(wire) /\ Len(pushed) \in Nat /\ DOMAIN pushed = 1..Len(pushed)
        /\ \A p \in 1..(Len(pushed) + Len(wire)) : T[p] = IF p <= Len(pushed) THEN pushed[p] ELSE wire[p - Len(pushed)]
    BY <1>3, <2>2, ConcatProperties DEF T
  <2> SUFFICES ASSUME NEW p \in DOMAIN T PROVE T[p].type \notin {"done", "error", "garbage"}
    OBVIOUS
  <2>4. p \in 1..(Len(pushed) + Len(wire))
    BY <1>8, <2>3
  <2>5. CASE p <= Len(pushed)
    <3>1. p \in DOMAIN pushed /\ T[p] = pushed[p]
      BY <2>3, <2>4, <2>5
    <3> QED
      BY <2>1, <3>1
  <2>6. CASE ~(p <= Len(pushed))
    <3>1. p - Len(pushed) \in DOMAIN wire /\ T[p] = wire[p - Len(pushed)]
      BY <1>3, <2>3, <2>4, <2>6
    <3> QED
      BY <1>2, <3>1
  <2> QED
    BY <2>5, <2>6
<1>11. ToldBy(Append(T, c), served', sent')
  BY <1>5, <1>7, <1>8, <1>9, <1>10, ToldOn
<1>12. SentOne(c) /\ wire' = Append(wire, c)
  <2>1. KeyOf(c) = c.index
    BY <1>2 DEF KeyOf
  <2>2. \/ c.type = "delta" /\ c.n = Len(sent) + 1 /\ sent' = Append(sent, c.index) /\ c.index \in Keys \union Nat
        \/ c.type # "delta" /\ c.n = 0 /\ sent' = sent
    <3>1. CASE c \in {Start, Done, Error, Event("garbage", 0, 0)} /\ sent' = sent
      <4>1. c.type # "delta" /\ c.n = 0
        BY <3>1, LinesAre DEF Start, Done, Error, EventTypes
      <4> QED
        BY <3>1, <4>1
    <3>2. CASE c = Event("open", Len(served) + 1, 0) /\ sent' = sent
      <4>1. c.type # "delta" /\ c.n = 0
        BY <1>3, <3>2, LinesAre, SMTT(40) DEF EventTypes
      <4> QED
        BY <3>2, <4>1
    <3>3. ASSUME NEW i \in DOMAIN served, c = Event("close", i, 0), sent' = sent PROVE c.type # "delta" /\ c.n = 0
      <4>1. i \in Nat
        BY <1>3
      <4> QED
        BY <3>3, <4>1, LinesAre DEF EventTypes
    <3>4. ASSUME NEW i \in DOMAIN served, c = Event("delta", i, Len(sent) + 1), sent' = Append(sent, i)
          PROVE  c.type = "delta" /\ c.n = Len(sent) + 1 /\ sent' = Append(sent, c.index) /\ c.index \in Nat
      <4>1. i \in Nat
        BY <1>3
      <4>2. c.type = "delta" /\ c.n = Len(sent) + 1 /\ c.index = i
        <5>1. Len(sent) + 1 \in Nat
          BY <1>3
        <5>2. "delta" \in EventTypes \union {"garbage"}
          BY DEF EventTypes
        <5> QED
          BY <3>4, <4>1, <5>1, <5>2, LinesAre
      <4> QED
        BY <3>4, <4>1, <4>2
    <3> QED
      BY <1>7, <3>1, <3>2, <3>3, <3>4 DEF Sends
  <2> QED
    BY <1>3, <1>7, <2>1, <2>2, SendIs
<1>13. Texts(message.blocks, wire)'
  BY <1>2, <1>3, <1>12, SendKeeps
<1>14. Served'
  BY <1>2, <1>5, <1>8, <1>11, <1>12 DEF Served
<1>15. AnswerKept'
  BY <1>2, <1>13, <1>14 DEF AnswerKept, CallsNamed, Telling
<1>16. WholeKept'
  BY <1>2, <1>4 DEF WholeKept, Answered
<1> QED
  BY <1>1, <1>15, <1>16 DEF IInv

------------------------------------------------------------------------------
(* The invariant, action by action: the client of the proxy *)

\* As many blocks as lines among the first n of T that open one.
OpenedBy(blocks, T, n) ==
  /\ \A i \in DOMAIN blocks : blocks[i].key = i
  /\ \A p \in 1..n : T[p].type = "open" => T[p].index \in DOMAIN blocks
  /\ \A i \in DOMAIN blocks : \E p \in 1..n : T[p] = Event("open", i, 0)

\* A line is read: it opens the next block, or goes into one that is open.
LEMMA LineMade ==
  ASSUME route = "proxy", NEW m \in Messages, NEW w \in Seq(Lines), NEW w2, FirstRead(w, w2), Len(w) # 0,
         Texts(m.blocks, w), NEW T \in Seq(Lines), ToldBy(T, served, sent), Len(sent) \in Nat,
         served \in Seq(BOOLEAN), NEW n \in Nat, n + 1 \in DOMAIN T, T[n + 1] = w[1], OpenedBy(m.blocks, T, n)
  PROVE  /\ Processed(m, w[1]) \in Messages
         /\ Texts(Processed(m, w[1]).blocks, w2)
         /\ OpenedBy(Processed(m, w[1]).blocks, T, n + 1)
<1> DEFINE c == w[1]
           blocks == m.blocks
           after == Processed(m, c).blocks
<1>1. /\ c \in Lines /\ c.index \in Nat /\ c.n \in Nat /\ T[n + 1] = c
      /\ blocks \in Seq(Blocks) /\ Len(blocks) \in Nat /\ DOMAIN blocks = 1..Len(blocks)
      /\ 1..n \subseteq DOMAIN T /\ DOMAIN served = 1..Len(served) /\ Len(served) \in Nat
  <2>1. 1 \in DOMAIN w
    OBVIOUS
  <2>2. c \in Lines
    BY <2>1
  <2>3. blocks \in Seq(Blocks)
    BY DEF Messages
  <2>4. c.index \in Nat /\ c.n \in Nat
    BY <2>2 DEF Lines
  <2>5. DOMAIN T = 1..Len(T) /\ Len(T) \in Nat
    OBVIOUS
  <2>6. Len(blocks) \in Nat /\ DOMAIN blocks = 1..Len(blocks)
    BY <2>3
  <2>7. DOMAIN served = 1..Len(served) /\ Len(served) \in Nat
    OBVIOUS
  <2>8. 1..n \subseteq DOMAIN T
    BY <2>5
  <2> QED
    BY <2>2, <2>3, <2>4, <2>6, <2>7, <2>8
<1>2. Waiting(w)
  <2>1. \A p \in DOMAIN w : w[p] \in Lines
    OBVIOUS
  <2> QED
    BY <2>1, SMTT(40) DEF Waiting, Lines
<1>3. /\ \A i \in DOMAIN blocks : blocks[i].key = i
      /\ \A p \in 1..n : T[p].type = "open" => T[p].index \in DOMAIN blocks
      /\ \A i \in DOMAIN blocks : \E p \in 1..n : T[p] = Event("open", i, 0)
  BY DEF OpenedBy
<1>4. \A p \in 1..(n + 1) : p \in 1..n \/ p = n + 1
  OBVIOUS
<1>5. \A p \in 1..n : p \in 1..(n + 1)
  OBVIOUS
<1>6. \A i \in Nat : Event("open", i, 0).type = "open" /\ Event("open", i, 0).index = i
  <2>1. "open" \in EventTypes \union {"garbage"}
    BY DEF EventTypes
  <2> QED
    BY <2>1, LinesAre
<1>7. m.stop \in {"stop", "error", "aborted"} /\ m = [blocks |-> blocks, stop |-> m.stop]
  BY DEF Messages
<1> HIDE DEF c, blocks, after
<1>8. CASE c.type = "open"
  <2> DEFINE b == Block(c.index, {})
             more == Append(blocks, b)
  <2>1. b \in Blocks /\ b.text = <<>> /\ b.key = c.index
    BY <1>1 DEF Block, Blocks, Names
  <2>2. /\ c.index \in DOMAIN served /\ c.n = 0 /\ c.index # 0
        /\ \A q \in DOMAIN T : T[q].index = c.index => n + 1 <= q
        /\ \A q \in DOMAIN T : T[q].type = "open" /\ n + 1 < q => c.index < T[q].index
    BY <1>1, <1>8 DEF ToldBy
  <2>3. c.index \notin DOMAIN blocks
    <3> SUFFICES ASSUME c.index \in DOMAIN blocks PROVE FALSE
      OBVIOUS
    <3>1. PICK p \in 1..n : T[p] = Event("open", c.index, 0)
      BY <1>3
    <3>2. T[p].index = c.index /\ p \in DOMAIN T
      BY <1>1, <1>6, <3>1
    <3> QED
      BY <2>2, <3>2
  <2>4. c.index = Len(blocks) + 1
    <3> SUFFICES ASSUME c.index # Len(blocks) + 1 PROVE FALSE
      OBVIOUS
    <3>1. c.index > Len(blocks) + 1 /\ Len(blocks) + 1 \in DOMAIN served /\ Len(blocks) + 1 \notin DOMAIN blocks
      BY <1>1, <2>2, <2>3
    <3>2. PICK q \in DOMAIN T : T[q] = Event("open", Len(blocks) + 1, 0)
      BY <3>1 DEF ToldBy
    <3>3. T[q].type = "open" /\ T[q].index = Len(blocks) + 1 /\ q \in Nat /\ q >= 1
      BY <1>1, <1>6, <3>2
    <3>4. q \notin 1..n
      BY <1>3, <3>1, <3>3
    <3>5. q # n + 1
      BY <1>1, <3>1, <3>3
    <3>6. n + 1 < q
      BY <3>3, <3>4, <3>5
    <3> QED
      BY <1>1, <2>2, <3>1, <3>3, <3>6
  <2>5. Processed(m, c) = [m EXCEPT !.blocks = more]
    BY <1>8 DEF Processed, blocks
  <2> HIDE DEF b
  <2>6. /\ more \in Seq(Blocks) /\ DOMAIN more = 1..(Len(blocks) + 1)
        /\ \A i \in DOMAIN blocks : more[i] = blocks[i]
        /\ more[Len(blocks) + 1] = b
    BY <1>1, <2>1, AppendProperties
  <2>7. Texts(more, w)
    <3>1. \A i \in DOMAIN blocks : blocks[i].key # b.key
      BY <1>3, <2>1, <2>3
    <3> QED
      BY <1>1, <2>1, <3>1, OpenKeeps DEF blocks
  <2> HIDE DEF more
  <2>8. Processed(m, c) \in Messages /\ after = more
    BY <1>7, <2>5, <2>6 DEF Messages, after
  <2>9. Texts(more, w2)
    <3>1. w[1].type # "delta"
      BY <1>8 DEF c
    <3> QED
      BY <1>2, <2>7, <3>1, OtherKeeps
  <2>10. OpenedBy(more, T, n + 1)
    <3>1. \A i \in DOMAIN more : i \in DOMAIN blocks \/ i = Len(blocks) + 1
      BY <1>1, <2>6
    <3>2. \A i \in DOMAIN more : more[i].key = i
      BY <1>3, <2>1, <2>4, <2>6, <3>1
    <3>3. \A i \in DOMAIN blocks : i \in DOMAIN more
      BY <1>1, <2>6
    <3>4. c.index \in DOMAIN more
      BY <1>1, <2>4, <2>6
    <3>5. \A p \in 1..(n + 1) : T[p].type = "open" => T[p].index \in DOMAIN more
      BY <1>1, <1>3, <1>4, <3>3, <3>4
    <3>6. T[n + 1] = Event("open", Len(blocks) + 1, 0) /\ n + 1 \in 1..(n + 1)
      <4>1. c = Event(c.type, c.index, c.n)
        BY <1>1 DEF Lines, Event
      <4> QED
        BY <1>1, <1>8, <2>2, <2>4, <4>1
    <3>7. \A i \in DOMAIN more : \E p \in 1..(n + 1) : T[p] = Event("open", i, 0)
      BY <1>3, <1>5, <3>1, <3>6
    <3> QED
      BY <3>2, <3>5, <3>7 DEF OpenedBy
  <2> QED
    BY <2>8, <2>9, <2>10 DEF after, c
<1>9. CASE c.type = "delta"
  <2> DEFINE i == c.index
             grown == [blocks EXCEPT ![i].text = Append(@, c.n)]
  <2>1. i \in DOMAIN blocks
    <3>1. i \in DOMAIN served
      BY <1>1, <1>9 DEF ToldBy
    <3>2. PICK q \in DOMAIN T : T[q] = Event("open", i, 0)
      BY <3>1 DEF ToldBy
    <3>3. T[q].type = "open" /\ T[q].index = i
      BY <1>1, <1>6, <3>2
    <3>4. q <= n + 1 /\ q # n + 1
      <4>1. \A p \in DOMAIN T : T[p].index = T[q].index => q <= p
        BY <3>3 DEF ToldBy
      <4> QED
        BY <1>1, <1>9, <3>3, <4>1
    <3>5. q \in 1..n
      BY <3>4
    <3> QED
      BY <1>3, <3>3, <3>5
  <2>2. Processed(m, c) = [m EXCEPT !.blocks = grown]
    BY <1>9 DEF Processed, blocks
  <2> HIDE DEF i
  <2>3. /\ DOMAIN grown = DOMAIN blocks
        /\ \A j \in DOMAIN blocks : j # i => grown[j] = blocks[j]
        /\ grown[i] = [blocks[i] EXCEPT !.text = Append(@, c.n)]
    BY <2>1
  <2>4. blocks[i] \in Blocks /\ \A j \in DOMAIN blocks : blocks[j] \in Blocks
    BY <1>1, <2>1
  <2>5. grown[i] \in Blocks /\ grown[i].key = blocks[i].key /\ grown[i].text = Append(blocks[i].text, c.n)
    <3> DEFINE old == blocks[i]
               text == Append(old.text, c.n)
    <3>1. old \in Blocks /\ c.n \in Nat /\ grown[i] = [old EXCEPT !.text = text]
      BY <1>1, <2>3, <2>4
    <3>2. text \in Seq(Nat)
      <4>1. old.text \in Seq(Nat)
        BY <3>1 DEF Blocks
      <4> QED
        BY <3>1, <4>1
    <3> HIDE DEF old, text, grown
    <3>3. grown[i] \in Blocks /\ grown[i].key = old.key /\ grown[i].text = text
      BY <3>1, <3>2 DEF Blocks
    <3> QED
      BY <3>3 DEF old, text
  <2>6. grown \in Seq(Blocks)
    <3>1. grown \in [1..Len(blocks) -> Blocks]
      <4>1. grown = [j \in 1..Len(blocks) |-> grown[j]]
        BY <1>1
      <4> HIDE DEF grown
      <4>2. \A j \in 1..Len(blocks) : grown[j] \in Blocks
        BY <1>1, <2>3, <2>4, <2>5
      <4> QED
        BY <4>1, <4>2
    <3> HIDE DEF grown
    <3> QED
      BY <1>1, <3>1, IsASeq
  <2> HIDE DEF grown
  <2>7. Processed(m, c) \in Messages /\ after = grown
    BY <1>7, <2>2, <2>6 DEF Messages, after
  <2>8. Grown(blocks, grown, i, w[1].n)
    BY <2>3, <2>5 DEF Grown, c
  <2>9. Texts(grown, w2)
    <3>1. blocks[i].key = KeyOf(w[1]) /\ w[1].type = "delta"
      BY <1>3, <1>9, <2>1 DEF KeyOf, i, c
    <3>2. Texts(blocks, w)
      BY DEF blocks
    <3> QED
      BY <1>1, <1>2, <2>1, <2>8, <3>1, <3>2, DeltaKeeps
  <2>10. OpenedBy(grown, T, n + 1)
    <3>1. \A j \in DOMAIN blocks : grown[j].key = blocks[j].key
      BY <2>3, <2>5
    <3>2. \A p \in 1..(n + 1) : T[p].type = "open" => T[p].index \in DOMAIN grown
      BY <1>1, <1>3, <1>4, <1>9, <2>3
    <3> QED
      BY <1>3, <1>5, <2>3, <3>1, <3>2 DEF OpenedBy
  <2> QED
    BY <2>7, <2>9, <2>10 DEF after, c
<1>10. CASE c.type \notin {"open", "delta"}
  <2>1. Processed(m, c).blocks = blocks /\ Processed(m, c) \in Messages
    <3>1. m.blocks = blocks
      BY DEF blocks
    <3>2. CASE c.type = "done"
      <4>1. Processed(m, c) = [m EXCEPT !.stop = "stop"]
        BY <3>2 DEF Processed
      <4> QED
        BY <3>1, <4>1 DEF Messages
    <3>3. CASE c.type = "error"
      <4>1. Processed(m, c) = [m EXCEPT !.stop = "error"]
        BY <3>3 DEF Processed
      <4> QED
        BY <3>1, <4>1 DEF Messages
    <3>4. CASE c.type \notin {"done", "error"}
      <4>1. Processed(m, c) = m
        BY <1>10, <3>4 DEF Processed
      <4> QED
        BY <3>1, <4>1
    <3> QED
      BY <3>2, <3>3, <3>4
  <2>2. Texts(blocks, w2)
    <3>1. w[1].type # "delta" /\ Texts(blocks, w)
      BY <1>10 DEF c, blocks
    <3> QED
      BY <1>2, <3>1, OtherKeeps
  <2>3. OpenedBy(blocks, T, n + 1)
    <3>1. \A p \in 1..(n + 1) : T[p].type = "open" => T[p].index \in DOMAIN blocks
      BY <1>1, <1>3, <1>4, <1>10
    <3> QED
      BY <1>3, <1>5, <3>1 DEF OpenedBy
  <2> QED
    BY <2>1, <2>2, <2>3 DEF c
<1> QED
  BY <1>8, <1>9, <1>10 DEF c, after

\* The lines behind the first n.
Behind(w, n) == SubSeq(w, n + 1, Len(w))

LEMMA BehindIs ==
  ASSUME NEW w \in Seq(Lines), NEW n \in 0..Len(w)
  PROVE  /\ Behind(w, n) \in Seq(Lines) /\ Len(Behind(w, n)) = Len(w) - n
         /\ \A p \in 1..(Len(w) - n) : Behind(w, n)[p] = w[n + p]
<1>1. n + 1 \in Int /\ Len(w) \in Int /\ Len(w) \in Nat /\ n \in Nat /\ n <= Len(w)
  OBVIOUS
<1>2. \A p \in (n + 1)..Len(w) : w[p] \in Lines
  OBVIOUS
<1>3. /\ Behind(w, n) \in Seq(Lines)
      /\ Len(Behind(w, n)) = IF n + 1 <= Len(w) THEN Len(w) - (n + 1) + 1 ELSE 0
      /\ \A p \in 1..(Len(w) - (n + 1) + 1) : Behind(w, n)[p] = w[(n + 1) + p - 1]
  BY <1>1, <1>2, SubSeqProperties DEF Behind
<1>4. Len(w) - (n + 1) + 1 = Len(w) - n
  BY <1>1
<1>5. \A p \in 1..(Len(w) - n) : (n + 1) + p - 1 = n + p
  BY <1>1
<1>6. Len(Behind(w, n)) = Len(w) - n
  BY <1>1, <1>3
<1> QED
  BY <1>3, <1>4, <1>5, <1>6

LEMMA BehindRead ==
  ASSUME NEW w \in Seq(Lines), NEW n \in 1..Len(w)
  PROVE  /\ FirstRead(Behind(w, n - 1), Behind(w, n))
         /\ Behind(w, n - 1)[1] = w[n] /\ Len(Behind(w, n - 1)) # 0
<1>1. n \in 0..Len(w) /\ n - 1 \in 0..Len(w) /\ n \in Nat /\ Len(w) \in Nat /\ n <= Len(w) /\ n >= 1
  OBVIOUS
<1>2. /\ Behind(w, n) \in Seq(Lines) /\ Len(Behind(w, n)) = Len(w) - n
      /\ \A p \in 1..(Len(w) - n) : Behind(w, n)[p] = w[n + p]
  BY <1>1, BehindIs
<1>3. /\ Behind(w, n - 1) \in Seq(Lines) /\ Len(Behind(w, n - 1)) = Len(w) - (n - 1)
      /\ \A p \in 1..(Len(w) - (n - 1)) : Behind(w, n - 1)[p] = w[(n - 1) + p]
  BY <1>1, BehindIs
<1>4. ASSUME NEW p \in 1..(Len(w) - n) PROVE Behind(w, n)[p] = Behind(w, n - 1)[p + 1]
  <2>1. p + 1 \in 1..(Len(w) - (n - 1)) /\ (n - 1) + (p + 1) = n + p
    BY <1>1
  <2> QED
    BY <1>2, <1>3, <2>1, SMTT(40)
<1>5. 1 \in 1..(Len(w) - (n - 1)) /\ (n - 1) + 1 = n
  BY <1>1
<1>6. DOMAIN Behind(w, n) = 1..Len(Behind(w, n))
  BY <1>2
<1>7. Len(Behind(w, n)) = Len(Behind(w, n - 1)) - 1 /\ Len(Behind(w, n - 1)) # 0
  BY <1>1, <1>2, <1>3
<1>8. FirstRead(Behind(w, n - 1), Behind(w, n))
  BY <1>2, <1>4, <1>6, <1>7 DEF FirstRead
<1>9. Behind(w, n - 1)[1] = w[n]
  BY <1>3, <1>5
<1> QED
  BY <1>7, <1>8, <1>9

\* The lines of one read, one after another.
LEMMA LinesMade ==
  ASSUME route = "proxy", message \in Messages, wire \in Seq(Lines), Texts(message.blocks, wire),
         NEW T \in Seq(Lines), ToldBy(T, served, sent), Len(sent) \in Nat, served \in Seq(BOOLEAN),
         NEW L \in Nat, Len(T) = L + Len(wire), \A p \in 1..Len(wire) : T[L + p] = wire[p],
         OpenedBy(message.blocks, T, L),
         NEW K \in 0..Len(wire), NEW good, Len(good) = K, \A p \in 1..K : good[p] = wire[p]
  PROVE  /\ Made(message, good) \in Messages
         /\ Texts(Made(message, good).blocks, Behind(wire, K))
         /\ OpenedBy(Made(message, good).blocks, T, L + K)
<1> DEFINE f == MadeUpTo(message, good)
           Good(n) == /\ f[n] \in Messages /\ Texts(f[n].blocks, Behind(wire, n))
                      /\ OpenedBy(f[n].blocks, T, L + n)
           S == {n \in Nat : n <= K => Good(n)}
<1>1. K \in Nat /\ K <= Len(wire) /\ Len(wire) \in Nat /\ DOMAIN T = 1..(L + Len(wire))
  OBVIOUS
<1>2. IsMade(message, good, K, f)
  BY <1>1, MadeExists DEF MadeUpTo
<1> HIDE DEF f
<1>3. ASSUME NEW n \in Nat, \A j \in 0..(n - 1) : j \in S PROVE n \in S
  <2> SUFFICES ASSUME n <= K PROVE Good(n)
    OBVIOUS
  <2>0. n \in 0..K
    OBVIOUS
  <2>1. CASE n = 0
    <3>1. f[n] = message
      BY <1>2, <2>0, <2>1, MadeValue
    <3>2. Behind(wire, 0) = wire
      BY SubSeqFull DEF Behind
    <3>3. L + 0 = L
      OBVIOUS
    <3> QED
      BY <2>1, <3>1, <3>2, <3>3
  <2>2. CASE n # 0
    <3>1. n - 1 \in S /\ n - 1 <= K /\ n - 1 \in Nat /\ n \in 1..Len(wire) /\ n \in 1..K
      BY <1>1, <1>3, <2>0, <2>2
    <3>2. Good(n - 1)
      BY <3>1
    <3> DEFINE m == f[n - 1]
               w == Behind(wire, n - 1)
               w2 == Behind(wire, n)
    <3>3. f[n] = Processed(m, good[n])
      BY <1>2, <2>0, <2>2, MadeValue, SMTT(40)
    <3>4. FirstRead(w, w2) /\ w[1] = wire[n] /\ Len(w) # 0
      BY <3>1, BehindRead
    <3>5. w \in Seq(Lines)
      <4>1. n - 1 \in 0..Len(wire)
        BY <3>1
      <4> QED
        BY <4>1, BehindIs
    <3>6. good[n] = w[1]
      BY <3>1, <3>4
    <3>7. L + (n - 1) \in Nat /\ (L + (n - 1)) + 1 = L + n /\ L + n \in DOMAIN T
      BY <1>1, <3>1
    <3>8. T[(L + (n - 1)) + 1] = w[1]
      BY <3>1, <3>4, <3>7
    <3>9. m \in Messages /\ Texts(m.blocks, w) /\ OpenedBy(m.blocks, T, L + (n - 1))
      BY <3>2
    <3> HIDE DEF m, w, w2
    <3>10. /\ Processed(m, w[1]) \in Messages
           /\ Texts(Processed(m, w[1]).blocks, w2)
           /\ OpenedBy(Processed(m, w[1]).blocks, T, (L + (n - 1)) + 1)
      BY <3>4, <3>5, <3>7, <3>8, <3>9, LineMade
    <3> QED
      BY <3>3, <3>6, <3>7, <3>10 DEF w2
  <2> QED
    BY <2>1, <2>2
<1> HIDE DEF S
<1>4. S = Nat
  <2>1. S \in SUBSET Nat
    BY DEF S
  <2> QED
    BY <1>3, <2>1, Below
<1>5. Good(K)
  <2> HIDE DEF Good
  <2>1. K \in S
    BY <1>1, <1>4
  <2> QED
    BY <1>1, <2>1 DEF S
<1>6. Made(message, good) = f[K]
  BY MadeIs DEF f
<1> QED
  BY <1>5, <1>6

\* A server that is done has told the blocks, and nothing else.
LEMMA ProxyWhole ==
  ASSUME route = "proxy", NEW blocks \in Seq(Blocks), Texts(blocks, <<>>), NEW T \in Seq(Lines),
         ToldBy(T, served, sent), Opened(blocks, T), NEW d \in DOMAIN T, T[d] = Done, Len(sent) \in Nat
  PROVE  WholeIn(blocks, T, sent)
<1>1. /\ DOMAIN T = 1..Len(T) /\ Len(T) \in Nat /\ DOMAIN blocks = 1..Len(blocks) /\ Len(blocks) \in Nat
      /\ \A p \in DOMAIN T : T[p].type \in {"start", "open", "delta", "close", "done", "error", "garbage"}
  <2>1. \A p \in DOMAIN T : T[p] \in Lines
    OBVIOUS
  <2> QED
    BY <2>1 DEF Lines, EventTypes
<1>2. Sent \ Numbers(<<>>) = 1..Len(sent)
  BY DEF Sent, Numbers
<1>3. UNION {Range(blocks[i].text) : i \in DOMAIN blocks} = 1..Len(sent)
  <2>1. ASSUME NEW i \in DOMAIN blocks PROVE Range(blocks[i].text) \subseteq 1..Len(sent)
    BY <1>2 DEF Texts, TextsInOrder, Range
  <2>2. ASSUME NEW n \in 1..Len(sent) PROVE \E i \in DOMAIN blocks : n \in Range(blocks[i].text)
    <3>1. PICK i \in DOMAIN blocks : \E k \in DOMAIN blocks[i].text : blocks[i].text[k] = n
      BY <1>2 DEF Texts, NoneLost
    <3> QED
      BY <3>1 DEF Range
  <2> QED
    BY <2>1, <2>2
<1>4. Head(T) = Start
  <2>1. T # <<>>
    BY <1>1
  <2> QED
    BY <1>1, <2>1 DEF ToldBy
<1>5. \A i \in DOMAIN served : ~served[i]
  <2>1. T[d].type = "done"
    BY DEF Done, Event
  <2> QED
    BY <2>1 DEF ToldBy
<1>6. ASSUME NEW i \in DOMAIN blocks
      PROVE  LET mine == {p \in DOMAIN T : T[p].index = i}
                 deltas == {p \in mine : T[p].type = "delta"}
             IN  /\ \E o, c \in mine :
                      /\ T[o] = Event("open", i, 0) /\ T[c] = Event("close", i, 0) /\ o < c
                      /\ \A p \in mine \ {o, c} : p \in deltas /\ o < p /\ p < c
                 /\ {T[p].n : p \in deltas} = Range(blocks[i].text)
                 /\ \A p, q \in deltas : p < q => T[p].n < T[q].n
  <2> DEFINE mine == {p \in DOMAIN T : T[p].index = i}
             deltas == {p \in mine : T[p].type = "delta"}
  <2>1. i \in Nat \ {0} /\ blocks[i].key = i
    BY <1>1 DEF Opened
  <2>2. /\ "open" \in EventTypes \union {"garbage"} /\ "close" \in EventTypes \union {"garbage"}
        /\ "delta" \in EventTypes \union {"garbage"}
    BY DEF EventTypes
  <2>3. PICK o \in DOMAIN T : T[o] = Event("open", i, 0)
    BY DEF Opened
  <2>4. T[o].type = "open" /\ T[o].index = i
    BY <2>1, <2>2, <2>3, LinesAre
  <2>5. i \in DOMAIN served /\ \A q \in DOMAIN T : T[q].index = i => o <= q
    BY <2>4 DEF ToldBy
  <2>6. PICK c \in DOMAIN T : T[c] = Event("close", i, 0)
    BY <1>5, <2>5 DEF ToldBy
  <2>7. T[c].type = "close" /\ T[c].index = i
    BY <2>1, <2>2, <2>6, LinesAre
  <2>8. \A q \in DOMAIN T : T[q].index = i => q <= c
    BY <2>7 DEF ToldBy
  <2>9. o \in mine /\ c \in mine /\ o # c /\ o <= c
    BY <2>4, <2>5, <2>7
  <2>10. o < c
    BY <1>1, <2>9
  <2>11. ASSUME NEW p \in mine, p # o, p # c PROVE p \in deltas /\ o < p /\ p < c
    <3>1. o <= p /\ p <= c /\ p \in DOMAIN T /\ T[p].index = i
      BY <2>5, <2>8
    <3>2. o < p /\ p < c
      BY <1>1, <2>11, <3>1
    <3>3. T[p].type \notin {"start", "done", "error", "garbage"}
      BY <2>1, <3>1 DEF ToldBy
    <3>4. T[p].type # "open"
      <4> SUFFICES ASSUME T[p].type = "open" PROVE FALSE
        OBVIOUS
      <4>1. p <= o
        BY <2>4, <3>1 DEF ToldBy
      <4> QED
        BY <1>1, <3>1, <3>2, <4>1
    <3>5. T[p].type # "close"
      <4> SUFFICES ASSUME T[p].type = "close" PROVE FALSE
        OBVIOUS
      <4>1. c <= p
        BY <2>7, <3>1 DEF ToldBy
      <4> QED
        BY <1>1, <3>1, <3>2, <4>1
    <3> QED
      BY <1>1, <3>1, <3>2, <3>3, <3>4, <3>5
  <2>12. {T[p].n : p \in deltas} = Range(blocks[i].text)
    <3>1. ASSUME NEW p \in deltas PROVE T[p].n \in Range(blocks[i].text)
      <4>1. T[p].n \in 1..Len(sent) /\ sent[T[p].n] = i
        BY DEF ToldBy
      <4>2. PICK j \in DOMAIN blocks : \E k \in DOMAIN blocks[j].text : blocks[j].text[k] = T[p].n
        BY <1>2, <4>1 DEF Texts, NoneLost
      <4>3. PICK k \in DOMAIN blocks[j].text : blocks[j].text[k] = T[p].n
        BY <4>2
      <4>4. sent[T[p].n] = blocks[j].key
        BY <4>3 DEF Texts, TextsInOrder
      <4>5. j = i
        BY <4>1, <4>4 DEF Opened
      <4> QED
        BY <4>3, <4>5 DEF Range
    <3>2. ASSUME NEW n \in Range(blocks[i].text) PROVE \E p \in deltas : T[p].n = n
      <4>1. PICK k \in DOMAIN blocks[i].text : n = blocks[i].text[k]
        BY DEF Range
      <4>2. n \in 1..Len(sent) /\ sent[n] = i
        BY <1>2, <2>1, <4>1 DEF Texts, TextsInOrder
      <4>3. PICK p \in DOMAIN T : T[p] = Event("delta", i, n)
        BY <4>2 DEF ToldBy
      <4>4. n \in Nat
        BY <4>2
      <4>5. T[p].type = "delta" /\ T[p].index = i /\ T[p].n = n
        BY <2>1, <2>2, <4>3, <4>4, LinesAre, SMTT(40)
      <4> QED
        BY <4>5
    <3> HIDE DEF deltas
    <3> QED
      BY <3>1, <3>2
  <2>13. ASSUME NEW p \in deltas, NEW q \in deltas, p < q PROVE T[p].n < T[q].n
    BY <2>13 DEF ToldBy
  <2> HIDE DEF mine, deltas
  <2>14. /\ \E oo, cc \in mine :
              /\ T[oo] = Event("open", i, 0) /\ T[cc] = Event("close", i, 0) /\ oo < cc
              /\ \A p \in mine \ {oo, cc} : p \in deltas /\ oo < p /\ p < cc
         /\ {T[p].n : p \in deltas} = Range(blocks[i].text)
         /\ \A p, q \in deltas : p < q => T[p].n < T[q].n
    BY <2>3, <2>6, <2>9, <2>10, <2>11, <2>12, <2>13
  <2> QED
    BY <2>14 DEF mine, deltas
<1> QED
  BY <1>3, <1>4, <1>6 DEF WholeIn

\* One read of the body: what has come, up to a line that is no event.
LEMMA KeepsReadLines ==
  ASSUME IInv, ReadLines
  PROVE  IInv' /\ (aborted => message'.stop = "aborted")
<1>1. /\ StreamsKept /\ Types /\ AnswerKept /\ WholeKept /\ message \in Messages /\ message.blocks \in Seq(Blocks)
      /\ UNCHANGED <<route, aborted, remote, sent, served, finished, outer, forwarder, reader, seen>>
      /\ route = "proxy" /\ at = "reading"
  BY DEF IInv, StreamsKept, Types, Messages, ReadLines, reading
<1>2. /\ wire \in Seq(Lines) /\ Len(wire) \in Nat /\ DOMAIN wire = 1..Len(wire)
      /\ pushed \in Seq(Events) /\ Len(pushed) \in Nat /\ DOMAIN pushed = 1..Len(pushed)
      /\ sent \in Seq(Keys \union Nat) /\ Len(sent) \in Nat /\ served \in Seq(BOOLEAN)
  BY <1>1 DEF Types
<1>3. PICK k \in 1..Len(wire) :
        LET throws == wire[k].type = "garbage"
            good == SubSeq(wire, 1, IF throws THEN k - 1 ELSE k)
        IN  IF aborted
            THEN Fails(<<>>, message) /\ UNCHANGED wire
            ELSE /\ \A i \in DOMAIN good : good[i].type # "garbage"
                 /\ IF throws
                    THEN Fails(good, Made(message, good))
                    ELSE Pushes(good, FALSE) /\ message' = Made(message, good)
                 /\ wire' = SubSeq(wire, k + 1, Len(wire))
  BY DEF ReadLines
<1>4. CASE aborted
  <2> DEFINE es == <<>>
  <2>1. es \in Seq(Events) /\ \A p \in DOMAIN es : ~IsComplete(es[p])
    OBVIOUS
  <2>2. Fails(es, message) /\ wire' = wire
    BY <1>3, <1>4
  <2>3. UNCHANGED <<route, aborted, service, finished, outer, forwarder, reading>>
    BY <2>2 DEF ReadLines, service
  <2> HIDE DEF es
  <2> QED
    BY <1>1, <2>1, <2>2, <2>3, KeepsFailing
<1>5. CASE ~aborted
  <2> DEFINE throws == wire[k].type = "garbage"
             K == IF throws THEN k - 1 ELSE k
             good == SubSeq(wire, 1, K)
             m == Made(message, good)
             T == pushed \o wire
             L == Len(pushed)
  <2>1. /\ \A i \in DOMAIN good : good[i].type # "garbage"
        /\ IF throws THEN Fails(good, m) ELSE Pushes(good, FALSE) /\ message' = m
        /\ wire' = Behind(wire, k)
    BY <1>3, <1>5 DEF Behind
  <2>2. ~inner.done /\ inner.done = FALSE
    <3>1. wire # <<>>
      BY <1>2
    <3> QED
      BY <1>1, <3>1, NotDoneYet
  <2>3. ToldBy(T, served, sent) /\ Opened(message.blocks, pushed) /\ Texts(message.blocks, wire)
    BY <1>1, <2>2 DEF AnswerKept, Served
  <2>4. K \in 0..Len(wire) /\ K \in Nat /\ k \in Nat /\ k <= Len(wire) /\ k >= 1
        /\ (throws => K = k - 1) /\ (~throws => K = k)
    BY <1>2
  <2> HIDE DEF K
  <2>5. good \in Seq(Lines) /\ Len(good) = K /\ \A p \in 1..K : good[p] = wire[p]
    <3>1. \A p \in 1..K : wire[p] \in Lines
      BY <1>2, <2>4
    <3>2. /\ good \in Seq(Lines) /\ Len(good) = (IF 1 <= K THEN K - 1 + 1 ELSE 0)
          /\ \A p \in 1..(K - 1 + 1) : good[p] = wire[1 + p - 1]
      BY <2>4, <3>1, SubSeqProperties
    <3> HIDE DEF good
    <3> QED
      BY <2>4, <3>2
  <2>6. pushed \in Seq(Lines)
    <3>1. Events \subseteq Lines
      BY DEF Events, Lines
    <3> QED
      BY <1>2, <3>1
  <2>7. /\ T \in Seq(Lines) /\ Len(T) = L + Len(wire)
        /\ \A p \in 1..(L + Len(wire)) : T[p] = IF p <= L THEN pushed[p] ELSE wire[p - L]
    BY <1>2, <2>6, ConcatProperties
  <2> HIDE DEF T, L, good, m, throws
  <2>8. L \in Nat /\ L = Len(pushed) /\ DOMAIN pushed = 1..L
    BY <1>2 DEF L
  <2>9. (\A p \in 1..Len(wire) : T[L + p] = wire[p]) /\ (\A p \in 1..L : T[p] = pushed[p])
    <3>1. ASSUME NEW p \in 1..Len(wire) PROVE T[L + p] = wire[p]
      <4>1. L + p \in 1..(L + Len(wire)) /\ ~(L + p <= L) /\ (L + p) - L = p
        BY <1>2, <2>8
      <4> QED
        BY <2>7, <4>1
    <3>2. ASSUME NEW p \in 1..L PROVE T[p] = pushed[p]
      <4>1. p \in 1..(L + Len(wire)) /\ p <= L
        BY <1>2, <2>8
      <4> QED
        BY <2>7, <4>1
    <3> QED
      BY <3>1, <3>2
  <2>10. OpenedBy(message.blocks, T, L)
    BY <2>3, <2>8, <2>9 DEF Opened, OpenedBy
  <2>11. m \in Messages /\ Texts(m.blocks, Behind(wire, K)) /\ OpenedBy(m.blocks, T, L + K)
    BY <1>1, <1>2, <2>3, <2>4, <2>5, <2>7, <2>8, <2>9, <2>10, LinesMade DEF m
  <2>12. good \in Seq(Events) /\ DOMAIN good = 1..K
    <3>1. \A p \in DOMAIN good : good[p] \in Lines /\ good[p].type # "garbage"
      BY <2>1, <2>5
    <3>2. \A p \in DOMAIN good : good[p] \in Events
      BY <3>1 DEF Lines, Events
    <3>3. good \in [1..K -> Events]
      BY <2>4, <2>5, <3>2
    <3> QED
      BY <2>4, <3>3, IsASeq
  \* the line that completes the answer is the last there is
  <2>13. ASSUME NEW p \in DOMAIN good, IsComplete(good[p]) PROVE p = K /\ K = Len(wire)
    <3>1. good[p] = T[L + p] /\ L + p \in DOMAIN T /\ p <= K /\ p \in Nat
      <4>1. p \in 1..K
        BY <2>12
      <4>2. p \in Nat /\ p <= K /\ p \in 1..Len(wire)
        BY <1>2, <2>4, <4>1
      <4>3. good[p] = wire[p] /\ T[L + p] = wire[p]
        BY <2>5, <2>9, <4>1, <4>2
      <4>4. L + p \in 1..(L + Len(wire))
        BY <1>2, <2>8, <4>2
      <4>5. DOMAIN T = 1..(L + Len(wire))
        BY <2>7
      <4> QED
        BY <4>2, <4>3, <4>4, <4>5
    <3>2. L + p = Len(T)
      BY <2>3, <2>13, <3>1 DEF ToldBy, IsComplete
    <3> QED
      BY <1>2, <2>4, <2>7, <2>8, <3>1, <3>2
  <2>14. wire' \in Seq(Lines) /\ Len(wire') = Len(wire) - k
    <3>1. k \in 0..Len(wire)
      BY <1>2, <2>4
    <3> QED
      BY <1>2, <2>1, <3>1, BehindIs
  <2>15. CASE throws
    <3>1. Fails(good, m) /\ K = k - 1
      BY <2>1, <2>4, <2>15
    <3>2. \A p \in DOMAIN good : ~IsComplete(good[p])
      BY <1>2, <2>4, <2>13, <3>1
    <3>3. OthersTyped'
      <4>1. message' \in Messages
        BY <2>11, <3>1, FailingTyped
      <4> QED
        BY <1>1, <2>14, <4>1, OthersAre DEF OthersTyped
    <3>4. /\ StreamsKept'
          /\ pushed' = pushed \o Append(good, Error)
          /\ at' = "over"
          /\ message'.blocks = m.blocks
      BY <1>1, <2>2, <2>11, <2>12, <3>1, <3>2, <3>3, FailingKeeps
    <3>5. AnswerKept'
      <4>1. Texts(m.blocks, Behind(wire, k))
        <5>1. /\ FirstRead(Behind(wire, K), Behind(wire, k)) /\ Behind(wire, K)[1] = wire[k]
              /\ Len(Behind(wire, K)) # 0
          BY <1>2, <3>1, BehindRead
        <5>2. Behind(wire, K) \in Seq(Lines)
          BY <1>2, <2>4, BehindIs
        <5> DEFINE w == Behind(wire, K)
        <5>3. w \in Seq(Lines) /\ Len(w) # 0
          BY <5>1, <5>2
        <5> HIDE DEF w
        <5>4. Waiting(w)
          <6>1. \A p \in DOMAIN w : w[p] \in Lines
            BY <5>3
          <6> QED
            BY <5>3, <6>1 DEF Waiting, Lines
        <5>5. w[1].type # "delta"
          BY <2>15, <5>1 DEF throws, w
        <5> QED
          BY <1>2, <2>11, <5>1, <5>4, <5>5, OtherKeeps DEF w
      <4>2. Texts(message.blocks, wire)'
        <5>1. Texts(message'.blocks, wire')
          BY <2>1, <3>4, <4>1
        <5> QED
          BY <1>1, <5>1, TextsNext
      <4> QED
        BY <1>1, <3>4, <4>2 DEF AnswerKept, CallsNamed, Telling, Served
    <3>6. WholeKept'
      <4> DEFINE U == pushed \o Append(good, Error)
      <4>1. Error \in Events /\ Error # Done
        BY EventsApart
      <4>2. U = Append(pushed \o good, Error) /\ pushed \o good \in Seq(Events)
        BY <1>2, <2>12, <4>1, HandedOn, ConcatProperties
      <4> HIDE DEF U
      <4>3. U \in Seq(Events) /\ U # <<>> /\ U[Len(U)] = Error
        BY <4>1, <4>2, AppendProperties
      <4>4. pushed' = U
        BY <3>4 DEF U
      <4> QED
        BY <4>1, <4>3, <4>4, NotAnswered
    <3> QED
      BY <1>5, <3>4, <3>5, <3>6 DEF IInv
  <2>16. CASE ~throws
    <3>1. Pushes(good, FALSE) /\ message' = m /\ K = k
      BY <2>1, <2>4, <2>16
    <3>2. OthersTyped'
      BY <1>1, <2>11, <2>14, <3>1, OthersAre DEF OthersTyped
    <3>3. \A p \in DOMAIN good : IsComplete(good[p]) => p = Len(good)
      BY <2>5, <2>13
    <3>4. Complete(good) => wire' = <<>>
      <4> SUFFICES ASSUME Complete(good) PROVE wire' = <<>>
        OBVIOUS
      <4>1. K = Len(wire)
        BY <2>13 DEF Complete
      <4> QED
        BY <1>2, <2>14, <3>1, <4>1
    <3>5. /\ StreamsKept'
          /\ pushed' = pushed \o good
          /\ inner'.done = (inner.done \/ Complete(good) \/ FALSE)
          /\ at' = "reading"
      BY <1>1, <2>2, <2>12, <3>1, <3>2, <3>3, <3>4, PushingKeeps
    <3>6. pushed' \o wire' = T
      <4>1. good \o Behind(wire, K) = wire
        <5>1. SubSeq(wire, 1, K) \o SubSeq(wire, K + 1, Len(wire)) = SubSeq(wire, 1, Len(wire))
          <6>1. 1 \in 1..(Len(wire) + 1) /\ K \in (1 - 1)..Len(wire) /\ Len(wire) \in K..Len(wire)
            BY <1>2, <2>4
          <6> QED
            BY <1>2, <6>1, ConcatAdjacentSubSeq
        <5>2. SubSeq(wire, 1, Len(wire)) = wire
          BY <1>2, SubSeqFull
        <5> QED
          BY <5>1, <5>2 DEF good, Behind
      <4>2. Behind(wire, K) \in Seq(Lines)
        BY <2>14, <2>1, <3>1
      <4>3. (pushed \o good) \o Behind(wire, K) = pushed \o (good \o Behind(wire, K))
        BY <2>5, <2>6, <4>2, ConcatAssociative, SMTT(40)
      <4> QED
        BY <2>1, <3>1, <3>5, <4>1, <4>3 DEF T
    <3>7. Texts(message.blocks, wire)'
      <4>1. Texts(message'.blocks, wire')
        BY <2>1, <2>11, <3>1
      <4> QED
        BY <1>1, <4>1, TextsNext
    <3>8. Len(pushed') = L + K /\ DOMAIN pushed' = 1..(L + K) /\ \A p \in 1..(L + K) : pushed'[p] = T[p]
      <4>1. /\ pushed' \in Seq(Events) /\ Len(pushed') = L + K
            /\ \A p \in 1..(L + K) : pushed'[p] = IF p <= L THEN pushed[p] ELSE good[p - L]
        BY <1>2, <2>5, <2>8, <2>12, <3>5, ConcatProperties
      <4>2. ASSUME NEW p \in 1..(L + K) PROVE pushed'[p] = T[p]
        <5>1. CASE p <= L
          <6>1. p \in 1..L
            BY <2>4, <2>8, <5>1
          <6> QED
            BY <2>9, <4>1, <5>1, <6>1
        <5>2. CASE ~(p <= L)
          <6>1. p - L \in 1..K /\ p - L \in 1..Len(wire) /\ L + (p - L) = p
            BY <1>2, <2>4, <2>8, <5>2
          <6>2. T[L + (p - L)] = wire[p - L]
            BY <2>9, <6>1
          <6> QED
            BY <2>5, <4>1, <5>2, <6>1, <6>2
        <5> QED
          BY <5>1, <5>2
      <4>3. DOMAIN pushed' = 1..(L + K)
        BY <4>1
      <4> QED
        BY <4>1, <4>2, <4>3
    <3>9. Opened(m.blocks, pushed')
      BY <2>11, <3>8 DEF Opened, OpenedBy
    <3>10. Served'
      BY <1>1, <2>3, <3>1, <3>6, <3>9 DEF Served
    <3>11. AnswerKept'
      BY <1>1, <3>7, <3>10 DEF AnswerKept, CallsNamed, Telling
    <3>12. WholeKept'
      <4> SUFFICES ASSUME Answered' PROVE WholeKept'
        BY DEF WholeKept
      <4>1. L + K \in DOMAIN pushed' /\ pushed'[L + K] = Done
        <5>1. pushed' # <<>> /\ pushed'[Len(pushed')] = Done
          BY DEF Answered, Last
        <5>2. L + K # 0 /\ L + K \in Nat
          BY <2>4, <2>8, <3>8, <5>1
        <5> QED
          BY <3>8, <5>1, <5>2
      <4>2. IsComplete(pushed'[L + K])
        BY <4>1, EventsApart
      <4>3. L + K = Len(T)
        <5>1. L + K \in DOMAIN T /\ T[L + K] = pushed'[L + K]
          BY <1>2, <2>4, <2>7, <2>8, <3>8, <4>1
        <5> QED
          BY <2>3, <4>2, <5>1 DEF ToldBy, IsComplete
      <4>4. K = Len(wire) /\ wire' = <<>>
        <5>1. L + K = L + Len(wire)
          BY <2>7, <4>3
        <5>2. K = Len(wire)
          <6>1. \A x, y, z \in Nat : x + y = x + z => y = z
            OBVIOUS
          <6>2. K \in Nat /\ Len(wire) \in Nat /\ L \in Nat
            BY <1>2, <2>4, <2>8
          <6> QED
            BY <5>1, <6>1, <6>2
        <5>3. Len(wire') = 0
          BY <1>2, <2>14, <3>1, <5>2
        <5> QED
          BY <2>14, <5>2, <5>3
      <4>5. pushed' = T
        BY <2>6, <2>7, <3>6, <3>5, <4>4, <2>5, ConcatProperties, ConcatEmptySeq
      <4>6. inner'.done
        <5>1. K \in DOMAIN good /\ good[K] = Done
          <6>1. K \in 1..Len(wire)
            BY <2>4, <3>1, <4>4
          <6>2. T[L + K] = wire[K] /\ good[K] = wire[K] /\ K \in DOMAIN good
            BY <2>4, <2>5, <2>9, <2>12, <6>1
          <6> QED
            BY <4>1, <4>5, <6>2
        <5>2. Complete(good)
          BY <5>1, EventsApart DEF Complete
        <5> QED
          BY <2>2, <3>5, <5>2
      <4>7. WholeIn(m.blocks, T, sent)
        <5>1. m.blocks \in Seq(Blocks)
          BY <2>11 DEF Messages
        <5>2. Texts(m.blocks, <<>>)
          BY <2>1, <2>11, <3>1, <4>4
        <5>3. Opened(m.blocks, T) /\ L + K \in DOMAIN T /\ T[L + K] = Done
          BY <3>9, <4>1, <4>5
        <5> QED
          BY <1>1, <1>2, <2>3, <2>7, <5>1, <5>2, <5>3, ProxyWhole
      <4> QED
        BY <1>1, <3>1, <3>5, <4>4, <4>5, <4>6, <4>7 DEF WholeKept
    <3> QED
      BY <1>5, <3>5, <3>11, <3>12 DEF IInv
  <2> QED
    BY <2>15, <2>16
<1> QED
  BY <1>4, <1>5

\* The body is read to its end.
LEMMA KeepsEndOfLines ==
  ASSUME IInv, EndOfLines
  PROVE  IInv' /\ inner'.done /\ (aborted => message'.stop = "aborted")
<1> DEFINE es == <<>>
<1>1. /\ StreamsKept /\ Types /\ AnswerKept /\ WholeKept
      /\ UNCHANGED <<route, aborted, remote, wire, sent, served, finished, outer, forwarder, reader, seen>>
      /\ UNCHANGED <<route, aborted, service, finished, outer, forwarder, reading>>
      /\ route = "proxy" /\ at = "reading" /\ pushed \in Seq(Events)
      /\ IF aborted THEN Fails(es, message) ELSE Pushes(es, TRUE) /\ UNCHANGED message
  BY DEF IInv, StreamsKept, Types, EndOfLines, service, reading
<1>2. es \in Seq(Events) /\ (\A p \in DOMAIN es : ~IsComplete(es[p])) /\ pushed \o es = pushed
  BY <1>1, ConcatEmptySeq
<1> HIDE DEF es
<1>3. CASE aborted
  BY <1>1, <1>2, <1>3, KeepsFailing
<1>4. CASE ~aborted
  <2>1. OthersTyped'
    BY <1>1, <1>4, OthersAre DEF OthersTyped
  <2>2. /\ StreamsKept' /\ pushed' = (IF inner.done THEN pushed ELSE pushed \o es)
        /\ inner'.done = (inner.done \/ Complete(es) \/ TRUE) /\ at' = "over"
    BY <1>1, <1>2, <1>4, <2>1, PushingKeeps
  <2>3. pushed' = pushed /\ inner'.done /\ message' = message
    BY <1>1, <1>2, <1>4, <2>2
  <2>4. AnswerKept'
    BY <1>1, <2>2, <2>3, AnswerSame
  <2>5. WholeKept'
    BY <1>1, <2>2, <2>3, WholeSame
  <2> QED
    BY <1>4, <2>2, <2>3, <2>4, <2>5 DEF IInv
<1> QED
  BY <1>3, <1>4

------------------------------------------------------------------------------
(* The invariant holds *)

LEMMA InvariantInitially == Init => IInv
<1> SUFFICES ASSUME Init PROVE IInv
  OBVIOUS
<1>1. /\ route \in {"lazy", "direct", "proxy"} /\ aborted = FALSE /\ remote = "sending"
      /\ wire = <<>> /\ sent = <<>> /\ served = <<>>
      /\ at \in {"load", "request"} /\ message = [blocks |-> <<>>, stop |-> "stop"] /\ finished = FALSE
      /\ inner = NewStream /\ outer = NewStream /\ forwarder = "off"
      /\ reader \in {"asks", "result"} /\ seen = <<>> /\ pushed = <<>>
  BY RoutesAssumption DEF Init
<1>2. /\ inner \in Streams /\ ~inner.done /\ outer \in Streams /\ ~outer.done
      /\ \A x : /\ Serves(inner, "reader", x) /\ Serves(inner, "forwarder", x) /\ Serves(outer, "reader", x)
      /\ Pending(inner, "reader") = <<>> /\ Pending(inner, "forwarder") = <<>> /\ Pending(outer, "reader") = <<>>
  BY <1>1, NewStreamServes, ReadersHere
<1>3. DOMAIN <<>> = {} /\ Len(<<>>) = 0 /\ <<>> \o <<>> = <<>>
  OBVIOUS
<1>4. Types
  <2>1. message \in Messages
    BY <1>1 DEF Messages
  <2>2. /\ <<>> \in Seq(Lines) /\ <<>> \in Seq(Chunks) /\ <<>> \in Seq(Keys \union Nat)
        /\ <<>> \in Seq(BOOLEAN) /\ <<>> \in Seq(Events)
    OBVIOUS
  <2>3. wire \in (IF route = "proxy" THEN Seq(Lines) ELSE Seq(Chunks))
    BY <1>1, <2>2
  <2> QED
    BY <1>1, <1>2, <2>1, <2>2, <2>3 DEF Types
<1>5. Serving
  BY <1>1, <1>2 DEF Serving
<1>6. Final
  BY <1>1, <1>2, <1>3 DEF Final, Complete
<1>7. Unstarted
  BY <1>1, <1>2 DEF Unstarted
<1>8. EventsInOrder
  BY <1>1, <1>2, <1>3 DEF EventsInOrder, Source
<1>9. Texts(message.blocks, wire)
  <2>1. message.blocks = <<>>
    BY <1>1
  <2> QED
    BY <1>1, <1>3, <2>1 DEF Texts, KeysApart, TextsInOrder, NoneLost, WireInOrder, Sent
<1>10. CallsNamed
  BY <1>1, <1>3 DEF CallsNamed, NamesKept
<1>11. Telling /\ Served
  BY <1>1 DEF Telling, Served
<1>12. WholeKept
  BY <1>1 DEF WholeKept, Answered
<1> QED
  BY <1>4, <1>5, <1>6, <1>7, <1>8, <1>9, <1>10, <1>11, <1>12 DEF IInv, StreamsKept, AnswerKept

LEMMA InvariantKept == IInv /\ [Next]_vars => IInv'
<1> SUFFICES ASSUME IInv, [Next]_vars PROVE IInv'
  OBVIOUS
<1>1. CASE Service
  BY <1>1, KeepsServiceSends, KeepsServerSends, KeepsServiceEnds DEF Service
<1>2. CASE UserAborts
  BY <1>2, KeepsUserAborts
<1>3. CASE Load
  BY <1>3, KeepsLoad
<1>4. CASE LoadFails
  BY <1>4, KeepsLoadFails
<1>5. CASE Connect
  BY <1>5, KeepsConnect
<1>6. CASE Breaks
  BY <1>6, KeepsBreaks
<1>7. CASE ReadChunk
  BY <1>7, KeepsReadDelta, KeepsReadReason DEF ReadChunk
<1>8. CASE EndOfChunks
  BY <1>8, KeepsEndOfChunks
<1>9. CASE ReadLines
  BY <1>9, KeepsReadLines
<1>10. CASE EndOfLines
  BY <1>10, KeepsEndOfLines
<1>11. CASE Forward
  BY <1>11, KeepsForward
<1>12. CASE ReadEvent
  BY <1>12, KeepsReadEvent
<1>13. CASE TakeResult
  BY <1>13, KeepsTakeResult
<1>14. CASE UNCHANGED vars
  <2>1. /\ UNCHANGED <<route, aborted, remote, wire, sent, served, at, message, finished, inner, outer,
                       forwarder, reader, seen, pushed>>
    BY <1>14 DEF vars
  <2>2. StreamsKept'
    <3>1. OthersTyped'
      BY <2>1, OthersAre DEF IInv, OthersTyped
    <3> QED
      BY <2>1, <3>1, StreamsSame DEF IInv
  <2>3. AnswerKept'
    BY <2>1, AnswerSame DEF IInv
  <2>4. WholeKept'
    BY <2>1, WholeSame DEF IInv
  <2> QED
    BY <2>2, <2>3, <2>4 DEF IInv
<1> QED
  BY <1>1, <1>2, <1>3, <1>4, <1>5, <1>6, <1>7, <1>8, <1>9, <1>10, <1>11, <1>12, <1>13, <1>14
     DEF Next, Produce, Read

LEMMA SaidInitially == Init => Said
BY DEF Init, Said, Answered

\* A stream accepts what is pushed from its beginning on.
LEMMA AcceptedFrom ==
  ASSUME NEW S, NEW s, s.done \in BOOLEAN, NEW es \in Seq(S)
  PROVE  /\ Accepted(s, es) \in Seq(S)
         /\ \A p \in DOMAIN Accepted(s, es) : p \in DOMAIN es /\ Accepted(s, es)[p] = es[p]
<1> DEFINE last == {i \in DOMAIN es : IsComplete(es[i])}
           first == CHOOSE i \in last : \A j \in last : i <= j
<1>1. CASE s.done
  BY <1>1 DEF Accepted
<1>2. CASE ~s.done /\ last = {}
  BY <1>2 DEF Accepted
<1>3. CASE ~s.done /\ last # {}
  <2>1. \E i \in last : \A j \in last : i <= j
    <3>1. last \in SUBSET Nat
      OBVIOUS
    <3> HIDE DEF last
    <3> QED
      BY <1>3, <3>1, Least
  <2>2. first \in 1..Len(es)
    BY <2>1
  <2>3. Accepted(s, es) = SubSeq(es, 1, first)
    BY <1>3 DEF Accepted
  <2> HIDE DEF first
  <2>4. /\ SubSeq(es, 1, first) \in Seq(S) /\ Len(SubSeq(es, 1, first)) = first
        /\ \A p \in 1..first : SubSeq(es, 1, first)[p] = es[p]
    BY <2>2
  <2> QED
    BY <2>2, <2>3, <2>4
<1> QED
  BY <1>1, <1>2, <1>3

\* A response ends with "done" when that is pushed.
LEMMA DonePushed ==
  ASSUME Types, NEW S, NEW es \in Seq(S), NEW through, Pushes(es, through), Answered'
  PROVE  Answered \/ \E p \in DOMAIN es : es[p] = Done
<1> DEFINE a == Accepted(inner, es)
<1>1. /\ pushed \in Seq(Events) /\ inner.done \in BOOLEAN
      /\ pushed' = pushed \o a
  BY DEF Types, Streams, Pushes
<1>2. a \in Seq(S) /\ \A p \in DOMAIN a : p \in DOMAIN es /\ a[p] = es[p]
  BY <1>1, AcceptedFrom
<1> HIDE DEF a
<1>3. CASE a = <<>>
  <2>1. pushed' = pushed
    BY <1>1, <1>3, ConcatEmptySeq
  <2> QED
    BY <2>1 DEF Answered
<1>4. CASE a # <<>>
  <2>1. Len(a) \in DOMAIN a
    BY <1>2, <1>4
  <2>2. Last(pushed') = a[Len(a)]
    <3>1. /\ Len(pushed \o a) = Len(pushed) + Len(a)
          /\ (pushed \o a)[Len(pushed) + Len(a)] = a[Len(a)]
      BY <1>1, <1>2, <2>1
    <3> QED
      BY <1>1, <3>1 DEF Last
  <2> QED
    BY <1>2, <2>1, <2>2 DEF Answered
<1> QED
  BY <1>3, <1>4

\* A step that reads nothing and ends no response well.
LEMMA SaidSame ==
  ASSUME Said, UNCHANGED <<route, wire, reason, finished>>, Answered' => Answered,
         at' = "over" \/ (at' = at /\ message'.stop = message.stop) \/ (at = "load" /\ at' = "request")
  PROVE  Said'
BY DEF Said

LEMMA FailsSaid ==
  ASSUME Types, Said, NEW S, NEW es \in Seq(S), \A p \in DOMAIN es : es[p] # Done \/ reason = "stop",
         NEW m, Fails(es, m)
  PROVE  (Answered' => Answered \/ reason = "stop") /\ at' = "over"
<1> DEFINE fs == Append(es, Error)
<1>1. /\ fs \in Seq(S \union {Error})
      /\ \A p \in DOMAIN fs : fs[p] = Error \/ (p \in DOMAIN es /\ fs[p] = es[p])
  <2>1. es \in Seq(S \union {Error})
    BY SeqDef
  <2>2. fs \in Seq(S \union {Error}) /\ Len(fs) = Len(es) + 1
    BY <2>1, AppendProperties
  <2>3. \A p \in DOMAIN fs : fs[p] = IF p = Len(es) + 1 THEN Error ELSE es[p]
    BY <2>1, AppendProperties
  <2> QED
    BY <2>1, <2>2, <2>3
<1>2. Pushes(fs, TRUE)
  BY DEF Fails
<1> HIDE DEF fs
<1>3. at' = "over"
  BY <1>2 DEF Pushes
<1>4. Answered' => Answered \/ \E p \in DOMAIN fs : fs[p] = Done
  BY <1>1, <1>2, DonePushed
<1> QED
  BY <1>1, <1>3, <1>4, EventsApart

\* Only what the service said, and what is pushed with it, makes a response done.
LEMMA SaidKept ==
  ASSUME IInv, Said, [Next]_vars
  PROVE  Said'
<1>0. Types /\ StreamsKept /\ WholeKept /\ message \in Messages /\ inner.done \in BOOLEAN
  BY DEF IInv, StreamsKept, Types, Streams
<1>1. CASE ServiceSends /\ UNCHANGED <<route, mode, aborted, producing, outer, forwarder, reading>>
  <2>1. /\ UNCHANGED <<route, at, message, finished, pushed>> /\ at = "reading" /\ route # "proxy"
        /\ wire \in Seq(Chunks)
    BY <1>0, <1>1 DEF ServiceSends, producing, Types
  <2>2. ~Answered
    BY <1>0, <2>1 DEF WholeKept
  <2>3. ASSUME NEW key, NEW ids, Send(Delta(key, ids)), UNCHANGED reason PROVE Said'
    <3>1. wire' = Append(wire, Delta(key, ids)) /\ Delta(key, ids).type = "delta"
      BY <2>3 DEF Send, Delta
    <3>2. \A p \in DOMAIN wire' : wire'[p].type # "delta" => p \in DOMAIN wire /\ wire'[p] = wire[p]
      BY <2>1, <3>1
    <3> QED
      BY <2>1, <2>2, <2>3, <3>2 DEF Said, Answered
  <2>4. ASSUME ~finished, \A p \in DOMAIN wire : wire[p].type = "delta", NEW r \in {"stop", "error"},
               Send(Reason(r)), reason' = r
        PROVE  Said'
    <3>1. wire' = Append(wire, Reason(r)) /\ Reason(r).type = r
      BY <2>4 DEF Send, Reason
    <3>2. \A p \in DOMAIN wire' : wire'[p].type \in {"delta", r}
      BY <2>1, <2>4, <3>1
    <3> QED
      BY <2>1, <2>2, <2>4, <3>2 DEF Said, Answered
  <2> QED
    BY <1>1, <2>3, <2>4 DEF ServiceSends
<1>2. CASE ServerSends /\ UNCHANGED <<route, mode, aborted, producing, outer, forwarder, reading>>
  <2>1. /\ UNCHANGED <<route, at, message, finished, pushed>> /\ at = "reading" /\ route = "proxy"
        /\ wire \in Seq(Lines) /\ ~inner.done /\ \A p \in DOMAIN wire : wire[p].type # "done"
    BY <1>0, <1>2 DEF ServerSends, producing, Types
  <2>2. ~Answered
    BY <1>0, <2>1 DEF WholeKept
  <2>3. ASSUME NEW c, Send(c), c.type = "done" => reason' = "stop", reason' \in {"none", "stop", "error"}
        PROVE  Said'
    <3>1. wire' = Append(wire, c)
      BY <2>3 DEF Send
    <3>2. \A p \in DOMAIN wire' : wire'[p].type = "done" => c.type = "done"
      BY <2>1, <3>1
    <3> QED
      BY <2>1, <2>2, <2>3, <3>2 DEF Said, Answered
  <2>4. /\ Start.type = "start" /\ Done.type = "done" /\ Error.type = "error"
        /\ \A i, n : /\ Event("open", i, n).type = "open" /\ Event("delta", i, n).type = "delta"
                     /\ Event("close", i, n).type = "close" /\ Event("garbage", i, n).type = "garbage"
    BY DEF Start, Done, Error, Event
  <2>5. reason \in {"none", "stop", "error"}
    BY DEF Said
  <2> QED
    BY <1>2, <2>3, <2>4, <2>5 DEF ServerSends
<1>3. CASE ServiceEnds /\ UNCHANGED <<route, mode, aborted, producing, outer, forwarder, reading>>
  <2>1. UNCHANGED <<route, wire, reason, finished, at, message, pushed>>
    BY <1>3 DEF ServiceEnds, producing
  <2> QED
    BY <2>1, SaidSame DEF Answered
<1>4. CASE UserAborts \/ Load \/ TakeResult
  <2>1. UNCHANGED <<route, wire, reason, finished, message, pushed>> /\ (at' = at \/ (at = "load" /\ at' = "request"))
    BY <1>4 DEF UserAborts, Load, TakeResult, service, producing
  <2> QED
    BY <2>1, SaidSame DEF Answered
<1>5. CASE Forward \/ ReadEvent
  <2>1. UNCHANGED <<route, wire, reason, finished, message, pushed, at>>
    BY <1>5 DEF Forward, ReadEvent, service
  <2> QED
    BY <2>1, SaidSame DEF Answered
<1>6. CASE LoadFails
  <2>1. UNCHANGED <<route, wire, reason, finished>> /\ at = "load" /\ at' = "over"
    BY <1>6 DEF LoadFails, service
  <2>2. Answered' => Answered
    <3>1. CASE route = "lazy"
      <4>1. pushed' = Accepted(outer, <<Error>>) /\ outer.done \in BOOLEAN
        BY <1>0, <1>6, <3>1 DEF LoadFails, Types, Streams
      <4>2. /\ Accepted(outer, <<Error>>) \in Seq({Error})
            /\ \A p \in DOMAIN Accepted(outer, <<Error>>) : Accepted(outer, <<Error>>)[p] = Error
        <5> DEFINE es == <<Error>>
        <5>1. es \in Seq({Error}) /\ \A p \in DOMAIN es : es[p] = Error
          OBVIOUS
        <5> HIDE DEF es
        <5>2. /\ Accepted(outer, es) \in Seq({Error})
              /\ \A p \in DOMAIN Accepted(outer, es) : Accepted(outer, es)[p] = Error
          BY <4>1, <5>1, AcceptedFrom
        <5> QED
          BY <5>2 DEF es
      <4>3. pushed' # <<>> => Last(pushed') = Error
        BY <4>1, <4>2 DEF Last
      <4> QED
        BY <4>3, EventsApart DEF Answered
    <3>2. CASE route # "lazy"
      BY <1>6, <3>2 DEF LoadFails, Answered
    <3> QED
      BY <3>1, <3>2
  <2> QED
    BY <2>1, <2>2, SaidSame
<1>7. CASE Connect
  <2>1. UNCHANGED <<route, wire, reason, finished, message>> /\ at = "request"
    BY <1>7 DEF Connect, service
  <2>2. wire = <<>>
    BY <1>0, <2>1 DEF StreamsKept, Unstarted
  <2>3. Answered' => Answered
    <3> DEFINE es == IF route = "proxy" THEN <<>> ELSE <<Start>>
    <3>1. es \in Seq({Start}) /\ \A p \in DOMAIN es : es[p] = Start
      <4>1. CASE route = "proxy"
        BY <4>1
      <4>2. CASE route # "proxy"
        BY <4>2
      <4> QED
        BY <4>1, <4>2
    <3>2. Pushes(es, FALSE)
      BY <1>7 DEF Connect
    <3> HIDE DEF es
    <3> QED
      BY <1>0, <3>1, <3>2, DonePushed, EventsApart
  <2>4. route # "proxy" => ~finished
    BY <2>1 DEF Said
  <2> QED
    BY <2>1, <2>2, <2>3, <2>4 DEF Said
<1>8. CASE Breaks
  <2>1. UNCHANGED <<route, wire, reason, finished>> /\ Fails(<<>>, message)
    BY <1>8 DEF Breaks, service
  <2>2. <<>> \in Seq({Error}) /\ \A p \in DOMAIN <<>> : <<>>[p] # Done
    OBVIOUS
  <2>3. (Answered' => Answered \/ reason = "stop") /\ at' = "over"
    BY <1>0, <2>1, <2>2, FailsSaid
  <2> QED
    BY <2>1, <2>3, SaidSame DEF Said
<1>9. CASE ReadChunk /\ ReadDelta
  <2> DEFINE c == Head(wire)
             opens == BlockOf(c) = {}
             blocks == IF opens THEN Append(message.blocks, Block(c.key, {})) ELSE message.blocks
             i == IF opens THEN Len(blocks) ELSE CHOOSE b \in BlockOf(c) : TRUE
             es == (IF opens THEN <<Event("open", i, 0)>> ELSE <<>>) \o <<Event("delta", i, c.n)>>
  <2>1. /\ UNCHANGED <<route, reason, finished>> /\ wire' = Tail(wire) /\ wire # <<>> /\ route # "proxy"
        /\ at = "reading" /\ Pushes(es, FALSE) /\ message'.stop = message.stop
    BY <1>0, <1>9 DEF ReadChunk, ReadDelta, Messages
  <2>2. Event("open", i, 0).type = "open" /\ Event("delta", i, c.n).type = "delta" /\ Done.type = "done"
    BY DEF Event, Done
  <2> DEFINE S == {Event("open", i, 0), Event("delta", i, c.n)}
  <2>3. es \in Seq(S) /\ \A p \in DOMAIN es : es[p] \in S
    <3> HIDE DEF i, c
    <3>1. CASE opens
      BY <3>1
    <3>2. CASE ~opens
      BY <3>2
    <3> QED
      BY <3>1, <3>2
  <2> HIDE DEF es
  <2>4. Answered' => Answered
    BY <1>0, <2>1, <2>2, <2>3, DonePushed
  <2>5. at' = "reading" /\ wire \in Seq(Chunks)
    BY <1>0, <2>1 DEF Pushes, Types
  <2>6. \A p \in DOMAIN wire' : p + 1 \in DOMAIN wire /\ wire'[p] = wire[p + 1]
    BY <2>1, <2>5
  <2> QED
    BY <2>1, <2>4, <2>5, <2>6 DEF Said
<1>10. CASE ReadChunk /\ ReadReason
  <2>1. /\ UNCHANGED <<route, reason, at, pushed>> /\ wire' = Tail(wire) /\ wire # <<>> /\ route # "proxy"
        /\ at = "reading" /\ finished' = TRUE /\ wire \in Seq(Chunks)
        /\ Head(wire).type # "delta" /\ message' = [message EXCEPT !.stop = Head(wire).type]
    BY <1>0, <1>10 DEF ReadChunk, ReadReason, Types
  <2>2. Head(wire) = wire[1] /\ 1 \in DOMAIN wire /\ wire[1] \in Chunks
    BY <2>1
  <2>3. reason = wire[1].type /\ reason # "none" /\ message'.stop = reason
    <3>1. reason = wire[1].type
      BY <2>1, <2>2 DEF Said
    <3>2. message'.stop = wire[1].type
      BY <1>0, <2>1, <2>2 DEF Messages
    <3> QED
      BY <2>2, <3>1, <3>2 DEF Chunks
  <2>4. \A p \in DOMAIN wire' : p + 1 \in DOMAIN wire /\ wire'[p] = wire[p + 1]
    BY <2>1
  <2> QED
    BY <2>1, <2>3, <2>4 DEF Said, Answered
<1>11. CASE EndOfChunks
  <2>1. UNCHANGED <<route, wire, reason, finished>> /\ route # "proxy" /\ at = "reading"
    BY <1>11 DEF EndOfChunks, service
  <2>2. CASE Succeeds
    <3>1. reason = "stop"
      BY <1>0, <2>1, <2>2 DEF Succeeds, Said, Messages
    <3>2. at' = "over"
      BY <1>11, <2>2 DEF EndOfChunks, Pushes
    <3> QED
      BY <2>1, <3>1, <3>2 DEF Said
  <2>3. CASE ~Succeeds
    <3> DEFINE S == {Event("close", k, 0) : k \in DOMAIN message.blocks}
    <3>1. message.blocks \in Seq(Blocks)
      BY <1>0 DEF Messages
    <3>2. Closes \in Seq(S) /\ \A p \in DOMAIN Closes : Closes[p].type = "close"
      <4>1. /\ DOMAIN message.blocks = 1..Len(message.blocks) /\ Len(message.blocks) \in Nat
            /\ Closes = [k \in 1..Len(message.blocks) |-> Event("close", k, 0)]
        BY <3>1 DEF Closes
      <4>2. \A k : Event("close", k, 0).type = "close"
        BY DEF Event
      <4> QED
        BY <4>1, <4>2, SeqDef
    <3>3. Done.type = "done"
      BY DEF Done, Event
    <3>4. Fails(Closes, message)
      BY <1>11, <2>3 DEF EndOfChunks
    <3>5. (Answered' => Answered \/ reason = "stop") /\ at' = "over"
      BY <1>0, <3>2, <3>3, <3>4, FailsSaid
    <3> QED
      BY <2>1, <3>5, SaidSame DEF Said
  <2> QED
    BY <2>2, <2>3
<1>12. CASE ReadLines
  <2>1. /\ UNCHANGED <<route, reason, finished>> /\ route = "proxy" /\ at = "reading" /\ wire \in Seq(Lines)
    BY <1>0, <1>12 DEF ReadLines, Types
  <2>2. PICK k \in 1..Len(wire) :
          LET throws == wire[k].type = "garbage"
              good == SubSeq(wire, 1, IF throws THEN k - 1 ELSE k)
          IN  IF aborted
              THEN Fails(<<>>, message) /\ UNCHANGED wire
              ELSE /\ IF throws THEN Fails(good, Made(message, good)) ELSE Pushes(good, FALSE)
                   /\ wire' = SubSeq(wire, k + 1, Len(wire))
    BY <1>12 DEF ReadLines
  <2> DEFINE throws == wire[k].type = "garbage"
             good == SubSeq(wire, 1, IF throws THEN k - 1 ELSE k)
  <2>3. good \in Seq(Lines) /\ \A p \in DOMAIN good : p \in DOMAIN wire /\ good[p] = wire[p]
    BY <2>1
  <2>4. \A p \in DOMAIN good : good[p] # Done \/ reason = "stop"
    <3>1. Done.type = "done"
      BY DEF Done, Event
    <3> QED
      BY <2>1, <2>3, <3>1 DEF Said
  <2> HIDE DEF good
  <2>5. /\ <<>> \in Seq(Lines) /\ \A p \in DOMAIN <<>> : <<>>[p] # Done
    OBVIOUS
  <2>6. Answered' => Answered \/ reason = "stop"
    <3>1. CASE aborted
      BY <1>0, <2>2, <2>5, <3>1, FailsSaid
    <3>2. CASE ~aborted /\ throws
      BY <1>0, <2>2, <2>3, <2>4, <3>2, FailsSaid DEF good
    <3>3. CASE ~aborted /\ ~throws
      <4>1. Pushes(good, FALSE)
        BY <2>2, <3>3 DEF good
      <4> QED
        BY <1>0, <2>3, <2>4, <4>1, DonePushed
    <3> QED
      BY <3>1, <3>2, <3>3
  <2>7. \A p \in DOMAIN wire' : \E q \in DOMAIN wire : wire'[p] = wire[q]
    <3>1. CASE aborted
      BY <2>2, <3>1
    <3>2. CASE ~aborted
      <4>1. wire' = SubSeq(wire, k + 1, Len(wire)) /\ Len(wire) \in Nat
        BY <2>1, <2>2, <3>2
      <4>2. \A p \in DOMAIN wire' : k + p \in DOMAIN wire /\ wire'[p] = wire[k + p]
        BY <2>1, <4>1
      <4> QED
        BY <4>2
    <3> QED
      BY <3>1, <3>2
  <2> QED
    BY <2>1, <2>6, <2>7 DEF Said
<1>13. CASE EndOfLines
  <2>1. UNCHANGED <<route, wire, reason, finished>>
    BY <1>13 DEF EndOfLines, service
  <2>2. <<>> \in Seq({Error}) /\ \A p \in DOMAIN <<>> : <<>>[p] # Done
    OBVIOUS
  <2>3. CASE Fails(<<>>, message)
    <3>1. (Answered' => Answered \/ reason = "stop") /\ at' = "over"
      BY <1>0, <2>2, <2>3, FailsSaid
    <3> QED
      BY <2>1, <3>1, SaidSame DEF Said
  <2>4. CASE Pushes(<<>>, TRUE)
    <3>1. Answered' => Answered
      BY <1>0, <2>2, <2>4, DonePushed
    <3>2. at' = "over"
      BY <2>4 DEF Pushes
    <3> QED
      BY <2>1, <3>1, <3>2, SaidSame
  <2> QED
    BY <1>13, <2>3, <2>4 DEF EndOfLines
<1>14. CASE UNCHANGED vars
  BY <1>14, SaidSame DEF vars, Answered
<1> QED
  BY <1>1, <1>2, <1>3, <1>4, <1>5, <1>6, <1>7, <1>8, <1>9, <1>10, <1>11, <1>12, <1>13, <1>14
     DEF Next, Service, Produce, Read, ReadChunk

\* The invariant above holds throughout: what the streams hold, what the blocks
\* hold and what is on the wire, however the response goes.
THEOREM InvariantHolds == Spec => []IInv
BY InvariantInitially, InvariantKept, PTL DEF Spec

------------------------------------------------------------------------------
(* The theorems *)

\* The variables of a response are of their kinds, the streams and the message
\* included, whatever is sent and however often it is read.
THEOREM TypesHold == Spec => []Types
<1>1. IInv => Types
  BY DEF IInv, StreamsKept
<1> QED
  BY <1>1, InvariantHolds, PTL

\* The reader of a response is given the events its producer pushed, each once
\* and in order: through the stream itself or, on the first use of a provider,
\* through the loop that forwards them into a second one, whether an event
\* found a reader waiting or was queued (event-stream.ts:26-67,
\* register-builtins.ts:82-89).
THEOREM OrderHolds == Spec => []EventsInOrder
<1>1. IInv => EventsInOrder
  BY DEF IInv, StreamsKept
<1> QED
  BY <1>1, InvariantHolds, PTL

\* Each block of the message holds the deltas that were sent for it and have
\* been read, each once and in order: a tool call is found by whatever name its
\* chunk carries (openai-completions.ts:232-287, 373-394), and the client of
\* the proxy puts what it reads where the server said (proxy.ts:250-344).
THEOREM BlocksHold == Spec => []BlocksExact
<1>1. ASSUME IInv PROVE BlocksExact
  <2> DEFINE blocks == message.blocks
  <2>1. KeysApart(blocks) /\ TextsInOrder(blocks, wire) /\ NoneLost(blocks, wire)
    BY <1>1 DEF IInv, AnswerKept, Texts
  <2>2. InWire = Numbers(wire)
    BY DEF InWire, Numbers
  <2>3. ASSUME NEW i \in DOMAIN blocks
        PROVE  Range(blocks[i].text) = {n \in Sent \ InWire : sent[n] = blocks[i].key}
    <3>1. ASSUME NEW n \in Range(blocks[i].text) PROVE n \in Sent \ InWire /\ sent[n] = blocks[i].key
      <4>1. PICK k \in DOMAIN blocks[i].text : n = blocks[i].text[k]
        BY DEF Range
      <4> QED
        BY <2>1, <2>2, <4>1 DEF TextsInOrder
    <3>2. ASSUME NEW n \in Sent \ InWire, sent[n] = blocks[i].key PROVE n \in Range(blocks[i].text)
      <4>1. PICK j \in DOMAIN blocks : \E k \in DOMAIN blocks[j].text : blocks[j].text[k] = n
        BY <2>1, <2>2 DEF NoneLost
      <4>2. PICK k \in DOMAIN blocks[j].text : blocks[j].text[k] = n
        BY <4>1
      <4>3. sent[n] = blocks[j].key
        BY <2>1, <4>2 DEF TextsInOrder
      <4>4. j = i
        BY <2>1, <3>2, <4>3 DEF KeysApart
      <4> QED
        BY <4>2, <4>4 DEF Range
    <3> QED
      BY <3>1, <3>2
  <2> QED
    BY <2>1, <2>3 DEF BlocksExact, KeysApart, TextsInOrder
<1> QED
  BY <1>1, InvariantHolds, PTL

\* A response that ends with "done" is whole: the service said that its answer is
\* complete, so a stream that is cut short never ends so; every delta sent is in
\* the message, and the events tell that message: each block opened once, then
\* its deltas in order, then closed once (openai-completions.ts:414-432,
\* proxy.ts:195-206).
THEOREM WholeHolds == Spec => []Whole
<1>1. IInv /\ Said => Whole
  BY DEF IInv, WholeKept, WholeIn, Whole, Told, Sent, Said
<1>2. IInv /\ Said /\ [Next]_vars => Said'
  BY SaidKept
<1> QED
  BY <1>1, <1>2, InvariantHolds, SaidInitially, PTL DEF Spec

\* A response that is still under way when the user aborts ends as aborted,
\* whatever is buffered and whatever the service has already sent
\* (openai-completions.ts:417-419, proxy.ts:189-191, 211-213).
THEOREM AbortHolds == Spec => AbortHonoured
<1>1. ASSUME IInv, Next, aborted, ~inner.done, inner'.done PROVE message'.stop = "aborted"
  <2>0. StreamsKept /\ Types
    BY <1>1 DEF IInv, StreamsKept
  <2>1. CASE Breaks
    BY <1>1, <2>1, KeepsBreaks
  <2>2. CASE EndOfChunks
    BY <1>1, <2>2, KeepsEndOfChunks
  <2>3. CASE ReadLines
    BY <1>1, <2>3, KeepsReadLines
  <2>4. CASE EndOfLines
    BY <1>1, <2>4, KeepsEndOfLines
  <2>5. CASE ReadChunk
    <3>1. CASE ReadReason
      BY <1>1, <3>1 DEF ReadReason
    <3>2. CASE ReadDelta
      <4>1. StreamsKept' /\ route' # "proxy" /\ at' = "reading"
        BY <1>1, <2>5, <3>2, KeepsReadDelta DEF ReadChunk, ReadDelta, Pushes, IInv
      <4> QED
        BY <1>1, <4>1 DEF StreamsKept, Final
    <3> QED
      BY <2>5, <3>1, <3>2 DEF ReadChunk
  <2>6. CASE Connect
    BY <1>1, <2>6 DEF Connect
  <2>7. CASE Forward \/ ReadEvent
    BY <1>1, <2>0, <2>7, StreamsForward, StreamsReadEvent
  <2>8. CASE UNCHANGED inner
    BY <1>1, <2>8
  <2>9. CASE Service \/ UserAborts \/ Load \/ LoadFails \/ TakeResult
    BY <1>1, <2>9 DEF Service, UserAborts, Load, LoadFails, TakeResult, producing
  <2> QED
    BY <1>1, <2>1, <2>2, <2>3, <2>4, <2>5, <2>6, <2>7, <2>9 DEF Next, Produce, Read
<1>2. IInv /\ [Next]_vars => [aborted /\ ~inner.done /\ inner'.done => message'.stop = "aborted"]_vars
  BY <1>1
<1> QED
  BY <1>2, InvariantHolds, PTL DEF Spec, AbortHonoured
=============================================================================
