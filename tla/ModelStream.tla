---------------------------- MODULE ModelStream ----------------------------
(***************************************************************************)
(* One response of the model on its way to the agent loop: the service     *)
(* that answers, the provider or the proxy client that turns its chunks    *)
(* into events (packages/ai/src/providers/openai-completions.ts,           *)
(* packages/agent/src/proxy.ts), the stream that forwards them while the   *)
(* provider's module is being loaded (providers/register-builtins.ts), and *)
(* the reader: streamAssistantResponse of the loop (agent-loop.ts), or     *)
(* complete(), which only awaits the result (ai/src/stream.ts).            *)
(*                                                                         *)
(* The message under construction is one object that every event refers    *)
(* to; the reader sees it as it is when it looks.  Deltas of the service   *)
(* are numbered; a block's text is the sequence of its deltas.             *)
(***************************************************************************)
EXTENDS EventStream, Integers, FiniteSets, SequencesExt

CONSTANTS
  Routes,       \* "lazy": first use of a provider; "direct": later uses; "proxy"
  Modes,        \* "loop": the agent loop; "complete": complete()
  Calls,        \* the tool calls of the response
  MaxDeltas,    \* bound: deltas the service sends
  MaxBlocks,    \* bound: blocks the server of the proxy opens
  MaxWire       \* bound: chunks sent and not yet read

ASSUME RoutesAssumption == Routes \subseteq {"lazy", "direct", "proxy"}
ASSUME ReadersAre == Readers = {"forwarder", "reader"}

VARIABLES
  route, mode,
  aborted,      \* the signal of the request
  remote,       \* the service: "sending", "closed" or "cut" (the read fails)
  wire,         \* chunks sent and not yet read
  sent,         \* per delta sent: the key of the block it belongs to
  reason,       \* why the answer ends, once the service has said so: "stop" or "error"
  served,       \* the proxy's server: per block it opened, whether it is open
  at,           \* the producer: "load", "request", "reading" or "over"
  message,      \* the message: its blocks, its stop reason
  finished,     \* hasFinishReason
  inner, outer, \* the producer's stream; the one forwarded to on first use
  forwarder,    \* forwardStream: "off", "asks", "waits" or "over"
  reader,       \* "asks", "waits", "result", "over" or "thrown"
  context,      \* what the reader has put into the context
  seen,         \* ghost: the events the reader was given
  pushed        \* ghost: the events the producer's stream accepted

vars == <<route, mode, aborted, remote, wire, sent, reason, served, at, message, finished,
          inner, outer, forwarder, reader, context, seen, pushed>>
service == <<remote, wire, sent, reason, served>>
producing == <<at, message, finished, inner, pushed>>
reading == <<reader, context, seen>>

Event(t, i, n) == [type |-> t, index |-> i, n |-> n]
Start == Event("start", 0, 0)
Done == Event("done", 0, 0)
Error == Event("error", 0, 0)

\* a block: what it holds, the ways its tool call is known by, its deltas
Block(key, ids) == [key |-> key, ids |-> ids, text |-> <<>>]
Keys == {"text", "thinking"} \union Calls

Init ==
  /\ route \in Routes
  /\ mode \in Modes
  /\ aborted = FALSE
  /\ remote = "sending"
  /\ wire = <<>> /\ sent = <<>> /\ reason = "none" /\ served = <<>>
  /\ at = IF route = "proxy" THEN "request" ELSE "load"
  /\ message = [blocks |-> <<>>, stop |-> "stop"]
  /\ finished = FALSE
  /\ inner = NewStream /\ outer = NewStream
  /\ forwarder = "off"
  /\ reader = IF mode = "loop" THEN "asks" ELSE "result"
  /\ context = <<>> /\ seen = <<>> /\ pushed = <<>>

\* several events pushed in one go, and those of them a stream accepts
PushAll(s, es) ==
  LET after[n \in 0..Len(es)] == IF n = 0 THEN s ELSE Push(after[n - 1], es[n])
  IN  after[Len(es)]
Accepted(s, es) ==
  IF s.done THEN <<>>
  ELSE LET last == {i \in DOMAIN es : IsComplete(es[i])}
       IN  IF last = {} THEN es
           ELSE SubSeq(es, 1, CHOOSE i \in last : \A j \in last : i <= j)

\* the producer pushes es, and ends its stream if it is through
Pushes(es, through) ==
  /\ inner' = IF through THEN End(PushAll(inner, es), NoEvent) ELSE PushAll(inner, es)
  /\ pushed' = pushed \o Accepted(inner, es)
  /\ at' = IF through THEN "over" ELSE "reading"

\* the handler of every failure: the message takes the stop reason, whatever
\* it was before
Fails(es, m) ==
  /\ message' = [m EXCEPT !.stop = IF aborted THEN "aborted" ELSE "error"]
  /\ Pushes(Append(es, Error), TRUE)

-----------------------------------------------------------------------------
(* The service, and the user *)

Send(chunk) == remote = "sending" /\ Len(wire) < MaxWire /\ wire' = Append(wire, chunk)

\* a chunk of the provider's service carries a delta, or, once, the reason it
\* stops
Delta(key, ids) == [type |-> "delta", key |-> key, ids |-> ids, n |-> Len(sent) + 1]
Reason(r) == [type |-> r, key |-> "none", ids |-> {}, n |-> 0]

\* the ways the service has named call c by so far
Named(c) ==
  (UNION {message.blocks[i].ids : i \in {j \in DOMAIN message.blocks : message.blocks[j].key = c}})
  \union (UNION {wire[i].ids : i \in {j \in DOMAIN wire : wire[j].key = c}})

\* it tells the deltas of a call by its index, by its id, or by both
ServiceSends ==
  /\ route # "proxy"
  /\ at = "reading"
  /\ \/ \E key \in Keys, ids \in SUBSET {"index", "id"} :
          /\ Len(sent) < MaxDeltas
          /\ key \in Calls => ids # {} /\ (Named(key) # {} => ids \intersect Named(key) # {})
          /\ key \notin Calls => ids = {}
          /\ Send(Delta(key, ids))
          /\ sent' = Append(sent, key)
          /\ UNCHANGED reason
     \/ /\ ~finished /\ \A i \in DOMAIN wire : wire[i].type = "delta"
        /\ \E r \in {"stop", "error"} : Send(Reason(r)) /\ reason' = r
        /\ UNCHANGED sent
  /\ UNCHANGED <<remote, served>>

\* the server of the proxy sends the events of a stream of its own, or a line
\* that is no event of it
ServerSends ==
  /\ route = "proxy"
  /\ at = "reading"
  /\ ~inner.done
  /\ \A i \in DOMAIN wire : wire[i].type \notin {"done", "error", "garbage"}
  /\ LET started == pushed # <<>> \/ wire # <<>>
         open == {i \in DOMAIN served : served[i]}
     IN  \/ /\ ~started
            /\ Send(Start)
            /\ UNCHANGED <<sent, reason, served>>
         \/ /\ started /\ Len(served) < MaxBlocks
            /\ Send(Event("open", Len(served) + 1, 0))
            /\ served' = Append(served, TRUE)
            /\ UNCHANGED <<sent, reason>>
         \/ /\ Len(sent) < MaxDeltas
            /\ \E i \in open : /\ Send(Event("delta", i, Len(sent) + 1))
                               /\ sent' = Append(sent, i)
            /\ UNCHANGED <<reason, served>>
         \/ \E i \in open : /\ Send(Event("close", i, 0))
                            /\ served' = [served EXCEPT ![i] = FALSE]
                            /\ UNCHANGED <<sent, reason>>
         \/ /\ started
            /\ \/ open = {} /\ Send(Done) /\ reason' = "stop"
               \/ Send(Error) /\ reason' = "error"
               \/ Send(Event("garbage", 0, 0)) /\ UNCHANGED reason
            /\ UNCHANGED <<sent, served>>
  /\ UNCHANGED remote

\* it completes its answer, which may have been cut short, or the connection
\* breaks
ServiceEnds ==
  /\ at = "reading"
  /\ remote = "sending"
  /\ remote' \in {"closed", "cut"}
  /\ UNCHANGED <<wire, sent, reason, served>>

UserAborts ==
  /\ ~aborted
  /\ aborted' = TRUE
  /\ UNCHANGED <<route, mode, service, producing, outer, forwarder, reading>>

-----------------------------------------------------------------------------
(* The first use of a provider: createLazyStream, forwardStream *)

\* the module is loaded and its stream started: from now on it is forwarded
Load ==
  /\ at = "load"
  /\ at' = "request"
  /\ forwarder' = IF route = "lazy" THEN "asks" ELSE "off"
  /\ UNCHANGED <<route, mode, aborted, service, message, finished, inner, pushed, outer, reading>>

\* mutant of LoadFails: the error is not put into the stream
LoadFailsSilently ==
  /\ at = "load" /\ route = "lazy"
  /\ at' = "over"
  /\ outer' = End(outer, NoEvent)
  /\ UNCHANGED <<route, mode, aborted, service, message, finished, inner, pushed, forwarder, reading>>

\* loading failed, or the provider refused the request at once: the failure
\* becomes an event on first use, and is thrown later on
LoadFails ==
  /\ at = "load"
  /\ at' = "over"
  /\ IF route = "lazy"
     THEN /\ message' = [message EXCEPT !.stop = "error"]
          /\ outer' = End(Push(outer, Error), Error)
          /\ pushed' = Accepted(outer, <<Error>>)
          /\ UNCHANGED reader
     ELSE /\ reader' = "thrown"
          /\ UNCHANGED <<message, outer, pushed>>
  /\ UNCHANGED <<route, mode, aborted, service, finished, inner, forwarder, context, seen>>

\* the value a reader that asks or waits goes on with
Answer(s, r, asks) == IF asks THEN Offered(s) ELSE s.hand[r]
Taken(s, r, asks) == IF asks THEN Asked(s, r) ELSE Woken(s, r)

\* mutant of Forward: the event a wait was answered with is lost
ForwardLosing ==
  /\ forwarder \in {"asks", "waits"}
  /\ LET e == Answer(inner, "forwarder", forwarder = "asks")
     IN  /\ e # NoEvent \/ forwarder = "asks"
         /\ inner' = Taken(inner, "forwarder", forwarder = "asks")
         /\ forwarder' = CASE e = NoEvent -> "waits" [] e = Closed -> "over" [] OTHER -> "asks"
         /\ outer' = IF forwarder = "waits" \/ e = NoEvent THEN outer
                     ELSE IF e = Closed THEN End(outer, NoEvent) ELSE Push(outer, e)
  /\ UNCHANGED <<route, mode, aborted, service, at, message, finished, pushed, reading>>

Forward ==
  /\ forwarder \in {"asks", "waits"}
  /\ LET e == Answer(inner, "forwarder", forwarder = "asks")
     IN  /\ e # NoEvent \/ forwarder = "asks"
         /\ inner' = Taken(inner, "forwarder", forwarder = "asks")
         /\ forwarder' = CASE e = NoEvent -> "waits" [] e = Closed -> "over" [] OTHER -> "asks"
         /\ outer' = CASE e = NoEvent -> outer
                       [] e = Closed -> End(outer, NoEvent)
                       [] OTHER -> Push(outer, e)
  /\ UNCHANGED <<route, mode, aborted, service, at, message, finished, pushed, reading>>

-----------------------------------------------------------------------------
(* The provider *)

\* the request is answered, or it fails: refused, broken off, a hook threw
Connect ==
  /\ at = "request"
  /\ ~aborted
  /\ Pushes(IF route = "proxy" THEN <<>> ELSE <<Start>>, FALSE)
  /\ UNCHANGED <<route, mode, aborted, service, message, finished, outer, forwarder, reading>>

Breaks ==
  /\ \/ at = "request"
     \/ at = "reading" /\ (remote = "cut" \/ aborted)
  /\ Fails(<<>>, message)
  /\ UNCHANGED <<route, mode, aborted, service, finished, outer, forwarder, reading>>

\* mutant of BlockOf: calls are known by their index only
BlockByIndex(c) ==
  {i \in DOMAIN message.blocks :
     /\ message.blocks[i].key = c.key
     /\ c.key \in Calls => "index" \in message.blocks[i].ids \intersect c.ids}

\* the block a delta belongs to: one of its kind, or one known by a name it
\* carries
BlockOf(c) ==
  {i \in DOMAIN message.blocks :
     /\ message.blocks[i].key = c.key
     /\ c.key \in Calls => message.blocks[i].ids \intersect c.ids # {}}

\* a chunk with a delta opens a block for it when it has none
ReadDelta ==
  LET c == Head(wire)
      opens == BlockOf(c) = {}
      blocks == IF opens THEN Append(message.blocks, Block(c.key, {})) ELSE message.blocks
      i == IF opens THEN Len(blocks) ELSE CHOOSE b \in BlockOf(c) : TRUE
  IN  /\ c.type = "delta"
      /\ message' = [message EXCEPT
                       !.blocks = [blocks EXCEPT
                         ![i].ids = @ \union c.ids,
                         ![i].text = Append(@, c.n)]]
      /\ Pushes((IF opens THEN <<Event("open", i, 0)>> ELSE <<>>)
                \o <<Event("delta", i, c.n)>>, FALSE)
      /\ UNCHANGED finished

\* a chunk with the reason the service stops
ReadReason ==
  /\ Head(wire).type # "delta"
  /\ message' = [message EXCEPT !.stop = Head(wire).type]
  /\ finished' = TRUE
  /\ UNCHANGED <<at, inner, pushed>>

ReadChunk ==
  /\ route # "proxy" /\ at = "reading" /\ wire # <<>>
  /\ ReadDelta \/ ReadReason
  /\ wire' = Tail(wire)
  /\ UNCHANGED <<route, mode, aborted, remote, sent, reason, served, outer, forwarder, reading>>

\* no more chunks, or the iteration over them ends because of the abort: the
\* blocks are closed, and the response is done if nothing speaks against it
Closes == [i \in DOMAIN message.blocks |-> Event("close", i, 0)]

\* mutants of Succeeds: the signal, or the missing reason, is not looked at
SucceedsAborted == message.stop # "error" /\ finished
SucceedsCut == ~aborted /\ message.stop # "error"

Succeeds == ~aborted /\ message.stop # "error" /\ finished

EndOfChunks ==
  /\ route # "proxy" /\ at = "reading"
  /\ aborted \/ (remote = "closed" /\ wire = <<>>)
  /\ IF Succeeds
     THEN Pushes(Append(Closes, Done), TRUE) /\ UNCHANGED message
     ELSE Fails(Closes, message)
  /\ UNCHANGED <<route, mode, aborted, service, finished, outer, forwarder, reading>>

-----------------------------------------------------------------------------
(* The client of the proxy *)

\* processProxyEvent: what a line does to the message
Processed(m, line) ==
  CASE line.type = "open" -> [m EXCEPT !.blocks = Append(@, Block(line.index, {}))]
    [] line.type = "delta" -> [m EXCEPT !.blocks[line.index].text = Append(@, line.n)]
    [] line.type = "done" -> [m EXCEPT !.stop = "stop"]
    [] line.type = "error" -> [m EXCEPT !.stop = "error"]
    [] OTHER -> m

\* what lines do to it, one after another
Made(m, lines) ==
  LET after[n \in 0..Len(lines)] == IF n = 0 THEN m ELSE Processed(after[n - 1], lines[n])
  IN  after[Len(lines)]

\* one read: the lines that have come, up to one that is no event
ReadLines ==
  /\ route = "proxy" /\ at = "reading"
  /\ \E k \in 1..Len(wire) :
       LET throws == wire[k].type = "garbage"
           good == SubSeq(wire, 1, IF throws THEN k - 1 ELSE k)
       IN  IF aborted
           THEN /\ Fails(<<>>, message)
                /\ UNCHANGED wire
           ELSE /\ \A i \in DOMAIN good : good[i].type # "garbage"
                /\ IF throws
                   THEN Fails(good, Made(message, good))
                   ELSE Pushes(good, FALSE) /\ message' = Made(message, good)
                /\ wire' = SubSeq(wire, k + 1, Len(wire))
  /\ UNCHANGED <<route, mode, aborted, remote, sent, reason, served, finished, outer, forwarder, reading>>

\* the body is read to its end, or the read was cancelled by the abort
EndOfLines ==
  /\ route = "proxy" /\ at = "reading"
  /\ aborted \/ (remote = "closed" /\ wire = <<>>)
  /\ IF aborted
     THEN Fails(<<>>, message)
     ELSE Pushes(<<>>, TRUE) /\ UNCHANGED message
  /\ UNCHANGED <<route, mode, aborted, service, finished, outer, forwarder, reading>>

-----------------------------------------------------------------------------
(* The reader *)

Source == IF route = "lazy" THEN outer ELSE inner
SourceIs(s) == IF route = "lazy" THEN outer' = s /\ UNCHANGED inner
                                 ELSE inner' = s /\ UNCHANGED outer

\* streamAssistantResponse: one event of the iteration; the first puts the
\* message into the context, the one that completes the stream leads on to its
\* result
ReadEvent ==
  /\ reader \in {"asks", "waits"}
  /\ at # "load" \/ route = "lazy"
  /\ LET e == Answer(Source, "reader", reader = "asks")
     IN  /\ e # NoEvent \/ reader = "asks"
         /\ SourceIs(Taken(Source, "reader", reader = "asks"))
         /\ reader' = CASE e = NoEvent -> "waits"
                       [] e = Closed \/ IsComplete(e) -> "result"
                       [] OTHER -> "asks"
         /\ context' = IF e = Start THEN Append(context, "partial") ELSE context
         /\ seen' = IF e \in {NoEvent, Closed} THEN seen ELSE Append(seen, e)
  /\ UNCHANGED <<route, mode, aborted, service, at, message, finished, pushed, forwarder>>

\* the result takes the place of the partial message; complete() returns it
TakeResult ==
  /\ reader = "result"
  /\ Source.result # NoEvent
  /\ reader' = "over"
  /\ context' = IF context = <<>> THEN <<"final">>
                ELSE [context EXCEPT ![Len(context)] = "final"]
  /\ UNCHANGED <<route, mode, aborted, service, producing, outer, forwarder, seen>>

-----------------------------------------------------------------------------
Service == (ServiceSends \/ ServerSends \/ ServiceEnds)
           /\ UNCHANGED <<route, mode, aborted, producing, outer, forwarder, reading>>

Produce == Load \/ LoadFails \/ Connect \/ Breaks \/ ReadChunk \/ EndOfChunks
           \/ ReadLines \/ EndOfLines

Read == ReadEvent \/ TakeResult

Next == Service \/ UserAborts \/ Produce \/ Forward \/ Read

\* every request is answered, broken off or timed out; microtasks run
Fairness ==
  /\ WF_vars(ServiceEnds /\ UNCHANGED <<route, mode, aborted, producing, outer, forwarder, reading>>)
  /\ WF_vars(Produce) /\ WF_vars(Forward) /\ WF_vars(Read)

Spec == Init /\ [][Next]_vars /\ Fairness

-----------------------------------------------------------------------------
(* Properties *)

Sent == 1..Len(sent)
InWire == {wire[i].n : i \in DOMAIN wire}
Answered == pushed # <<>> /\ Last(pushed) = Done

\* proxy.ts:118-141, openai-completions.ts:120-139: each part is of its kind.
TypeOK ==
  /\ route \in Routes /\ mode \in Modes /\ aborted \in BOOLEAN
  /\ remote \in {"sending", "closed", "cut"}
  /\ Len(wire) <= MaxWire /\ Len(sent) <= MaxDeltas
  /\ reason \in {"none", "stop", "error"}
  /\ at \in {"load", "request", "reading", "over"}
  /\ message.stop \in {"stop", "error", "aborted"}
  /\ finished \in BOOLEAN
  /\ forwarder \in {"off", "asks", "waits", "over"}
  /\ reader \in {"asks", "waits", "result", "over", "thrown"}

\* what a stream holds for its reader
Pending(s, r) == (IF s.hand[r] \in {NoEvent, Closed} THEN <<>> ELSE <<s.hand[r]>>) \o s.queue

\* The reader is given the events the producer's stream accepted, each once
\* and in order, through one stream or, on first use, through two and the
\* loop that forwards between them (event-stream.ts:26-67,
\* register-builtins.ts:82-89).
EventsInOrder ==
  pushed = seen \o Pending(Source, "reader")
           \o (IF route = "lazy" THEN Pending(inner, "forwarder") ELSE <<>>)

\* A delta is added to the block of its own text, thinking or tool call, once
\* and in order, however the calls interleave and by whichever name each chunk
\* calls them (openai-completions.ts:232-287, 373-394; proxy.ts:250-344).
BlocksExact ==
  /\ \A i, j \in DOMAIN message.blocks :
       message.blocks[i].key = message.blocks[j].key => i = j
  /\ \A i \in DOMAIN message.blocks :
       LET text == message.blocks[i].text
       IN  /\ Range(text) = {n \in Sent \ InWire : sent[n] = message.blocks[i].key}
           /\ \A a, b \in DOMAIN text : a < b => text[a] < text[b]

\* the events of block i are: it opens, its deltas in order, it closes
Told(i) ==
  LET mine == {p \in DOMAIN pushed : pushed[p].index = i}
      deltas == {p \in mine : pushed[p].type = "delta"}
  IN  /\ \E o, c \in mine :
           /\ pushed[o] = Event("open", i, 0) /\ pushed[c] = Event("close", i, 0) /\ o < c
           /\ \A p \in mine \ {o, c} : p \in deltas /\ o < p /\ p < c
      /\ {pushed[p].n : p \in deltas} = Range(message.blocks[i].text)
      /\ \A p, q \in deltas : p < q => pushed[p].n < pushed[q].n

\* A response that ends with "done" is whole.  The service said that its answer
\* is complete: a connection that is closed in the middle of it looks like the
\* end, and is no success (openai-completions.ts:414-432).  Every delta it sent
\* is in the message, and the events alone tell the same message, each block
\* opened once, then its deltas, then closed once (types.ts:405-412).
Whole ==
  Answered =>
    /\ reason = "stop"
    /\ UNION {Range(message.blocks[i].text) : i \in DOMAIN message.blocks} = Sent
    /\ Head(pushed) = Start
    /\ \A i \in DOMAIN message.blocks : Told(i)

\* After the user's abort a response cannot complete any more: whatever is
\* still buffered, it ends as aborted (openai-completions.ts:417-419,
\* proxy.ts:189-191, 211-213).
AbortHonoured ==
  [][aborted /\ ~inner.done /\ inner'.done => message'.stop = "aborted"]_vars

\* Every response ends for its reader: with a message, or with the error that
\* refused the request (types.ts:405-412: a stream terminates with done or
\* error).  The client of the proxy lets one down that is cut between two
\* events: it ends the stream without an event that says how.
CutShort == route = "proxy" /\ at = "over" /\ \A i \in DOMAIN pushed : ~IsComplete(pushed[i])

Settles == <>(reader \in {"over", "thrown"} \/ CutShort)
=============================================================================
