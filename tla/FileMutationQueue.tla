-------------------------- MODULE FileMutationQueue --------------------------
(***************************************************************************)
(* The queue that serialises the write and edit tools of the coding agent  *)
(* (core/tools/file-mutation-queue.ts) with the bodies the two tools run   *)
(* under it (write.ts, edit.ts).                                           *)
(*                                                                         *)
(* A call first passes a registration chain, in call order: its turn reads *)
(* the key of its path with realpath, which is asynchronous, and then      *)
(* appends it to the chain of that key.  It runs its body when the         *)
(* operation before it on the key has released it.  The promise chain of   *)
(* registrations is the pair of counters issued and served: ticket[o] is   *)
(* the place of o in it.  A path of a missing file has no realpath and its *)
(* key is then the path itself, whatever links it goes through.            *)
(*                                                                         *)
(* No name is one of AuthStorage, so that a module can extend both.        *)
(*                                                                         *)
(* A definition introduced as a mistaken variant is in no specification:   *)
(* put in the place of the one after it, it breaks a property.             *)
(***************************************************************************)
EXTENDS Naturals, Sequences, FiniteSets

CONSTANTS Ops,           \* calls of the write and edit tools
          Edits,         \* those that are edits; the others are writes
          Paths,         \* absolute paths, after resolve()
          Real,          \* Real[p]: p with every symbolic link followed
          PathOf,        \* PathOf[o]: the path o is called with
          Present,       \* the files that exist at the start
          Removable,     \* those something outside the tools may remove
          MaxRemovals,   \* bound: files removed from outside the tools
          Part,          \* what a write that stopped midway leaves in a file
          NoOp           \* no predecessor, or no entry in the map

ASSUME QueueAssumption ==
  /\ Edits \subseteq Ops
  /\ Real \in [Paths -> Paths]
  /\ \A p \in Paths : Real[Real[p]] = Real[p]
  /\ PathOf \in [Ops -> Paths]
  /\ Present \subseteq {Real[p] : p \in Paths}
  /\ Removable \subseteq {Real[p] : p \in Paths}
  /\ MaxRemovals \in Nat
  /\ NoOp \notin Ops
  /\ Part \notin Ops

Files == {Real[p] : p \in Paths}
File(o) == Real[PathOf[o]]

VARIABLES issued,     \* registrations appended to registrationQueue so far
          served,     \* registrations of it that have settled
          ticket,     \* ticket[o]: place of o among the registrations, or 0
          phase,      \* phase[o]: where withFileMutationQueue is for o
          key,        \* key[o]: what getMutationQueueKey returned
          pred,       \* pred[o]: the operation whose chain is o's currentQueue
          tail,       \* fileMutationQueues: the last operation of each key
          exists,     \* the files that exist
          content,    \* content[f]: the changes in the text of f, oldest first
          buf,        \* buf[o]: the text the edit o has read
          removals    \* files removed so far

queueVars == <<issued, served, ticket, phase, key, pred, tail, exists, content, buf,
               removals>>

\* A body is "running" until it reads or writes, "writing" while writeFile has
\* the file open, "unlinked" if the file is removed meanwhile.
Phases == {"idle", "called", "resolved", "queued", "running", "read", "writing",
           "unlinked", "written", "done", "failed"}

\* The operations whose body is between its start and its release.
Inside == {o \in Ops :
             phase[o] \in {"running", "read", "writing", "unlinked", "written"}}

\* The operations that have an entry in the chain of their key.
Enqueued == {o \in Ops : phase[o] \in {"queued", "running", "read", "writing",
                                       "unlinked", "written", "done"}}

QueueInit ==
  /\ issued = 0 /\ served = 0
  /\ ticket = [o \in Ops |-> 0]
  /\ phase = [o \in Ops |-> "idle"]
  /\ key = [o \in Ops |-> PathOf[o]]
  /\ pred = [o \in Ops |-> NoOp]
  /\ tail = [p \in Paths |-> NoOp]
  /\ exists = Present
  /\ content = [f \in Files |-> <<>>]
  /\ buf = [o \in Ops |-> <<>>]
  /\ removals = 0

\* A tool calls withFileMutationQueue, which appends to registrationQueue.
Call(o) ==
  /\ phase[o] = "idle"
  /\ issued' = issued + 1
  /\ ticket' = [ticket EXCEPT ![o] = issued + 1]
  /\ phase' = [phase EXCEPT ![o] = "called"]
  /\ UNCHANGED <<served, key, pred, tail, exists, content, buf, removals>>

\* Mistaken variant: the path itself, links not followed.
LexicalKey(o) == PathOf[o]

\* realpath, or the resolved path when the file is missing.
MutationQueueKey(o) == IF File(o) \in exists THEN File(o) ELSE PathOf[o]

\* The callback of o's registration runs once those before it have settled.
Turn(o) == phase[o] = "called" /\ ticket[o] = served + 1

\* The key is read from the file system as it is at this moment.
Resolve(o) ==
  /\ Turn(o)
  /\ key' = [key EXCEPT ![o] = MutationQueueKey(o)]
  /\ phase' = [phase EXCEPT ![o] = "resolved"]
  /\ UNCHANGED <<issued, served, ticket, pred, tail, exists, content, buf,
                 removals>>

\* realpath fails for another reason: the call is rejected and the chain of
\* registrations goes on.
ResolveFails(o) ==
  /\ Turn(o)
  /\ phase' = [phase EXCEPT ![o] = "failed"]
  /\ served' = served + 1
  /\ UNCHANGED <<issued, ticket, key, pred, tail, exists, content, buf, removals>>

\* Back from realpath: o becomes the last of its key.
Enqueue(o) ==
  /\ phase[o] = "resolved"
  /\ pred' = [pred EXCEPT ![o] = tail[key[o]]]
  /\ tail' = [tail EXCEPT ![key[o]] = o]
  /\ phase' = [phase EXCEPT ![o] = "queued"]
  /\ served' = served + 1
  /\ UNCHANGED <<issued, ticket, key, exists, content, buf, removals>>

\* Mistaken variant: no wait for currentQueue.
ReleasedAlways(o) == TRUE

\* currentQueue has resolved: there was none, or its operation released it.
Released(o) == pred[o] = NoOp \/ (pred[o] \in Ops /\ phase[pred[o]] = "done")

Start(o) ==
  /\ phase[o] = "queued" /\ Released(o)
  /\ phase' = [phase EXCEPT ![o] = "running"]
  /\ UNCHANGED <<issued, served, ticket, key, pred, tail, exists, content, buf,
                 removals>>

\* edit.ts reads the whole file.
Read(o) ==
  /\ phase[o] = "running" /\ o \in Edits /\ File(o) \in exists
  /\ buf' = [buf EXCEPT ![o] = content[File(o)]]
  /\ phase' = [phase EXCEPT ![o] = "read"]
  /\ UNCHANGED <<issued, served, ticket, key, pred, tail, exists, content,
                 removals>>

\* What o writes: a write its text, an edit what it read with its change.
Text(o) == IF o \in Edits THEN Append(buf[o], o) ELSE <<o>>

\* Both tools write the whole file with writeFile, which first opens it: the
\* file is created or its text cut, and from here on only part of it is there.
Open(o) ==
  /\ \/ phase[o] = "read" /\ o \in Edits
     \/ phase[o] = "running" /\ o \notin Edits
  /\ content' = [content EXCEPT ![File(o)] = <<Part>>]
  /\ exists' = exists \union {File(o)}
  /\ phase' = [phase EXCEPT ![o] = "writing"]
  /\ UNCHANGED <<issued, served, ticket, key, pred, tail, buf, removals>>

\* writeFile has written the whole text, which is lost if the file it opened
\* has been removed.
Write(o) ==
  /\ phase[o] \in {"writing", "unlinked"}
  /\ content' = IF phase[o] = "writing" THEN [content EXCEPT ![File(o)] = Text(o)]
                                        ELSE content
  /\ phase' = [phase EXCEPT ![o] = "written"]
  /\ UNCHANGED <<issued, served, ticket, key, pred, tail, exists, buf, removals>>

\* The body returns, or throws at an abort check or because access, mkdir,
\* the read, the match of the old text or the write failed, the latter with
\* part of the text written; the finally block releases the next operation
\* and drops the key if no other joined it.
Finish(o) ==
  /\ o \in Inside
  /\ phase' = [phase EXCEPT ![o] = "done"]
  /\ tail' = IF tail[key[o]] = o THEN [tail EXCEPT ![key[o]] = NoOp] ELSE tail
  /\ UNCHANGED <<issued, served, ticket, key, pred, exists, content, buf, removals>>

\* A bash command or another program removes a file; what writes it goes on
\* writing to the file it has opened, which has no name any more.
Remove(f) ==
  /\ removals < MaxRemovals /\ f \in exists \intersect Removable
  /\ exists' = exists \ {f}
  /\ phase' = [o \in Ops |-> IF phase[o] = "writing" /\ File(o) = f THEN "unlinked"
                                                                     ELSE phase[o]]
  /\ removals' = removals + 1
  /\ UNCHANGED <<issued, served, ticket, key, pred, tail, content, buf>>

Step(o) == \/ Resolve(o) \/ ResolveFails(o) \/ Enqueue(o)
           \/ Start(o) \/ Read(o) \/ Open(o) \/ Write(o) \/ Finish(o)

\* Every call has returned.
Settled == \A o \in Ops : phase[o] \in {"done", "failed"}

QueueNext ==
  \/ \E o \in Ops : Call(o) \/ Step(o)
  \/ \E f \in Files : Remove(f)
  \/ Settled /\ UNCHANGED queueVars

\* File-system calls settle and the event loop runs every ready callback.
QueueFairness == \A o \in Ops : WF_queueVars(Step(o))

QueueSpec == QueueInit /\ [][QueueNext]_queueVars /\ QueueFairness

------------------------------------------------------------------------------
(* Properties *)

Texts == Seq(Ops \union {Part})

QueueTypeOK ==
  /\ issued \in Nat /\ served \in Nat
  /\ ticket \in [Ops -> Nat]
  /\ phase \in [Ops -> Phases]
  /\ key \in [Ops -> Paths]
  /\ pred \in [Ops -> Ops \union {NoOp}]
  /\ tail \in [Paths -> Ops \union {NoOp}]
  /\ exists \subseteq Files
  /\ content \in [Files -> Texts]
  /\ buf \in [Ops -> Texts]
  /\ removals \in 0..MaxRemovals

\* Two operations with one key are never inside their bodies together,
\* although map entries are dropped and made anew between them.
KeyExclusion ==
  \A o1, o2 \in Inside : key[o1] = key[o2] => o1 = o2

\* On one key, operations start in the order of their calls, even though the
\* key is only known after an asynchronous realpath.
StartOrder ==
  \A o1, o2 \in Enqueued :
    key[o1] = key[o2] /\ ticket[o1] < ticket[o2] /\ phase[o2] # "queued"
      => phase[o1] = "done"

\* The map keeps an entry exactly while an operation of that key is
\* unfinished: it neither leaks nor forgets a chain that is still needed.
MapIsExact ==
  \A p \in Paths :
    (tail[p] = NoOp) <=> (\A o \in Enqueued : key[o] = p => phase[o] = "done")

\* "Serialize file mutation operations targeting the same file": by the file,
\* whatever paths the calls name it by.
FileExclusion ==
  \A o1, o2 \in Inside : File(o1) = File(o2) => o1 = o2

\* Between an edit's read and its write nobody else writes the file, so the
\* write loses no change.
NoLostUpdate ==
  \A o \in Ops : phase[o] = "read" => buf[o] = content[File(o)]

\* The tools write a file one at a time: an edit keeps all that was in the
\* file when it opened it, and only a write that failed leaves part of a text.
Writes == INSTANCE FileWrites
            WITH FileOf <- [o \in Ops |-> File(o)],
                 text <- [o \in Ops |-> IF phase[o] = "writing" THEN Text(o) ELSE <<>>]
WritesInTurn == Writes!Spec
==============================================================================
