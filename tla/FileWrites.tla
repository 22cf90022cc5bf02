----------------------------- MODULE FileWrites ------------------------------
(***************************************************************************)
(* What the write and edit tools promise about the files they change.  A   *)
(* file has one writer at a time, which cuts its text and then completes   *)
(* it or fails and leaves a part.  A completed edit has kept all that was  *)
(* in the file when it began and added its own change; a completed write   *)
(* has replaced the text.  How operations wait for one another is left to  *)
(* FileMutationQueue.                                                      *)
(***************************************************************************)
EXTENDS Sequences, Naturals

CONSTANTS Ops,        \* calls of the write and edit tools
          Edits,      \* those that are edits; the others are writes
          Files,      \* files, each named by its canonical path
          FileOf,     \* FileOf[o]: the file o changes
          Present,    \* the files that exist at the start
          Part        \* what a write that stopped midway leaves

VARIABLES content,    \* content[f]: the changes in the text of f, oldest first
          exists,     \* the files that exist
          text        \* text[o]: the whole text o is writing, or <<>>

vars == <<content, exists, text>>

Init ==
  /\ content = [f \in Files |-> <<>>]
  /\ exists = Present
  /\ text = [o \in Ops |-> <<>>]

\* An edit will add its change to the text of the file as it is now.
Begin(o) ==
  /\ \A q \in Ops : text[q] # <<>> => FileOf[q] # FileOf[o]
  /\ text' = [text EXCEPT ![o] = IF o \in Edits THEN Append(content[FileOf[o]], o)
                                                ELSE <<o>>]
  /\ content' = [content EXCEPT ![FileOf[o]] = <<Part>>]
  /\ exists' = exists \union {FileOf[o]}

Complete(o) ==
  /\ text[o] # <<>>
  /\ content' = [content EXCEPT ![FileOf[o]] = text[o]]
  /\ text' = [text EXCEPT ![o] = <<>>]
  /\ UNCHANGED exists

\* The write fails and leaves the part.
Fail(o) ==
  /\ text[o] # <<>>
  /\ text' = [text EXCEPT ![o] = <<>>]
  /\ UNCHANGED <<content, exists>>

\* A command run outside the tools removes a file, and with it what is
\* being written to it.
Remove(f) ==
  /\ exists' = exists \ {f}
  /\ text' = [o \in Ops |-> IF FileOf[o] = f THEN <<>> ELSE text[o]]
  /\ UNCHANGED content

Next ==
  \/ \E o \in Ops : Begin(o) \/ Complete(o) \/ Fail(o)
  \/ \E f \in Files : Remove(f)

Spec == Init /\ [][Next]_vars
==============================================================================
