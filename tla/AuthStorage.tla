------------------------------ MODULE AuthStorage ------------------------------
(***************************************************************************)
(* Credentials that several instances of the program keep in one auth.json *)
(* (packages/coding-agent/src/core/auth-storage.ts).                       *)
(*                                                                         *)
(* A job is what an instance does with the file while its event loop       *)
(* stands still: make the file, take the lock, read, write.  A call of     *)
(* getApiKey() that finds its token expired takes the lock by waiting for  *)
(* it and keeps it while the provider is asked for a new one.  Between two *)
(* steps of an instance come those of the others.                          *)
(*                                                                         *)
(* A credential is a number, 0 for none.  A file that does not parse acts  *)
(* like a lock that is not had: an error is recorded and nothing changes.  *)
(* Environment variables, overrides and fallbacks are read only.           *)
(*                                                                         *)
(* A definition introduced as a mistaken variant is in no specification:   *)
(* put in the place of the one after it, it breaks a property.             *)
(***************************************************************************)
EXTENDS Naturals, FiniteSets

CONSTANTS Instances, Calls,
          Owner,       \* the instance that makes each call
          MaxSets,     \* bound: credentials set or removed, and reloads asked for
          MaxExpiries, \* bound: tokens that expire, beside the first
          MaxFailures, \* bound: requests for a new token that are refused, and that
                       \* are carried out but fail
          MaxCrashes   \* bound: instances that are killed

Nobody == "nobody"
Gone == "gone"       \* a holder that is no more

ASSUME AuthStorageAssumption ==
  /\ Owner \in [Calls -> Instances]
  /\ Instances \cap Calls = {} /\ {Nobody, Gone} \cap (Instances \cup Calls) = {}
  /\ {MaxSets, MaxExpiries, MaxFailures, MaxCrashes} \subseteq Nat

VARIABLES file,      \* the credentials in auth.json, or NoFile
          lock,      \* who has the lock, and whether its last sign of life is old
          data,      \* the credentials each instance knows
          loadError, \* instances whose last reload failed
          job,       \* what each instance does with the file
          call,      \* the calls that refresh a token
          expired,   \* tokens that have expired
          spent,     \* tokens the provider has replaced
          again,     \* how often the provider has replaced a spent one
          next,      \* the next credential
          saved,     \* the last credentials that were written, provider by provider
          emptied,   \* an empty file took the place of one, by a kill within a write or
                     \* by an instance that had found none
          late,      \* the lock of a call was taken for stale
          used       \* sets, expiries, failures, lost answers and crashes so far

disk == <<file, lock>>
memory == <<data, loadError>>
tokens == <<expired, spent, again>>
ghosts == <<saved, emptied, late>>
vars == <<disk, memory, job, call, tokens, next, ghosts, used>>

Kinds == {"set", "expiry", "failure", "lost", "crash"}
Providers == {"oauth", "key"}
Empty == [p \in Providers |-> 0]
NoFile == [p \in {} |-> 0]
First == [p \in Providers |-> IF p = "oauth" THEN 1 ELSE 2]
Content == IF file = NoFile THEN Empty ELSE file

NoJob == [kind |-> "none", at |-> "off", for |-> Nobody, p |-> "key", v |-> 0, merged |-> Empty]
Job(kind, for) == [NoJob EXCEPT !.kind = kind, !.at = "ensure", !.for = for]
NoCall == [at |-> "off", failed |-> FALSE, lost |-> FALSE, read |-> Empty, token |-> 0]
Answered == [NoCall EXCEPT !.at = "done"]
Unlocked == [by |-> Nobody, aged |-> FALSE]
Locked(by) == [by |-> by, aged |-> FALSE]

\* A holder that shows no sign of life is taken for dead.
Stale == lock.by = Gone \/ lock.aged

\* An instance loads the file, if there is one, when it starts.
Init ==
  /\ file \in {First, NoFile}
  /\ lock = Unlocked
  /\ data = [i \in Instances |-> Empty] /\ loadError = {}
  /\ job = [i \in Instances |-> Job("reload", Nobody)]
  /\ call = [c \in Calls |-> NoCall]
  /\ expired = {1} /\ spent = {} /\ again = 0 /\ next = 3
  /\ saved = Content /\ emptied = FALSE /\ late = FALSE
  /\ used = [kind \in Kinds |-> 0]

Spend(kind, bound) == used[kind] < bound /\ used' = [used EXCEPT ![kind] = @ + 1]
Running(i) == job[i].at # "off"
JobAt(i, step) == job[i].at = step
Goes(i, step) == job' = [job EXCEPT ![i].at = step]

\* The end of a job, on which a call may wait: for the file, or for what the
\* instance knows after a failed refresh.
Ends(i) ==
  /\ job' = [job EXCEPT ![i] = NoJob]
  /\ call' = IF job[i].for = Nobody THEN call
             ELSE [call EXCEPT ![job[i].for] =
                     IF job[i].kind = "ensure" THEN [@ EXCEPT !.at = "lock"] ELSE Answered]

------------------------------------------------------------------------------
(* set(), remove() and reload() *)

\* The credential is known at once and then saved, unless the last reload failed.
Set(i) ==
  /\ ~Running(i) /\ Spend("set", MaxSets)
  /\ \E p \in Providers, v \in {0, next} :
       /\ data' = [data EXCEPT ![i][p] = v]
       /\ job' = IF i \in loadError THEN job
                 ELSE [job EXCEPT ![i] = [Job("set", Nobody) EXCEPT !.p = p, !.v = v]]
  /\ next' = next + 1
  /\ UNCHANGED <<disk, loadError, call, tokens, saved, emptied, late>>

Reload(i) ==
  /\ ~Running(i) /\ i \in loadError /\ Spend("set", MaxSets)
  /\ job' = [job EXCEPT ![i] = Job("reload", Nobody)]
  /\ UNCHANGED <<disk, memory, call, tokens, next, ghosts>>

\* A file that is missing is made, without the lock and in two steps.
Ensure(i) ==
  /\ JobAt(i, "ensure")
  /\ IF file = NoFile THEN Goes(i, "create") /\ UNCHANGED call
     ELSE IF job[i].kind = "ensure" THEN Ends(i)
     ELSE Goes(i, "lock") /\ UNCHANGED call
  /\ UNCHANGED <<disk, memory, tokens, next, ghosts, used>>

Create(i) ==
  /\ JobAt(i, "create")
  /\ file' = Empty
  /\ emptied' = (emptied \/ file # NoFile)
  /\ IF job[i].kind = "ensure" THEN Ends(i) ELSE Goes(i, "lock") /\ UNCHANGED call
  /\ UNCHANGED <<lock, memory, tokens, next, saved, late, used>>

\* A lock is tried for a fifth of a second; of a holder that gave no sign of life
\* for some time it is taken over.
JobLocks(i) ==
  /\ JobAt(i, "lock")
  /\ lock.by = Nobody \/ Stale
  /\ lock' = Locked(i) /\ Goes(i, "read")
  /\ UNCHANGED <<file, memory, call, tokens, next, ghosts, used>>

\* A job gives up on a lock that is held, by a call of its own instance too.
Held == lock.by # Nobody

JobGivesUp(i) ==
  /\ JobAt(i, "lock") /\ Held
  /\ loadError' = IF job[i].kind = "reload" THEN loadError \cup {i} ELSE loadError
  /\ Ends(i)
  /\ UNCHANGED <<disk, data, tokens, next, ghosts, used>>

\* What is saved is what the file holds, with the one credential changed; mistaken
\* variant: what the instance knows.
MergedOwn(i) == [data[i] EXCEPT ![job[i].p] = job[i].v]
Merged(i) == [Content EXCEPT ![job[i].p] = job[i].v]

JobReads(i) ==
  /\ JobAt(i, "read")
  /\ IF job[i].kind = "reload"
       THEN /\ data' = [data EXCEPT ![i] = Content] /\ loadError' = loadError \ {i}
            /\ lock' = Unlocked /\ Ends(i)
       ELSE /\ job' = [job EXCEPT ![i].merged = Merged(i), ![i].at = "write"]
            /\ UNCHANGED <<lock, memory, call>>
  /\ UNCHANGED <<file, tokens, next, ghosts, used>>

JobWrites(i) ==
  /\ JobAt(i, "write")
  /\ file' = job[i].merged
  /\ saved' = [saved EXCEPT ![job[i].p] = job[i].v]
  /\ lock' = Unlocked /\ Ends(i)
  /\ UNCHANGED <<memory, tokens, next, emptied, late, used>>

------------------------------------------------------------------------------
(* getApiKey() of a token that has expired *)

At(c, step) == call[c].at = step /\ ~Running(Owner[c])
To(c, step) == call' = [call EXCEPT ![c].at = step]

Ask(c) ==
  /\ At(c, "off") /\ data[Owner[c]]["oauth"] \in expired
  /\ To(c, "ensure")
  /\ job' = [job EXCEPT ![Owner[c]] = Job("ensure", c)]
  /\ UNCHANGED <<disk, memory, tokens, next, ghosts, used>>

CallLocks(c) ==
  /\ At(c, "lock") /\ lock.by \in {Nobody, Gone}
  /\ lock' = Locked(c) /\ To(c, "read")
  /\ UNCHANGED <<file, memory, job, tokens, next, ghosts, used>>

\* A call that fails looks into the file once more.
Fails(c) == job' = [job EXCEPT ![Owner[c]] = Job("reload", c)] /\ To(c, "reload")

CallGivesUp(c) ==
  /\ At(c, "lock") /\ lock.by # Nobody
  /\ Fails(c)
  /\ UNCHANGED <<disk, memory, tokens, next, ghosts, used>>

\* Another instance may have refreshed the token meanwhile: the one that counts is
\* in the file; mistaken variant: the one the call found expired.
TokenKnown(c) == data[Owner[c]]["oauth"]
Token(c) == Content["oauth"]

CallReads(c) ==
  /\ At(c, "read")
  /\ data' = [data EXCEPT ![Owner[c]] = Content] /\ loadError' = loadError \ {Owner[c]}
  /\ call' = [call EXCEPT ![c].read = Content, ![c].token = Token(c),
                          ![c].at = IF Token(c) \in expired THEN "asked" ELSE "release"]
  /\ UNCHANGED <<disk, job, tokens, next, ghosts, used>>

\* The holder of a lock shows from time to time that it lives, and finds out then
\* whether the lock was taken over; Age is the time between, when the provider takes
\* longer than lockSync() waits before it takes a lock for stale.
Age ==
  /\ \E c \in Calls : lock.by = c /\ At(c, "asked")
  /\ ~lock.aged /\ lock' = [lock EXCEPT !.aged = TRUE]
  /\ late' = TRUE
  /\ UNCHANGED <<file, memory, job, call, tokens, next, saved, emptied, used>>

Touch(c) ==
  /\ At(c, "asked") /\ ~call[c].lost
  /\ lock.aged \/ lock.by # c
  /\ IF lock.by = c THEN lock' = Locked(c) /\ UNCHANGED call
                    ELSE call' = [call EXCEPT ![c].lost = TRUE] /\ UNCHANGED lock
  /\ UNCHANGED <<file, memory, job, tokens, next, ghosts, used>>

\* The provider takes the token and answers with a new one.
Replaced(token) ==
  /\ spent' = spent \cup {token}
  /\ again' = IF token \in spent THEN again + 1 ELSE again

\* The new token is saved with what was read before, unless the lock is known to be lost.
Refreshed(c) == [call[c].read EXCEPT !["oauth"] = next]

Answer(c) ==
  /\ At(c, "asked")
  /\ Replaced(call[c].token)
  /\ data' = [data EXCEPT ![Owner[c]] = Refreshed(c)] /\ loadError' = loadError \ {Owner[c]}
  /\ IF call[c].lost
       THEN UNCHANGED <<file, saved>>
       ELSE /\ file' = Refreshed(c)
            /\ saved' = [saved EXCEPT !["oauth"] = next]
  /\ call' = [call EXCEPT ![c].at = "release", ![c].failed = call[c].lost]
  /\ next' = next + 1
  /\ UNCHANGED <<lock, job, expired, emptied, late, used>>

Fail(c) == call' = [call EXCEPT ![c].at = "release", ![c].failed = TRUE]

Refused(c) ==
  /\ At(c, "asked") /\ Spend("failure", MaxFailures)
  /\ Fail(c)
  /\ UNCHANGED <<disk, memory, job, tokens, next, ghosts>>

\* The provider has taken the token, but its answer comes too late, is cut or
\* cannot be read: the new token is known to nobody.
Unanswered(c) ==
  /\ At(c, "asked") /\ Spend("lost", MaxFailures)
  /\ Replaced(call[c].token)
  /\ Fail(c)
  /\ UNCHANGED <<disk, memory, job, expired, next, ghosts>>

\* The lock is given back by its path, whoever has it now, unless it is known to be lost.
Releases(c) == IF call[c].lost THEN lock ELSE Unlocked

Release(c) ==
  /\ At(c, "release")
  /\ lock' = Releases(c)
  /\ IF call[c].failed THEN Fails(c) ELSE call' = [call EXCEPT ![c] = Answered] /\ UNCHANGED job
  /\ UNCHANGED <<file, memory, tokens, next, ghosts, used>>

------------------------------------------------------------------------------
Expire ==
  /\ Spend("expiry", MaxExpiries)
  /\ Content["oauth"] \notin expired \cup {0}
  /\ expired' = expired \cup {Content["oauth"]}
  /\ UNCHANGED <<disk, memory, job, call, spent, again, next, ghosts>>

\* An instance is killed and started again.  A write that is cut leaves an empty
\* file; a request for a token may have been answered.
Crash(i) ==
  /\ Spend("crash", MaxCrashes)
  /\ LET mine == {c \in Calls : Owner[c] = i}
         asking == {c \in mine : call[c].at = "asked"}
         writing == JobAt(i, "write") \/ (asking # {} /\ ~Running(i))
     IN  /\ lock' = IF lock.by \in mine \cup {i} THEN [lock EXCEPT !.by = Gone] ELSE lock
         /\ call' = [c \in Calls |-> IF c \in mine /\ call[c] # NoCall THEN Answered ELSE call[c]]
         /\ \E cut \in {FALSE, writing} :
              /\ emptied' = (emptied \/ cut)
              /\ file' = IF cut THEN Empty ELSE file
         /\ UNCHANGED <<spent, again>> \/ \E c \in asking : Replaced(call[c].token)
  /\ data' = [data EXCEPT ![i] = Empty] /\ loadError' = loadError \ {i}
  /\ job' = [job EXCEPT ![i] = Job("reload", Nobody)]
  /\ UNCHANGED <<expired, next, saved, late>>

JobStep(i) == Ensure(i) \/ Create(i) \/ JobLocks(i) \/ JobGivesUp(i) \/ JobReads(i) \/ JobWrites(i)
CallStep(c) ==
  CallLocks(c) \/ CallGivesUp(c) \/ CallReads(c) \/ Touch(c) \/ Release(c)
  \/ Answer(c) \/ Refused(c) \/ Unanswered(c)

Next ==
  \/ \E i \in Instances : Set(i) \/ Reload(i) \/ JobStep(i) \/ Crash(i)
  \/ \E c \in Calls : Ask(c) \/ CallStep(c)
  \/ Age \/ Expire

\* Retries for a lock are bounded, and a provider answers.
Fairness ==
  /\ \A i \in Instances : WF_vars(JobStep(i))
  /\ \A c \in Calls : WF_vars(CallStep(c)) /\ WF_vars(Answer(c) \/ Refused(c) \/ Unanswered(c))

Spec == Init /\ [][Next]_vars /\ Fairness

------------------------------------------------------------------------------
(* Properties *)

Credentials == [Providers -> Nat]
Holders == Instances \cup Calls \cup {Nobody, Gone}
Jobs == [kind : {"none", "ensure", "reload", "set"},
         at : {"off", "ensure", "create", "lock", "read", "write"},
         for : Calls \cup {Nobody}, p : Providers, v : Nat, merged : Credentials]
States == [at : {"off", "ensure", "lock", "read", "asked", "release", "reload", "done"},
           failed : BOOLEAN, lost : BOOLEAN, read : Credentials, token : Nat]

\* What each variable may hold.
TypeOK ==
  /\ file \in {NoFile} \cup Credentials
  /\ lock \in [by : Holders, aged : BOOLEAN]
  /\ data \in [Instances -> Credentials] /\ loadError \subseteq Instances
  /\ job \in [Instances -> Jobs] /\ call \in [Calls -> States]
  /\ expired \subseteq Nat \ {0} /\ spent \subseteq Nat
  /\ again \in Nat /\ next \in Nat \ {0}
  /\ saved \in Credentials /\ emptied \in BOOLEAN /\ late \in BOOLEAN
  /\ used \in [Kinds -> Nat]

\* What one instance saves of one provider stays in the file until it is changed
\* for that provider, whatever other instances save: but for an empty file that
\* took its place, and for locks taken for stale.
EditsPreserved == emptied \/ late \/ Content = saved

\* A token is exchanged for a new one once, however many calls and instances find
\* it expired at a time: but for those, and for an exchange whose answer is lost on
\* the way or by a kill before it is saved.
RefreshedOnce == emptied \/ late \/ again <= used.crash + used.lost

\* One job or call at a time reads or writes the file under the lock, unless one
\* was taken for stale.
Within ==
  {i \in Instances : JobAt(i, "read") \/ JobAt(i, "write")}
    \cup {c \in Calls : call[c].at \in {"read", "asked"}}

Exclusive == late \/ \A h \in Within, g \in Within : h = g
==============================================================================
