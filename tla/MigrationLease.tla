--------------------------- MODULE MigrationLease ---------------------------
(***************************************************************************)
(* PostgresMigrationLease (src/lease.rs): the session advisory lock that   *)
(* serialises migrations of one PostgreSQL database, and the execution of  *)
(* a script statement by statement on the connection that holds it.        *)
(*                                                                         *)
(* A member of Leases is one call of PostgresMigrationLease::acquire: one  *)
(* connection, one server session, at most one script (every caller in     *)
(* src/ applies one).  Every SQL round trip of the code is a step.  The    *)
(* other side of the connection is modelled too: a session can be killed,  *)
(* a connection can break while a statement runs, the session of a dropped *)
(* connection outlives it until the server notices.                        *)
(*                                                                         *)
(* A statement is abstracted to its kind, all the properties can tell:     *)
(*   "begin", "commit"   transaction control written in the script         *)
(*   "work"              any other statement                               *)
(*   "unlock"            a statement that releases its own session's lock  *)
(*                       through dynamic SQL the textual guard cannot see  *)
(*   "control"           the same, spelled out                             *)
(***************************************************************************)
EXTENDS Naturals, Sequences

CONSTANTS Leases, NoLease, Scripts

Kinds == {"begin", "commit", "work", "unlock", "control"}
Unlocking == {"unlock", "control"}
Durable == {"work", "unlock", "control"}

(* Position i of script s lies inside a BEGIN ... COMMIT block. *)
InBlock(s, i) ==
  \E b \in 1..(i - 1) :
     s[b] = "begin" /\ \A j \in (b + 1)..(i - 1) : s[j] # "commit"

(* The scripts of emit.rs open one transaction at a time and close it.     *)
Balanced(s) ==
  /\ \A i \in 1..Len(s) : /\ s[i] = "begin" => ~InBlock(s, i)
                          /\ s[i] = "commit" => InBlock(s, i)
  /\ ~InBlock(s, Len(s) + 1)

ASSUME LeaseAssumption == NoLease \notin Leases
ASSUME ScriptAssumption == \A s \in Scripts : s \in Seq(Kinds) /\ Balanced(s)

VARIABLES
  phase,      \* where lease l's code stands between two awaits
  outcome,    \* what the last call on lease l returned
  script,     \* the ValidatedScript being applied, << >> before apply
  next,       \* index of the statement at hand
  executed,   \* the lease's executed field
  conn,       \* the connection: "none", "up", "cut" (client side gone), "gone"
  txn,        \* the session's transaction: "idle", "open", "failed"
  running,    \* the session has statement next[l] submitted and unfinished
  pending,    \* durable-to-be entries of the session's open transaction
  lockOwner,  \* the lease whose session holds the advisory lock
  journal     \* durable work <<l, i>> of every lease, in commit order

client == <<phase, outcome, script, next, executed>>
backend == <<txn, running, pending>>
vars == <<client, conn, backend, lockOwner, journal>>

Phases == {"idle", "connected", "verifying", "held", "before", "executing",
           "after", "rollback", "closing", "lost", "done"}
Outcomes == {"none", "refused", "acquired", "applied", "failed",
             "receipt", "unreleased", "abandoned"}
Entries == Leases \X (Nat \ {0})

TypeOK ==
  /\ phase \in [Leases -> Phases]
  /\ outcome \in [Leases -> Outcomes]
  /\ script \in [Leases -> Scripts \cup {<< >>}]
  /\ next \in [Leases -> Nat \ {0}]
  /\ executed \in [Leases -> Nat]
  /\ conn \in [Leases -> {"none", "up", "cut", "gone"}]
  /\ txn \in [Leases -> {"idle", "open", "failed"}]
  /\ running \in [Leases -> BOOLEAN]
  /\ pending \in [Leases -> Seq(Entries)]
  /\ lockOwner \in Leases \cup {NoLease}
  /\ journal \in Seq(Entries)

Init ==
  /\ phase = [l \in Leases |-> "idle"]
  /\ outcome = [l \in Leases |-> "none"]
  /\ script = [l \in Leases |-> << >>]
  /\ next = [l \in Leases |-> 1]
  /\ executed = [l \in Leases |-> 0]
  /\ conn = [l \in Leases |-> "none"]
  /\ txn = [l \in Leases |-> "idle"]
  /\ running = [l \in Leases |-> FALSE]
  /\ pending = [l \in Leases |-> << >>]
  /\ lockOwner = NoLease
  /\ journal = << >>

-----------------------------------------------------------------------------
(* Helpers: what one step does to lease l. *)

Go(l, to) == phase' = [phase EXCEPT ![l] = to]

Return(l, to, what) ==
  /\ Go(l, to)
  /\ outcome' = [outcome EXCEPT ![l] = what]

\* Mutant: a dropped lease leaves its connection behind.
HangUpLeaked(l) == conn' = conn

(* Closing or dropping a connection ends the client's side only. *)
HangUp(l) == conn' = [conn EXCEPT ![l] = IF @ = "up" THEN "cut" ELSE @]

Kind(l) == script[l][next[l]]

(***************************************************************************)
(* ValidatedScript::parse: at least one statement, none that spells out a  *)
(* lease-control call.                                                     *)
(***************************************************************************)
ValidatedScript(s) ==
  /\ s # << >>
  /\ \A i \in 1..Len(s) : s[i] # "control"

\* Mutant: a ping of the session instead of a look at its lock.
SessionVerified(l) == conn[l] = "up" /\ txn[l] # "failed"

(***************************************************************************)
(* ensure_session_lease_held: pg_locks shows the lock on this very session *)
(* -- or the call is an error, because the lock is gone or because the     *)
(* query failed (broken connection, cancelled, failed transaction); a      *)
(* failed query fails the transaction it ran in.                           *)
(***************************************************************************)
LeaseVerified(l) ==
  /\ conn[l] = "up"
  /\ txn[l] # "failed"
  /\ lockOwner = l

LeaseUnverified(l) ==
  \/ /\ lockOwner # l
     /\ UNCHANGED txn
  \/ txn' = [txn EXCEPT ![l] = IF conn[l] = "up" /\ @ = "open"
                                  THEN "failed" ELSE @]

-----------------------------------------------------------------------------
(* PostgresMigrationLease::acquire *)

Connect(l) ==
  /\ phase[l] = "idle"
  /\ \/ /\ Go(l, "connected")
        /\ conn' = [conn EXCEPT ![l] = "up"]
        /\ UNCHANGED outcome
     \/ /\ Return(l, "done", "refused")
        /\ UNCHANGED conn
  /\ UNCHANGED <<script, next, executed, backend, lockOwner, journal>>

\* Mutant: the blocking pg_advisory_lock.
BlockingLock(l) ==
  /\ phase[l] = "connected"
  /\ \/ /\ conn[l] = "up" /\ lockOwner = NoLease
        /\ lockOwner' = l
        /\ Go(l, "verifying")
        /\ UNCHANGED <<conn, outcome>>
     \/ /\ conn[l] # "up"
        /\ Return(l, "done", "refused")
        /\ HangUp(l)
        /\ UNCHANGED lockOwner
  /\ UNCHANGED <<script, next, executed, backend, journal>>

TryLock(l) ==
  /\ phase[l] = "connected"
  /\ \/ /\ conn[l] = "up" /\ lockOwner = NoLease
        /\ lockOwner' = l
        /\ Go(l, "verifying")
        /\ UNCHANGED <<conn, outcome>>
     \/ /\ conn[l] # "up" \/ lockOwner # NoLease
        /\ Return(l, "done", "refused")
        /\ HangUp(l)
        /\ UNCHANGED lockOwner
  /\ UNCHANGED <<script, next, executed, backend, journal>>

VerifyAcquired(l) ==
  /\ phase[l] = "verifying"
  /\ \/ /\ LeaseVerified(l)
        /\ Return(l, "held", "acquired")
        /\ UNCHANGED <<conn, txn>>
     \/ /\ LeaseUnverified(l)
        /\ Return(l, "done", "refused")
        /\ HangUp(l)
  /\ UNCHANGED <<script, next, executed, running, pending, lockOwner, journal>>

-----------------------------------------------------------------------------
(* PostgresMigrationLease::apply *)

Apply(l, s) ==
  /\ phase[l] = "held"
  /\ script[l] = << >>
  /\ ValidatedScript(s)
  /\ script' = [script EXCEPT ![l] = s]
  /\ Go(l, "before")
  /\ UNCHANGED <<outcome, next, executed, conn, backend, lockOwner, journal>>

(* A lost lease is an error here, returned without a ROLLBACK. *)
CheckBefore(l) ==
  /\ phase[l] = "before"
  /\ \/ /\ LeaseVerified(l)
        /\ Go(l, "executing")
        /\ running' = [running EXCEPT ![l] = TRUE]
        /\ UNCHANGED <<outcome, txn>>
     \/ /\ LeaseUnverified(l)
        /\ Return(l, "held", "failed")
        /\ UNCHANGED running
  /\ UNCHANGED <<script, next, executed, conn, pending, lockOwner, journal>>

(* The submitted statement reaches its unlock while it runs. *)
SelfUnlock(l) ==
  /\ running[l] /\ Kind(l) \in Unlocking
  /\ lockOwner = l
  /\ lockOwner' = NoLease
  /\ UNCHANGED <<client, conn, backend, journal>>

(* What PostgreSQL does with a statement that completes. *)
Completes(l) ==
  \/ /\ Kind(l) = "begin"
     /\ txn' = [txn EXCEPT ![l] = "open"]
     /\ UNCHANGED <<pending, journal>>
  \/ /\ Kind(l) = "commit"
     /\ txn' = [txn EXCEPT ![l] = "idle"]
     /\ pending' = [pending EXCEPT ![l] = << >>]
     /\ journal' = journal \o pending[l]
  \/ /\ Kind(l) \in Durable
     /\ Kind(l) \in Unlocking => lockOwner # l
     /\ IF txn[l] = "open"
          THEN /\ pending' = [pending EXCEPT ![l] = Append(@, <<l, next[l]>>)]
               /\ UNCHANGED journal
          ELSE /\ journal' = Append(journal, <<l, next[l]>>)
               /\ UNCHANGED pending
     /\ UNCHANGED txn

Fails(l) ==
  /\ txn' = [txn EXCEPT ![l] = IF @ = "open" THEN "failed" ELSE @]
  /\ UNCHANGED <<pending, journal>>

\* Mutant: a failed statement does not end the loop.
ExecuteRegardless(l) ==
  /\ running[l]
  /\ running' = [running EXCEPT ![l] = FALSE]
  /\ Completes(l) \/ Fails(l)
  /\ IF conn[l] = "up" THEN Go(l, "after") ELSE UNCHANGED phase
  /\ UNCHANGED <<outcome, script, next, executed, conn, lockOwner>>

(* The session finishes the statement; on a cut connection nobody hears it. *)
Execute(l) ==
  /\ running[l]
  /\ running' = [running EXCEPT ![l] = FALSE]
  /\ \/ /\ Completes(l)
        /\ IF conn[l] = "up" THEN Go(l, "after") ELSE UNCHANGED phase
     \/ /\ Fails(l)
        /\ IF conn[l] = "up" THEN Go(l, "rollback") ELSE UNCHANGED phase
  /\ UNCHANGED <<outcome, script, next, executed, conn, lockOwner>>

(* The connection broke under execute(): an error like any other. *)
ExecuteBroken(l) ==
  /\ phase[l] = "executing"
  /\ conn[l] # "up"
  /\ Go(l, "rollback")
  /\ UNCHANGED <<outcome, script, next, executed, conn, backend, lockOwner,
                 journal>>

\* Mutant: no check after the last statement.
SkipAfter(l) ==
  /\ phase[l] = "after"
  /\ IF next[l] < Len(script[l])
       THEN /\ next' = [next EXCEPT ![l] = @ + 1]
            /\ Go(l, "before")
            /\ UNCHANGED <<outcome, executed>>
       ELSE /\ executed' = [executed EXCEPT ![l] = @ + next[l]]
            /\ Return(l, "held", "applied")
            /\ UNCHANGED next
  /\ UNCHANGED <<script, conn, backend, lockOwner, journal>>

CheckAfter(l) ==
  /\ phase[l] = "after"
  /\ \/ /\ LeaseVerified(l)
        /\ IF next[l] < Len(script[l])
             THEN /\ next' = [next EXCEPT ![l] = @ + 1]
                  /\ Go(l, "before")
                  /\ UNCHANGED <<outcome, executed>>
             ELSE /\ executed' = [executed EXCEPT ![l] = @ + next[l]]
                  /\ Return(l, "held", "applied")
                  /\ UNCHANGED next
        /\ UNCHANGED txn
     \/ /\ LeaseUnverified(l)
        /\ Go(l, "rollback")
        /\ UNCHANGED <<outcome, next, executed>>
  /\ UNCHANGED <<script, conn, running, pending, lockOwner, journal>>

\* Mutant: a failed migration starts over with a new connection.
RollbackAndRetry(l) ==
  /\ phase[l] = "rollback"
  /\ Return(l, "idle", "none")
  /\ HangUp(l)
  /\ UNCHANGED <<script, next, executed, backend, lockOwner, journal>>

(* ROLLBACK is sent on the lease's connection and its own error ignored.   *)
Rollback(l) ==
  /\ phase[l] = "rollback"
  /\ IF conn[l] = "up"
       THEN /\ txn' = [txn EXCEPT ![l] = "idle"]
            /\ pending' = [pending EXCEPT ![l] = << >>]
       ELSE UNCHANGED <<txn, pending>>
  /\ Return(l, "held", "failed")
  /\ UNCHANGED <<script, next, executed, conn, running, lockOwner, journal>>

-----------------------------------------------------------------------------
(* PostgresMigrationLease::release, and Drop *)

\* Mutant: the answer of pg_advisory_unlock is ignored.
ReleaseUnchecked(l) ==
  /\ phase[l] = "held"
  /\ conn[l] = "up" /\ txn[l] # "failed"
  /\ Go(l, "closing")
  /\ lockOwner' = IF lockOwner = l THEN NoLease ELSE lockOwner
  /\ UNCHANGED <<outcome, script, next, executed, conn, backend, journal>>

Release(l) ==
  /\ phase[l] = "held"
  /\ \/ /\ conn[l] = "up" /\ txn[l] # "failed"
        /\ Go(l, IF lockOwner = l THEN "closing" ELSE "lost")
        /\ lockOwner' = IF lockOwner = l THEN NoLease ELSE lockOwner
        /\ UNCHANGED <<outcome, conn>>
     \/ /\ conn[l] # "up" \/ txn[l] = "failed"
        /\ Return(l, "done", "unreleased")
        /\ HangUp(l)
        /\ UNCHANGED lockOwner
  /\ UNCHANGED <<script, next, executed, backend, journal>>

(* close() fails on a broken connection; only then is `unlocked` looked at. *)
Close(l) ==
  /\ phase[l] \in {"closing", "lost"}
  /\ Return(l, "done", IF conn[l] = "up" /\ phase[l] = "closing"
                         THEN "receipt" ELSE "unreleased")
  /\ HangUp(l)
  /\ UNCHANGED <<script, next, executed, backend, lockOwner, journal>>

(* The lease value, or the whole process, goes away at any await. *)
Abandon(l) ==
  /\ phase[l] \notin {"idle", "done"}
  /\ Return(l, "done", "abandoned")
  /\ HangUp(l)
  /\ UNCHANGED <<script, next, executed, backend, lockOwner, journal>>

-----------------------------------------------------------------------------
(* PostgreSQL and the network *)

LinkBreaks(l) ==
  /\ conn[l] = "up"
  /\ HangUp(l)
  /\ UNCHANGED <<client, backend, lockOwner, journal>>

(* A session ends -- killed, crashed, or aware that its client is gone --
   and with it its transaction, its statement and its advisory lock.      *)
SessionEnds(l) ==
  /\ conn[l] \in {"up", "cut"}
  /\ conn' = [conn EXCEPT ![l] = "gone"]
  /\ lockOwner' = IF lockOwner = l THEN NoLease ELSE lockOwner
  /\ txn' = [txn EXCEPT ![l] = "idle"]
  /\ running' = [running EXCEPT ![l] = FALSE]
  /\ pending' = [pending EXCEPT ![l] = << >>]
  /\ UNCHANGED <<client, journal>>

-----------------------------------------------------------------------------

Acquiring(l) == Connect(l) \/ TryLock(l) \/ VerifyAcquired(l)
Applying(l) == \/ CheckBefore(l) \/ ExecuteBroken(l)
               \/ CheckAfter(l) \/ Rollback(l)
Environment(l) == SelfUnlock(l) \/ Execute(l) \/ LinkBreaks(l) \/ SessionEnds(l)

Next ==
  \E l \in Leases :
     \/ Acquiring(l)
     \/ \E s \in Scripts : Apply(l, s)
     \/ Applying(l)
     \/ Release(l) \/ Close(l) \/ Abandon(l)
     \/ Environment(l)

Spec == Init /\ [][Next]_vars

(***************************************************************************)
(* The code runs on between awaits; PostgreSQL finishes each statement and *)
(* notices a connection whose client is gone.  Nothing obliges a caller to *)
(* apply or release, a link to break or a session to be killed.            *)
(***************************************************************************)
Fairness ==
  \A l \in Leases :
     /\ WF_vars(TryLock(l) \/ VerifyAcquired(l) \/ Applying(l) \/ Close(l))
     /\ WF_vars(SelfUnlock(l) \/ Execute(l))
     /\ WF_vars(conn[l] = "cut" /\ SessionEnds(l))

FairSpec == Spec /\ Fairness

-----------------------------------------------------------------------------
(* Entries written by statements that do not release the lease themselves. *)
Leased(e) == script[e[1]][e[2]] \notin Unlocking

LeasedPositions == {n \in 1..Len(journal) : Leased(journal[n])}

(***************************************************************************)
(* A statement only ever runs in the session that holds the lock, except   *)
(* for the rest of one that released it through dynamic SQL: whatever      *)
(* happens to sessions and connections between a check and the statement   *)
(* it precedes, and after a textual guard that can be evaded.              *)
(***************************************************************************)
LeasedExecution ==
  \A l \in Leases : running[l] /\ Kind(l) # "unlock" => lockOwner = l

(***************************************************************************)
(* Two leases' durable work never interleaves, the work of self-releasing  *)
(* statements aside, even though the session of a dropped lease may finish *)
(* its statement long after the caller has seen the error.                 *)
(***************************************************************************)
SerialWork ==
  \A i, j, k \in LeasedPositions :
     i < j /\ j < k /\ journal[i][1] = journal[k][1]
       => journal[j][1] = journal[i][1]

(***************************************************************************)
(* Why the two hold, as an inductive invariant.  A session runs statements *)
(* of a validated script, on a connection whose client waits for it or is  *)
(* gone, and under the lock unless the statement gave it up.  A lease with *)
(* leased work followed by another's is no longer, and as it has a script  *)
(* never again, the owner of the lock.                                     *)
(***************************************************************************)
RunInv ==
  \A l \in Leases :
     /\ script[l] # << >> => /\ ValidatedScript(script[l])
                            /\ phase[l] \notin {"idle", "connected"}
     /\ script[l] = << >> => next[l] = 1
     /\ phase[l] \in {"before", "executing", "after"} =>
          next[l] <= Len(script[l])
     /\ running[l] => /\ next[l] <= Len(script[l])
                      /\ \/ conn[l] = "cut"
                         \/ conn[l] = "up" /\ phase[l] = "executing"
                      /\ Kind(l) # "unlock" => lockOwner = l

SerialInv ==
  /\ \A l \in Leases : \A n \in 1..Len(pending[l]) : pending[l][n][1] = l
  /\ \A n \in 1..Len(journal) : script[journal[n][1]] # << >>
  /\ \A i, j \in LeasedPositions :
       i < j /\ journal[i][1] # journal[j][1] => lockOwner # journal[i][1]
  /\ SerialWork

LeaseInv == TypeOK /\ LeasedExecution /\ RunInv /\ SerialInv

(***************************************************************************)
(* A failed migration stops: what it leaves durable is a prefix of its     *)
(* script's work, and a later statement is never durable without an        *)
(* earlier one, whichever statement, check, link or session failed.        *)
(***************************************************************************)
IsDurable(l, i) == \E n \in 1..Len(journal) : journal[n] = <<l, i>>

DurablePrefix ==
  \A l \in Leases : \A i, j \in 1..Len(script[l]) :
     i < j /\ script[l][i] \in Durable /\ IsDurable(l, j) => IsDurable(l, i)

(***************************************************************************)
(* The count of executed statements that a receipt reports never exceeds   *)
(* what is durable: it is the whole script, committed, or zero.  And       *)
(* apply() never counts a script that released its own lease as executed,  *)
(* not even when the release hides in the last statement.                  *)
(***************************************************************************)
CountIsDurable ==
  \A l \in Leases :
     executed[l] > 0 =>
       /\ executed[l] = Len(script[l])
       /\ \A i \in 1..Len(script[l]) :
             script[l][i] \in Durable => IsDurable(l, i)

CountedKeptLease ==
  \A l \in Leases :
     executed[l] > 0 =>
       \A i \in 1..Len(script[l]) : script[l][i] \notin Unlocking

CountIsHonest == CountIsDurable /\ CountedKeptLease

(***************************************************************************)
(* A release that finds the lock still held proves tenure: no other        *)
(* lease's work became durable since this lease's first, so what its       *)
(* caller observed in between was its own doing.                           *)
(***************************************************************************)
ReleaseProvesTenure ==
  [][\A l \in Leases :
       phase[l] = "held" /\ phase'[l] = "closing" =>
         \A i, j \in LeasedPositions :
            i < j /\ journal[i][1] = l => journal[j][1] = l]_vars

(***************************************************************************)
(* However a lease ends, its lock is freed: also when the caller, or its   *)
(* process, disappears in the middle of a statement.                       *)
(***************************************************************************)
LockIsFreed == \A l \in Leases : phase[l] = "done" ~> lockOwner # l

(***************************************************************************)
(* acquire() answers without waiting for the holder, and apply() returns,  *)
(* with the script applied or an error.                                    *)
(***************************************************************************)
AcquireAnswers ==
  \A l \in Leases : phase[l] = "connected" ~> phase[l] \in {"held", "done"}

ApplyReturns ==
  \A l \in Leases : phase[l] = "before" ~> phase[l] \in {"held", "done"}

CallsReturn == AcquireAnswers /\ ApplyReturns

-----------------------------------------------------------------------------
(***************************************************************************)
(* Without self-releasing statements the lease is an execution lane: the   *)
(* session of every statement that becomes durable holds the lock at that  *)
(* moment, and a lease gets the lock at most once.                         *)
(***************************************************************************)
Lane == INSTANCE ExecutionLane WITH
          Migrators <- Leases, Nobody <- NoLease, owner <- lockOwner,
          spent <- {l \in Leases : phase[l] \notin {"idle", "connected"}}

LaneSpec == Lane!Spec

=============================================================================
