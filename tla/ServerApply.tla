----------------------------- MODULE ServerApply -----------------------------
(***************************************************************************)
(* A live POST /v1/apply of dpm-server (handle_apply in src/server/mod.rs) *)
(* after its request was checked: queue for the process's apply_lock, plan,*)
(* refuse what is not fully executable, take the migration lease and plan  *)
(* again, execute, verify, release, answer.                                *)
(*                                                                         *)
(* Requests go to one server process and one target.  Others are dpm       *)
(* processes elsewhere that migrate the same target under the lease, which *)
(* appears as the ExecutionLane it implements; on a CockroachDB target     *)
(* (~Leased) there is none.  How connections are admitted is the           *)
(* subject of Admission.                                                   *)
(***************************************************************************)
EXTENDS Naturals, Sequences, Plans

CONSTANTS
  Requests, Others, Nobody,
  Catalogs,           \* the schemas people deploy or edit towards
  NoPlan,
  Servers,            \* what targets live on, see server
  MaxEdits

ASSUME ServerAssumption ==
  /\ Requests \cap Others = {}
  /\ Nobody \notin Requests \cup Others
  /\ Values \subseteq Objects
  /\ Catalogs \subseteq SUBSET Objects
  /\ \A p \in PlanSpace : p # NoPlan
  /\ Servers \subseteq [leased: BOOLEAN, outside: BOOLEAN]
  /\ MaxEdits \in Nat

VARIABLES
  desired,    \* the schema the request's source holds
  target,     \* the target database's catalog
  edits,      \* edits by others so far
  server,     \* leased: PostgreSQL; outside: writers that take no lease
  allow,      \* allow_destructive, with the confirmation it requires
  phase,      \* where the task of request r stands between two awaits
  answer,     \* the response decided on, or "none"
  src,        \* computed.source_catalog
  plan,       \* computed.plan, NoPlan before
  added,      \* enum labels whose statement has completed
  running,    \* r's session has a statement submitted and unfinished
  guard,      \* the request whose task holds apply_lock
  owner, spent, journal   \* the execution lane

world == <<desired, target, edits>>
settings == <<server, allow>>
computed == <<src, plan>>
session == <<added, running>>
lane == <<owner, spent, journal>>
vars == <<world, settings, phase, answer, computed, session, guard, lane>>

Lane == INSTANCE ExecutionLane WITH Migrators <- Requests \cup Others

Leased == server.leased
OutsideEdits == server.outside

Phases == {"lock", "source", "target", "acquire", "sourceAgain",
           "targetAgain", "apply", "executing", "committed", "verify",
           "release", "done"}
Answers == {"none", "unchanged", "converged", "refused", "error"}

TypeOK ==
  /\ desired \in Catalogs /\ target \in SUBSET Objects /\ edits \in 0..MaxEdits
  /\ server \in Servers /\ allow \in [Requests -> BOOLEAN]
  /\ phase \in [Requests -> Phases]
  /\ answer \in [Requests -> Answers]
  /\ src \in [Requests -> SUBSET Objects]
  /\ plan \in [Requests -> {NoPlan} \cup PlanSpace]
  /\ added \in [Requests -> SUBSET Values]
  /\ running \in [Requests -> BOOLEAN]
  /\ guard \in Requests \cup {Nobody}
  /\ owner \in Requests \cup Others \cup {Nobody}
  /\ spent \subseteq Requests \cup Others
  /\ journal \in Seq((Requests \cup Others) \X {"label", "transaction"})

Init ==
  /\ desired \in Catalogs /\ target \in Catalogs /\ edits = 0
  /\ server \in Servers /\ allow \in [Requests -> BOOLEAN]
  /\ phase = [r \in Requests |-> "lock"]
  /\ answer = [r \in Requests |-> "none"]
  /\ src = [r \in Requests |-> {}]
  /\ plan = [r \in Requests |-> NoPlan]
  /\ added = [r \in Requests |-> {}]
  /\ running = [r \in Requests |-> FALSE]
  /\ guard = Nobody
  /\ Lane!Init

-----------------------------------------------------------------------------

Go(r, to) == phase' = [phase EXCEPT ![r] = to]

Decide(r, to, what) ==
  /\ Go(r, to)
  /\ answer' = [answer EXCEPT ![r] = what]

(* handle_apply returns: its guard is dropped, and its lease, if it still  *)
(* has one -- whose session, and a statement in it, may live on.           *)
Finish(r, what) ==
  /\ Decide(r, "done", what)
  /\ guard' = IF guard = r THEN Nobody ELSE guard

(* An error anywhere, or the shutdown of the server. *)
Fail(r) ==
  /\ phase[r] # "done"
  /\ Finish(r, "error")
  /\ UNCHANGED <<world, settings, computed, session, lane>>

\* Mutant: the guard is a temporary, dropped where it is taken.
LockFleeting(r) ==
  /\ phase[r] = "lock" /\ guard = Nobody
  /\ Go(r, "source")
  /\ UNCHANGED <<world, settings, answer, computed, session, guard, lane>>

Lock(r) ==
  /\ phase[r] = "lock" /\ guard = Nobody
  /\ guard' = r
  /\ Go(r, "source")
  /\ UNCHANGED <<world, settings, answer, computed, session, lane>>

-----------------------------------------------------------------------------
(* compute_migration and validate_live_plan, before and under the lease    *)

(* Drops that emit comments out. *)
Gated(r, p) == IF allow[r] THEN {} ELSE p.drop

\* Mutant: gated steps are taken for manual ones and the latter ignored.
RejectsGated(r, p) == Gated(r, p) # {}

Rejects(r, p) == p.manual # {} \/ Gated(r, p) # {}

ReadSource(r) ==
  /\ \/ phase[r] = "source" /\ Go(r, "target")
     \/ phase[r] = "sourceAgain" /\ Go(r, "targetAgain")
  /\ src' = [src EXCEPT ![r] = desired]
  /\ UNCHANGED <<world, settings, answer, plan, session, guard, lane>>

ReadTarget(r) ==
  /\ phase[r] = "target"
  /\ LET p == Plan(src[r], target) IN
       /\ plan' = [plan EXCEPT ![r] = p]
       /\ \/ Rejects(r, p) /\ Finish(r, "refused")
          \/ src[r] = target /\ Finish(r, "unchanged")
          \/ /\ ~Rejects(r, p) /\ src[r] # target
             /\ Go(r, IF Leased THEN "acquire" ELSE "apply")
             /\ UNCHANGED <<answer, guard>>
  /\ UNCHANGED <<world, settings, src, session, lane>>

\* Mutant: acquire waits until the lease is free.
AcquireBlocking(r) ==
  /\ phase[r] = "acquire"
  /\ Lane!Enter(r) /\ Go(r, "sourceAgain")
  /\ UNCHANGED <<world, settings, answer, computed, session, guard>>

Acquire(r) ==
  /\ phase[r] = "acquire"
  /\ \/ Lane!Enter(r) /\ Go(r, "sourceAgain") /\ UNCHANGED <<answer, guard>>
     \/ Lane!Withdraw(r) /\ Finish(r, "error")
  /\ UNCHANGED <<world, settings, computed, session>>

\* Mutant: only the first plan is validated.
ReadTargetTrusting(r) ==
  /\ phase[r] = "targetAgain"
  /\ LET p == Plan(src[r], target) IN
       /\ plan' = [plan EXCEPT ![r] = p]
       /\ \/ src[r] = target /\ Decide(r, "release", "unchanged")
          \/ src[r] # target /\ Go(r, "apply") /\ UNCHANGED answer
  /\ UNCHANGED <<world, settings, src, session, guard, lane>>

ReadTargetAgain(r) ==
  /\ phase[r] = "targetAgain"
  /\ LET p == Plan(src[r], target) IN
       /\ plan' = [plan EXCEPT ![r] = p]
       /\ \/ Rejects(r, p) /\ Finish(r, "refused")
          \/ src[r] = target /\ Decide(r, "release", "unchanged") /\ UNCHANGED guard
          \/ ~Rejects(r, p) /\ src[r] # target /\ Go(r, "apply") /\ UNCHANGED <<answer, guard>>
  /\ UNCHANGED <<world, settings, src, session, lane>>

-----------------------------------------------------------------------------
(* PostgresMigrationLease::apply, or apply_script without a lease *)

Tenured(r) == Leased => owner = r

Submit(r) ==
  /\ phase[r] = "apply"
  /\ \/ /\ Tenured(r) /\ Go(r, "executing")
        /\ running' = [running EXCEPT ![r] = TRUE]
        /\ UNCHANGED <<answer, guard>>
     \/ ~Tenured(r) /\ Finish(r, "error") /\ UNCHANGED running
  /\ UNCHANGED <<world, settings, computed, added, lane>>

(* The session completes the statement of one label, or the transaction,   *)
(* all of it; nobody may be left to hear of it.                            *)
Logs(r, what) ==
  /\ journal' = Append(journal, <<r, what>>)
  /\ IF Leased THEN Lane!Write(r) ELSE UNCHANGED <<owner, spent>>

Completes(r, to) ==
  /\ running' = [running EXCEPT ![r] = FALSE]
  /\ IF phase[r] = "executing" THEN Go(r, to) ELSE UNCHANGED phase

AddLabel(r, v) ==
  /\ running[r] /\ v \in plan[r].add \ added[r]
  /\ target' = target \cup {v}
  /\ added' = [added EXCEPT ![r] = @ \cup {v}]
  /\ Completes(r, "apply")
  /\ Logs(r, "label")
  /\ UNCHANGED <<desired, edits, settings, answer, computed, guard>>

Commit(r) ==
  /\ running[r] /\ added[r] = plan[r].add
  /\ target' = (target \cup plan[r].create) \ (plan[r].drop \ Gated(r, plan[r]))
  /\ Completes(r, "committed")
  /\ Logs(r, "transaction")
  /\ UNCHANGED <<desired, edits, settings, answer, computed, added, guard>>

CheckAfter(r) ==
  /\ phase[r] = "committed"
  /\ \/ Tenured(r) /\ Go(r, "verify") /\ UNCHANGED <<answer, guard>>
     \/ ~Tenured(r) /\ Finish(r, "error")
  /\ UNCHANGED <<world, settings, computed, session, lane>>

(* r's session is killed, or notices that its client is gone: the          *)
(* statement in it fails and its lock is free.                             *)
SessionEnds(r) ==
  /\ running[r] \/ owner = r
  /\ running' = [running EXCEPT ![r] = FALSE]
  /\ IF owner = r THEN Lane!Leave ELSE UNCHANGED lane
  /\ UNCHANGED <<world, settings, phase, answer, computed, added, guard>>

-----------------------------------------------------------------------------
(* Verification under the lease, release and answer *)

(* What remains is an error; the lease is dropped, not released. *)
Verify(r) ==
  /\ phase[r] = "verify"
  /\ \/ src[r] = target /\ Decide(r, "release", "converged") /\ UNCHANGED guard
     \/ src[r] # target /\ Finish(r, "error")
  /\ UNCHANGED <<world, settings, computed, session, lane>>

\* Mutant: the release is left to the destructor.
ReleaseByDrop(r) ==
  /\ phase[r] = "release"
  /\ Finish(r, answer[r])
  /\ UNCHANGED <<world, settings, computed, session, lane>>

Release(r) ==
  /\ phase[r] = "release"
  /\ \/ Leased /\ owner = r /\ Lane!Leave /\ Finish(r, answer[r])
     \/ Leased /\ owner # r /\ UNCHANGED lane /\ Finish(r, "error")
     \/ ~Leased /\ UNCHANGED lane /\ Finish(r, answer[r])
  /\ UNCHANGED <<world, settings, computed, session>>

-----------------------------------------------------------------------------
(* Everybody else *)

EditSource ==
  /\ edits < MaxEdits
  /\ edits' = edits + 1
  /\ desired' \in Catalogs \ {desired}
  /\ UNCHANGED <<target, settings, phase, answer, computed, session, guard, lane>>

EditTarget ==
  /\ OutsideEdits /\ edits < MaxEdits
  /\ edits' = edits + 1
  /\ target' \in Catalogs \ {target}
  /\ UNCHANGED <<desired, settings, phase, answer, computed, session, guard, lane>>

(* Another dpm process takes the lease, migrates once, and gives it back.  *)
OtherEnters(m) ==
  /\ Leased /\ Lane!Enter(m)
  /\ UNCHANGED <<world, settings, phase, answer, computed, session, guard>>

OtherMigrates(m) ==
  /\ owner = m
  /\ \A n \in DOMAIN journal : journal[n][1] # m
  /\ target' \in Catalogs
  /\ journal' = Append(journal, <<m, "transaction">>)
  /\ Lane!Write(m)
  /\ UNCHANGED <<desired, edits, settings, phase, answer, computed, session, guard>>

OtherLeaves(m) ==
  /\ owner = m /\ Lane!Leave
  /\ UNCHANGED <<world, settings, phase, answer, computed, session, guard>>

Planning(r) == ReadSource(r) \/ ReadTarget(r) \/ Acquire(r) \/ ReadTargetAgain(r)
Session(r) == Commit(r) \/ \E v \in Values : AddLabel(r, v)
Reporting(r) == CheckAfter(r) \/ Verify(r) \/ Release(r)

Next ==
  \/ \E r \in Requests : \/ Lock(r) \/ Planning(r) \/ Submit(r) \/ Session(r)
                         \/ Reporting(r) \/ Fail(r) \/ SessionEnds(r)
  \/ \E m \in Others : OtherEnters(m) \/ OtherMigrates(m) \/ OtherLeaves(m)
  \/ EditSource \/ EditTarget

Spec == Init /\ [][Next]_vars

(***************************************************************************)
(* Tasks are scheduled, PostgreSQL finishes statements, answers a          *)
(* connection whose session is gone with an error, and ends the session of *)
(* a client that is gone.  Other processes may hold the lease for good.    *)
(***************************************************************************)
Fairness ==
  \A r \in Requests :
     /\ WF_vars(Lock(r) \/ Planning(r) \/ Submit(r) \/ Reporting(r))
     /\ WF_vars(Session(r))
     /\ WF_vars(phase[r] = "executing" /\ ~running[r] /\ Fail(r))
     /\ WF_vars(phase[r] = "done" /\ SessionEnds(r))

FairSpec == Spec /\ Fairness

-----------------------------------------------------------------------------
Commits(r, what) == journal' = Append(journal, <<r, what>>)

(***************************************************************************)
(* Under the lease a request's transaction makes the target exactly the    *)
(* schema it asked for, whatever the lock queue, other migrators and edits *)
(* did since the plan was first computed: the plan executed is validated   *)
(* and computed under the same lease.                                      *)
(***************************************************************************)
CommitsWhole ==
  [][Leased /\ ~OutsideEdits =>
       \A r \in Requests : Commits(r, "transaction") => target' = src[r]]_vars

(***************************************************************************)
(* When the answer "applied, nothing remains" is given, the target is the  *)
(* schema the request asked for: nobody migrated between the verification  *)
(* and the answer, or the release would have failed.                       *)
(***************************************************************************)
ConvergedAttests ==
  [][Leased /\ ~OutsideEdits => \A r \in Requests :
       /\ phase[r] = "release" /\ phase'[r] = "done"
       /\ answer'[r] = "converged"
       => target = src[r]]_vars

(***************************************************************************)
(* Also without a lease: nothing becomes durable for a request whose plan  *)
(* has manual or gated steps, and nothing of its source is dropped.        *)
(***************************************************************************)
OnlyExecutable ==
  [][\A r \in Requests, what \in {"label", "transaction"} :
       Commits(r, what) =>
         /\ plan[r].manual = {}
         /\ plan[r].drop # {} => allow[r]
         /\ (target \ target') \cap src[r] = {}]_vars

(***************************************************************************)
(* Two requests never have statements submitted at once, unless one of     *)
(* them was answered with an error: all that CockroachDB targets have for  *)
(* a lease.                                                                *)
(***************************************************************************)
OneAtATime ==
  \A r, q \in Requests :
     running[r] /\ running[q] /\ r # q =>
       answer[r] = "error" \/ answer[q] = "error"

(***************************************************************************)
(* Why these hold, as an inductive invariant.  The task between the lock   *)
(* and its answer has the guard; a plan that may be executed is one that   *)
(* is not rejected and drops nothing of its source; and, where everybody   *)
(* who migrates takes the lease, a statement runs in the owner's session,  *)
(* what separates the owner's target from its source is the rest of the    *)
(* plan, and nothing when the transaction is through.                      *)
(***************************************************************************)
Armed(r) == running[r] \/ phase[r] \in {"apply", "executing"}

PlanInv ==
  \A r \in Requests :
     /\ running[r] => phase[r] = "executing" \/ answer[r] = "error"
     /\ Armed(r) => /\ plan[r] # NoPlan
                    /\ ~Rejects(r, plan[r])
                    /\ plan[r].drop \cap src[r] = {}

GuardInv ==
  \A r \in Requests :
     /\ (phase[r] \notin {"lock", "done"}) <=> (guard = r)
     /\ answer[r] = "error" => phase[r] = "done"

Rest(r) == [plan[r] EXCEPT !.add = @ \ added[r]]

Through(r) == \/ phase[r] \in {"committed", "verify"}
              \/ phase[r] = "release" /\ answer[r] = "converged"

Epoch(r) ==
  /\ running[r] => owner = r
  /\ phase[r] \in {"lock", "source", "target", "acquire", "sourceAgain",
                   "targetAgain"} => added[r] = {}
  /\ Armed(r) /\ owner = r => Plan(src[r], target) = Rest(r)
  /\ Through(r) /\ owner = r => target = src[r]

EpochInv == Leased /\ ~OutsideEdits => \A r \in Requests : Epoch(r)

ServerInv == TypeOK /\ GuardInv /\ PlanInv /\ EpochInv

(***************************************************************************)
(* Every request that queues for apply_lock is answered, also while        *)
(* another process keeps the lease.                                        *)
(***************************************************************************)
RequestAnswered == \A r \in Requests : phase[r] = "lock" ~> phase[r] = "done"

=============================================================================
