---------------------------- MODULE ApplyCommand ----------------------------
(***************************************************************************)
(* `dpm apply` (cmd_apply in src/main.rs): load both catalogs, render the  *)
(* plan, have it reviewed and confirmed, take the migration lease, load    *)
(* and render again, execute, check convergence, release.                  *)
(*                                                                         *)
(* A member of Runs is one invocation against the same target database.    *)
(* Invocations interleave at every await, and between any two of their     *)
(* steps somebody may edit the desired schema, or change the target        *)
(* without dpm; MaxEdits bounds the two together.  The lease appears as    *)
(* the ExecutionLane it implements (MigrationLease, LaneSpec); on a        *)
(* CockroachDB target (~Leased) there is none, and no cross-check.         *)
(***************************************************************************)
EXTENDS Naturals, Sequences, Plans

CONSTANTS
  Runs, NoRun,        \* invocations, and the owner of a free lane
  Catalogs,           \* the schemas people deploy or edit towards
  Consents,           \* the destructive policies invocations come with
  NoPlan, NoCatalog,
  Servers,            \* what targets live on, see server
  CrossChecks,        \* cross-checkers are selected, where they are allowed
  MaxEdits

ASSUME ApplyAssumption ==
  /\ NoRun \notin Runs
  /\ Values \subseteq Objects
  /\ Catalogs \subseteq SUBSET Objects
  /\ Consents \subseteq [sql: BOOLEAN, ops: BOOLEAN]
  /\ \A c \in SUBSET Objects : c # NoCatalog
  /\ \A p \in PlanSpace : p # NoPlan
  /\ Servers \subseteq [leased: BOOLEAN, outside: BOOLEAN]
  /\ CrossChecks \in BOOLEAN
  /\ MaxEdits \in Nat

VARIABLES
  desired,    \* the schema the source holds
  target,     \* the target database's catalog
  edits,      \* edits by others so far
  server,     \* leased: PostgreSQL; outside: writers that take no lease
  consent,    \* destructive_policy: [sql, ops]
  pin,        \* DPM_REQUIRE_PLAN_CHECKSUM: a plan, or NoPlan
  phase,      \* where run r stands between two awaits
  code,       \* the exit code decided on, or "none"
  src, tgt,   \* inputs.source_cat, inputs.target_cat
  reviewed,   \* the plan rendered first, NoPlan before
  added,      \* enum labels whose statement has completed
  running,    \* r's session has a statement submitted and unfinished
  observed,   \* the catalog introspected after the apply, or NoCatalog
  owner, spent, journal   \* the execution lane

settings == <<server, consent, pin>>
world == <<desired, target, edits>>
inputs == <<src, tgt, reviewed>>
lane == <<owner, spent, journal>>
vars == <<world, settings, phase, code, inputs, added, running, observed, lane>>

Lane == INSTANCE ExecutionLane WITH Migrators <- Runs, Nobody <- NoRun

Leased == server.leased
OutsideEdits == server.outside

-----------------------------------------------------------------------------
(* Drops emitted as live SQL; without consent they are commented out.      *)
LiveDrops(r, p) == IF consent[r].sql THEN p.drop ELSE {}

Phases == {"source", "target", "review", "confirm", "acquire",
           "refreshSource", "refreshTarget", "apply", "executing",
           "committed", "check", "crosscheck", "release", "exited"}
Codes == {"none", "ok", "aborted", "diverged", "rejected", "error"}

TypeOK ==
  /\ desired \in Catalogs /\ target \in SUBSET Objects /\ edits \in 0..MaxEdits
  /\ server \in Servers /\ consent \in [Runs -> Consents]
  /\ pin \in [Runs -> {NoPlan} \cup PlanSpace]
  /\ phase \in [Runs -> Phases]
  /\ code \in [Runs -> Codes]
  /\ src \in [Runs -> SUBSET Objects]
  /\ tgt \in [Runs -> SUBSET Objects]
  /\ reviewed \in [Runs -> {NoPlan} \cup PlanSpace]
  /\ added \in [Runs -> SUBSET Values]
  /\ running \in [Runs -> BOOLEAN]
  /\ observed \in [Runs -> {NoCatalog} \cup SUBSET Objects]
  /\ owner \in Runs \cup {NoRun}
  /\ spent \subseteq Runs
  /\ journal \in Seq(Runs \X {"label", "transaction"})

(* A pin, if there is one, is that of an earlier `dpm diff` with r's flags. *)
Init ==
  /\ desired \in Catalogs /\ target \in Catalogs /\ edits = 0
  /\ server \in Servers /\ consent \in [Runs -> Consents]
  /\ pin \in [Runs -> {NoPlan, Plan(desired, target)}]
  /\ phase = [r \in Runs |-> "source"]
  /\ code = [r \in Runs |-> "none"]
  /\ src = [r \in Runs |-> {}]
  /\ tgt = [r \in Runs |-> {}]
  /\ reviewed = [r \in Runs |-> NoPlan]
  /\ added = [r \in Runs |-> {}]
  /\ running = [r \in Runs |-> FALSE]
  /\ observed = [r \in Runs |-> NoCatalog]
  /\ Lane!Init

-----------------------------------------------------------------------------

Go(r, to) == phase' = [phase EXCEPT ![r] = to]

Decide(r, to, what) ==
  /\ Go(r, to)
  /\ code' = [code EXCEPT ![r] = what]

Exit(r, what) == Decide(r, "exited", what)

(* Any `?` on the way, and the end of the process: the lease value, if     *)
(* there is one, is dropped; its session, and a statement in it, may live  *)
(* on.                                                                     *)
Fail(r) ==
  /\ phase[r] # "exited"
  /\ Exit(r, "error")
  /\ UNCHANGED <<world, settings, inputs, added, running, observed, lane>>

-----------------------------------------------------------------------------
(* load_sides and render, the first time *)

ReadSource(r) ==
  /\ phase[r] = "source"
  /\ src' = [src EXCEPT ![r] = desired]
  /\ Go(r, "target")
  /\ UNCHANGED <<world, settings, code, tgt, reviewed, added, running,
                 observed, lane>>

\* Mutant: the consent to execute is not asked for.
RefusesPinned(r, p) == pin[r] \notin {NoPlan, p}

\* Mutant: the checksum is printed, not compared.
RefusesDrops(r, p) == LiveDrops(r, p) # {} /\ ~consent[r].ops

(* Refused before anything is asked or written: not the pinned plan, or    *)
(* live drops nobody agreed to execute.                                    *)
Refuses(r, p) ==
  \/ pin[r] \notin {NoPlan, p}
  \/ LiveDrops(r, p) # {} /\ ~consent[r].ops

ReadTarget(r) ==
  /\ phase[r] = "target"
  /\ tgt' = [tgt EXCEPT ![r] = target]
  /\ LET p == Plan(src[r], target) IN
       \/ /\ src[r] = target
          /\ Exit(r, "ok")
          /\ UNCHANGED reviewed
       \/ /\ src[r] # target /\ Refuses(r, p)
          /\ Exit(r, "error")
          /\ UNCHANGED reviewed
       \/ /\ src[r] # target /\ ~Refuses(r, p)
          /\ reviewed' = [reviewed EXCEPT ![r] = p]
          /\ Go(r, "review")
          /\ UNCHANGED code
  /\ UNCHANGED <<world, settings, src, added, running, observed, lane>>

(* The AI reviewer, when enabled; a rejection aborts unless overridden.    *)
AiReview(r) ==
  /\ phase[r] = "review"
  /\ \/ Go(r, "confirm") /\ UNCHANGED code
     \/ Exit(r, "rejected")
  /\ UNCHANGED <<world, settings, inputs, added, running, observed, lane>>

(* DPM_YES, or the answer typed at the prompt. *)
Confirm(r) ==
  /\ phase[r] = "confirm"
  /\ \/ Go(r, "acquire") /\ UNCHANGED code
     \/ Exit(r, "aborted")
  /\ UNCHANGED <<world, settings, inputs, added, running, observed, lane>>

-----------------------------------------------------------------------------
(* The lease, and load_sides and render again under it *)

Acquire(r) ==
  /\ phase[r] = "acquire"
  /\ \/ Leased /\ Lane!Enter(r) /\ Go(r, "refreshSource") /\ UNCHANGED code
     \/ Leased /\ Lane!Withdraw(r) /\ Exit(r, "error")
     \/ ~Leased /\ Go(r, "apply") /\ UNCHANGED <<code, lane>>
  /\ UNCHANGED <<world, settings, inputs, added, running, observed>>

RefreshSource(r) ==
  /\ phase[r] = "refreshSource"
  /\ src' = [src EXCEPT ![r] = desired]
  /\ Go(r, "refreshTarget")
  /\ UNCHANGED <<world, settings, code, tgt, reviewed, added, running,
                 observed, lane>>

\* Mutant: the fresh plan is not compared with the reviewed one.
RefreshUncompared(r) ==
  /\ phase[r] = "refreshTarget"
  /\ tgt' = [tgt EXCEPT ![r] = target]
  /\ \/ src[r] = target /\ Decide(r, "release", "ok")
     \/ src[r] # target /\ Go(r, "apply") /\ UNCHANGED code
  /\ UNCHANGED <<world, settings, src, reviewed, added, running, observed,
                 lane>>

\* Mutant: a changed plan is shown and confirmed again, under the lease.
RefreshReasking(r) ==
  /\ phase[r] = "refreshTarget"
  /\ tgt' = [tgt EXCEPT ![r] = target]
  /\ LET p == Plan(src[r], target) IN
       /\ \/ src[r] = target /\ Decide(r, "release", "ok")
          \/ src[r] # target /\ p # reviewed[r] /\ Go(r, "confirm") /\ UNCHANGED code
          \/ src[r] # target /\ p = reviewed[r] /\ Go(r, "apply") /\ UNCHANGED code
       /\ reviewed' = [reviewed EXCEPT ![r] = p]
  /\ UNCHANGED <<world, settings, src, added, running, observed, lane>>

\* Mutant: a changed plan makes the refresh start over.
RefreshRetrying(r) ==
  /\ phase[r] = "refreshTarget"
  /\ tgt' = [tgt EXCEPT ![r] = target]
  /\ LET p == Plan(src[r], target) IN
       \/ src[r] = target /\ Decide(r, "release", "ok")
       \/ src[r] # target /\ p # reviewed[r] /\ Go(r, "refreshSource") /\ UNCHANGED code
       \/ src[r] # target /\ p = reviewed[r] /\ Go(r, "apply") /\ UNCHANGED code
  /\ UNCHANGED <<world, settings, src, reviewed, added, running, observed,
                 lane>>

(* Converged meanwhile, changed since the review, or as reviewed. *)
RefreshTarget(r) ==
  /\ phase[r] = "refreshTarget"
  /\ tgt' = [tgt EXCEPT ![r] = target]
  /\ LET p == Plan(src[r], target) IN
       \/ src[r] = target /\ Decide(r, "release", "ok")
       \/ src[r] # target /\ p # reviewed[r] /\ Decide(r, "release", "error")
       \/ src[r] # target /\ p = reviewed[r] /\ Go(r, "apply") /\ UNCHANGED code
  /\ UNCHANGED <<world, settings, src, reviewed, added, running, observed,
                 lane>>

-----------------------------------------------------------------------------
(* PostgresMigrationLease::apply, or apply_script without a lease *)

Tenured(r) == Leased => owner = r

Submit(r) ==
  /\ phase[r] = "apply"
  /\ \/ /\ Tenured(r)
        /\ running' = [running EXCEPT ![r] = TRUE]
        /\ Go(r, "executing")
        /\ UNCHANGED code
     \/ /\ ~Tenured(r)
        /\ Exit(r, "error")
        /\ UNCHANGED running
  /\ UNCHANGED <<world, settings, inputs, added, observed, lane>>

(* The session completes the statement of one label, or the transaction,   *)
(* all of it; nobody may be left to hear of it.                            *)
Logs(r, what) ==
  /\ journal' = Append(journal, <<r, what>>)
  /\ IF Leased THEN Lane!Write(r) ELSE UNCHANGED <<owner, spent>>

Answers(r, to) ==
  IF phase[r] = "executing" THEN Go(r, to) ELSE UNCHANGED phase

AddLabel(r, v) ==
  /\ running[r] /\ v \in reviewed[r].add \ added[r]
  /\ target' = target \cup {v}
  /\ added' = [added EXCEPT ![r] = @ \cup {v}]
  /\ running' = [running EXCEPT ![r] = FALSE]
  /\ Answers(r, "apply")
  /\ Logs(r, "label")
  /\ UNCHANGED <<desired, edits, settings, code, inputs, observed>>

\* Mutant: gated drops are executed all the same.
CommitUngated(r) ==
  /\ running[r] /\ added[r] = reviewed[r].add
  /\ target' = (target \cup reviewed[r].create) \ reviewed[r].drop
  /\ running' = [running EXCEPT ![r] = FALSE]
  /\ Answers(r, "committed")
  /\ Logs(r, "transaction")
  /\ UNCHANGED <<desired, edits, settings, code, inputs, added, observed>>

Commit(r) ==
  /\ running[r] /\ added[r] = reviewed[r].add
  /\ target' = (target \cup reviewed[r].create) \ LiveDrops(r, reviewed[r])
  /\ running' = [running EXCEPT ![r] = FALSE]
  /\ Answers(r, "committed")
  /\ Logs(r, "transaction")
  /\ UNCHANGED <<desired, edits, settings, code, inputs, added, observed>>

CheckAfter(r) ==
  /\ phase[r] = "committed"
  /\ \/ Tenured(r) /\ Go(r, "check") /\ UNCHANGED code
     \/ ~Tenured(r) /\ Exit(r, "error")
  /\ UNCHANGED <<world, settings, inputs, added, running, observed, lane>>

(* r's session is killed, or notices that its client is gone: the          *)
(* statement in it fails and its lock is free.                             *)
SessionEnds(r) ==
  /\ running[r] \/ owner = r
  /\ running' = [running EXCEPT ![r] = FALSE]
  /\ IF owner = r THEN Lane!Leave ELSE UNCHANGED lane
  /\ UNCHANGED <<world, settings, phase, code, inputs, added, observed>>

-----------------------------------------------------------------------------
(* The convergence check, the cross-checks and the release *)

\* Mutant: what is left only because it is gated counts as converged.
IntrospectLenient(r) ==
  /\ phase[r] = "check"
  /\ observed' = [observed EXCEPT ![r] = target]
  /\ Decide(r, "crosscheck",
            IF src[r] \subseteq target THEN "ok" ELSE "diverged")
  /\ UNCHANGED <<world, settings, inputs, added, running, lane>>

Introspect(r) ==
  /\ phase[r] = "check"
  /\ observed' = [observed EXCEPT ![r] = target]
  /\ Decide(r, "crosscheck", IF src[r] = target THEN "ok" ELSE "diverged")
  /\ UNCHANGED <<world, settings, inputs, added, running, lane>>

(* All agree, one disagrees, or the AI scan objects -- if any is selected; *)
(* selected for CockroachDB they would have been refused at the start.     *)
CrossCheck(r) ==
  /\ phase[r] = "crosscheck"
  /\ \/ Decide(r, "release", code[r])
     \/ /\ CrossChecks /\ Leased
        /\ \E c \in {"diverged", "rejected"} : Decide(r, "release", c)
  /\ UNCHANGED <<world, settings, inputs, added, running, observed, lane>>

\* Mutant: a failed release is logged and forgotten.
ReleaseForgiving(r) ==
  /\ phase[r] = "release"
  /\ IF owner = r THEN Lane!Leave ELSE UNCHANGED lane
  /\ Exit(r, code[r])
  /\ UNCHANGED <<world, settings, inputs, added, running, observed>>

Release(r) ==
  /\ phase[r] = "release"
  /\ \/ Leased /\ owner = r /\ Lane!Leave /\ Exit(r, code[r])
     \/ Leased /\ owner # r /\ UNCHANGED lane /\ Exit(r, "error")
     \/ ~Leased /\ UNCHANGED lane /\ Exit(r, code[r])
  /\ UNCHANGED <<world, settings, inputs, added, running, observed>>

-----------------------------------------------------------------------------
(* Everybody else *)

EditSource ==
  /\ edits < MaxEdits
  /\ edits' = edits + 1
  /\ desired' \in Catalogs \ {desired}
  /\ UNCHANGED <<target, settings, phase, code, inputs, added, running,
                 observed, lane>>

EditTarget ==
  /\ OutsideEdits /\ edits < MaxEdits
  /\ edits' = edits + 1
  /\ target' \in Catalogs \ {target}
  /\ UNCHANGED <<desired, settings, phase, code, inputs, added, running,
                 observed, lane>>

Loading(r) == ReadSource(r) \/ ReadTarget(r)
Leasing(r) == Acquire(r) \/ RefreshSource(r) \/ RefreshTarget(r)
Session(r) == Commit(r) \/ \E v \in Values : AddLabel(r, v)
Reporting(r) == CheckAfter(r) \/ Introspect(r) \/ Release(r)

Next ==
  \/ \E r \in Runs : \/ Loading(r) \/ AiReview(r) \/ Confirm(r) \/ Leasing(r)
                     \/ Submit(r) \/ Session(r) \/ CrossCheck(r)
                     \/ Reporting(r) \/ Fail(r) \/ SessionEnds(r)
  \/ EditSource \/ EditTarget

Spec == Init /\ [][Next]_vars

(***************************************************************************)
(* The code runs on between awaits, and PostgreSQL finishes statements,    *)
(* answers a connection whose session is gone with an error, and ends the  *)
(* session of a client that is gone.  Nobody need answer the prompt, edit  *)
(* anything, or fail otherwise; the AI reviewer and the cross-checkers are *)
(* processes without a timeout.                                            *)
(***************************************************************************)
Fairness ==
  \A r \in Runs :
     /\ WF_vars(Loading(r) \/ Leasing(r) \/ Submit(r) \/ Reporting(r))
     /\ WF_vars(~CrossChecks /\ CrossCheck(r))
     /\ WF_vars(Session(r))
     /\ WF_vars(phase[r] = "executing" /\ ~running[r] /\ Fail(r))
     /\ WF_vars(phase[r] = "exited" /\ SessionEnds(r))

FairSpec == Spec /\ Fairness

-----------------------------------------------------------------------------
(* The desired schema, and what the reviewed plan leaves on purpose: drops *)
(* it gates, labels it only reports.                                       *)
Remaining(r) == (reviewed[r].drop \ LiveDrops(r, reviewed[r]))
                  \cup reviewed[r].manual
Settled(r) == src[r] \cup Remaining(r)

Commits(r, what) == journal' = Append(journal, <<r, what>>)

(***************************************************************************)
(* The reviewed script only ever runs against the catalogs it was rendered *)
(* from: whoever edited the source or migrated the target since the        *)
(* review, and whichever session died meanwhile, a transaction that        *)
(* commits under the lease leaves the target with the source's objects and *)
(* what the review said would remain.                                      *)
(***************************************************************************)
FitsReview ==
  [][Leased /\ ~OutsideEdits =>
       \A r \in Runs : Commits(r, "transaction") => target' = Settled(r)]_vars

(***************************************************************************)
(* An exit that reports on an apply is evidence of one execution epoch: at *)
(* the moment the lease is given back the target is the catalog the        *)
(* convergence check saw, and that is what the reviewed plan promised.     *)
(***************************************************************************)
ReceiptAttests ==
  [][Leased /\ ~OutsideEdits => \A r \in Runs :
       /\ phase[r] = "release" /\ phase'[r] = "exited" /\ code'[r] # "error"
       /\ observed[r] # NoCatalog
       => target = observed[r] /\ observed[r] = Settled(r)]_vars

(***************************************************************************)
(* dpm drops an object only with both consents, and only if the source, as *)
(* last loaded, does not have it.                                          *)
(***************************************************************************)
ConsentedDrops ==
  [][\A r \in Runs, what \in {"label", "transaction"} :
       Commits(r, what) /\ target \ target' # {} =>
         /\ consent[r].sql /\ consent[r].ops
         /\ (target \ target') \cap src[r] = {}]_vars

(***************************************************************************)
(* Under --require-plan-checksum nothing but the pinned plan's objects is  *)
(* touched, also when the plan is rendered a second time.                  *)
(***************************************************************************)
PinHonoured ==
  [][\A r \in Runs, what \in {"label", "transaction"} :
       Commits(r, what) /\ pin[r] # NoPlan =>
         /\ target' \ target \subseteq pin[r].add \cup pin[r].create
         /\ target \ target' \subseteq pin[r].drop]_vars

(***************************************************************************)
(* Why these hold, as inductive invariants.  First, of the plan: once      *)
(* there is one it is the pinned plan and its live drops were agreed to;   *)
(* while it may be executed it drops nothing of the source, because a      *)
(* source read again is read before the plan is compared again.            *)
(***************************************************************************)
Armed(r) == running[r] \/ phase[r] \in {"apply", "executing"}

PlanInv ==
  \A r \in Runs :
     /\ reviewed[r] # NoPlan => ~Refuses(r, reviewed[r])
     /\ phase[r] \notin {"source", "target", "exited"} => reviewed[r] # NoPlan
     /\ running[r] => phase[r] \in {"executing", "exited"}
     /\ Armed(r) \/ phase[r] \in {"review", "confirm", "acquire"} =>
          reviewed[r] # NoPlan /\ reviewed[r].drop \cap src[r] = {}

(***************************************************************************)
(* Second, of the lease, where everybody who migrates takes it: a session  *)
(* with a statement in it is the owner's, and while r is the owner the     *)
(* target is what r read, then that with r's labels, then r's result.      *)
(***************************************************************************)
Preparing(r) == phase[r] \in {"source", "target", "review", "confirm",
                              "acquire", "refreshSource", "refreshTarget"}
Done(r) == \/ phase[r] \in {"committed", "check", "crosscheck"}
           \/ phase[r] = "release" /\ observed[r] # NoCatalog

Epoch(r) ==
  /\ running[r] => owner = r
  /\ Armed(r) => /\ reviewed[r] = Plan(src[r], tgt[r])
                 /\ added[r] \subseteq reviewed[r].add
                 /\ owner = r => target = tgt[r] \cup added[r]
  /\ Done(r) /\ owner = r => /\ target = Settled(r)
                             /\ observed[r] \in {NoCatalog, target}
  /\ Preparing(r) => added[r] = {}
  /\ observed[r] # NoCatalog => phase[r] \in {"crosscheck", "release", "exited"}

EpochInv == Leased /\ ~OutsideEdits => \A r \in Runs : Epoch(r)

ApplyInv == TypeOK /\ PlanInv /\ EpochInv

(***************************************************************************)
(* Exit code 0 after an apply: nothing was gated, nothing left to do by    *)
(* hand.                                                                   *)
(***************************************************************************)
OkLeavesNothing ==
  Leased /\ ~OutsideEdits => \A r \in Runs :
     phase[r] = "exited" /\ code[r] = "ok" /\ observed[r] # NoCatalog =>
       Remaining(r) = {}

(***************************************************************************)
(* Nobody waits for a person, or for another run, while holding the lease. *)
(***************************************************************************)
LeaseIsReturned == \A r \in Runs : owner = r ~> owner # r

(***************************************************************************)
(* A confirmed apply ends, whoever else migrates or edits.                 *)
(***************************************************************************)
ConfirmedEnds == \A r \in Runs : phase[r] = "acquire" ~> phase[r] = "exited"

=============================================================================
