------------------------- MODULE CertifiedMigration -------------------------
(***************************************************************************)
(* The path of a typed plan into an authorized migration:                  *)
(* certify_plan (src/plan_safety/certificate.rs), the typestates of        *)
(* Migration and the in-memory LeaseState (src/formal.rs).  What the       *)
(* borrow checker forbids (releasing a guard that an authorization         *)
(* borrows, a second guard while one lives) is a guard of the actions.     *)
(***************************************************************************)
EXTENDS PlanCertificate

CONSTANTS
    Migrations, Owners, NoOwner,
    Changes,     \* [op, on]: the changes of schemas in question
    PlansOf,     \* the plans a migration may be of: sequences of changes
    MaxEpoch     \* u64::MAX

ASSUME OwnersAssumption == NoOwner \notin Owners
ASSUME EpochAssumption == MaxEpoch \in Nat \ {0}
ASSUME PlansAssumption == PlansOf \in [Migrations -> SUBSET Seq(Changes)]

VARIABLES
    changes,    \* the plan of each migration
    waves,      \* certify_plan: the waves closed so far
    current,    \* and the wave being filled
    stage,      \* the typestate the migration's value has
    proof,      \* its ValidationProof is there
    lease,      \* LeaseState: [owner, epoch]
    guard,      \* the live LeaseGuard, or NoGuard
    under,      \* the guard an authorized migration was authorized with
    receipts    \* LeaseReceipts handed out, in order

plans == <<changes, waves, current>>
leases == <<lease, guard, receipts>>
vars == <<changes, waves, current, stage, proof, lease, guard, under, receipts>>

NoGuard == [owner |-> NoOwner, epoch |-> 0]

Stages == {"none", "certify", "certified", "validated", "authorized", "applied", "aborted",
           "dropped"}

Init ==
    /\ changes = [m \in Migrations |-> <<>>]
    /\ waves = [m \in Migrations |-> <<>>]
    /\ current = [m \in Migrations |-> <<>>]
    /\ stage = [m \in Migrations |-> "none"]
    /\ proof = [m \in Migrations |-> FALSE]
    /\ under = [m \in Migrations |-> NoGuard]
    /\ lease = NoGuard /\ guard = NoGuard
    /\ receipts = <<>>
-----------------------------------------------------------------------------
(* certify_plan.                                                           *)

\* CertifiedPlan::new takes a plan.
Start(m) ==
    /\ stage[m] = "none"
    /\ \E plan \in PlansOf[m] : changes' = [changes EXCEPT ![m] = plan]
    /\ stage' = [stage EXCEPT ![m] = "certify"]
    /\ UNCHANGED <<waves, current, proof, under>> /\ UNCHANGED leases

NextIndex(m) ==
    IF current[m] # <<>> THEN current[m][Len(current[m])].index + 1 ELSE 0

TakeStep(m) ==
    LET step == BorrowedStep(NextIndex(m), changes[m][NextIndex(m) + 1])
        closes == current[m] # <<>> /\ StepConflictsWithAny(step, current[m])
    IN  /\ stage[m] = "certify" /\ NextIndex(m) < Len(changes[m])
        /\ waves' = [waves EXCEPT ![m] =
               IF closes THEN Append(@, Wave(Len(@), current[m])) ELSE @]
        /\ current' = [current EXCEPT ![m] =
               IF closes THEN <<step>> ELSE Append(@, step)]
        /\ UNCHANGED <<changes, stage, proof, under>> /\ UNCHANGED leases

FinishCertificate(m) ==
    /\ stage[m] = "certify" /\ NextIndex(m) = Len(changes[m])
    /\ waves' = [waves EXCEPT ![m] =
           IF current[m] = <<>> THEN @ ELSE Append(@, Wave(Len(@), current[m]))]
    /\ current' = [current EXCEPT ![m] = <<>>]
    /\ stage' = [stage EXCEPT ![m] = "certified"]
    /\ UNCHANGED <<changes, proof, under>> /\ UNCHANGED leases
-----------------------------------------------------------------------------
(* The typestates: each takes the value of the one before.                 *)

Become(m, from, to) ==
    /\ stage[m] = from
    /\ stage' = [stage EXCEPT ![m] = to]
    /\ UNCHANGED plans

\* into_validated_migration
Validate(m) ==
    /\ Become(m, "certified", "validated")
    /\ proof' = [proof EXCEPT ![m] = TRUE]
    /\ UNCHANGED under /\ UNCHANGED leases

\* Mutant: a certified plan is authorized without a validation proof.
AuthorizeUnvalidated(m) ==
    /\ guard # NoGuard
    /\ \E from \in {"certified", "validated"} : Become(m, from, "authorized")
    /\ under' = [under EXCEPT ![m] = guard]
    /\ UNCHANGED proof /\ UNCHANGED leases

Authorize(m) ==
    /\ guard # NoGuard
    /\ Become(m, "validated", "authorized")
    /\ under' = [under EXCEPT ![m] = guard]
    /\ UNCHANGED proof /\ UNCHANGED leases

\* finish or abort
End(m) ==
    /\ \E to \in {"applied", "aborted"} : Become(m, "authorized", to)
    /\ UNCHANGED <<proof, under>> /\ UNCHANGED leases

\* The value goes out of scope.
Drop(m) ==
    /\ \E from \in {"certified", "validated", "authorized"} : Become(m, from, "dropped")
    /\ UNCHANGED <<proof, under>> /\ UNCHANGED leases
-----------------------------------------------------------------------------
(* LeaseState and LeaseGuard.                                              *)

\* Mutant: the epoch wraps around.
AcquireWrapping(o) ==
    /\ guard = NoGuard
    /\ lease.owner = NoOwner
    /\ lease' = [owner |-> o, epoch |-> (lease.epoch + 1) % (MaxEpoch + 1)]
    /\ guard' = lease'
    /\ UNCHANGED <<stage, proof, under, receipts>> /\ UNCHANGED plans

\* acquire; AlreadyOwned and EpochOverflow change nothing.
Acquire(o) ==
    /\ guard = NoGuard
    /\ lease.owner = NoOwner /\ lease.epoch < MaxEpoch
    /\ lease' = [owner |-> o, epoch |-> lease.epoch + 1]
    /\ guard' = lease'
    /\ UNCHANGED <<stage, proof, under, receipts>> /\ UNCHANGED plans

\* Nothing borrows the guard: it may be moved.
Unborrowed == guard # NoGuard /\ \A m \in Migrations : stage[m] # "authorized"

Release ==
    /\ Unborrowed
    /\ lease' = [lease EXCEPT !.owner = NoOwner]
    /\ receipts' = Append(receipts, guard)
    /\ guard' = NoGuard
    /\ UNCHANGED <<stage, proof, under>> /\ UNCHANGED plans

DropGuard ==
    /\ Unborrowed
    /\ lease' = IF lease.owner = guard.owner THEN [lease EXCEPT !.owner = NoOwner]
                ELSE lease
    /\ guard' = NoGuard
    /\ UNCHANGED <<stage, proof, under, receipts>> /\ UNCHANGED plans

\* std::mem::forget, which is safe: the owner stays, and acquire answers
\* AlreadyOwned from then on.
ForgetGuard ==
    /\ Unborrowed
    /\ guard' = NoGuard
    /\ UNCHANGED <<stage, proof, under, lease, receipts>> /\ UNCHANGED plans

Next ==
    \/ \E m \in Migrations : Start(m) \/ TakeStep(m) \/ FinishCertificate(m) \/ Validate(m)
                             \/ Authorize(m) \/ End(m) \/ Drop(m)
    \/ \E o \in Owners : Acquire(o)
    \/ Release \/ DropGuard \/ ForgetGuard

Spec == Init /\ [][Next]_vars
-----------------------------------------------------------------------------
Leases == [owner : Owners \cup {NoOwner}, epoch : 0..MaxEpoch]
Steps == [index : Nat, borrows : {ChangeBorrows(change.op, change.on) : change \in Changes}]

TypeOK ==
    /\ changes \in [Migrations -> Seq(Changes)]
    /\ waves \in [Migrations -> Seq([index : Nat, steps : Seq(Steps)])]
    /\ current \in [Migrations -> Seq(Steps)]
    /\ stage \in [Migrations -> Stages]
    /\ proof \in [Migrations -> BOOLEAN]
    /\ lease \in Leases /\ guard \in Leases
    /\ under \in [Migrations -> Leases]
    /\ receipts \in Seq([owner : Owners, epoch : 1..MaxEpoch])

\* No two steps of a wave conflict (check_parallel_steps, certificate.rs:241),
\* in a wave that is still being filled either.
Separated ==
    \A m \in Migrations :
        /\ CheckParallel(current[m])
        /\ \A w \in DOMAIN waves[m] : CheckParallel(waves[m][w].steps)

\* What certify_plan asserts of its result (certificate.rs:230): the
\* certificate validates, so every change is in a wave, once and in order.
CertificateValid ==
    \A m \in Migrations :
        stage[m] \notin {"none", "certify"} => Validates(waves[m], Len(changes[m]))

\* Waves are as long as conflicts let them be: the first step of a wave
\* conflicts with a step of the wave before, so none is ever cut early.
WavesAreFull ==
    \A m \in Migrations : \A w \in DOMAIN waves[m] :
        w < Len(waves[m]) =>
            StepConflictsWithAny(waves[m][w + 1].steps[1], waves[m][w].steps)

\* A certificate holds what certify_plan promises of it, at every iteration
\* of its loop and ever after.
CertificateInv == TypeOK /\ Separated /\ CertificateValid /\ WavesAreFull

\* docs/formal-methods.md, safety properties 1 and 2: what is authorized was
\* validated, and the lease that authorized it is still held by that owner.
AuthorizedUnderLease ==
    \A m \in Migrations :
        stage[m] = "authorized" =>
            /\ proof[m]
            /\ under[m] = guard /\ guard = lease /\ lease.owner # NoOwner

\* Safety property 8: a receipt names one tenure of the lease, so no two have
\* an epoch in common and the epochs follow the order of the releases.
ReceiptsDiffer ==
    /\ \A i, j \in DOMAIN receipts : i < j => receipts[i].epoch < receipts[j].epoch
    /\ \A i \in DOMAIN receipts :
           /\ receipts[i].epoch <= lease.epoch
           /\ guard # NoGuard => receipts[i].epoch < guard.epoch

\* An authorization is good for one tenure of the lease: it does not outlive
\* that tenure, and the receipts of any two tenures differ.
OneTenure == AuthorizedUnderLease /\ ReceiptsDiffer

\* Each migration is the abstract machine of formal.rs: authorizing acquires,
\* dropping an authorization releases.  Its epoch counts its own leases.
ModelPhase(m) ==
    CASE stage[m] = "authorized" -> "Leased"
      [] stage[m] = "applied"    -> "Applied"
      [] stage[m] = "aborted"    -> "Aborted"
      [] OTHER                   -> IF proof[m] THEN "Validated" ELSE "Draft"

ModelState(m) ==
    [phase |-> ModelPhase(m),
     owner |-> IF stage[m] = "authorized" THEN under[m].owner ELSE NoOwner,
     epoch |-> IF under[m] = NoGuard THEN 0 ELSE 1,
     validatedOnce |-> proof[m]]

Model == INSTANCE FormalModel WITH state <- [m \in Migrations |-> ModelState(m)]

\* Certification, typestates and lease together take only the steps that
\* formal.rs enumerates.
ImplementsModel == Model!Spec
=============================================================================
