---------------------- MODULE CertifiedMigration_proofs ----------------------
(***************************************************************************)
(* For every plan, every number of migrations and owners and every MaxEpoch:*)
(* certificates validate, authorizations stay under their lease, receipts  *)
(* differ, and each migration is the abstract machine of formal.rs, which  *)
(* keeps its own invariants.                                               *)
(***************************************************************************)
EXTENDS CertifiedMigration, TLAPS

\* borrow_conflicts_are_symmetric (tests/plan_safety.rs), for every two.
LEMMA ConflictsWithSymmetric ==
    \A left, right : ConflictsWith(left, right) <=> ConflictsWith(right, left)
BY DEF ConflictsWith

\* The same of two steps.
LEMMA StepsConflictSymmetric ==
    \A left, right : StepsConflict(left, right) <=> StepsConflict(right, left)
BY ConflictsWithSymmetric DEF StepsConflict, Conflict

\* A step may join a wave none of whose steps it conflicts with.
LEMMA CheckParallelAppend ==
    ASSUME NEW S, NEW steps \in Seq(S), NEW step \in S,
           CheckParallel(steps), ~StepConflictsWithAny(step, steps)
    PROVE  CheckParallel(Append(steps, step))
<1> DEFINE all == Append(steps, step)
<1> SUFFICES ASSUME NEW i \in DOMAIN all, NEW j \in DOMAIN all, i < j
             PROVE  ~StepsConflict(all[i], all[j])
    BY DEF CheckParallel
<1>1. Len(all) = Len(steps) + 1 /\ i \in 1..Len(all) /\ j \in 1..Len(all)
    OBVIOUS
<1>2. i \in DOMAIN steps /\ all[i] = steps[i]
    BY <1>1
<1>3. CASE j \in DOMAIN steps
    BY <1>2, <1>3 DEF CheckParallel
<1>4. CASE j = Len(steps) + 1
    <2>1. all[j] = step
        BY <1>4
    <2> QED
        BY <2>1, <1>2, StepsConflictSymmetric DEF StepConflictsWithAny
<1> QED
    BY <1>1, <1>3, <1>4

\* A wave of one step has no conflict.
LEMMA CheckParallelOne == \A step : CheckParallel(<<step>>)
BY DEF CheckParallel

\* Nor has the empty one.
LEMMA CheckParallelEmpty == CheckParallel(<<>>)
BY DEF CheckParallel
-----------------------------------------------------------------------------
(* The inductive invariant.                                                *)

\* The steps so far are numbered on, wave after wave.
Numbered(m) ==
    /\ \A w \in DOMAIN waves[m] :
           /\ waves[m][w].index = w - 1
           /\ waves[m][w].steps # <<>>
           /\ \A i \in DOMAIN waves[m][w].steps :
                  waves[m][w].steps[i].index = NextIndexAt(waves[m], w) + i - 1
    /\ \A i \in DOMAIN current[m] :
           current[m][i].index = NextIndexAt(waves[m], Len(waves[m]) + 1) + i - 1
    /\ stage[m] \in {"none", "certify"} /\ current[m] = <<>> => waves[m] = <<>>
    /\ stage[m] = "none" => current[m] = <<>>
    /\ stage[m] \notin {"none", "certify"} =>
           Len(changes[m]) = NextIndexAt(waves[m], Len(waves[m]) + 1)

\* What a typestate says of the proof and of the lease it was authorized with.
Staged(m) ==
    /\ stage[m] \in {"none", "certify", "certified"} => ~proof[m]
    /\ stage[m] \in {"validated", "authorized", "applied", "aborted"} => proof[m]
    /\ ~proof[m] \/ stage[m] = "validated" => under[m] = NoGuard
    /\ stage[m] \in {"authorized", "applied", "aborted"} => under[m].owner \in Owners

\* A live guard is the lease.
Held == guard # NoGuard => guard = lease /\ guard.owner \in Owners /\ guard.epoch > 0

Inv ==
    /\ TypeOK /\ Held
    /\ \A m \in Migrations : Numbered(m) /\ Staged(m)
    /\ Separated /\ AuthorizedUnderLease /\ ReceiptsDiffer

LEMMA InitInv == Init => Inv
<1> SUFFICES ASSUME Init PROVE Inv
    OBVIOUS
<1> USE EpochAssumption DEF Init
<1>1. TypeOK
    BY DEF TypeOK, Stages, Leases, NoGuard
<1>2. Held /\ AuthorizedUnderLease /\ ReceiptsDiffer
    BY DEF Held, AuthorizedUnderLease, ReceiptsDiffer
<1>3. \A m \in Migrations : Numbered(m) /\ Staged(m)
    BY DEF Numbered, Staged
<1>4. Separated
    BY CheckParallelEmpty DEF Separated
<1> QED
    BY <1>1, <1>2, <1>3, <1>4 DEF Inv
-----------------------------------------------------------------------------
(* The loop of certify_plan.                                               *)

AllWaves == [index : Nat, steps : Seq(Steps)]

\* The waves of m with the one being filled closed.
Closed(m) == Append(waves[m], Wave(Len(waves[m]), current[m]))

\* The closed waves ws hold the steps before next, numbered and apart.
Sound(ws, next) ==
    /\ ws \in Seq(AllWaves)
    /\ \A w \in DOMAIN ws :
           /\ ws[w].index = w - 1
           /\ ws[w].steps # <<>>
           /\ CheckParallel(ws[w].steps)
           /\ \A i \in DOMAIN ws[w].steps :
                  ws[w].steps[i].index = NextIndexAt(ws, w) + i - 1
    /\ NextIndexAt(ws, Len(ws) + 1) = next

\* Closing a wave leaves the certificate numbered and free of conflicts, and
\* the next step starts where the wave ended.
LEMMA CloseWave ==
    ASSUME NEW m \in Migrations, TypeOK, Numbered(m), current[m] # <<>>,
           CheckParallel(current[m]),
           \A w \in DOMAIN waves[m] : CheckParallel(waves[m][w].steps)
    PROVE  Sound(Closed(m), NextIndex(m))
<1> DEFINE closed == Closed(m)
           ws == waves[m]
           cur == current[m]
<1>0. ws \in Seq(AllWaves) /\ cur \in Seq(Steps)
    BY DEF TypeOK, AllWaves
<1>1. Len(ws) \in Nat /\ Len(cur) \in Nat \ {0} /\ ws \in Seq(AllWaves) /\ cur \in Seq(Steps)
    BY <1>0
<1>2. Wave(Len(ws), cur) \in AllWaves
    BY <1>1 DEF Wave, AllWaves
<1>3. /\ closed \in Seq(AllWaves) /\ Len(closed) = Len(ws) + 1
      /\ \A w \in 1..Len(ws) : closed[w] = ws[w]
      /\ closed[Len(ws) + 1] = Wave(Len(ws), cur)
    BY <1>1, <1>2 DEF Closed
<1> HIDE DEF closed
<1>4. \A w \in 1..(Len(ws) + 1) : NextIndexAt(closed, w) = NextIndexAt(ws, w)
    <2> SUFFICES ASSUME NEW w \in 1..(Len(ws) + 1) PROVE NextIndexAt(closed, w) = NextIndexAt(ws, w)
        OBVIOUS
    <2>1. CASE w = 1
        BY <2>1 DEF NextIndexAt
    <2>2. CASE w # 1
        <3>1. w - 1 \in 1..Len(ws)
            BY <1>1, <2>2
        <3>2. closed[w - 1] = ws[w - 1]
            BY <1>3, <3>1
        <3> QED
            BY <2>2, <3>2 DEF NextIndexAt
    <2> QED
        BY <2>1, <2>2
<1>5. ASSUME NEW w \in 1..Len(ws)
      PROVE  /\ closed[w].index = w - 1
             /\ closed[w].steps # <<>>
             /\ CheckParallel(closed[w].steps)
             /\ \A i \in DOMAIN closed[w].steps :
                    closed[w].steps[i].index = NextIndexAt(closed, w) + i - 1
    <2>0. w \in DOMAIN ws /\ w \in 1..(Len(ws) + 1)
        BY <1>0
    <2>1. closed[w] = ws[w] /\ NextIndexAt(closed, w) = NextIndexAt(ws, w) /\ w \in DOMAIN ws
        BY <1>3, <1>4, <2>0
    <2> QED
        BY <2>1 DEF Numbered
<1>6. /\ closed[Len(ws) + 1].index = Len(ws)
      /\ closed[Len(ws) + 1].steps = cur
      /\ NextIndexAt(closed, Len(ws) + 1) = NextIndexAt(ws, Len(ws) + 1)
    BY <1>1, <1>3, <1>4 DEF Wave
<1>7. \A i \in DOMAIN cur : cur[i].index = NextIndexAt(ws, Len(ws) + 1) + i - 1
    BY DEF Numbered
<1>8. NextIndexAt(closed, Len(closed) + 1) = cur[Len(cur)].index + 1
    BY <1>1, <1>3, <1>6 DEF NextIndexAt
<1>9. DOMAIN closed = 1..(Len(ws) + 1)
    BY <1>1, <1>3
<1>10. ASSUME NEW w \in DOMAIN closed
       PROVE  /\ closed[w].index = w - 1
              /\ closed[w].steps # <<>>
              /\ CheckParallel(closed[w].steps)
              /\ \A i \in DOMAIN closed[w].steps :
                     closed[w].steps[i].index = NextIndexAt(closed, w) + i - 1
    <2>1. CASE w \in 1..Len(ws)
        BY <1>5, <2>1
    <2>2. CASE w = Len(ws) + 1
        BY <1>1, <1>6, <1>7, <2>2
    <2> QED
        BY <1>1, <1>9, <2>1, <2>2
<1> QED
    BY <1>3, <1>8, <1>10 DEF NextIndex, Sound, closed

\* Step numbers are natural.
LEMMA NextIndexAtType ==
    ASSUME NEW ws \in Seq(AllWaves), \A w \in DOMAIN ws : ws[w].steps # <<>>
    PROVE  NextIndexAt(ws, Len(ws) + 1) \in Nat
<1>1. CASE Len(ws) = 0
    BY <1>1 DEF NextIndexAt
<1>2. CASE Len(ws) # 0
    <2> DEFINE last == ws[Len(ws)].steps
    <2>1. Len(ws) \in DOMAIN ws /\ Len(ws) + 1 # 1 /\ Len(ws) + 1 - 1 = Len(ws)
        BY <1>2
    <2>11. ws[Len(ws)] \in AllWaves
        BY <2>1
    <2>2. last \in Seq(Steps) /\ last # <<>>
        BY <2>1, <2>11 DEF AllWaves
    <2>3. last[Len(last)] \in Steps
        BY <2>2
    <2>4. last[Len(last)].index \in Nat
        BY <2>3 DEF Steps
    <2> QED
        BY <2>1, <2>4 DEF NextIndexAt
<1> QED
    BY <1>1, <1>2

\* The next step of the plan joins the wave being filled or closes it.
LEMMA TakeStepKeeps ==
    ASSUME Inv, NEW m \in Migrations, TakeStep(m)
    PROVE  /\ waves' \in [Migrations -> Seq(AllWaves)]
           /\ current' \in [Migrations -> Seq(Steps)]
           /\ \A k \in Migrations : Numbered(k)'
           /\ Separated'
<1> DEFINE next == NextIndex(m)
           step == BorrowedStep(next, changes[m][next + 1])
           ws == waves[m]
           cur == current[m]
<1>0. /\ TypeOK /\ Numbered(m) /\ Separated
      /\ waves \in [Migrations -> Seq(AllWaves)] /\ current \in [Migrations -> Seq(Steps)]
      /\ CheckParallel(cur) /\ \A w \in DOMAIN ws : CheckParallel(ws[w].steps)
    BY DEF Inv, TypeOK, AllWaves, Separated
<1>1. /\ TypeOK /\ Numbered(m) /\ Separated
      /\ waves \in [Migrations -> Seq(AllWaves)] /\ current \in [Migrations -> Seq(Steps)]
      /\ ws \in Seq(AllWaves) /\ cur \in Seq(Steps) /\ Len(ws) \in Nat /\ Len(cur) \in Nat
      /\ CheckParallel(cur) /\ \A w \in DOMAIN ws : CheckParallel(ws[w].steps)
    BY <1>0
<1>2. next = NextIndexAt(ws, Len(ws) + 1) + Len(cur) /\ next \in Nat
    <2>1. CASE cur = <<>>
        BY <1>1, <2>1 DEF NextIndex, NextIndexAt, Numbered, TakeStep
    <2>2. CASE cur # <<>>
        <3>1. Len(cur) \in DOMAIN cur /\ cur[Len(cur)] \in Steps
            BY <1>1, <2>2
        <3>2. cur[Len(cur)].index = NextIndexAt(ws, Len(ws) + 1) + Len(cur) - 1
            BY <1>1, <3>1 DEF Numbered
        <3>3. cur[Len(cur)].index \in Nat
            BY <3>1 DEF Steps
        <3>4. NextIndexAt(ws, Len(ws) + 1) \in Nat
            BY <1>1, NextIndexAtType DEF Numbered
        <3>5. next = cur[Len(cur)].index + 1
            BY <2>2 DEF NextIndex
        <3> QED
            BY <1>1, <3>2, <3>3, <3>4, <3>5
    <2> QED
        BY <2>1, <2>2
<1>3. step \in Steps /\ step.index = next
    <2>1. changes[m][next + 1] \in Changes
        BY <1>1, <1>2 DEF TakeStep, TypeOK
    <2> QED
        BY <1>2, <2>1 DEF BorrowedStep, Steps
<1>4. ASSUME NEW k \in Migrations, k # m
      PROVE  /\ waves'[k] = waves[k] /\ current'[k] = current[k]
             /\ Numbered(k)' /\ CheckParallel(current'[k])
             /\ \A w \in DOMAIN waves'[k] : CheckParallel(waves'[k][w].steps)
    <2>1. waves'[k] = waves[k] /\ current'[k] = current[k] /\ changes' = changes /\ stage' = stage
        BY <1>1, <1>4 DEF TakeStep, TypeOK
    <2>2. Numbered(k) /\ CheckParallel(current[k])
          /\ \A w \in DOMAIN waves[k] : CheckParallel(waves[k][w].steps)
        BY <1>4 DEF Inv, Separated
    <2> QED
        BY <2>1, <2>2 DEF Numbered
<1>5. CASE cur # <<>> /\ StepConflictsWithAny(step, cur)
    <2> DEFINE closed == Append(ws, Wave(Len(ws), cur))
    <2>1. waves' = [waves EXCEPT ![m] = closed] /\ current' = [current EXCEPT ![m] = <<step>>]
        BY <1>1, <1>5 DEF TakeStep, TypeOK
    <2>2. waves'[m] = closed /\ current'[m] = <<step>>
        BY <1>1, <2>1 DEF TypeOK
    <2> HIDE DEF closed
    <2>3. Sound(closed, next)
        BY <1>1, <1>5, CloseWave DEF closed, Closed
    <2>31. /\ current'[m] # <<>> /\ stage'[m] = "certify"
           /\ \A i \in DOMAIN current'[m] :
                  current'[m][i].index = NextIndexAt(closed, Len(closed) + 1) + i - 1
        <3>1. stage'[m] = "certify"
            BY DEF TakeStep
        <3>2. current'[m] # <<>> /\ DOMAIN current'[m] = {1} /\ current'[m][1] = step
            BY <2>2
        <3> QED
            BY <1>2, <1>3, <2>3, <3>1, <3>2 DEF Sound
    <2>4. Numbered(m)'
        BY <2>2, <2>3, <2>31 DEF Numbered, Sound
    <2>5. Separated'
        BY <1>4, <2>2, <2>3, CheckParallelOne DEF Separated, Sound
    <2>6. waves' \in [Migrations -> Seq(AllWaves)] /\ current' \in [Migrations -> Seq(Steps)]
        BY <1>1, <1>3, <2>1, <2>3 DEF Sound
    <2> QED
        BY <1>4, <2>4, <2>5, <2>6
<1>6. CASE ~(cur # <<>> /\ StepConflictsWithAny(step, cur))
    <2> DEFINE longer == Append(cur, step)
    <2>1. waves' = waves /\ current' = [current EXCEPT ![m] = longer]
        BY <1>1, <1>6 DEF TakeStep, TypeOK
    <2>2. waves'[m] = ws /\ current'[m] = longer
        BY <1>1, <2>1 DEF TypeOK
    <2>3. /\ longer \in Seq(Steps) /\ Len(longer) = Len(cur) + 1 /\ longer # <<>>
          /\ \A i \in 1..Len(cur) : longer[i] = cur[i]
          /\ longer[Len(cur) + 1] = step
        <3>1. cur \in Seq(Steps) /\ step \in Steps
            BY <1>1, <1>3
        <3> HIDE DEF cur, step
        <3>2. /\ longer \in Seq(Steps) /\ Len(longer) = Len(cur) + 1
              /\ \A i \in 1..Len(cur) : longer[i] = cur[i]
              /\ longer[Len(cur) + 1] = step
            BY <3>1
        <3>3. longer # <<>>
            BY <3>1, <3>2
        <3> QED
            BY <3>2, <3>3
    <2>4. ~StepConflictsWithAny(step, cur)
        BY <1>6 DEF StepConflictsWithAny
    <2>5. CheckParallel(longer)
        BY <1>1, <1>3, <2>4, CheckParallelAppend
    <2> HIDE DEF longer
    <2>6. \A i \in DOMAIN longer : longer[i].index = NextIndexAt(ws, Len(ws) + 1) + i - 1
        <3> SUFFICES ASSUME NEW i \in DOMAIN longer
                     PROVE  longer[i].index = NextIndexAt(ws, Len(ws) + 1) + i - 1
            OBVIOUS
        <3>1. CASE i \in 1..Len(cur)
            BY <1>1, <2>3, <3>1 DEF Numbered
        <3>2. CASE i = Len(cur) + 1
            BY <1>1, <1>2, <1>3, <2>3, <3>2
        <3> QED
            BY <1>1, <2>3, <3>1, <3>2
    <2>61. stage'[m] = "certify" /\ stage[m] = "certify"
        BY DEF TakeStep
    <2>7. Numbered(m)'
        BY <1>1, <2>2, <2>3, <2>6, <2>61 DEF Numbered
    <2>8. Separated'
        BY <1>1, <1>4, <2>2, <2>5 DEF Separated
    <2>9. waves' \in [Migrations -> Seq(AllWaves)] /\ current' \in [Migrations -> Seq(Steps)]
        BY <1>1, <2>1, <2>3
    <2> QED
        BY <1>4, <2>7, <2>8, <2>9
<1> QED
    BY <1>5, <1>6

\* At the end of the plan the wave being filled is closed, if it has a step.
LEMMA FinishKeeps ==
    ASSUME Inv, NEW m \in Migrations, FinishCertificate(m)
    PROVE  /\ waves' \in [Migrations -> Seq(AllWaves)]
           /\ current' \in [Migrations -> Seq(Steps)]
           /\ \A k \in Migrations : Numbered(k)'
           /\ Separated'
<1> DEFINE ws == waves[m]
           cur == current[m]
           closed == IF cur = <<>> THEN ws ELSE Append(ws, Wave(Len(ws), cur))
<1>0. /\ TypeOK /\ Numbered(m) /\ Separated
      /\ waves \in [Migrations -> Seq(AllWaves)] /\ current \in [Migrations -> Seq(Steps)]
      /\ CheckParallel(cur) /\ \A w \in DOMAIN ws : CheckParallel(ws[w].steps)
    BY DEF Inv, TypeOK, AllWaves, Separated
<1>1. /\ waves' = [waves EXCEPT ![m] = closed] /\ current' = [current EXCEPT ![m] = <<>>]
      /\ changes' = changes /\ stage' = [stage EXCEPT ![m] = "certified"]
      /\ stage[m] = "certify" /\ Len(changes[m]) = NextIndex(m)
    BY <1>0 DEF FinishCertificate, TypeOK
<1>2. waves'[m] = closed /\ current'[m] = <<>> /\ stage'[m] = "certified"
    BY <1>0, <1>1 DEF TypeOK
<1>3. Sound(closed, NextIndex(m))
    <2>1. CASE cur = <<>>
        <3>1. closed = <<>> /\ NextIndex(m) = 0
            BY <1>0, <1>1, <2>1 DEF Numbered, NextIndex
        <3> HIDE DEF closed
        <3>2. closed \in Seq(AllWaves) /\ DOMAIN closed = {} /\ Len(closed) = 0
            BY <3>1
        <3> QED
            BY <3>1, <3>2 DEF NextIndexAt, Sound
    <2>2. CASE cur # <<>>
        <3>1. closed = Closed(m)
            BY <2>2 DEF Closed
        <3> QED
            BY <1>0, <2>2, <3>1, CloseWave
    <2> QED
        BY <2>1, <2>2
<1> HIDE DEF closed
<1>4. ASSUME NEW k \in Migrations, k # m
      PROVE  /\ waves'[k] = waves[k] /\ current'[k] = current[k]
             /\ Numbered(k)' /\ CheckParallel(current'[k])
             /\ \A w \in DOMAIN waves'[k] : CheckParallel(waves'[k][w].steps)
    <2>1. /\ waves'[k] = waves[k] /\ current'[k] = current[k]
          /\ changes' = changes /\ stage'[k] = stage[k]
        BY <1>0, <1>1, <1>4 DEF TypeOK
    <2>2. Numbered(k) /\ CheckParallel(current[k])
          /\ \A w \in DOMAIN waves[k] : CheckParallel(waves[k][w].steps)
        BY <1>4 DEF Inv, Separated
    <2> QED
        BY <2>1, <2>2 DEF Numbered
<1>5. Numbered(m)'
    BY <1>1, <1>2, <1>3 DEF Numbered, Sound
<1>6. Separated'
    BY <1>2, <1>3, <1>4, CheckParallelEmpty DEF Separated, Sound
<1>7. waves' \in [Migrations -> Seq(AllWaves)] /\ current' \in [Migrations -> Seq(Steps)]
    BY <1>0, <1>1, <1>3 DEF Sound
<1> QED
    BY <1>4, <1>5, <1>6, <1>7

\* What certify_plan is done with stays as it is.
LEMMA Certified ==
    ASSUME Inv, NEW m \in Migrations,
           UNCHANGED <<changes, waves, current>>,
           \A k \in Migrations :
               stage'[k] = stage[k] \/ {stage[k], stage'[k]} \cap {"none", "certify"} = {}
    PROVE  (\A k \in Migrations : Numbered(k)') /\ Separated'
BY DEF Inv, Numbered, Separated
-----------------------------------------------------------------------------
(* Every step keeps the invariant.                                         *)

LEMMA ReceiptEpochs == TypeOK => \A i \in DOMAIN receipts : receipts[i].epoch \in Nat
<1> DEFINE R == [owner : Owners, epoch : 1..MaxEpoch]
<1> SUFFICES ASSUME TypeOK, NEW i \in DOMAIN receipts PROVE receipts[i].epoch \in Nat
    OBVIOUS
<1>1. receipts \in Seq(R)
    BY DEF TypeOK
<1>2. \A r \in R : r.epoch \in Nat
    BY EpochAssumption
<1> HIDE DEF R
<1>3. receipts[i] \in R
    BY <1>1
<1> QED
    BY <1>2, <1>3

LEMMA StepKeeps == Inv /\ [Next]_vars => Inv'
<1> SUFFICES ASSUME Inv, [Next]_vars PROVE Inv'
    OBVIOUS
<1>0. TypeOK /\ Held /\ Separated /\ AuthorizedUnderLease /\ ReceiptsDiffer
      /\ (\A m \in Migrations : Numbered(m) /\ Staged(m))
    BY DEF Inv
<1>1. ASSUME NEW m \in Migrations, Start(m) PROVE Inv'
    <2>1. TypeOK'
        <3>1. ASSUME NEW plan \in PlansOf[m] PROVE plan \in Seq(Changes)
            BY <3>1, PlansAssumption
        <3> QED
            BY <1>0, <1>1, <3>1 DEF Start, TypeOK, Stages, leases
    <2>2. \A k \in Migrations : Numbered(k)' /\ Staged(k)'
        BY <1>0, <1>1 DEF Start, TypeOK, Numbered, Staged, leases
    <2>3. Held' /\ AuthorizedUnderLease' /\ ReceiptsDiffer' /\ Separated'
        BY <1>0, <1>1 DEF Start, TypeOK, Held, AuthorizedUnderLease, ReceiptsDiffer,
                          Separated, leases
    <2> QED
        BY <2>1, <2>2, <2>3 DEF Inv
<1>2. ASSUME NEW m \in Migrations, TakeStep(m) PROVE Inv'
    <2>1. TypeOK'
        BY <1>0, <1>2, TakeStepKeeps DEF TakeStep, TypeOK, leases, AllWaves
    <2>2. Held' /\ AuthorizedUnderLease' /\ ReceiptsDiffer' /\ \A k \in Migrations : Staged(k)'
        BY <1>0, <1>2 DEF TakeStep, Held, AuthorizedUnderLease, ReceiptsDiffer, Staged, leases
    <2> QED
        BY <1>2, <2>1, <2>2, TakeStepKeeps DEF Inv
<1>3. ASSUME NEW m \in Migrations, FinishCertificate(m) PROVE Inv'
    <2>1. TypeOK'
        BY <1>0, <1>3, FinishKeeps DEF FinishCertificate, TypeOK, leases, AllWaves, Stages
    <2>2. Held' /\ AuthorizedUnderLease' /\ ReceiptsDiffer' /\ \A k \in Migrations : Staged(k)'
        BY <1>0, <1>3 DEF FinishCertificate, TypeOK, Held, AuthorizedUnderLease,
                          ReceiptsDiffer, Staged, leases
    <2> QED
        BY <1>3, <2>1, <2>2, FinishKeeps DEF Inv
<1>4. ASSUME NEW m \in Migrations, Validate(m) PROVE Inv'
    <2> USE <1>0, <1>4 DEF Validate, Become, TypeOK, plans, leases
    <2>1. TypeOK'
        BY DEF Stages
    <2>2. (\A k \in Migrations : Numbered(k)') /\ Separated'
        BY Certified
    <2>3. \A k \in Migrations : Staged(k)'
        BY DEF Staged
    <2>4. Held' /\ AuthorizedUnderLease' /\ ReceiptsDiffer'
        BY DEF Held, AuthorizedUnderLease, ReceiptsDiffer
    <2> QED
        BY <2>1, <2>2, <2>3, <2>4 DEF Inv
<1>5. ASSUME NEW m \in Migrations, Authorize(m) PROVE Inv'
    <2> USE <1>0, <1>5 DEF Authorize, Become, TypeOK, plans, leases
    <2>1. TypeOK'
        BY DEF Stages
    <2>2. (\A k \in Migrations : Numbered(k)') /\ Separated'
        BY Certified
    <2>3. \A k \in Migrations : Staged(k)'
        BY DEF Staged, Held
    <2>4. Held' /\ AuthorizedUnderLease' /\ ReceiptsDiffer'
        BY OwnersAssumption DEF Held, AuthorizedUnderLease, ReceiptsDiffer, Staged
    <2> QED
        BY <2>1, <2>2, <2>3, <2>4 DEF Inv
<1>6. ASSUME NEW m \in Migrations, End(m) PROVE Inv'
    <2> USE <1>0, <1>6 DEF End, Become, TypeOK, plans, leases
    <2>1. TypeOK'
        BY DEF Stages
    <2>2. (\A k \in Migrations : Numbered(k)') /\ Separated'
        BY Certified
    <2>3. \A k \in Migrations : Staged(k)'
        BY DEF Staged
    <2>4. Held' /\ AuthorizedUnderLease' /\ ReceiptsDiffer'
        BY DEF Held, AuthorizedUnderLease, ReceiptsDiffer
    <2> QED
        BY <2>1, <2>2, <2>3, <2>4 DEF Inv
<1>7. ASSUME NEW m \in Migrations, Drop(m) PROVE Inv'
    <2> USE <1>0, <1>7 DEF Drop, Become, TypeOK, plans, leases
    <2>1. TypeOK'
        BY DEF Stages
    <2>2. (\A k \in Migrations : Numbered(k)') /\ Separated'
        BY Certified
    <2>3. \A k \in Migrations : Staged(k)'
        BY DEF Staged
    <2>4. Held' /\ AuthorizedUnderLease' /\ ReceiptsDiffer'
        BY DEF Held, AuthorizedUnderLease, ReceiptsDiffer
    <2> QED
        BY <2>1, <2>2, <2>3, <2>4 DEF Inv
<1>8. ASSUME NEW o \in Owners, Acquire(o) PROVE Inv'
    <2> USE <1>0, <1>8, EpochAssumption, OwnersAssumption DEF Acquire, plans
    <2>0. lease' \in Leases /\ guard' = lease'
        BY DEF TypeOK, Leases
    <2>1. TypeOK'
        BY <2>0 DEF TypeOK
    <2>2. (\A k \in Migrations : Numbered(k)' /\ Staged(k)') /\ Separated'
        BY DEF Numbered, Staged, Separated
    <2>3. Held'
        BY DEF Held, TypeOK, Leases
    <2>4. AuthorizedUnderLease'
        BY DEF AuthorizedUnderLease, NoGuard
    <2>50. lease.epoch \in Nat /\ lease'.epoch = lease.epoch + 1 /\ guard' = lease'
           /\ receipts' = receipts /\ receipts \in Seq([owner : Owners, epoch : 1..MaxEpoch])
        BY DEF TypeOK, Leases
    <2>51. \A i \in DOMAIN receipts : receipts[i].epoch \in Nat
        BY ReceiptEpochs
    <2>5. ReceiptsDiffer'
        BY <2>50, <2>51 DEF ReceiptsDiffer
    <2> QED
        BY <2>1, <2>2, <2>3, <2>4, <2>5 DEF Inv
<1>9. ASSUME Release PROVE Inv'
    <2> USE <1>0, <1>9, EpochAssumption DEF Release, Unborrowed, plans
    <2>0. lease' \in Leases /\ guard' \in Leases /\ guard \in [owner : Owners, epoch : 1..MaxEpoch]
        <3>1. lease \in [owner : Owners \cup {NoOwner}, epoch : 0..MaxEpoch] /\ guard \in Leases
            BY DEF TypeOK, Leases
        <3>2. lease' \in Leases /\ NoGuard \in Leases
            BY <3>1 DEF Leases, NoGuard
        <3>3. guard \in [owner : Owners, epoch : 1..MaxEpoch]
            BY <3>1 DEF Held, Leases
        <3> QED
            BY <3>2, <3>3
    <2>01. receipts' \in Seq([owner : Owners, epoch : 1..MaxEpoch])
        BY <2>0 DEF TypeOK
    <2>1. TypeOK'
        BY <2>0, <2>01 DEF TypeOK
    <2>2. (\A k \in Migrations : Numbered(k)' /\ Staged(k)') /\ Separated'
        BY DEF Numbered, Staged, Separated
    <2>3. Held' /\ AuthorizedUnderLease'
        BY DEF Held, AuthorizedUnderLease
    <2>4. ReceiptsDiffer'
        BY DEF ReceiptsDiffer, TypeOK, Leases, Held
    <2> QED
        BY <2>1, <2>2, <2>3, <2>4 DEF Inv
<1>10. ASSUME DropGuard \/ ForgetGuard PROVE Inv'
    <2> USE <1>0, <1>10, EpochAssumption DEF DropGuard, ForgetGuard, Unborrowed, plans
    <2>0. lease' \in Leases /\ guard' \in Leases
        <3>1. lease \in [owner : Owners \cup {NoOwner}, epoch : 0..MaxEpoch]
            BY DEF TypeOK, Leases
        <3> QED
            BY <3>1 DEF Leases, NoGuard
    <2>1. TypeOK'
        BY <2>0 DEF TypeOK
    <2>2. (\A k \in Migrations : Numbered(k)' /\ Staged(k)') /\ Separated'
        BY DEF Numbered, Staged, Separated
    <2>3. Held' /\ AuthorizedUnderLease'
        BY DEF Held, AuthorizedUnderLease
    <2>4. ReceiptsDiffer'
        BY DEF ReceiptsDiffer, TypeOK, Leases
    <2> QED
        BY <2>1, <2>2, <2>3, <2>4 DEF Inv
<1>11. CASE UNCHANGED vars
    <2> USE <1>0, <1>11 DEF vars
    <2>1. TypeOK' /\ Held' /\ AuthorizedUnderLease' /\ ReceiptsDiffer'
        BY DEF TypeOK, Held, AuthorizedUnderLease, ReceiptsDiffer
    <2>2. (\A k \in Migrations : Numbered(k)' /\ Staged(k)') /\ Separated'
        BY DEF Numbered, Staged, Separated
    <2> QED
        BY <2>1, <2>2 DEF Inv
<1> QED
    BY <1>1, <1>2, <1>3, <1>4, <1>5, <1>6, <1>7, <1>8, <1>9, <1>10, <1>11 DEF Next

-----------------------------------------------------------------------------
(* Waves are full.                                                         *)

\* The wave of steps ends where the step next stands in its way.
Stops(next, steps) == StepConflictsWithAny(next, steps)

\* Closed waves are full, and the last of them is full because of the wave that
\* is being filled.
Full(m) ==
    /\ \A w \in DOMAIN waves[m] :
           w < Len(waves[m]) => Stops(waves[m][w + 1].steps[1], waves[m][w].steps)
    /\ (stage[m] = "certify" /\ waves[m] # <<>>) =>
           Stops(current[m][1], waves[m][Len(waves[m])].steps)

\* Closing the wave that is being filled leaves full waves.
LEMMA CloseFull ==
    ASSUME NEW m \in Migrations, TypeOK, Full(m), stage[m] = "certify"
    PROVE  \A w \in DOMAIN Closed(m) :
               w < Len(Closed(m)) => Stops(Closed(m)[w + 1].steps[1], Closed(m)[w].steps)
<1> DEFINE ws == waves[m]
           cur == current[m]
           closed == Closed(m)
<1>1. ws \in Seq(AllWaves) /\ cur \in Seq(Steps)
    BY DEF TypeOK, AllWaves
<1>2. Wave(Len(ws), cur) \in AllWaves /\ Wave(Len(ws), cur).steps = cur
    BY <1>1 DEF Wave, AllWaves
<1>3. /\ Len(closed) = Len(ws) + 1 /\ DOMAIN closed = 1..(Len(ws) + 1)
      /\ \A w \in 1..Len(ws) : closed[w] = ws[w]
      /\ closed[Len(ws) + 1].steps = cur
    BY <1>1, <1>2 DEF Closed
<1>4. \A w \in DOMAIN ws : w < Len(ws) => Stops(ws[w + 1].steps[1], ws[w].steps)
    BY DEF Full
<1>5. ws # <<>> => Stops(cur[1], ws[Len(ws)].steps)
    BY DEF Full
<1> HIDE DEF closed, ws, cur
<1> SUFFICES ASSUME NEW w \in DOMAIN closed, w < Len(closed)
             PROVE  Stops(closed[w + 1].steps[1], closed[w].steps)
    BY DEF closed
<1>6. Len(ws) \in Nat /\ w \in 1..Len(ws) /\ w \in DOMAIN ws
    BY <1>1, <1>3
<1>7. CASE w < Len(ws)
    BY <1>3, <1>4, <1>6, <1>7
<1>8. CASE w = Len(ws)
    <2>1. ws # <<>>
        BY <1>1, <1>6
    <2> QED
        BY <1>3, <1>5, <1>6, <1>8, <2>1
<1> QED
    BY <1>6, <1>7, <1>8

\* The step that closes a wave conflicts with it; one that joins a wave does
\* not become its first.
LEMMA TakeStepFull ==
    ASSUME Inv, NEW m \in Migrations, TakeStep(m), Full(m)
    PROVE  Full(m)'
<1> DEFINE ws == waves[m]
           cur == current[m]
           step == BorrowedStep(NextIndex(m), changes[m][NextIndex(m) + 1])
<1>1. /\ TypeOK /\ Numbered(m) /\ stage[m] = "certify" /\ stage' = stage
      /\ waves \in [Migrations -> Seq(AllWaves)] /\ current \in [Migrations -> Seq(Steps)]
    BY DEF Inv, TypeOK, AllWaves, TakeStep
<1>2. CASE cur # <<>> /\ StepConflictsWithAny(step, cur)
    <2>1. waves'[m] = Closed(m) /\ current'[m] = <<step>>
        BY <1>1, <1>2 DEF TakeStep, Closed
    <2>2. Wave(Len(ws), cur) \in AllWaves /\ Wave(Len(ws), cur).steps = cur
        BY <1>1 DEF Wave, AllWaves
    <2>3. Closed(m)[Len(Closed(m))].steps = cur
        BY <1>1, <2>2 DEF Closed
    <2>4. Stops(step, cur) /\ <<step>>[1] = step
        BY <1>2 DEF Stops
    <2> HIDE DEF step, cur
    <2> QED
        BY <1>1, <2>1, <2>3, <2>4, CloseFull DEF Full
<1>3. CASE ~(cur # <<>> /\ StepConflictsWithAny(step, cur))
    <2>1. waves'[m] = ws /\ current'[m] = Append(cur, step)
        BY <1>1, <1>3 DEF TakeStep
    <2>2. ws # <<>> => cur # <<>>
        BY <1>1 DEF Numbered
    <2>3. cur # <<>> => Append(cur, step)[1] = cur[1]
        BY <1>1
    <2> HIDE DEF step, cur, ws
    <2> QED
        BY <1>1, <2>1, <2>2, <2>3 DEF Full, ws, cur
<1> QED
    BY <1>2, <1>3

LEMMA FullKeeps ==
    ASSUME Inv, [Next]_vars, \A m \in Migrations : Full(m)
    PROVE  \A m \in Migrations : Full(m)'
<1> SUFFICES ASSUME NEW m \in Migrations PROVE Full(m)'
    OBVIOUS
<1>0. TypeOK /\ Numbered(m) /\ Full(m)
    BY DEF Inv
<1>1. CASE /\ waves'[m] = waves[m] /\ current'[m] = current[m]
           /\ (stage'[m] = "certify" => stage[m] = "certify")
    BY <1>0, <1>1 DEF Full
<1>2. CASE Start(m)
    <2>1. waves'[m] = <<>>
        BY <1>0, <1>2 DEF Start, Numbered
    <2> QED
        BY <2>1 DEF Full
<1>3. CASE TakeStep(m)
    BY <1>0, <1>3, TakeStepFull
<1>4. CASE FinishCertificate(m)
    <2>1. /\ stage[m] = "certify" /\ stage'[m] = "certified"
          /\ waves'[m] = IF current[m] = <<>> THEN waves[m] ELSE Closed(m)
        BY <1>0, <1>4 DEF FinishCertificate, TypeOK, Closed
    <2>2. CASE current[m] = <<>>
        BY <1>0, <2>1, <2>2 DEF Full
    <2>3. CASE current[m] # <<>>
        BY <1>0, <2>1, <2>3, CloseFull DEF Full
    <2> QED
        BY <2>2, <2>3
<1>5. CASE \E k \in Migrations \ {m} : Start(k) \/ TakeStep(k) \/ FinishCertificate(k)
    BY <1>0, <1>1, <1>5 DEF Start, TakeStep, FinishCertificate, TypeOK
<1>6. CASE \E k \in Migrations : Validate(k) \/ Authorize(k) \/ End(k) \/ Drop(k)
    BY <1>0, <1>1, <1>6 DEF Validate, Authorize, End, Drop, Become, plans, TypeOK
<1>7. CASE (\E o \in Owners : Acquire(o)) \/ Release \/ DropGuard \/ ForgetGuard
    BY <1>1, <1>7 DEF Acquire, Release, DropGuard, ForgetGuard, plans
<1>8. CASE UNCHANGED vars
    BY <1>1, <1>8 DEF vars
<1> QED
    BY <1>2, <1>3, <1>4, <1>5, <1>6, <1>7, <1>8 DEF Next

\* A certificate is what certify_plan promises, for every plan: its waves are
\* free of conflicts, hold the plan in its order and are never cut early.
THEOREM CertificateInvariant == Spec => []CertificateInv
<1> DEFINE All == \A m \in Migrations : Full(m)
<1>1. Init => All
    BY DEF Init, Full
<1>2. Inv /\ All /\ [Next]_vars => All'
    BY FullKeeps
<1>3. Inv /\ All => CertificateInv
    <2>1. All => WavesAreFull
        BY DEF Full, WavesAreFull, Stops
    <2>2. Inv => TypeOK /\ Separated /\ CertificateValid
        BY DEF Inv, CertificateValid, Numbered, Separated, Validates
    <2> QED
        BY <2>1, <2>2 DEF CertificateInv
<1> HIDE DEF All
<1> QED
    BY <1>1, <1>2, <1>3, InitInv, StepKeeps, PTL DEF Spec

\* No authorization outlives its lease, and receipts name different tenures.
THEOREM LeaseDiscipline == Spec => []OneTenure
<1>1. Inv => OneTenure
    BY DEF Inv, OneTenure
<1> QED
    BY <1>1, InitInv, StepKeeps, PTL DEF Spec
-----------------------------------------------------------------------------
(* Each migration is the abstract machine.                                 *)

LEMMA ModelInit == Init => Model!Init
BY DEF Init, Model!Init, Model!State, ModelState, ModelPhase

LEMMA ModelFrame ==
    ASSUME UNCHANGED <<stage, proof, under>>
    PROVE  UNCHANGED [m \in Migrations |-> ModelState(m)]
BY DEF ModelState, ModelPhase

\* Only Validate, Authorize, End and Drop are seen by the abstract machine, and
\* only as steps of the migration they are about.
LEMMA ModelOthers ==
    ASSUME TypeOK, NEW m \in Migrations,
           \E to : stage' = [stage EXCEPT ![m] = to],
           proof' = proof \/ (\E to : proof' = [proof EXCEPT ![m] = to]),
           under' = under \/ (\E to : under' = [under EXCEPT ![m] = to])
    PROVE  \A k \in Migrations : k # m => ModelState(k)' = ModelState(k)
<1> SUFFICES ASSUME NEW k \in Migrations, k # m PROVE ModelState(k)' = ModelState(k)
    OBVIOUS
<1>1. stage'[k] = stage[k] /\ proof'[k] = proof[k] /\ under'[k] = under[k]
    BY DEF TypeOK
<1> QED
    BY <1>1 DEF ModelState, ModelPhase

LEMMA ModelNext ==
    ASSUME Inv, Next
    PROVE  [Model!Next]_[m \in Migrations |-> ModelState(m)]
<1> DEFINE abs == [m \in Migrations |-> ModelState(m)]
<1>0. TypeOK /\ \A m \in Migrations : Staged(m)
    BY DEF Inv
<1>1. CASE \E m \in Migrations : Start(m) \/ TakeStep(m) \/ FinishCertificate(m)
    <2> PICK m \in Migrations : Start(m) \/ TakeStep(m) \/ FinishCertificate(m)
        BY <1>1
    <2>1. proof' = proof /\ under' = under
        BY DEF Start, TakeStep, FinishCertificate
    <2>2. \A k \in Migrations : ModelPhase(k)' = ModelPhase(k)
                                /\ (stage'[k] = "authorized" <=> stage[k] = "authorized")
        BY <1>0, <2>1 DEF Start, TakeStep, FinishCertificate, ModelPhase, TypeOK
    <2>3. abs' = abs
        BY <2>1, <2>2 DEF ModelState
    <2> QED
        BY <2>3
<1>2. CASE (\E o \in Owners : Acquire(o)) \/ Release \/ DropGuard \/ ForgetGuard
    BY <1>2, ModelFrame DEF Acquire, Release, DropGuard, ForgetGuard
<1>3. ASSUME NEW m \in Migrations, Validate(m) PROVE Model!Next
    <2>1. abs' = [abs EXCEPT ![m] = Model!State("Validated", @.owner, @.epoch, TRUE)]
        <3>1. /\ stage[m] = "certified" /\ stage' = [stage EXCEPT ![m] = "validated"]
              /\ proof' = [proof EXCEPT ![m] = TRUE] /\ under' = under
            BY <1>3 DEF Validate, Become
        <3>2. \A k \in Migrations : k # m => ModelState(k)' = ModelState(k)
            BY <1>0, <3>1, ModelOthers
        <3>3. ModelState(m)' =
                  Model!State("Validated", ModelState(m).owner, ModelState(m).epoch, TRUE)
            <4>1. under[m] = NoGuard /\ proof[m] = FALSE
                BY <1>0, <3>1 DEF Staged, TypeOK
            <4>2. stage'[m] = "validated" /\ proof'[m] = TRUE /\ under'[m] = NoGuard
                BY <1>0, <3>1, <4>1 DEF TypeOK
            <4>3. ModelState(m) = [phase |-> "Draft", owner |-> NoOwner, epoch |-> 0,
                                   validatedOnce |-> FALSE]
                BY <3>1, <4>1 DEF ModelState, ModelPhase
            <4>4. ModelState(m)' = [phase |-> "Validated", owner |-> NoOwner, epoch |-> 0,
                                    validatedOnce |-> TRUE]
                BY <4>2 DEF ModelState, ModelPhase
            <4> QED
                BY <4>3, <4>4 DEF Model!State
        <3> QED
            BY <3>2, <3>3
    <2>2. abs[m].phase = "Draft"
        BY <1>0, <1>3 DEF Validate, Become, ModelState, ModelPhase, Staged
    <2> QED
        BY <2>1, <2>2 DEF Model!Next, Model!Validate
<1>4. ASSUME NEW m \in Migrations, Authorize(m) PROVE Model!Next
    <2>1. /\ stage[m] = "validated" /\ stage' = [stage EXCEPT ![m] = "authorized"]
          /\ under' = [under EXCEPT ![m] = guard] /\ proof' = proof
          /\ under[m] = NoGuard /\ proof[m] /\ guard # NoGuard /\ guard.owner \in Owners
        BY <1>0, <1>4 DEF Authorize, Become, leases, Staged, Inv, Held
    <2>2. \A k \in Migrations : k # m => ModelState(k)' = ModelState(k)
        BY <1>0, <2>1, ModelOthers
    <2>3. ModelState(m)' = Model!State("Leased", guard.owner, ModelState(m).epoch + 1,
                                      ModelState(m).validatedOnce)
        <3>1. stage'[m] = "authorized" /\ under'[m] = guard /\ proof'[m] = proof[m]
            BY <1>0, <2>1 DEF TypeOK
        <3>2. ModelState(m) = [phase |-> "Validated", owner |-> NoOwner, epoch |-> 0,
                               validatedOnce |-> proof[m]]
            BY <2>1 DEF ModelState, ModelPhase
        <3>3. ModelState(m)' = [phase |-> "Leased", owner |-> guard.owner, epoch |-> 1,
                                validatedOnce |-> proof[m]]
            BY <2>1, <3>1 DEF ModelState, ModelPhase
        <3> QED
            BY <3>2, <3>3 DEF Model!State
    <2>4. abs' = [abs EXCEPT ![m] = Model!State("Leased", guard.owner, @.epoch + 1,
                                                @.validatedOnce)]
        BY <2>2, <2>3
    <2>5. abs[m].phase = "Validated" /\ abs[m].epoch < MaxEpoch
        BY <2>1, EpochAssumption DEF ModelState, ModelPhase
    <2> QED
        BY <2>1, <2>4, <2>5 DEF Model!Next, Model!Acquire
<1>5. ASSUME NEW m \in Migrations, End(m) \/ Drop(m), stage[m] = "authorized"
      PROVE  Model!Next
    <2>1. PICK to \in {"applied", "aborted", "dropped"} :
              stage' = [stage EXCEPT ![m] = to] /\ under' = under /\ proof' = proof
        BY <1>5 DEF End, Drop, Become
    <2>2. \A k \in Migrations : k # m => ModelState(k)' = ModelState(k)
        BY <1>0, <2>1, ModelOthers
    <2> DEFINE next == CASE to = "applied" -> "Applied" [] to = "aborted" -> "Aborted"
                         [] OTHER -> "Validated"
    <2>3. ModelState(m)' = Model!State(next, NoOwner, ModelState(m).epoch,
                                      ModelState(m).validatedOnce)
        <3>1. /\ stage'[m] = to /\ under'[m] = under[m] /\ proof'[m] = proof[m] /\ proof[m]
              /\ under[m].owner \in Owners
            BY <1>0, <1>5, <2>1 DEF TypeOK, Staged
        <3> DEFINE spent == IF under[m] = NoGuard THEN 0 ELSE 1
        <3>2. ModelState(m) = [phase |-> "Leased", owner |-> under[m].owner, epoch |-> spent,
                               validatedOnce |-> proof[m]]
            BY <1>5 DEF ModelState, ModelPhase
        <3>3. ModelState(m)' = [phase |-> next, owner |-> NoOwner, epoch |-> spent,
                                validatedOnce |-> proof[m]]
            BY <2>1, <3>1 DEF ModelState, ModelPhase
        <3> HIDE DEF next, spent
        <3> QED
            BY <3>2, <3>3 DEF Model!State
    <2> HIDE DEF next
    <2>4. abs' = [abs EXCEPT ![m] = Model!State(next, NoOwner, @.epoch, @.validatedOnce)]
        BY <2>2, <2>3
    <2>5. abs[m].phase = "Leased" /\ abs[m].owner = under[m].owner /\ under[m].owner \in Owners
        BY <1>0, <1>5 DEF ModelState, ModelPhase, Staged
    <2>6. next \in {"Applied", "Aborted", "Validated"}
        BY DEF next
    <2>7. Model!GiveBack(m, under[m].owner, next)
        BY <2>4, <2>5 DEF Model!GiveBack
    <2> QED
        BY <2>5, <2>6, <2>7 DEF Model!Next, Model!Release, Model!Apply, Model!Abort
<1>6. ASSUME NEW m \in Migrations, Drop(m), stage[m] # "authorized"
      PROVE  UNCHANGED abs
    <2>1. /\ stage[m] \in {"certified", "validated"} /\ stage' = [stage EXCEPT ![m] = "dropped"]
          /\ under' = under /\ proof' = proof
        BY <1>6 DEF Drop, Become
    <2>2. \A k \in Migrations : k # m => ModelState(k)' = ModelState(k)
        BY <1>0, <2>1, ModelOthers
    <2>3. ModelState(m)' = ModelState(m)
        BY <1>0, <2>1 DEF ModelState, ModelPhase, TypeOK
    <2> QED
        BY <2>2, <2>3
<1>7. ASSUME NEW m \in Migrations, End(m) PROVE stage[m] = "authorized"
    BY <1>7 DEF End, Become
<1> QED
    BY <1>1, <1>2, <1>3, <1>4, <1>5, <1>6, <1>7 DEF Next

\* Certification, typestates and lease together implement the machine that
\* formal.rs checks by enumeration.
THEOREM RefinesModel == Spec => ImplementsModel
<1>1. Inv /\ [Next]_vars => [Model!Next]_[m \in Migrations |-> ModelState(m)]
    <2>1. UNCHANGED vars => UNCHANGED [m \in Migrations |-> ModelState(m)]
        BY ModelFrame DEF vars
    <2> QED
        BY <2>1, ModelNext
<1> QED
    BY <1>1, InitInv, StepKeeps, ModelInit, PTL DEF Spec, ImplementsModel, Model!Spec
-----------------------------------------------------------------------------
(***************************************************************************)
(* The abstract machine on its own: what formal.rs checks of every trace   *)
(* up to a bound, for every trace.                                         *)
(***************************************************************************)
VARIABLE state
Machine == INSTANCE FormalModel

\* check_invariants is not inductive: it says nothing of the epoch of a leased
\* migration, which Apply and Abort keep.
LeaseCounted == \A m \in Migrations : state[m].phase = "Leased" => state[m].epoch > 0

MachineInv == Machine!TypeOK /\ Machine!CheckInvariants /\ LeaseCounted

LEMMA MachineInit == Machine!Init => MachineInv
BY OwnersAssumption, EpochAssumption
   DEF Machine!Init, Machine!State, MachineInv, Machine!TypeOK, Machine!CheckInvariants,
       LeaseCounted

\* step never returns its "violates invariant" error: whatever action it
\* accepts of a good state has a good result (formal.rs:454-460).
LEMMA MachineKeeps == MachineInv /\ [Machine!Next]_state => MachineInv'
<1> SUFFICES ASSUME MachineInv, [Machine!Next]_state PROVE MachineInv'
    OBVIOUS
<1> USE OwnersAssumption, EpochAssumption
    DEF MachineInv, Machine!TypeOK, Machine!CheckInvariants,
            LeaseCounted, Machine!State
<1>1. ASSUME NEW m \in Migrations, Machine!Validate(m) PROVE MachineInv'
    BY <1>1 DEF Machine!Validate
<1>2. ASSUME NEW m \in Migrations, NEW o \in Owners, Machine!Acquire(m, o) PROVE MachineInv'
    BY <1>2 DEF Machine!Acquire
<1>3. ASSUME NEW m \in Migrations, NEW o \in Owners, NEW next \in {"Validated", "Applied", "Aborted"},
             Machine!GiveBack(m, o, next)
      PROVE  MachineInv'
    <2>1. state' = [state EXCEPT ![m] = [phase |-> next, owner |-> NoOwner,
                        epoch |-> state[m].epoch, validatedOnce |-> state[m].validatedOnce]]
        BY <1>3 DEF Machine!GiveBack
    <2>2. state[m].epoch > 0 /\ state[m].validatedOnce
        BY <1>3 DEF Machine!GiveBack
    <2> QED
        BY <2>1, <2>2
<1>4. ASSUME NEW m \in Migrations, NEW o \in Owners,
             Machine!Release(m, o) \/ Machine!Apply(m, o) \/ Machine!Abort(m, o)
      PROVE  MachineInv'
    BY <1>3, <1>4 DEF Machine!Release, Machine!Apply, Machine!Abort
<1>6. CASE UNCHANGED state
    BY <1>6
<1> QED
    BY <1>1, <1>2, <1>4, <1>6 DEF Machine!Next

\* The abstract machine keeps its invariants in every run, however long.
THEOREM Invariants == Machine!Spec => [](Machine!TypeOK /\ Machine!CheckInvariants)
BY MachineInit, MachineKeeps, PTL DEF Machine!Spec, MachineInv

\* Applied and aborted are terminal.
THEOREM TerminalHolds == Machine!Spec => Machine!TerminalStays
<1>1. MachineInv /\ [Machine!Next]_state =>
        [\A m \in Migrations :
            state[m].phase \in {"Applied", "Aborted"} => state'[m] = state[m]]_state
    <2> SUFFICES ASSUME MachineInv, Machine!Next, NEW m \in Migrations,
                        state[m].phase \in {"Applied", "Aborted"}
                 PROVE  state'[m] = state[m]
        OBVIOUS
    <2> QED
        BY DEF MachineInv, Machine!TypeOK, Machine!Next, Machine!Validate, Machine!Acquire,
               Machine!Release, Machine!Apply, Machine!Abort, Machine!GiveBack
<1> QED
    BY <1>1, MachineInit, MachineKeeps, PTL DEF Machine!Spec, Machine!TerminalStays
=============================================================================
