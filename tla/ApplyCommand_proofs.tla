------------------------ MODULE ApplyCommand_proofs ------------------------
(***************************************************************************)
(* Proofs about `dpm apply`, for any number of invocations, any objects    *)
(* and any number of edits.                                                *)
(***************************************************************************)
EXTENDS ApplyCommand, SequenceTheorems, TLAPS

LEMMA PlanTyped ==
  ASSUME NEW s \in SUBSET Objects, NEW t \in SUBSET Objects
  PROVE  Plan(s, t) \in PlanSpace
BY DEF Plan, PlanSpace

(***************************************************************************)
(* Executing a plan to its end takes the catalog it was computed from to   *)
(* the source's, the drops that were not executed (all of them, or none)   *)
(* and the labels that are only reported excepted.                         *)
(***************************************************************************)
LEMMA PlanReaches ==
  ASSUME NEW s, NEW t, NEW L, L = Plan(s, t).drop \/ L = {}
  PROVE  (t \cup Plan(s, t).add \cup Plan(s, t).create) \ L
           = s \cup (Plan(s, t).drop \ L) \cup Plan(s, t).manual
<1> DEFINE p == Plan(s, t)
<1>1. /\ p.add = (s \ t) \cap Values /\ p.create = (s \ t) \ Values
      /\ p.drop = (t \ s) \ Values   /\ p.manual = (t \ s) \cap Values
  BY DEF Plan
<1>2. L = p.drop \/ L = {}
  OBVIOUS
<1> HIDE DEF p
<1>3. (t \cup p.add \cup p.create) \ L = s \cup (p.drop \ L) \cup p.manual
  BY <1>1, <1>2
<1>. QED
  BY <1>3 DEF p

(* The journal tells which run committed what. *)
LEMMA AppendTells ==
  ASSUME NEW S, NEW s \in Seq(S), NEW e \in S, NEW f \in S
  PROVE  /\ Append(s, e) # s
         /\ Append(s, e) = Append(s, f) => e = f
BY AppendProperties

Entries == Runs \X {"label", "transaction"}

-----------------------------------------------------------------------------
LEMMA TypeInit == Init => TypeOK
<1> SUFFICES ASSUME Init PROVE TypeOK
  OBVIOUS
<1>1. desired \in SUBSET Objects /\ target \in SUBSET Objects
  BY ApplyAssumption DEF Init
<1>2. Plan(desired, target) \in PlanSpace
  BY <1>1, PlanTyped
<1>3. pin \in [Runs -> {NoPlan} \cup PlanSpace]
  BY <1>2 DEF Init
<1>4. << >> \in Seq(Entries) /\ Entries = Runs \X {"label", "transaction"}
  BY DEF Entries
<1>. QED
  BY <1>1, <1>3, <1>4, ApplyAssumption
  DEF Init, TypeOK, Lane!Init, Phases, Codes

(* What a completed statement changes besides the target. *)
LEMMA Completion ==
  ASSUME TypeOK, NEW k \in Runs, NEW w \in {"label", "transaction"},
         NEW to \in Phases, Logs(k, w), Answers(k, to)
  PROVE  /\ phase' \in [Runs -> Phases]
         /\ owner' = owner /\ spent' = spent
         /\ journal' = Append(journal, <<k, w>>)
         /\ journal' \in Seq(Runs \X {"label", "transaction"})
<1>1. phase' \in [Runs -> Phases]
  <2>1. CASE phase' = [phase EXCEPT ![k] = to]
    BY <2>1 DEF TypeOK
  <2>2. CASE phase' = phase
    BY <2>2 DEF TypeOK
  <2>. QED
    BY <2>1, <2>2 DEF Answers, Go
<1>2. owner' = owner /\ spent' = spent
  BY DEF Logs, Lane!Write
<1>3. <<k, w>> \in Runs \X {"label", "transaction"}
  OBVIOUS
<1>. QED
  BY <1>1, <1>2, <1>3, AppendProperties DEF Logs, TypeOK

(* Types are kept, given that only a run with a plan has a statement out.  *)
LEMMA TypeStep ==
  ASSUME TypeOK, PlanInv, [Next]_vars
  PROVE  TypeOK'
<1> USE ApplyAssumption DEF TypeOK, Go, Decide, Exit, Phases, Codes,
          world, settings, inputs, lane
<1>1. ASSUME NEW k \in Runs, Fail(k)
      PROVE  TypeOK'
  BY <1>1 DEF Fail
<1>2. ASSUME NEW k \in Runs, ReadSource(k)
      PROVE  TypeOK'
  BY <1>2 DEF ReadSource
<1>3. ASSUME NEW k \in Runs, ReadTarget(k)
      PROVE  TypeOK'
  <2>1. Plan(src[k], target) \in PlanSpace
    BY PlanTyped
  <2>2. reviewed' \in [Runs -> {NoPlan} \cup PlanSpace]
    BY <1>3, <2>1 DEF ReadTarget
  <2>3. phase' \in [Runs -> Phases] /\ code' \in [Runs -> Codes]
    BY <1>3 DEF ReadTarget
  <2>4. tgt' \in [Runs -> SUBSET Objects]
    BY <1>3 DEF ReadTarget
  <2>. QED
    BY <1>3, <2>2, <2>3, <2>4 DEF ReadTarget
<1>4. ASSUME NEW k \in Runs, AiReview(k)
      PROVE  TypeOK'
  BY <1>4 DEF AiReview
<1>5. ASSUME NEW k \in Runs, Confirm(k)
      PROVE  TypeOK'
  BY <1>5 DEF Confirm
<1>6. ASSUME NEW k \in Runs, Acquire(k)
      PROVE  TypeOK'
  BY <1>6 DEF Acquire, Lane!Enter, Lane!Withdraw
<1>7. ASSUME NEW k \in Runs, RefreshSource(k)
      PROVE  TypeOK'
  BY <1>7 DEF RefreshSource
<1>8. ASSUME NEW k \in Runs, RefreshTarget(k)
      PROVE  TypeOK'
  BY <1>8 DEF RefreshTarget
<1>9. ASSUME NEW k \in Runs, Submit(k)
      PROVE  TypeOK'
  BY <1>9 DEF Submit
<1>10. ASSUME NEW k \in Runs, NEW v \in Values, AddLabel(k, v)
      PROVE  TypeOK'
  <2>1. Logs(k, "label") /\ Answers(k, "apply")
    BY <1>10 DEF AddLabel
  <2>2. /\ phase' \in [Runs -> Phases]
        /\ owner' = owner /\ spent' = spent
        /\ journal' \in Seq(Runs \X {"label", "transaction"})
    BY <2>1, Completion
  <2>3. /\ target' \in SUBSET Objects
        /\ added' \in [Runs -> SUBSET Values] /\ running' \in [Runs -> BOOLEAN]
    BY <1>10 DEF AddLabel
  <2>. QED
    BY <1>10, <2>2, <2>3 DEF AddLabel
<1>11. ASSUME NEW k \in Runs, Commit(k)
      PROVE  TypeOK'
  <2>1. Logs(k, "transaction") /\ Answers(k, "committed")
    BY <1>11 DEF Commit
  <2>2. /\ phase' \in [Runs -> Phases]
        /\ owner' = owner /\ spent' = spent
        /\ journal' \in Seq(Runs \X {"label", "transaction"})
    BY <2>1, Completion
  <2>3. reviewed[k] \in PlanSpace
    BY <1>11 DEF Commit, PlanInv, Armed
  <2>4. target' \in SUBSET Objects
    BY <1>11, <2>3 DEF Commit, PlanSpace
  <2>5. running' \in [Runs -> BOOLEAN]
    BY <1>11 DEF Commit
  <2>. QED
    BY <1>11, <2>2, <2>4, <2>5 DEF Commit
<1>12. ASSUME NEW k \in Runs, CheckAfter(k)
      PROVE  TypeOK'
  BY <1>12 DEF CheckAfter
<1>13. ASSUME NEW k \in Runs, SessionEnds(k)
      PROVE  TypeOK'
  BY <1>13 DEF SessionEnds, Lane!Leave
<1>14. ASSUME NEW k \in Runs, Introspect(k)
      PROVE  TypeOK'
  BY <1>14 DEF Introspect
<1>15. ASSUME NEW k \in Runs, CrossCheck(k)
      PROVE  TypeOK'
  BY <1>15 DEF CrossCheck
<1>16. ASSUME NEW k \in Runs, Release(k)
      PROVE  TypeOK'
  BY <1>16 DEF Release, Lane!Leave
<1>17. CASE EditSource
  BY <1>17 DEF EditSource
<1>18. CASE EditTarget
  BY <1>18 DEF EditTarget
<1>19. CASE UNCHANGED vars
  BY <1>19 DEF vars
<1>. QED
  BY <1>1, <1>2, <1>3, <1>4, <1>5, <1>6, <1>7, <1>8, <1>9, <1>10, <1>11,
     <1>12, <1>13, <1>14, <1>15, <1>16, <1>17, <1>18, <1>19
  DEF Next, Loading, Leasing, Session, Reporting

LEMMA PlanInit == Init => PlanInv
BY DEF Init, PlanInv, Armed

(* The plan invariant is kept. *)
LEMMA PlanStep ==
  ASSUME TypeOK, PlanInv, [Next]_vars
  PROVE  PlanInv'
<1> USE ApplyAssumption DEF TypeOK, PlanInv, Armed, Refuses, LiveDrops,
        Go, Decide, Exit, Phases, settings, world, inputs, lane
<1>1. ASSUME NEW k \in Runs, Fail(k)
      PROVE  PlanInv'
  BY <1>1 DEF Fail
<1>2. ASSUME NEW k \in Runs, ReadSource(k)
      PROVE  PlanInv'
  BY <1>2 DEF ReadSource
<1>3. ASSUME NEW k \in Runs, ReadTarget(k)
      PROVE  PlanInv'
  <2> DEFINE p == Plan(src[k], target)
  <2>1. p.drop \cap src[k] = {} /\ p # NoPlan
    BY PlanTyped DEF Plan
  <2>2. UNCHANGED <<settings, src, running>> /\ phase[k] = "target"
    BY <1>3 DEF ReadTarget
  <2>3. \A r \in Runs \ {k} : phase'[r] = phase[r] /\ reviewed'[r] = reviewed[r]
    BY <1>3 DEF ReadTarget
  <2>4. CASE phase'[k] = "exited" /\ reviewed'[k] = reviewed[k]
    BY <2>2, <2>3, <2>4
  <2>5. CASE phase'[k] = "review" /\ reviewed'[k] = p /\ ~Refuses(k, p)
    <3> HIDE DEF p
    <3>. QED
      BY <2>1, <2>2, <2>3, <2>5
  <2>. QED
    <3> HIDE DEF Refuses
    <3>. QED
      BY <1>3, <2>4, <2>5 DEF ReadTarget
<1>4. ASSUME NEW k \in Runs, AiReview(k)
      PROVE  PlanInv'
  BY <1>4 DEF AiReview
<1>5. ASSUME NEW k \in Runs, Confirm(k)
      PROVE  PlanInv'
  <2>1. UNCHANGED <<settings, inputs, running>> /\ phase[k] = "confirm"
    BY <1>5 DEF Confirm
  <2>2. /\ phase'[k] \in {"acquire", "exited"}
        /\ \A r \in Runs \ {k} : phase'[r] = phase[r]
    BY <1>5 DEF Confirm
  <2>. QED
    BY <2>1, <2>2
<1>6. ASSUME NEW k \in Runs, Acquire(k)
      PROVE  PlanInv'
  BY <1>6 DEF Acquire, Lane!Enter, Lane!Withdraw
<1>7. ASSUME NEW k \in Runs, RefreshSource(k)
      PROVE  PlanInv'
  BY <1>7 DEF RefreshSource
<1>8. ASSUME NEW k \in Runs, RefreshTarget(k)
      PROVE  PlanInv'
  <2>1. Plan(src[k], target).drop \cap src[k] = {}
    BY DEF Plan
  <2>2. phase'[k] = "apply" => reviewed[k].drop \cap src[k] = {}
    BY <1>8, <2>1 DEF RefreshTarget
  <2>3. /\ UNCHANGED <<settings, src, reviewed, running>>
        /\ phase[k] = "refreshTarget" /\ phase'[k] \in {"release", "apply"}
        /\ \A r \in Runs \ {k} : phase'[r] = phase[r]
    BY <1>8 DEF RefreshTarget
  <2>. QED
    BY <2>2, <2>3
<1>9. ASSUME NEW k \in Runs, Submit(k)
      PROVE  PlanInv'
  BY <1>9 DEF Submit
<1>10. ASSUME NEW k \in Runs, NEW v \in Values, AddLabel(k, v)
      PROVE  PlanInv'
  <2>1. Logs(k, "label") /\ Answers(k, "apply")
    BY <1>10 DEF AddLabel
  <2>2. \A r \in Runs : \/ phase'[r] = phase[r]
                        \/ r = k /\ phase[k] = "executing" /\ phase'[k] = "apply"
    BY <2>1 DEF Answers
  <2>3. /\ \A r \in Runs : running'[r] => running[r] /\ r # k
        /\ running[k]
    BY <1>10 DEF AddLabel
  <2>4. UNCHANGED <<settings, inputs>>
    BY <1>10 DEF AddLabel
  <2>. QED
    BY <2>2, <2>3, <2>4
<1>11. ASSUME NEW k \in Runs, Commit(k)
      PROVE  PlanInv'
  <2>1. Logs(k, "transaction") /\ Answers(k, "committed")
    BY <1>11 DEF Commit
  <2>2. \A r \in Runs : \/ phase'[r] = phase[r]
                        \/ r = k /\ phase[k] = "executing" /\ phase'[k] = "committed"
    BY <2>1 DEF Answers
  <2>3. /\ \A r \in Runs : running'[r] => running[r] /\ r # k
        /\ running[k]
    BY <1>11 DEF Commit
  <2>4. UNCHANGED <<settings, inputs>>
    BY <1>11 DEF Commit
  <2>. QED
    BY <2>2, <2>3, <2>4
<1>12. ASSUME NEW k \in Runs, CheckAfter(k)
      PROVE  PlanInv'
  BY <1>12 DEF CheckAfter
<1>13. ASSUME NEW k \in Runs, SessionEnds(k)
      PROVE  PlanInv'
  BY <1>13 DEF SessionEnds, Lane!Leave
<1>14. ASSUME NEW k \in Runs, Introspect(k)
      PROVE  PlanInv'
  BY <1>14 DEF Introspect
<1>15. ASSUME NEW k \in Runs, CrossCheck(k)
      PROVE  PlanInv'
  BY <1>15 DEF CrossCheck
<1>16. ASSUME NEW k \in Runs, Release(k)
      PROVE  PlanInv'
  BY <1>16 DEF Release, Lane!Leave
<1>17. CASE EditSource
  BY <1>17 DEF EditSource
<1>18. CASE EditTarget
  BY <1>18 DEF EditTarget
<1>19. CASE UNCHANGED vars
  BY <1>19 DEF vars
<1>. QED
  BY <1>1, <1>2, <1>3, <1>4, <1>5, <1>6, <1>7, <1>8, <1>9, <1>10, <1>11,
     <1>12, <1>13, <1>14, <1>15, <1>16, <1>17, <1>18, <1>19
  DEF Next, Loading, Leasing, Session, Reporting

(***************************************************************************)
(* The invariant of the plan, with types: in every reachable state.        *)
(***************************************************************************)
THEOREM TypeCorrect == Spec => [](TypeOK /\ PlanInv)
<1>1. Init => TypeOK /\ PlanInv
  BY TypeInit, PlanInit
<1>2. TypeOK /\ PlanInv /\ [Next]_vars => (TypeOK /\ PlanInv)'
  BY TypeStep, PlanStep
<1>. QED
  BY <1>1, <1>2, PTL DEF Spec

-----------------------------------------------------------------------------
(* The journal tells whose statement a step completed, and which. *)
LEMMA WhoCommits ==
  ASSUME TypeOK, [Next]_vars, NEW r \in Runs,
         NEW w \in {"label", "transaction"}, Commits(r, w)
  PROVE  \/ w = "transaction" /\ Commit(r)
         \/ w = "label" /\ \E v \in Values : AddLabel(r, v)
<1> DEFINE S == Runs \X {"label", "transaction"}
<1>1. journal \in Seq(S)
  BY DEF TypeOK
<1>2. <<r, w>> \in S
  OBVIOUS
<1>3. journal' # journal
  BY <1>1, <1>2, AppendTells DEF Commits
<1>4. ASSUME NEW k \in Runs, NEW x \in {"label", "transaction"}, Logs(k, x)
      PROVE  k = r /\ x = w
  <2>1. <<k, x>> \in S
    BY <1>4
  <2>2. <<k, x>> = <<r, w>>
    BY <1>1, <1>2, <1>4, <2>1, AppendTells DEF Commits, Logs
  <2>. QED
    BY <2>2
<1>5. CASE \E k \in Runs : Session(k)
  <2>1. PICK k \in Runs : Session(k)
    BY <1>5
  <2>2. CASE Commit(k)
    <3>1. Logs(k, "transaction")
      BY <2>2 DEF Commit
    <3>. QED
      BY <1>4, <2>2, <3>1
  <2>3. CASE \E v \in Values : AddLabel(k, v)
    <3>1. Logs(k, "label")
      BY <2>3 DEF AddLabel
    <3>. QED
      BY <1>4, <2>3, <3>1
  <2>. QED
    BY <2>1, <2>2, <2>3 DEF Session
<1>6. CASE ~\E k \in Runs : Session(k)
  <2>1. ASSUME NEW k \in Runs,
               Loading(k) \/ AiReview(k) \/ Confirm(k) \/ Submit(k)
                 \/ CrossCheck(k) \/ Fail(k)
        PROVE  UNCHANGED journal
    BY <2>1 DEF Loading, ReadSource, ReadTarget, AiReview, Confirm, Submit,
                CrossCheck, Fail, lane
  <2>2. ASSUME NEW k \in Runs, Leasing(k) \/ Reporting(k) \/ SessionEnds(k)
        PROVE  UNCHANGED journal
    BY <2>2 DEF Leasing, Acquire, RefreshSource, RefreshTarget, Reporting,
                CheckAfter, Introspect, Release, SessionEnds, lane,
                Lane!Enter, Lane!Withdraw, Lane!Leave
  <2>3. ASSUME EditSource \/ EditTarget \/ UNCHANGED vars
        PROVE  UNCHANGED journal
    BY <2>3 DEF EditSource, EditTarget, vars, lane
  <2>. QED
    BY <1>3, <1>6, <2>1, <2>2, <2>3 DEF Next
<1>. QED
  BY <1>5, <1>6

(* What a completed statement of r does, and by whose leave. *)
LEMMA CommitsReviewed ==
  ASSUME TypeOK, PlanInv, [Next]_vars, NEW r \in Runs,
         NEW w \in {"label", "transaction"}, Commits(r, w)
  PROVE  /\ target' \ target \subseteq reviewed[r].add \cup reviewed[r].create
         /\ target \ target' \subseteq LiveDrops(r, reviewed[r])
         /\ ~Refuses(r, reviewed[r])
         /\ reviewed[r].drop \cap src[r] = {}
<1>1. running[r] /\ ~Refuses(r, reviewed[r]) /\ reviewed[r].drop \cap src[r] = {}
  BY WhoCommits DEF Commit, AddLabel, PlanInv, Armed
<1>2. CASE Commit(r)
  BY <1>1, <1>2 DEF Commit
<1>3. CASE \E v \in Values : AddLabel(r, v)
  BY <1>1, <1>3 DEF AddLabel
<1>. QED
  BY <1>1, <1>2, <1>3, WhoCommits

(***************************************************************************)
(* No object is dropped without both consents, nor one the source has as   *)
(* last loaded: on PostgreSQL and CockroachDB, whoever else writes.        *)
(***************************************************************************)
THEOREM DropsConsented == Spec => ConsentedDrops
<1>1. TypeOK /\ PlanInv /\ [Next]_vars =>
        [\A r \in Runs, what \in {"label", "transaction"} :
           Commits(r, what) /\ target \ target' # {} =>
             /\ consent[r].sql /\ consent[r].ops
             /\ (target \ target') \cap src[r] = {}]_vars
  <2> SUFFICES ASSUME TypeOK, PlanInv, [Next]_vars, NEW r \in Runs,
                      NEW w \in {"label", "transaction"}, Commits(r, w),
                      target \ target' # {}
               PROVE  /\ consent[r].sql /\ consent[r].ops
                      /\ (target \ target') \cap src[r] = {}
    OBVIOUS
  <2>1. /\ target \ target' \subseteq LiveDrops(r, reviewed[r])
        /\ ~Refuses(r, reviewed[r])
        /\ reviewed[r].drop \cap src[r] = {}
    BY CommitsReviewed
  <2>. QED
    BY <2>1 DEF Refuses, LiveDrops
<1>. QED
  BY <1>1, TypeCorrect, PTL DEF Spec, ConsentedDrops

(***************************************************************************)
(* A pinned run touches nothing but the pinned plan's objects.             *)
(***************************************************************************)
THEOREM PinnedTouched == Spec => PinHonoured
<1>1. TypeOK /\ PlanInv /\ [Next]_vars =>
        [\A r \in Runs, what \in {"label", "transaction"} :
           Commits(r, what) /\ pin[r] # NoPlan =>
             /\ target' \ target \subseteq pin[r].add \cup pin[r].create
             /\ target \ target' \subseteq pin[r].drop]_vars
  <2> SUFFICES ASSUME TypeOK, PlanInv, [Next]_vars, NEW r \in Runs,
                      NEW w \in {"label", "transaction"}, Commits(r, w),
                      pin[r] # NoPlan
               PROVE  /\ target' \ target \subseteq pin[r].add \cup pin[r].create
                      /\ target \ target' \subseteq pin[r].drop
    OBVIOUS
  <2>1. /\ target' \ target \subseteq reviewed[r].add \cup reviewed[r].create
        /\ target \ target' \subseteq LiveDrops(r, reviewed[r])
        /\ ~Refuses(r, reviewed[r])
    BY CommitsReviewed
  <2>2. pin[r] = reviewed[r]
    BY <2>1 DEF Refuses
  <2>. QED
    BY <2>1, <2>2 DEF LiveDrops
<1>. QED
  BY <1>1, TypeCorrect, PTL DEF Spec, PinHonoured

-----------------------------------------------------------------------------
(***************************************************************************)
(* From here on the target is PostgreSQL, and all who write to it take the *)
(* lease.  The first step that gives the invariant: the script was         *)
(* rendered from the catalogs as read under the lease.                     *)
(***************************************************************************)
LEMMA EpochInit == Init => EpochInv
BY DEF Init, EpochInv, Epoch, Armed, Done, Preparing

(* Others' steps: r's own state stays, and the target while r is the owner. *)
LEMMA EpochFrame ==
  ASSUME TypeOK, NEW r \in Runs, Epoch(r),
         consent'[r] = consent[r], phase'[r] = phase[r],
         src'[r] = src[r], tgt'[r] = tgt[r], reviewed'[r] = reviewed[r],
         added'[r] = added[r], observed'[r] = observed[r],
         running'[r] => running[r] /\ owner' = r,
         owner' = r => owner = r /\ target' = target
  PROVE  Epoch(r)'
BY DEF TypeOK, Epoch, Armed, Done, Preparing, Settled, Remaining, LiveDrops

(* The transaction that commits takes the target where the plan says.      *)
LEMMA CommitSettles ==
  ASSUME NEW r \in Runs, reviewed[r] = Plan(src[r], tgt[r]),
         added[r] = reviewed[r].add, target = tgt[r] \cup added[r],
         target' = (target \cup reviewed[r].create) \ LiveDrops(r, reviewed[r])
  PROVE  target' = Settled(r)
<1> DEFINE p == Plan(src[r], tgt[r])
           L == LiveDrops(r, p)
<1>1. L = p.drop \/ L = {}
  BY DEF LiveDrops
<1> HIDE DEF L
<1>2. (tgt[r] \cup p.add \cup p.create) \ L
        = src[r] \cup (p.drop \ L) \cup p.manual
  BY <1>1, PlanReaches
<1>3. Settled(r) = src[r] \cup (p.drop \ L) \cup p.manual
  BY DEF Settled, Remaining, L
<1>4. target' = (tgt[r] \cup p.add \cup p.create) \ L
  BY DEF L
<1>. QED
  BY <1>2, <1>3, <1>4

(* No step moves the target to another server. *)
LEMMA SameServer ==
  ASSUME [Next]_vars
  PROVE  server' = server
<1> USE DEF settings
<1>1. ASSUME NEW r \in Runs,
             \/ Loading(r) \/ AiReview(r) \/ Confirm(r) \/ Leasing(r)
             \/ Submit(r) \/ Fail(r) \/ SessionEnds(r)
      PROVE  server' = server
  BY <1>1 DEF Loading, ReadSource, ReadTarget, AiReview, Confirm, Leasing,
              Acquire, RefreshSource, RefreshTarget, Submit, Fail, SessionEnds
<1>2. ASSUME NEW r \in Runs, Session(r) \/ CrossCheck(r) \/ Reporting(r)
      PROVE  server' = server
  BY <1>2 DEF Session, Commit, AddLabel, CrossCheck, Reporting, CheckAfter,
              Introspect, Release
<1>. QED
  BY <1>1, <1>2 DEF Next, EditSource, EditTarget, vars

LEMMA EpochStep ==
  ASSUME TypeOK, PlanInv, EpochInv, [Next]_vars
  PROVE  EpochInv'
<1> SUFFICES ASSUME Leased, ~OutsideEdits, NEW r \in Runs
             PROVE  Epoch(r)'
  BY SameServer DEF EpochInv, Leased, OutsideEdits
<1>0. \A m \in Runs : Epoch(m)
  BY DEF EpochInv
<1> USE ApplyAssumption DEF TypeOK, Go, Decide, Exit, Phases, settings, world, inputs, lane
<1>1. ASSUME NEW k \in Runs, Fail(k)
      PROVE  Epoch(r)'
  <2>1. CASE k # r
    <3>1. /\ phase'[r] = phase[r] /\ src'[r] = src[r] /\ tgt'[r] = tgt[r]
          /\ consent'[r] = consent[r] /\ reviewed'[r] = reviewed[r]
          /\ added'[r] = added[r] /\ observed'[r] = observed[r]
      BY <1>1, <2>1 DEF Fail
    <3>2. /\ running'[r] => running[r] /\ owner' = r
          /\ owner' = r => owner = r /\ target' = target
      BY <1>1, <1>0, <2>1 DEF Fail, Epoch
    <3>. QED
      BY <1>0, <3>1, <3>2, EpochFrame
  <2>2. CASE k = r
    BY <1>1, <1>0, <2>2
    DEF Fail, Epoch, Armed, Done, Preparing, Settled, Remaining, LiveDrops,
        PlanInv
  <2>. QED
    BY <2>1, <2>2
<1>2. ASSUME NEW k \in Runs, ReadSource(k)
      PROVE  Epoch(r)'
  <2>1. CASE k # r
    <3>1. /\ phase'[r] = phase[r] /\ src'[r] = src[r] /\ tgt'[r] = tgt[r]
          /\ consent'[r] = consent[r] /\ reviewed'[r] = reviewed[r]
          /\ added'[r] = added[r] /\ observed'[r] = observed[r]
      BY <1>2, <2>1 DEF ReadSource
    <3>2. /\ running'[r] => running[r] /\ owner' = r
          /\ owner' = r => owner = r /\ target' = target
      BY <1>2, <1>0, <2>1 DEF ReadSource, Epoch
    <3>. QED
      BY <1>0, <3>1, <3>2, EpochFrame
  <2>2. CASE k = r
    BY <1>2, <1>0, <2>2
    DEF ReadSource, Epoch, Armed, Done, Preparing, Settled, Remaining,
        LiveDrops, PlanInv
  <2>. QED
    BY <2>1, <2>2
<1>3. ASSUME NEW k \in Runs, ReadTarget(k)
      PROVE  Epoch(r)'
  <2>1. CASE k # r
    <3>1. /\ phase'[r] = phase[r] /\ src'[r] = src[r] /\ tgt'[r] = tgt[r]
          /\ consent'[r] = consent[r] /\ reviewed'[r] = reviewed[r]
          /\ added'[r] = added[r] /\ observed'[r] = observed[r]
      BY <1>3, <2>1 DEF ReadTarget
    <3>2. /\ running'[r] => running[r] /\ owner' = r
          /\ owner' = r => owner = r /\ target' = target
      BY <1>3, <1>0, <2>1 DEF ReadTarget, Epoch
    <3>. QED
      BY <1>0, <3>1, <3>2, EpochFrame
  <2>2. CASE k = r
    BY <1>3, <1>0, <2>2
    DEF ReadTarget, Epoch, Armed, Done, Preparing, Settled, Remaining,
        LiveDrops, PlanInv
  <2>. QED
    BY <2>1, <2>2
<1>4. ASSUME NEW k \in Runs, AiReview(k)
      PROVE  Epoch(r)'
  <2>1. CASE k # r
    <3>1. /\ phase'[r] = phase[r] /\ src'[r] = src[r] /\ tgt'[r] = tgt[r]
          /\ consent'[r] = consent[r] /\ reviewed'[r] = reviewed[r]
          /\ added'[r] = added[r] /\ observed'[r] = observed[r]
      BY <1>4, <2>1 DEF AiReview
    <3>2. /\ running'[r] => running[r] /\ owner' = r
          /\ owner' = r => owner = r /\ target' = target
      BY <1>4, <1>0, <2>1 DEF AiReview, Epoch
    <3>. QED
      BY <1>0, <3>1, <3>2, EpochFrame
  <2>2. CASE k = r
    BY <1>4, <1>0, <2>2
    DEF AiReview, Epoch, Armed, Done, Preparing, Settled, Remaining,
        LiveDrops, PlanInv
  <2>. QED
    BY <2>1, <2>2
<1>5. ASSUME NEW k \in Runs, Confirm(k)
      PROVE  Epoch(r)'
  <2>1. CASE k # r
    <3>1. /\ phase'[r] = phase[r] /\ src'[r] = src[r] /\ tgt'[r] = tgt[r]
          /\ consent'[r] = consent[r] /\ reviewed'[r] = reviewed[r]
          /\ added'[r] = added[r] /\ observed'[r] = observed[r]
      BY <1>5, <2>1 DEF Confirm
    <3>2. /\ running'[r] => running[r] /\ owner' = r
          /\ owner' = r => owner = r /\ target' = target
      BY <1>5, <1>0, <2>1 DEF Confirm, Epoch
    <3>. QED
      BY <1>0, <3>1, <3>2, EpochFrame
  <2>2. CASE k = r
    BY <1>5, <1>0, <2>2
    DEF Confirm, Epoch, Armed, Done, Preparing, Settled, Remaining,
        LiveDrops, PlanInv
  <2>. QED
    BY <2>1, <2>2
<1>6. ASSUME NEW k \in Runs, Acquire(k)
      PROVE  Epoch(r)'
  <2>1. CASE k # r
    <3>1. /\ phase'[r] = phase[r] /\ src'[r] = src[r] /\ tgt'[r] = tgt[r]
          /\ consent'[r] = consent[r] /\ reviewed'[r] = reviewed[r]
          /\ added'[r] = added[r] /\ observed'[r] = observed[r]
      BY <1>6, <2>1 DEF Acquire, Lane!Enter, Lane!Withdraw
    <3>2. /\ running'[r] => running[r] /\ owner' = r
          /\ owner' = r => owner = r /\ target' = target
      BY <1>6, <1>0, <2>1 DEF Acquire, Lane!Enter, Lane!Withdraw, Epoch
    <3>. QED
      BY <1>0, <3>1, <3>2, EpochFrame
  <2>2. CASE k = r
    <3>1. ~running[r] /\ observed[r] = NoCatalog
      BY <1>6, <1>0, <2>2 DEF Acquire, PlanInv, Epoch
    <3>2. /\ phase'[r] \in {"refreshSource", "exited"}
          /\ UNCHANGED <<running, observed, added>>
      BY <1>6, <2>2 DEF Acquire
    <3>3. phase[r] = "acquire"
      BY <1>6, <2>2 DEF Acquire
    <3>. QED
      BY <1>0, <3>1, <3>2, <3>3 DEF Epoch, Armed, Done, Preparing
  <2>. QED
    BY <2>1, <2>2
<1>7. ASSUME NEW k \in Runs, RefreshSource(k)
      PROVE  Epoch(r)'
  <2>1. CASE k # r
    <3>1. /\ phase'[r] = phase[r] /\ src'[r] = src[r] /\ tgt'[r] = tgt[r]
          /\ consent'[r] = consent[r] /\ reviewed'[r] = reviewed[r]
          /\ added'[r] = added[r] /\ observed'[r] = observed[r]
      BY <1>7, <2>1 DEF RefreshSource
    <3>2. /\ running'[r] => running[r] /\ owner' = r
          /\ owner' = r => owner = r /\ target' = target
      BY <1>7, <1>0, <2>1 DEF RefreshSource, Epoch
    <3>. QED
      BY <1>0, <3>1, <3>2, EpochFrame
  <2>2. CASE k = r
    BY <1>7, <1>0, <2>2
    DEF RefreshSource, Epoch, Armed, Done, Preparing, Settled, Remaining,
        LiveDrops, PlanInv
  <2>. QED
    BY <2>1, <2>2
<1>8. ASSUME NEW k \in Runs, RefreshTarget(k)
      PROVE  Epoch(r)'
  <2>1. CASE k # r
    <3>1. /\ phase'[r] = phase[r] /\ src'[r] = src[r] /\ tgt'[r] = tgt[r]
          /\ consent'[r] = consent[r] /\ reviewed'[r] = reviewed[r]
          /\ added'[r] = added[r] /\ observed'[r] = observed[r]
      BY <1>8, <2>1 DEF RefreshTarget
    <3>2. /\ running'[r] => running[r] /\ owner' = r
          /\ owner' = r => owner = r /\ target' = target
      BY <1>8, <1>0, <2>1 DEF RefreshTarget, Epoch
    <3>. QED
      BY <1>0, <3>1, <3>2, EpochFrame
  <2>2. CASE k = r
    BY <1>8, <1>0, <2>2
    DEF RefreshTarget, Epoch, Armed, Done, Preparing, Settled, Remaining,
        LiveDrops, PlanInv
  <2>. QED
    BY <2>1, <2>2
<1>9. ASSUME NEW k \in Runs, Submit(k)
      PROVE  Epoch(r)'
  <2>1. CASE k # r
    <3>1. /\ phase'[r] = phase[r] /\ src'[r] = src[r] /\ tgt'[r] = tgt[r]
          /\ consent'[r] = consent[r] /\ reviewed'[r] = reviewed[r]
          /\ added'[r] = added[r] /\ observed'[r] = observed[r]
      BY <1>9, <2>1 DEF Submit
    <3>2. /\ running'[r] => running[r] /\ owner' = r
          /\ owner' = r => owner = r /\ target' = target
      BY <1>9, <1>0, <2>1 DEF Submit, Epoch
    <3>. QED
      BY <1>0, <3>1, <3>2, EpochFrame
  <2>2. CASE k = r
    <3>1. phase[r] = "apply" /\ ~running[r] /\ observed[r] = NoCatalog
      BY <1>9, <1>0, <2>2 DEF Submit, PlanInv, Epoch
    <3>2. UNCHANGED <<src, tgt, reviewed, added, observed, owner, target>>
      BY <1>9 DEF Submit
    <3>3. CASE phase'[r] = "executing" /\ owner = r
      BY <1>0, <3>1, <3>2, <3>3
      DEF Epoch, Armed, Done, Preparing
    <3>4. CASE phase'[r] = "exited" /\ UNCHANGED running
      BY <1>0, <3>1, <3>2, <3>4
      DEF Epoch, Armed, Done, Preparing
    <3>. QED
      BY <1>9, <2>2, <3>3, <3>4 DEF Submit, Tenured
  <2>. QED
    BY <2>1, <2>2
<1>10. ASSUME NEW k \in Runs, NEW v \in Values, AddLabel(k, v)
      PROVE  Epoch(r)'
  <2>1. CASE k # r
    <3>1. /\ phase'[r] = phase[r] /\ src'[r] = src[r] /\ tgt'[r] = tgt[r]
          /\ consent'[r] = consent[r] /\ reviewed'[r] = reviewed[r]
          /\ added'[r] = added[r] /\ observed'[r] = observed[r]
      BY <1>10, <2>1 DEF AddLabel, Logs, Lane!Write, Answers
    <3>2. /\ running'[r] => running[r] /\ owner' = r
          /\ owner' = r => owner = r /\ target' = target
      BY <1>10, <1>0, <2>1 DEF AddLabel, Logs, Lane!Write, Answers, Epoch
    <3>. QED
      BY <1>0, <3>1, <3>2, EpochFrame
  <2>2. CASE k = r
    <3>1. running[r] /\ owner = r /\ phase[r] \in {"executing", "exited"}
      BY <1>10, <1>0, <2>2 DEF AddLabel, Epoch, PlanInv
    <3>2. /\ reviewed[r] = Plan(src[r], tgt[r])
          /\ added[r] \subseteq reviewed[r].add
          /\ target = tgt[r] \cup added[r]
      BY <1>0, <3>1 DEF Epoch, Armed
    <3>3. Logs(r, "label") /\ Answers(r, "apply") /\ ~running'[r]
      BY <1>10, <2>2 DEF AddLabel
    <3>4. \/ phase[r] = "executing" /\ phase'[r] = "apply"
          \/ phase[r] = "exited" /\ phase'[r] = "exited"
      BY <3>1, <3>3 DEF Answers
    <3>5. UNCHANGED <<consent, src, tgt, reviewed, observed>>
      BY <1>10 DEF AddLabel
    <3>6. /\ added'[r] = added[r] \cup {v} /\ target' = target \cup {v}
          /\ v \in reviewed[r].add
      BY <1>10, <2>2 DEF AddLabel
    <3>7. /\ added'[r] \subseteq reviewed[r].add
          /\ target' = tgt[r] \cup added'[r]
      BY <3>2, <3>6
    <3>8. reviewed'[r] = Plan(src'[r], tgt'[r])
      BY <3>2, <3>5
    <3>. QED
      BY <1>0, <3>3, <3>4, <3>5, <3>7, <3>8 DEF Epoch, Armed, Done, Preparing
  <2>. QED
    BY <2>1, <2>2
<1>11. ASSUME NEW k \in Runs, Commit(k)
      PROVE  Epoch(r)'
  <2>1. CASE k # r
    <3>1. /\ phase'[r] = phase[r] /\ src'[r] = src[r] /\ tgt'[r] = tgt[r]
          /\ consent'[r] = consent[r] /\ reviewed'[r] = reviewed[r]
          /\ added'[r] = added[r] /\ observed'[r] = observed[r]
      BY <1>11, <2>1 DEF Commit, Logs, Lane!Write, Answers
    <3>2. /\ running'[r] => running[r] /\ owner' = r
          /\ owner' = r => owner = r /\ target' = target
      BY <1>11, <1>0, <2>1 DEF Commit, Logs, Lane!Write, Answers, Epoch
    <3>. QED
      BY <1>0, <3>1, <3>2, EpochFrame
  <2>2. CASE k = r
    <3>1. running[r] /\ owner = r /\ phase[r] \in {"executing", "exited"}
      BY <1>11, <1>0, <2>2 DEF Commit, Epoch, PlanInv
    <3>2. /\ reviewed[r] = Plan(src[r], tgt[r])
          /\ added[r] \subseteq reviewed[r].add
          /\ target = tgt[r] \cup added[r]
      BY <1>0, <3>1 DEF Epoch, Armed
    <3>3. Logs(r, "transaction") /\ Answers(r, "committed") /\ ~running'[r]
      BY <1>11, <2>2 DEF Commit
    <3>4. \/ phase[r] = "executing" /\ phase'[r] = "committed"
          \/ phase[r] = "exited" /\ phase'[r] = "exited"
      BY <3>1, <3>3 DEF Answers
    <3>5. UNCHANGED <<consent, src, tgt, reviewed, observed>>
      BY <1>11 DEF Commit
    <3>6. /\ target' = (target \cup reviewed[r].create) \ LiveDrops(r, reviewed[r])
          /\ added[r] = reviewed[r].add /\ UNCHANGED added
      BY <1>11, <2>2 DEF Commit
    <3>7. target' = Settled(r)
      BY <3>2, <3>6, CommitSettles
    <3>8. Settled(r)' = Settled(r)
      BY <3>5 DEF Settled, Remaining, LiveDrops
    <3>9. observed[r] = NoCatalog \/ phase[r] = "exited"
      BY <1>0, <3>1 DEF Epoch
    <3>. QED
      BY <1>0, <3>3, <3>4, <3>5, <3>6, <3>7, <3>8, <3>9
      DEF Epoch, Armed, Done, Preparing
  <2>. QED
    BY <2>1, <2>2
<1>12. ASSUME NEW k \in Runs, CheckAfter(k)
      PROVE  Epoch(r)'
  <2>1. CASE k # r
    <3>1. /\ phase'[r] = phase[r] /\ src'[r] = src[r] /\ tgt'[r] = tgt[r]
          /\ consent'[r] = consent[r] /\ reviewed'[r] = reviewed[r]
          /\ added'[r] = added[r] /\ observed'[r] = observed[r]
      BY <1>12, <2>1 DEF CheckAfter
    <3>2. /\ running'[r] => running[r] /\ owner' = r
          /\ owner' = r => owner = r /\ target' = target
      BY <1>12, <1>0, <2>1 DEF CheckAfter, Epoch
    <3>. QED
      BY <1>0, <3>1, <3>2, EpochFrame
  <2>2. CASE k = r
    BY <1>12, <1>0, <2>2
    DEF CheckAfter, Epoch, Armed, Done, Preparing, Settled, Remaining,
        LiveDrops, PlanInv
  <2>. QED
    BY <2>1, <2>2
<1>13. ASSUME NEW k \in Runs, SessionEnds(k)
      PROVE  Epoch(r)'
  <2>1. CASE k # r
    <3>1. /\ phase'[r] = phase[r] /\ src'[r] = src[r] /\ tgt'[r] = tgt[r]
          /\ consent'[r] = consent[r] /\ reviewed'[r] = reviewed[r]
          /\ added'[r] = added[r] /\ observed'[r] = observed[r]
      BY <1>13, <2>1 DEF SessionEnds, Lane!Leave
    <3>2. /\ running'[r] => running[r] /\ owner' = r
          /\ owner' = r => owner = r /\ target' = target
      BY <1>13, <1>0, <2>1 DEF SessionEnds, Lane!Leave, Epoch
    <3>. QED
      BY <1>0, <3>1, <3>2, EpochFrame
  <2>2. CASE k = r
    BY <1>13, <1>0, <2>2
    DEF SessionEnds, Lane!Leave, Epoch, Armed, Done, Preparing, Settled,
        Remaining, LiveDrops, PlanInv
  <2>. QED
    BY <2>1, <2>2
<1>14. ASSUME NEW k \in Runs, Introspect(k)
      PROVE  Epoch(r)'
  <2>1. CASE k # r
    <3>1. /\ phase'[r] = phase[r] /\ src'[r] = src[r] /\ tgt'[r] = tgt[r]
          /\ consent'[r] = consent[r] /\ reviewed'[r] = reviewed[r]
          /\ added'[r] = added[r] /\ observed'[r] = observed[r]
      BY <1>14, <2>1 DEF Introspect
    <3>2. /\ running'[r] => running[r] /\ owner' = r
          /\ owner' = r => owner = r /\ target' = target
      BY <1>14, <1>0, <2>1 DEF Introspect, Epoch
    <3>. QED
      BY <1>0, <3>1, <3>2, EpochFrame
  <2>2. CASE k = r
    BY <1>14, <1>0, <2>2
    DEF Introspect, Epoch, Armed, Done, Preparing, Settled, Remaining,
        LiveDrops, PlanInv
  <2>. QED
    BY <2>1, <2>2
<1>15. ASSUME NEW k \in Runs, CrossCheck(k)
      PROVE  Epoch(r)'
  <2>1. CASE k # r
    <3>1. /\ phase'[r] = phase[r] /\ src'[r] = src[r] /\ tgt'[r] = tgt[r]
          /\ consent'[r] = consent[r] /\ reviewed'[r] = reviewed[r]
          /\ added'[r] = added[r] /\ observed'[r] = observed[r]
      BY <1>15, <2>1 DEF CrossCheck
    <3>2. /\ running'[r] => running[r] /\ owner' = r
          /\ owner' = r => owner = r /\ target' = target
      BY <1>15, <1>0, <2>1 DEF CrossCheck, Epoch
    <3>. QED
      BY <1>0, <3>1, <3>2, EpochFrame
  <2>2. CASE k = r
    BY <1>15, <1>0, <2>2
    DEF CrossCheck, Epoch, Armed, Done, Preparing, Settled, Remaining,
        LiveDrops, PlanInv
  <2>. QED
    BY <2>1, <2>2
<1>16. ASSUME NEW k \in Runs, Release(k)
      PROVE  Epoch(r)'
  <2>1. CASE k # r
    <3>1. /\ phase'[r] = phase[r] /\ src'[r] = src[r] /\ tgt'[r] = tgt[r]
          /\ consent'[r] = consent[r] /\ reviewed'[r] = reviewed[r]
          /\ added'[r] = added[r] /\ observed'[r] = observed[r]
      BY <1>16, <2>1 DEF Release, Lane!Leave
    <3>2. /\ running'[r] => running[r] /\ owner' = r
          /\ owner' = r => owner = r /\ target' = target
      BY <1>16, <1>0, <2>1 DEF Release, Lane!Leave, Epoch
    <3>. QED
      BY <1>0, <3>1, <3>2, EpochFrame
  <2>2. CASE k = r
    BY <1>16, <1>0, <2>2
    DEF Release, Lane!Leave, Epoch, Armed, Done, Preparing, Settled,
        Remaining, LiveDrops, PlanInv
  <2>. QED
    BY <2>1, <2>2
<1>17. CASE EditSource
  BY <1>17, <1>0, EpochFrame DEF EditSource, Epoch
<1>18. CASE EditTarget
  BY <1>18 DEF EditTarget
<1>19. CASE UNCHANGED vars
  BY <1>19, <1>0, EpochFrame DEF vars, Epoch
<1>. QED
  BY <1>1, <1>2, <1>3, <1>4, <1>5, <1>6, <1>7, <1>8, <1>9, <1>10, <1>11,
     <1>12, <1>13, <1>14, <1>15, <1>16, <1>17, <1>18, <1>19
  DEF Next, Loading, Leasing, Session, Reporting

(***************************************************************************)
(* The invariant of the epoch, in every reachable state.                   *)
(***************************************************************************)
THEOREM EpochInvariant == Spec => []EpochInv
<1>1. Init => EpochInv
  BY EpochInit
<1>2. TypeOK /\ PlanInv /\ EpochInv /\ [Next]_vars => EpochInv'
  BY EpochStep
<1>. QED
  BY <1>1, <1>2, TypeCorrect, PTL DEF Spec

(***************************************************************************)
(* The inductive invariant of dpm apply as a whole.                        *)
(***************************************************************************)
THEOREM ApplyInvariant == Spec => []ApplyInv
<1>1. TypeOK /\ PlanInv /\ EpochInv => ApplyInv
  BY DEF ApplyInv
<1>. QED
  BY <1>1, TypeCorrect, EpochInvariant, PTL

(***************************************************************************)
(* The reviewed script only ever runs against the catalogs it was rendered *)
(* from: a transaction that commits leaves what the review promised.       *)
(***************************************************************************)
THEOREM ReviewFits == Spec => FitsReview
<1>1. TypeOK /\ PlanInv /\ EpochInv /\ [Next]_vars =>
        [Leased /\ ~OutsideEdits => \A r \in Runs :
           Commits(r, "transaction") => target' = Settled(r)]_vars
  <2> SUFFICES ASSUME TypeOK, PlanInv, EpochInv, [Next]_vars, Leased,
                      ~OutsideEdits, NEW r \in Runs, Commits(r, "transaction")
               PROVE  target' = Settled(r)
    OBVIOUS
  <2>1. Commit(r)
    BY WhoCommits
  <2>2. /\ running[r] /\ added[r] = reviewed[r].add
        /\ target' = (target \cup reviewed[r].create) \ LiveDrops(r, reviewed[r])
    BY <2>1 DEF Commit
  <2>3. reviewed[r] = Plan(src[r], tgt[r]) /\ target = tgt[r] \cup added[r]
    BY <2>2 DEF EpochInv, Epoch, Armed
  <2>. QED
    BY <2>2, <2>3, CommitSettles
<1>. QED
  BY <1>1, TypeCorrect, EpochInvariant, PTL DEF Spec, FitsReview

(***************************************************************************)
(* An exit that reports on an apply is evidence of one execution epoch.    *)
(***************************************************************************)
THEOREM EpochAttested == Spec => ReceiptAttests
<1> DEFINE Attests(r) ==
      /\ phase[r] = "release" /\ phase'[r] = "exited" /\ code'[r] # "error"
      /\ observed[r] # NoCatalog
      => target = observed[r] /\ observed[r] = Settled(r)
<1>1. ASSUME TypeOK, PlanInv, EpochInv, Next, Leased, ~OutsideEdits,
             NEW r \in Runs
      PROVE  Attests(r)
  <2> SUFFICES ASSUME phase[r] = "release", phase'[r] = "exited",
                      code'[r] # "error", observed[r] # NoCatalog
               PROVE  target = observed[r] /\ observed[r] = Settled(r)
    OBVIOUS
  <2>1. owner = r
    <3> USE <1>1 DEF TypeOK, Go, Decide, Exit, world, settings, inputs, lane
    <3>2. ASSUME NEW k \in Runs, Release(k)
          PROVE  owner = r
      BY <3>2 DEF Release
    <3>3. ASSUME NEW k \in Runs,
                 Loading(k) \/ AiReview(k) \/ Confirm(k) \/ Submit(k)
                   \/ CrossCheck(k) \/ Fail(k)
          PROVE  FALSE
      BY <3>3 DEF Loading, ReadSource, ReadTarget, AiReview, Confirm, Submit,
                  CrossCheck, Fail
    <3>4. ASSUME NEW k \in Runs, Leasing(k)
          PROVE  FALSE
      BY <3>4 DEF Leasing, Acquire, RefreshSource, RefreshTarget
    <3>5. ASSUME NEW k \in Runs,
                 CheckAfter(k) \/ Introspect(k) \/ SessionEnds(k)
          PROVE  FALSE
      BY <3>5 DEF CheckAfter, Introspect, SessionEnds
    <3>6. ASSUME NEW k \in Runs, Session(k)
          PROVE  FALSE
      BY <3>6 DEF Session, Commit, AddLabel, Answers
    <3>7. ASSUME EditSource \/ EditTarget
          PROVE  FALSE
      BY <3>7 DEF EditSource, EditTarget
    <3>. QED
      BY <1>1, <3>2, <3>3, <3>4, <3>5, <3>6, <3>7 DEF Next, Reporting
  <2>. QED
    BY <1>1, <2>1 DEF EpochInv, Epoch, Done
<1>2. TypeOK /\ PlanInv /\ EpochInv /\ [Next]_vars =>
        [Leased /\ ~OutsideEdits => \A r \in Runs : Attests(r)]_vars
  BY <1>1
<1>. QED
  BY <1>2, TypeCorrect, EpochInvariant, PTL DEF Spec, ReceiptAttests

-----------------------------------------------------------------------------
(***************************************************************************)
(* What exit code 0 rests on.  After the commit, what the plan leaves is   *)
(* nothing the source has; so a convergence check that finds the source's  *)
(* catalog has seen that nothing is left, unless the lease was lost and    *)
(* the check saw somebody else's work: then the release will tell.         *)
(***************************************************************************)
OkGrounded(r) ==
  /\ phase[r] \in {"committed", "check"} => Remaining(r) \cap src[r] = {}
  /\ code[r] = "ok" /\ observed[r] # NoCatalog =>
       \/ Remaining(r) = {}
       \/ phase[r] \in {"crosscheck", "release"} /\ owner # r

OkInv == Leased /\ ~OutsideEdits => \A r \in Runs : OkGrounded(r)

(* What a plan leaves to do by hand or behind its gate the source has not. *)
LEMMA PlanLeavesOthers ==
  ASSUME NEW r \in Runs, reviewed[r] = Plan(src[r], tgt[r])
  PROVE  Remaining(r) \cap src[r] = {}
<1> DEFINE p == Plan(src[r], tgt[r])
<1>1. p.drop \cap src[r] = {} /\ p.manual \cap src[r] = {}
  BY DEF Plan
<1>2. Remaining(r) \subseteq p.drop \cup p.manual
  BY DEF Remaining
<1>. QED
  BY <1>1, <1>2

(* Steps that leave r's verdict alone and do not give r the lease. *)
LEMMA OkFrame ==
  ASSUME NEW r \in Runs, OkGrounded(r),
         phase'[r] = phase[r], code'[r] = code[r], src'[r] = src[r],
         reviewed'[r] = reviewed[r], consent'[r] = consent[r],
         observed'[r] = observed[r], owner' = r => owner = r
  PROVE  OkGrounded(r)'
BY DEF OkGrounded, Remaining, LiveDrops

LEMMA OkStep ==
  ASSUME TypeOK, PlanInv, EpochInv, OkInv, [Next]_vars
  PROVE  OkInv'
<1> SUFFICES ASSUME Leased, ~OutsideEdits, NEW r \in Runs
             PROVE  OkGrounded(r)'
  BY SameServer DEF OkInv, Leased, OutsideEdits
<1>0. OkGrounded(r) /\ Epoch(r)
  BY DEF OkInv, EpochInv
<1> USE ApplyAssumption
    DEF TypeOK, Go, Decide, Exit, settings, world, inputs, lane
<1>1. CASE /\ phase'[r] = phase[r] /\ code'[r] = code[r] /\ src'[r] = src[r]
           /\ reviewed'[r] = reviewed[r] /\ consent'[r] = consent[r]
           /\ observed'[r] = observed[r] /\ (owner' = r => owner = r)
  BY <1>0, <1>1, OkFrame
<1>2. CASE Fail(r)
  <2>1. phase'[r] = "exited" /\ code'[r] = "error"
    BY <1>2 DEF Fail
  <2>. QED
    BY <2>1 DEF OkGrounded
<1>3. ASSUME phase[r] \in {"source", "target", "review", "confirm", "acquire",
                           "refreshSource", "refreshTarget", "apply"},
             phase'[r] \notin {"committed", "check"},
             observed' = observed
      PROVE  OkGrounded(r)'
  <2>1. observed'[r] = NoCatalog
    BY <1>0, <1>3 DEF Epoch
  <2>. QED
    BY <1>3, <2>1 DEF OkGrounded
<1>4. CASE ReadSource(r)
  BY <1>3, <1>4 DEF ReadSource
<1>5. CASE ReadTarget(r)
  BY <1>3, <1>5 DEF ReadTarget
<1>6. CASE AiReview(r)
  BY <1>3, <1>6 DEF AiReview
<1>7. CASE Confirm(r)
  BY <1>3, <1>7 DEF Confirm
<1>8. CASE Acquire(r)
  BY <1>3, <1>8 DEF Acquire
<1>9. CASE RefreshSource(r)
  BY <1>3, <1>9 DEF RefreshSource
<1>10. CASE RefreshTarget(r)
  BY <1>3, <1>10 DEF RefreshTarget
<1>11. CASE Submit(r)
  BY <1>3, <1>11 DEF Submit
<1>12. CASE \E v \in Values : AddLabel(r, v)
  <2>1. phase[r] \in {"executing", "exited"}
    BY <1>12 DEF AddLabel, PlanInv
  <2>2. /\ UNCHANGED <<settings, code, inputs, observed>>
        /\ IF phase[r] = "executing" THEN Go(r, "apply") ELSE UNCHANGED phase
    BY <1>12 DEF AddLabel, Answers
  <2>3. owner' = owner
    BY <1>12 DEF AddLabel, Logs, Lane!Write
  <2>4. CASE phase[r] = "executing"
    <3>1. observed'[r] = NoCatalog /\ phase'[r] = "apply"
      BY <1>0, <2>2, <2>4 DEF Epoch
    <3>. QED
      BY <3>1 DEF OkGrounded
  <2>. QED
    BY <1>1, <2>1, <2>2, <2>3, <2>4
<1>13. CASE Commit(r)
  <2>1. running[r] /\ phase[r] \in {"executing", "exited"}
    BY <1>13 DEF Commit, PlanInv
  <2>2. /\ UNCHANGED <<settings, code, inputs, observed>>
        /\ IF phase[r] = "executing" THEN Go(r, "committed") ELSE UNCHANGED phase
    BY <1>13 DEF Commit, Answers
  <2>3. owner' = owner
    BY <1>13 DEF Commit, Logs, Lane!Write
  <2>4. CASE phase[r] = "executing"
    <3>1. observed'[r] = NoCatalog
      BY <1>0, <2>2, <2>4 DEF Epoch
    <3>2. Remaining(r) \cap src[r] = {}
      BY <1>0, <2>1, PlanLeavesOthers DEF Epoch, Armed
    <3>3. Remaining(r)' = Remaining(r) /\ src' = src
      BY <2>2 DEF Remaining, LiveDrops
    <3>. QED
      BY <3>1, <3>2, <3>3 DEF OkGrounded
  <2>. QED
    BY <1>1, <2>1, <2>2, <2>3, <2>4
<1>14. CASE CheckAfter(r)
  <2>1. phase[r] = "committed" /\ observed'[r] = NoCatalog
    BY <1>0, <1>14 DEF CheckAfter, Epoch
  <2>2. Remaining(r)' = Remaining(r) /\ src' = src
    BY <1>14 DEF CheckAfter, Remaining, LiveDrops
  <2>. QED
    BY <1>0, <2>1, <2>2 DEF OkGrounded
<1>15. CASE SessionEnds(r)
  BY <1>1, <1>15 DEF SessionEnds, Lane!Leave
<1>16. CASE Introspect(r)
  <2>1. /\ phase[r] = "check" /\ phase'[r] = "crosscheck" /\ owner' = owner
        /\ code'[r] = IF src[r] = target THEN "ok" ELSE "diverged"
    BY <1>16 DEF Introspect
  <2>2. Remaining(r)' = Remaining(r) /\ Remaining(r) \cap src[r] = {}
    BY <1>0, <1>16, <2>1 DEF Introspect, Remaining, LiveDrops, OkGrounded
  <2>3. ASSUME owner = r, code'[r] = "ok"
        PROVE  Remaining(r) = {}
    <3>1. src[r] = src[r] \cup Remaining(r)
      BY <1>0, <2>1, <2>3 DEF Epoch, Done, Settled
    <3>. QED
      BY <2>2, <3>1
  <2>. QED
    BY <2>1, <2>2, <2>3 DEF OkGrounded
<1>17. CASE CrossCheck(r)
  <2>1. /\ phase[r] = "crosscheck" /\ phase'[r] = "release" /\ owner' = owner
        /\ code'[r] \in {code[r], "diverged", "rejected"}
        /\ UNCHANGED <<observed, reviewed, consent>>
    BY <1>17 DEF CrossCheck
  <2>. QED
    BY <1>0, <2>1 DEF OkGrounded, Remaining, LiveDrops
<1>18. CASE Release(r)
  <2>1. /\ phase[r] = "release" /\ phase'[r] = "exited"
        /\ \/ code'[r] = code[r] /\ owner = r
           \/ code'[r] = "error"
        /\ UNCHANGED <<observed, reviewed, consent>>
    BY <1>18 DEF Release
  <2>. QED
    BY <1>0, <2>1 DEF OkGrounded, Remaining, LiveDrops
<1>19. ASSUME NEW k \in Runs \ {r}, Loading(k) \/ AiReview(k) \/ Confirm(k)
       PROVE  OkGrounded(r)'
  BY <1>1, <1>19 DEF Loading, ReadSource, ReadTarget, AiReview, Confirm
<1>20. ASSUME NEW k \in Runs \ {r}, Leasing(k)
       PROVE  OkGrounded(r)'
  BY <1>1, <1>20
  DEF Leasing, Acquire, RefreshSource, RefreshTarget, Lane!Enter, Lane!Withdraw
<1>21. ASSUME NEW k \in Runs \ {r}, Session(k)
       PROVE  OkGrounded(r)'
  <2>1. UNCHANGED <<settings, code, inputs, observed>> /\ phase'[r] = phase[r]
    BY <1>21 DEF Session, Commit, AddLabel, Answers
  <2>2. owner' = owner
    BY <1>21 DEF Session, Commit, AddLabel, Logs, Lane!Write
  <2>. QED
    BY <1>1, <2>1, <2>2
<1>22. ASSUME NEW k \in Runs \ {r},
              Submit(k) \/ CrossCheck(k) \/ Fail(k) \/ SessionEnds(k)
       PROVE  OkGrounded(r)'
  BY <1>1, <1>22 DEF Submit, CrossCheck, Fail, SessionEnds, Lane!Leave
<1>23. ASSUME NEW k \in Runs \ {r}, Reporting(k)
       PROVE  OkGrounded(r)'
  BY <1>1, <1>23 DEF Reporting, CheckAfter, Introspect, Release, Lane!Leave
<1>24. CASE EditSource \/ EditTarget \/ UNCHANGED vars
  BY <1>1, <1>24 DEF EditSource, EditTarget, vars
<1>25. ASSUME NEW k \in Runs,
              \/ Loading(k) \/ AiReview(k) \/ Confirm(k) \/ Leasing(k)
              \/ Submit(k) \/ Session(k) \/ CrossCheck(k)
              \/ Reporting(k) \/ Fail(k) \/ SessionEnds(k)
       PROVE  OkGrounded(r)'
  <2>1. CASE k = r
    BY <1>2, <1>4, <1>5, <1>6, <1>7, <1>8, <1>9, <1>10, <1>11, <1>12, <1>13,
       <1>14, <1>15, <1>16, <1>17, <1>18, <1>25, <2>1
    DEF Loading, Leasing, Session, Reporting
  <2>2. CASE k # r
    BY <1>19, <1>20, <1>21, <1>22, <1>23, <1>25, <2>2
  <2>. QED
    BY <2>1, <2>2
<1>. QED
  BY <1>24, <1>25 DEF Next

(***************************************************************************)
(* Exit code 0 after an apply under the lease: nothing gated, nothing left *)
(* to do by hand.                                                          *)
(***************************************************************************)
THEOREM OkComplete == Spec => []OkLeavesNothing
<1>1. Init => OkInv
  BY DEF Init, OkInv, OkGrounded
<1>2. TypeOK /\ PlanInv /\ EpochInv /\ OkInv /\ [Next]_vars => OkInv'
  BY OkStep
<1>3. OkInv => OkLeavesNothing
  BY DEF OkInv, OkGrounded, OkLeavesNothing
<1>. QED
  BY <1>1, <1>2, <1>3, TypeCorrect, EpochInvariant, PTL DEF Spec

=============================================================================
