-------------------------- MODULE ServerApply_proofs --------------------------
(***************************************************************************)
(* Proofs about live applies of dpm-server, for any number of requests,    *)
(* other migrators, objects and edits.                                     *)
(***************************************************************************)
EXTENDS ServerApply, SequenceTheorems, TLAPS

Everyone == Requests \cup Others
Entries == Everyone \X {"label", "transaction"}

LEMMA PlanTyped ==
  ASSUME NEW s \in SUBSET Objects, NEW t \in SUBSET Objects
  PROVE  Plan(s, t) \in PlanSpace
BY DEF Plan, PlanSpace

(***************************************************************************)
(* Executing a plan to its end takes the catalog it was computed from to   *)
(* the source's, the drops that were not executed (all of them, or none)   *)
(* and the labels that are only reported excepted.                         *)
(***************************************************************************)
LEMMA PlanReaches ==
  ASSUME NEW s, NEW t, NEW L, L = Plan(s, t).drop \/ L = {}
  PROVE  (t \cup Plan(s, t).add \cup Plan(s, t).create) \ L
           = s \cup (Plan(s, t).drop \ L) \cup Plan(s, t).manual
<1> DEFINE p == Plan(s, t)
<1>1. /\ p.add = (s \ t) \cap Values /\ p.create = (s \ t) \ Values
      /\ p.drop = (t \ s) \ Values   /\ p.manual = (t \ s) \cap Values
  BY DEF Plan
<1>2. L = p.drop \/ L = {}
  OBVIOUS
<1> HIDE DEF p
<1>3. (t \cup p.add \cup p.create) \ L = s \cup (p.drop \ L) \cup p.manual
  BY <1>1, <1>2
<1>. QED
  BY <1>3 DEF p

(* A plan never drops what the source has. *)
LEMMA PlanKeepsSource ==
  ASSUME NEW s, NEW t
  PROVE  Plan(s, t).drop \cap s = {}
BY DEF Plan

(* A label of the plan, once added, is all that leaves the plan. *)
LEMMA PlanAdvances ==
  ASSUME NEW s, NEW t, NEW v \in Plan(s, t).add
  PROVE  Plan(s, t \cup {v}) = [Plan(s, t) EXCEPT !.add = @ \ {v}]
<1>1. v \in s /\ v \notin t /\ v \in Values
  BY DEF Plan
<1>2. /\ (s \ (t \cup {v})) \cap Values = ((s \ t) \cap Values) \ {v}
      /\ (s \ (t \cup {v})) \ Values = (s \ t) \ Values
      /\ ((t \cup {v}) \ s) \ Values = (t \ s) \ Values
      /\ ((t \cup {v}) \ s) \cap Values = (t \ s) \cap Values
  BY <1>1
<1>3. [Plan(s, t) EXCEPT !.add = @ \ {v}] =
        [add    |-> ((s \ t) \cap Values) \ {v},
         create |-> (s \ t) \ Values,
         drop   |-> (t \ s) \ Values,
         manual |-> (t \ s) \cap Values]
  BY DEF Plan
<1>. QED
  BY <1>2, <1>3 DEF Plan

(* The journal tells which request or migrator committed what. *)
LEMMA AppendTells ==
  ASSUME NEW S, NEW s \in Seq(S), NEW e \in S, NEW f \in S
  PROVE  /\ Append(s, e) # s
         /\ Append(s, e) = Append(s, f) => e = f
BY AppendProperties

-----------------------------------------------------------------------------
LEMMA TypeInit == Init => TypeOK
<1> SUFFICES ASSUME Init PROVE TypeOK
  OBVIOUS
<1>1. desired \in Catalogs /\ target \in SUBSET Objects
  BY ServerAssumption DEF Init
<1>2. << >> \in Seq(Entries)
  OBVIOUS
<1>3. journal \in Seq(Everyone \X {"label", "transaction"})
  BY <1>2 DEF Init, Lane!Init, Entries
<1>. QED
  BY <1>1, <1>3, ServerAssumption
  DEF Init, TypeOK, Lane!Init, Phases, Answers, Everyone

(* What a completed statement changes besides the target. *)
LEMMA Completion ==
  ASSUME TypeOK, NEW k \in Requests, NEW w \in {"label", "transaction"},
         NEW to \in Phases, Logs(k, w), Completes(k, to)
  PROVE  /\ phase' \in [Requests -> Phases]
         /\ running' \in [Requests -> BOOLEAN]
         /\ owner' = owner /\ spent' = spent
         /\ journal' = Append(journal, <<k, w>>)
         /\ journal' \in Seq((Requests \cup Others) \X {"label", "transaction"})
<1>1. phase' \in [Requests -> Phases]
  <2>1. CASE phase' = [phase EXCEPT ![k] = to]
    BY <2>1 DEF TypeOK
  <2>2. CASE phase' = phase
    BY <2>2 DEF TypeOK
  <2>. QED
    BY <2>1, <2>2 DEF Completes, Go
<1>2. running' \in [Requests -> BOOLEAN]
  BY DEF Completes, TypeOK
<1>3. owner' = owner /\ spent' = spent
  BY DEF Logs, Lane!Write
<1>4. <<k, w>> \in (Requests \cup Others) \X {"label", "transaction"}
  OBVIOUS
<1>. QED
  BY <1>1, <1>2, <1>3, <1>4, AppendProperties DEF Logs, TypeOK

(* Types are kept, given that only a request with a plan has a statement out. *)
LEMMA TypeStep ==
  ASSUME TypeOK, PlanInv, [Next]_vars
  PROVE  TypeOK'
<1> USE ServerAssumption DEF TypeOK, Go, Decide, Finish, Phases, Answers,
          world, settings, computed, session, lane
<1>1. ASSUME NEW k \in Requests, Lock(k)
      PROVE  TypeOK'
  BY <1>1 DEF Lock
<1>2. ASSUME NEW k \in Requests, ReadSource(k)
      PROVE  TypeOK'
  BY <1>2 DEF ReadSource
<1>3. ASSUME NEW k \in Requests, ReadTarget(k)
      PROVE  TypeOK'
  <2>1. Plan(src[k], target) \in PlanSpace
    BY PlanTyped
  <2>2. plan' \in [Requests -> {NoPlan} \cup PlanSpace]
    BY <1>3, <2>1 DEF ReadTarget
  <2>3. /\ phase' \in [Requests -> Phases] /\ answer' \in [Requests -> Answers]
        /\ guard' \in Requests \cup {Nobody}
    BY <1>3 DEF ReadTarget
  <2>. QED
    BY <1>3, <2>2, <2>3 DEF ReadTarget
<1>4. ASSUME NEW k \in Requests, Acquire(k)
      PROVE  TypeOK'
  BY <1>4 DEF Acquire, Lane!Enter, Lane!Withdraw
<1>5. ASSUME NEW k \in Requests, ReadTargetAgain(k)
      PROVE  TypeOK'
  <2>1. Plan(src[k], target) \in PlanSpace
    BY PlanTyped
  <2>2. plan' \in [Requests -> {NoPlan} \cup PlanSpace]
    BY <1>5, <2>1 DEF ReadTargetAgain
  <2>3. /\ phase' \in [Requests -> Phases]
        /\ answer' \in [Requests -> Answers]
        /\ guard' \in Requests \cup {Nobody}
    <3>1. CASE Finish(k, "refused")
      BY <3>1
    <3>2. CASE Decide(k, "release", "unchanged") /\ UNCHANGED guard
      BY <3>2
    <3>3. CASE Go(k, "apply") /\ UNCHANGED <<answer, guard>>
      BY <3>3
    <3>. QED
      BY <1>5, <3>1, <3>2, <3>3 DEF ReadTargetAgain
  <2>4. UNCHANGED <<desired, target, edits, server, allow, src, added,
                    running, owner, spent, journal>>
    BY <1>5 DEF ReadTargetAgain
  <2>. QED
    BY <2>2, <2>3, <2>4
<1>6. ASSUME NEW k \in Requests, Submit(k)
      PROVE  TypeOK'
  BY <1>6 DEF Submit
<1>7. ASSUME NEW k \in Requests, NEW v \in Values, AddLabel(k, v)
      PROVE  TypeOK'
  <2>1. Logs(k, "label") /\ Completes(k, "apply")
    BY <1>7 DEF AddLabel
  <2>2. /\ phase' \in [Requests -> Phases] /\ running' \in [Requests -> BOOLEAN]
        /\ owner' = owner /\ spent' = spent
        /\ journal' \in Seq((Requests \cup Others) \X {"label", "transaction"})
    BY <2>1, Completion
  <2>3. target' \in SUBSET Objects /\ added' \in [Requests -> SUBSET Values]
    BY <1>7 DEF AddLabel
  <2>. QED
    BY <1>7, <2>2, <2>3 DEF AddLabel
<1>8. ASSUME NEW k \in Requests, Commit(k)
      PROVE  TypeOK'
  <2>1. Logs(k, "transaction") /\ Completes(k, "committed")
    BY <1>8 DEF Commit
  <2>2. /\ phase' \in [Requests -> Phases] /\ running' \in [Requests -> BOOLEAN]
        /\ owner' = owner /\ spent' = spent
        /\ journal' \in Seq((Requests \cup Others) \X {"label", "transaction"})
    BY <2>1, Completion
  <2>3. plan[k] \in PlanSpace
    BY <1>8 DEF Commit, PlanInv, Armed
  <2>4. target' \in SUBSET Objects
    BY <1>8, <2>3 DEF Commit, PlanSpace
  <2>. QED
    BY <1>8, <2>2, <2>4 DEF Commit
<1>9. ASSUME NEW k \in Requests, CheckAfter(k)
      PROVE  TypeOK'
  BY <1>9 DEF CheckAfter
<1>10. ASSUME NEW k \in Requests, Verify(k)
      PROVE  TypeOK'
  BY <1>10 DEF Verify
<1>11. ASSUME NEW k \in Requests, Release(k)
      PROVE  TypeOK'
  BY <1>11 DEF Release, Lane!Leave
<1>12. ASSUME NEW k \in Requests, Fail(k)
      PROVE  TypeOK'
  BY <1>12 DEF Fail
<1>13. ASSUME NEW k \in Requests, SessionEnds(k)
      PROVE  TypeOK'
  BY <1>13 DEF SessionEnds, Lane!Leave
<1>14. ASSUME NEW m \in Others, OtherEnters(m)
      PROVE  TypeOK'
  BY <1>14 DEF OtherEnters, Lane!Enter
<1>15. ASSUME NEW m \in Others, OtherMigrates(m)
      PROVE  TypeOK'
  <2>1. <<m, "transaction">> \in (Requests \cup Others) \X {"label", "transaction"}
    OBVIOUS
  <2>2. journal' \in Seq((Requests \cup Others) \X {"label", "transaction"})
    BY <1>15, <2>1, AppendProperties DEF OtherMigrates
  <2>3. target' \in SUBSET Objects
    BY <1>15 DEF OtherMigrates
  <2>. QED
    BY <1>15, <2>2, <2>3 DEF OtherMigrates, Lane!Write
<1>16. ASSUME NEW m \in Others, OtherLeaves(m)
      PROVE  TypeOK'
  BY <1>16 DEF OtherLeaves, Lane!Leave
<1>17. CASE EditSource
  BY <1>17 DEF EditSource
<1>18. CASE EditTarget
  BY <1>18 DEF EditTarget
<1>19. CASE UNCHANGED vars
  BY <1>19 DEF vars
<1>. QED
  BY <1>1, <1>2, <1>3, <1>4, <1>5, <1>6, <1>7, <1>8, <1>9, <1>10, <1>11,
     <1>12, <1>13, <1>14, <1>15, <1>16, <1>17, <1>18, <1>19
  DEF Next, Planning, Session, Reporting

(* The task between apply_lock and its answer has the guard. *)
LEMMA GuardStep ==
  ASSUME TypeOK, GuardInv, [Next]_vars
  PROVE  GuardInv'
<1> USE ServerAssumption DEF TypeOK, GuardInv, Go, Decide, Finish, Phases,
          world, settings, computed, session, lane
<1>1. ASSUME NEW k \in Requests, Lock(k)
      PROVE  GuardInv'
  BY <1>1 DEF Lock
<1>2. ASSUME NEW k \in Requests, ReadSource(k)
      PROVE  GuardInv'
  BY <1>2 DEF ReadSource
<1>3. ASSUME NEW k \in Requests, ReadTarget(k)
      PROVE  GuardInv'
  BY <1>3 DEF ReadTarget
<1>4. ASSUME NEW k \in Requests, Acquire(k)
      PROVE  GuardInv'
  BY <1>4 DEF Acquire
<1>5. ASSUME NEW k \in Requests, ReadTargetAgain(k)
      PROVE  GuardInv'
  BY <1>5 DEF ReadTargetAgain
<1>6. ASSUME NEW k \in Requests, Submit(k)
      PROVE  GuardInv'
  BY <1>6 DEF Submit
<1>7. ASSUME NEW k \in Requests, Session(k)
      PROVE  GuardInv'
  <2>1. Completes(k, "apply") \/ Completes(k, "committed")
    BY <1>7 DEF Session, AddLabel, Commit
  <2>2. UNCHANGED <<answer, guard>>
    BY <1>7 DEF Session, AddLabel, Commit
  <2>. QED
    BY <2>1, <2>2 DEF Completes
<1>8. ASSUME NEW k \in Requests, CheckAfter(k)
      PROVE  GuardInv'
  BY <1>8 DEF CheckAfter
<1>9. ASSUME NEW k \in Requests, Verify(k)
      PROVE  GuardInv'
  BY <1>9 DEF Verify
<1>10. ASSUME NEW k \in Requests, Release(k)
      PROVE  GuardInv'
  BY <1>10 DEF Release
<1>11. ASSUME NEW k \in Requests, Fail(k)
      PROVE  GuardInv'
  BY <1>11 DEF Fail
<1>12. ASSUME UNCHANGED <<phase, answer, guard>>
       PROVE  GuardInv'
  BY <1>12
<1>13. ASSUME NEW k \in Requests, SessionEnds(k)
       PROVE  UNCHANGED <<phase, answer, guard>>
  BY <1>13 DEF SessionEnds
<1>14. ASSUME NEW m \in Others, OtherEnters(m) \/ OtherMigrates(m) \/ OtherLeaves(m)
       PROVE  UNCHANGED <<phase, answer, guard>>
  BY <1>14 DEF OtherEnters, OtherMigrates, OtherLeaves
<1>15. ASSUME EditSource \/ EditTarget \/ UNCHANGED vars
       PROVE  UNCHANGED <<phase, answer, guard>>
  BY <1>15 DEF EditSource, EditTarget, vars
<1> HIDE DEF GuardInv
<1>. QED
  BY <1>1, <1>2, <1>3, <1>4, <1>5, <1>6, <1>7, <1>8, <1>9, <1>10, <1>11,
     <1>12, <1>13, <1>14, <1>15
  DEF Next, Planning, Reporting

(***************************************************************************)
(* A plan that may be executed was validated: nothing manual, nothing      *)
(* gated, and no drop of the source.                                       *)
(***************************************************************************)
LEMMA PlanStep ==
  ASSUME TypeOK, GuardInv, PlanInv, [Next]_vars
  PROVE  PlanInv'
<1>0. ASSUME NEW r \in Requests, answer[r] = "error" \/ ~running[r]
      PROVE  running[r] => phase[r] = "done"
  BY <1>0 DEF GuardInv
<1> USE ServerAssumption DEF TypeOK, PlanInv, Armed, Rejects, Gated,
        Go, Decide, Finish, Phases, world, settings, computed, session, lane
<1>1. ASSUME NEW k \in Requests, Lock(k)
      PROVE  PlanInv'
  BY <1>1 DEF Lock
<1>2. ASSUME NEW k \in Requests, ReadSource(k)
      PROVE  PlanInv'
  <2>1. ~running[k]
    BY <1>2, <1>0 DEF ReadSource
  <2>. QED
    BY <1>2, <2>1 DEF ReadSource
<1>3. ASSUME NEW k \in Requests, ReadTarget(k) \/ ReadTargetAgain(k)
      PROVE  PlanInv'
  <2> DEFINE p == Plan(src[k], target)
  <2>1. p.drop \cap src[k] = {} /\ p # NoPlan
    BY PlanTyped, PlanKeepsSource
  <2>2. UNCHANGED <<allow, src, running>> /\ ~running[k]
    BY <1>0, <1>3 DEF ReadTarget, ReadTargetAgain
  <2>3. \A r \in Requests \ {k} : /\ phase'[r] = phase[r] /\ plan'[r] = plan[r]
                                 /\ answer'[r] = answer[r]
    BY <1>3 DEF ReadTarget, ReadTargetAgain
  <2>4. plan'[k] = p /\ (phase'[k] = "apply" => ~Rejects(k, p))
        /\ phase'[k] # "executing"
    <3> HIDE DEF Rejects
    <3>. QED
      BY <1>3 DEF ReadTarget, ReadTargetAgain
  <2> HIDE DEF p
  <2>. QED
    BY <2>1, <2>2, <2>3, <2>4
<1>4. ASSUME NEW k \in Requests, Acquire(k)
      PROVE  PlanInv'
  BY <1>4 DEF Acquire
<1>6. ASSUME NEW k \in Requests, Submit(k)
      PROVE  PlanInv'
  BY <1>6 DEF Submit
<1>7. ASSUME NEW k \in Requests, Session(k)
      PROVE  PlanInv'
  <2>1. Completes(k, "apply") \/ Completes(k, "committed")
    BY <1>7 DEF Session, AddLabel, Commit
  <2>2. UNCHANGED <<allow, src, plan, answer>> /\ running[k]
    BY <1>7 DEF Session, AddLabel, Commit
  <2>. QED
    BY <2>1, <2>2 DEF Completes
<1>8. ASSUME NEW k \in Requests, CheckAfter(k)
      PROVE  PlanInv'
  BY <1>8 DEF CheckAfter
<1>9. ASSUME NEW k \in Requests, Verify(k)
      PROVE  PlanInv'
  <2>1. ~running[k]
    BY <1>9, <1>0 DEF Verify
  <2>. QED
    BY <1>9, <2>1 DEF Verify
<1>10. ASSUME NEW k \in Requests, Release(k)
      PROVE  PlanInv'
  BY <1>10 DEF Release
<1>11. ASSUME NEW k \in Requests, Fail(k)
      PROVE  PlanInv'
  BY <1>11 DEF Fail
<1>13. ASSUME NEW k \in Requests, SessionEnds(k)
       PROVE  PlanInv'
  BY <1>13 DEF SessionEnds
<1>14. ASSUME UNCHANGED <<allow, src, plan, answer, phase, running>>
       PROVE  PlanInv'
  BY <1>14
<1>15. ASSUME NEW m \in Others, OtherEnters(m) \/ OtherMigrates(m) \/ OtherLeaves(m)
       PROVE  UNCHANGED <<allow, src, plan, answer, phase, running>>
  BY <1>15 DEF OtherEnters, OtherMigrates, OtherLeaves
<1>16. ASSUME EditSource \/ EditTarget \/ UNCHANGED vars
       PROVE  UNCHANGED <<allow, src, plan, answer, phase, running>>
  BY <1>16 DEF EditSource, EditTarget, vars
<1> HIDE DEF PlanInv
<1>. QED
  BY <1>1, <1>2, <1>3, <1>4, <1>6, <1>7, <1>8, <1>9, <1>10, <1>11,
     <1>13, <1>14, <1>15, <1>16
  DEF Next, Planning, Reporting

-----------------------------------------------------------------------------
(***************************************************************************)
(* The epoch of one request: what its statements and the steps of others   *)
(* do to it.                                                               *)
(***************************************************************************)

(* Who loses the lease loses its claims; nobody else writes meanwhile.     *)
LEMMA EpochFrame ==
  ASSUME TypeOK, NEW r \in Requests, Epoch(r),
         phase'[r] = phase[r], answer'[r] = answer[r], src'[r] = src[r],
         plan'[r] = plan[r], added'[r] = added[r],
         running'[r] => running[r] /\ owner' = r,
         owner' = r => owner = r /\ target' = target
  PROVE  Epoch(r)'
BY DEF TypeOK, Epoch, Armed, Through, Rest

(* A label brings the target nearer to the source, by that label. *)
LEMMA LabelAdvances ==
  ASSUME TypeOK, NEW r \in Requests, NEW v, plan[r] \in PlanSpace,
         Plan(src[r], target) = Rest(r), v \in plan[r].add \ added[r],
         UNCHANGED <<src, plan>>,
         target' = target \cup {v}, added' = [added EXCEPT ![r] = @ \cup {v}]
  PROVE  Plan(src'[r], target') = Rest(r)'
<1>1. Rest(r).add = plan[r].add \ added[r]
  BY DEF Rest, PlanSpace
<1>2. Plan(src[r], target \cup {v}) = [Rest(r) EXCEPT !.add = @ \ {v}]
  BY <1>1, PlanAdvances
<1>3. added'[r] = added[r] \cup {v}
  BY DEF TypeOK
<1>4. (plan[r].add \ added[r]) \ {v} = plan[r].add \ (added[r] \cup {v})
  OBVIOUS
<1>5. [Rest(r) EXCEPT !.add = @ \ {v}] =
        [plan[r] EXCEPT !.add = @ \ (added[r] \cup {v})]
  BY <1>4 DEF Rest, PlanSpace
<1>. QED
  BY <1>2, <1>3, <1>5 DEF Rest

(* The transaction of a validated plan completes the way. *)
LEMMA CommitReaches ==
  ASSUME NEW r \in Requests, plan[r] \in PlanSpace,
         Plan(src[r], target) = Rest(r), added[r] = plan[r].add,
         ~Rejects(r, plan[r]),
         target' = (target \cup plan[r].create) \ (plan[r].drop \ Gated(r, plan[r]))
  PROVE  target' = src[r]
<1> DEFINE p == Plan(src[r], target)
<1>1. /\ p.add = {} /\ p.create = plan[r].create /\ p.drop = plan[r].drop
      /\ p.manual = plan[r].manual
  BY DEF Rest, PlanSpace
<1>2. plan[r].manual = {} /\ Gated(r, plan[r]) = {}
  BY DEF Rejects
<1>3. (target \cup p.add \cup p.create) \ p.drop =
        src[r] \cup (p.drop \ p.drop) \cup p.manual
  BY PlanReaches
<1> HIDE DEF p
<1>. QED
  BY <1>1, <1>2, <1>3

(* No step moves the target to another server. *)
LEMMA SameServer ==
  ASSUME [Next]_vars
  PROVE  server' = server
<1> USE DEF settings
<1>1. ASSUME NEW r \in Requests,
             Lock(r) \/ Planning(r) \/ Submit(r) \/ Fail(r) \/ SessionEnds(r)
      PROVE  server' = server
  BY <1>1 DEF Lock, Planning, ReadSource, ReadTarget, Acquire,
              ReadTargetAgain, Submit, Fail, SessionEnds
<1>2. ASSUME NEW r \in Requests, Session(r) \/ Reporting(r)
      PROVE  server' = server
  BY <1>2 DEF Session, Commit, AddLabel, Reporting, CheckAfter, Verify, Release
<1>3. ASSUME NEW m \in Others, OtherEnters(m) \/ OtherMigrates(m) \/ OtherLeaves(m)
      PROVE  server' = server
  BY <1>3 DEF OtherEnters, OtherMigrates, OtherLeaves
<1>. QED
  BY <1>1, <1>2, <1>3 DEF Next, EditSource, EditTarget, vars

LEMMA EpochInit == Init => EpochInv
BY DEF Init, EpochInv, Epoch, Armed, Through, Lane!Init

LEMMA EpochStep ==
  ASSUME TypeOK, GuardInv, PlanInv, EpochInv, [Next]_vars
  PROVE  EpochInv'
<1> SUFFICES ASSUME Leased, ~OutsideEdits, NEW r \in Requests
             PROVE  Epoch(r)'
  BY SameServer DEF EpochInv, Leased, OutsideEdits
<1>0. \A q \in Requests : Epoch(q)
  BY DEF EpochInv
<1>00. running[r] => phase[r] \in {"executing", "done"}
  BY DEF PlanInv, GuardInv
<1> USE ServerAssumption DEF TypeOK, Go, Decide, Finish, Phases, world,
        settings, computed, session, lane
<1>1. ASSUME NEW k \in Requests, Lock(k)
      PROVE  Epoch(r)'
  <2>1. CASE k # r
    <3>1. /\ phase'[r] = phase[r] /\ answer'[r] = answer[r] /\ src'[r] = src[r]
          /\ plan'[r] = plan[r] /\ added'[r] = added[r]
      BY <1>1, <2>1 DEF Lock
    <3>2. /\ running'[r] => running[r] /\ owner' = r
          /\ owner' = r => owner = r /\ target' = target
      BY <1>1, <1>0, <2>1 DEF Lock, Epoch
    <3>. QED
      BY <1>0, <3>1, <3>2, EpochFrame
  <2>2. CASE k = r
    BY <1>1, <1>0, <1>00, <2>2 DEF Lock, Epoch, Armed, Through, Rest
  <2>. QED
    BY <2>1, <2>2
<1>2. ASSUME NEW k \in Requests, ReadSource(k)
      PROVE  Epoch(r)'
  <2>1. CASE k # r
    <3>1. /\ phase'[r] = phase[r] /\ answer'[r] = answer[r] /\ src'[r] = src[r]
          /\ plan'[r] = plan[r] /\ added'[r] = added[r]
      BY <1>2, <2>1 DEF ReadSource
    <3>2. /\ running'[r] => running[r] /\ owner' = r
          /\ owner' = r => owner = r /\ target' = target
      BY <1>2, <1>0, <2>1 DEF ReadSource, Epoch
    <3>. QED
      BY <1>0, <3>1, <3>2, EpochFrame
  <2>2. CASE k = r
    BY <1>2, <1>0, <1>00, <2>2 DEF ReadSource, Epoch, Armed, Through, Rest
  <2>. QED
    BY <2>1, <2>2
<1>3. ASSUME NEW k \in Requests, ReadTarget(k)
      PROVE  Epoch(r)'
  <2>1. CASE k # r
    <3>1. /\ phase'[r] = phase[r] /\ answer'[r] = answer[r] /\ src'[r] = src[r]
          /\ plan'[r] = plan[r] /\ added'[r] = added[r]
      BY <1>3, <2>1 DEF ReadTarget
    <3>2. /\ running'[r] => running[r] /\ owner' = r
          /\ owner' = r => owner = r /\ target' = target
      BY <1>3, <1>0, <2>1 DEF ReadTarget, Epoch
    <3>. QED
      BY <1>0, <3>1, <3>2, EpochFrame
  <2>2. CASE k = r
    BY <1>3, <1>0, <1>00, <2>2 DEF ReadTarget, Epoch, Armed, Through, Rest
  <2>. QED
    BY <2>1, <2>2
<1>4. ASSUME NEW k \in Requests, Acquire(k)
      PROVE  Epoch(r)'
  <2>1. CASE k # r
    <3>1. /\ phase'[r] = phase[r] /\ answer'[r] = answer[r] /\ src'[r] = src[r]
          /\ plan'[r] = plan[r] /\ added'[r] = added[r]
      BY <1>4, <2>1 DEF Acquire
    <3>2. /\ running'[r] => running[r] /\ owner' = r
          /\ owner' = r => owner = r /\ target' = target
      BY <1>4, <1>0, <2>1 DEF Acquire, Epoch, Lane!Enter, Lane!Withdraw
    <3>. QED
      BY <1>0, <3>1, <3>2, EpochFrame
  <2>2. CASE k = r
    BY <1>4, <1>0, <1>00, <2>2 DEF Acquire, Epoch, Armed, Through, Rest, Lane!Enter, Lane!Withdraw
  <2>. QED
    BY <2>1, <2>2
<1>5. ASSUME NEW k \in Requests, ReadTargetAgain(k)
      PROVE  Epoch(r)'
  <2>1. CASE k # r
    <3>1. /\ phase'[r] = phase[r] /\ answer'[r] = answer[r] /\ src'[r] = src[r]
          /\ plan'[r] = plan[r] /\ added'[r] = added[r]
      BY <1>5, <2>1 DEF ReadTargetAgain
    <3>2. /\ running'[r] => running[r] /\ owner' = r
          /\ owner' = r => owner = r /\ target' = target
      BY <1>5, <1>0, <2>1 DEF ReadTargetAgain, Epoch
    <3>. QED
      BY <1>0, <3>1, <3>2, EpochFrame
  <2>2. CASE k = r
    <3> DEFINE p == Plan(src[r], target)
    <3>1. /\ UNCHANGED <<target, src, added, running, owner>>
          /\ phase[r] = "targetAgain" /\ added[r] = {} /\ ~running[r]
          /\ plan'[r] = p
      BY <1>5, <1>0, <1>00, <2>2 DEF ReadTargetAgain, Epoch
    <3>2. \/ phase'[r] = "done" /\ answer'[r] = "refused"
          \/ phase'[r] = "release" /\ answer'[r] = "unchanged"
          \/ phase'[r] = "apply"
      BY <1>5, <2>2 DEF ReadTargetAgain
    <3>3. Rest(r)' = p
      BY <3>1 DEF Rest, Plan
    <3> HIDE DEF p
    <3>4. Plan(src[r], target)' = Rest(r)'
      BY <3>1, <3>3 DEF p
    <3>. QED
      BY <3>1, <3>2, <3>4 DEF Epoch, Armed, Through
  <2>. QED
    BY <2>1, <2>2
<1>6. ASSUME NEW k \in Requests, Submit(k)
      PROVE  Epoch(r)'
  <2>1. CASE k # r
    <3>1. /\ phase'[r] = phase[r] /\ answer'[r] = answer[r] /\ src'[r] = src[r]
          /\ plan'[r] = plan[r] /\ added'[r] = added[r]
      BY <1>6, <2>1 DEF Submit
    <3>2. /\ running'[r] => running[r] /\ owner' = r
          /\ owner' = r => owner = r /\ target' = target
      BY <1>6, <1>0, <2>1 DEF Submit, Epoch, Tenured
    <3>. QED
      BY <1>0, <3>1, <3>2, EpochFrame
  <2>2. CASE k = r
    BY <1>6, <1>0, <1>00, <2>2 DEF Submit, Epoch, Armed, Through, Rest, Tenured
  <2>. QED
    BY <2>1, <2>2
<1>7. ASSUME NEW k \in Requests, NEW v \in Values, AddLabel(k, v)
      PROVE  Epoch(r)'
  <2>1. CASE k # r
    <3>1. /\ phase'[r] = phase[r] /\ answer'[r] = answer[r] /\ src'[r] = src[r]
          /\ plan'[r] = plan[r] /\ added'[r] = added[r]
      BY <1>7, <2>1 DEF AddLabel, Completes
    <3>2. running'[r] = running[r] /\ owner' = owner /\ owner = k
      BY <1>7, <1>0, <2>1 DEF AddLabel, Completes, Logs, Lane!Write
    <3>. QED
      BY <1>0, <2>1, <3>1, <3>2, EpochFrame DEF Epoch
  <2>2. CASE k = r
    <3>1. /\ running[r] /\ owner = r /\ phase[r] \in {"executing", "done"}
          /\ plan[r] \in PlanSpace /\ Plan(src[r], target) = Rest(r)
      BY <1>7, <1>0, <1>00, <2>2 DEF AddLabel, Epoch, Armed, PlanInv
    <3>2. /\ UNCHANGED <<src, plan, answer>>
          /\ v \in plan[r].add \ added[r] /\ target' = target \cup {v}
          /\ added' = [added EXCEPT ![r] = @ \cup {v}]
      BY <1>7, <2>2 DEF AddLabel
    <3>3. Plan(src[r], target)' = Rest(r)'
      BY <3>1, <3>2, LabelAdvances
    <3>4. ~running'[r] /\ phase'[r] \in {"apply", "done"}
      BY <1>7, <2>2, <3>1 DEF AddLabel, Completes
    <3>. QED
      BY <3>3, <3>4 DEF Epoch, Armed, Through
  <2>. QED
    BY <2>1, <2>2
<1>8. ASSUME NEW k \in Requests, Commit(k)
      PROVE  Epoch(r)'
  <2>1. CASE k # r
    <3>1. /\ phase'[r] = phase[r] /\ answer'[r] = answer[r] /\ src'[r] = src[r]
          /\ plan'[r] = plan[r] /\ added'[r] = added[r]
      BY <1>8, <2>1 DEF Commit, Completes
    <3>2. running'[r] = running[r] /\ owner' = owner /\ owner = k
      BY <1>8, <1>0, <2>1 DEF Commit, Completes, Logs, Lane!Write
    <3>. QED
      BY <1>0, <2>1, <3>1, <3>2, EpochFrame DEF Epoch
  <2>2. CASE k = r
    <3>1. /\ running[r] /\ owner = r /\ phase[r] \in {"executing", "done"}
          /\ plan[r] \in PlanSpace /\ Plan(src[r], target) = Rest(r)
          /\ ~Rejects(r, plan[r])
      BY <1>8, <1>0, <1>00, <2>2 DEF Commit, Epoch, Armed, PlanInv
    <3>2. /\ UNCHANGED <<src, plan, answer>> /\ added[r] = plan[r].add
          /\ target' = (target \cup plan[r].create) \ (plan[r].drop \ Gated(r, plan[r]))
      BY <1>8, <2>2 DEF Commit
    <3>3. target' = src'[r]
      BY <3>1, <3>2, CommitReaches
    <3>4. ~running'[r] /\ phase'[r] \in {"committed", "done"}
      BY <1>8, <2>2, <3>1 DEF Commit, Completes
    <3>. QED
      BY <3>3, <3>4 DEF Epoch, Armed, Through
  <2>. QED
    BY <2>1, <2>2
<1>9. ASSUME NEW k \in Requests, CheckAfter(k)
      PROVE  Epoch(r)'
  <2>1. CASE k # r
    <3>1. /\ phase'[r] = phase[r] /\ answer'[r] = answer[r] /\ src'[r] = src[r]
          /\ plan'[r] = plan[r] /\ added'[r] = added[r]
      BY <1>9, <2>1 DEF CheckAfter
    <3>2. /\ running'[r] => running[r] /\ owner' = r
          /\ owner' = r => owner = r /\ target' = target
      BY <1>9, <1>0, <2>1 DEF CheckAfter, Epoch, Tenured
    <3>. QED
      BY <1>0, <3>1, <3>2, EpochFrame
  <2>2. CASE k = r
    BY <1>9, <1>0, <1>00, <2>2 DEF CheckAfter, Epoch, Armed, Through, Rest, Tenured
  <2>. QED
    BY <2>1, <2>2
<1>10. ASSUME NEW k \in Requests, Verify(k)
      PROVE  Epoch(r)'
  <2>1. CASE k # r
    <3>1. /\ phase'[r] = phase[r] /\ answer'[r] = answer[r] /\ src'[r] = src[r]
          /\ plan'[r] = plan[r] /\ added'[r] = added[r]
      BY <1>10, <2>1 DEF Verify
    <3>2. /\ running'[r] => running[r] /\ owner' = r
          /\ owner' = r => owner = r /\ target' = target
      BY <1>10, <1>0, <2>1 DEF Verify, Epoch
    <3>. QED
      BY <1>0, <3>1, <3>2, EpochFrame
  <2>2. CASE k = r
    BY <1>10, <1>0, <1>00, <2>2 DEF Verify, Epoch, Armed, Through, Rest
  <2>. QED
    BY <2>1, <2>2
<1>11. ASSUME NEW k \in Requests, Release(k)
      PROVE  Epoch(r)'
  <2>1. CASE k # r
    <3>1. /\ phase'[r] = phase[r] /\ answer'[r] = answer[r] /\ src'[r] = src[r]
          /\ plan'[r] = plan[r] /\ added'[r] = added[r]
      BY <1>11, <2>1 DEF Release
    <3>2. /\ running'[r] => running[r] /\ owner' = r
          /\ owner' = r => owner = r /\ target' = target
      BY <1>11, <1>0, <2>1 DEF Release, Epoch, Lane!Leave
    <3>. QED
      BY <1>0, <3>1, <3>2, EpochFrame
  <2>2. CASE k = r
    BY <1>11, <1>0, <1>00, <2>2 DEF Release, Epoch, Armed, Through, Rest, Lane!Leave
  <2>. QED
    BY <2>1, <2>2
<1>12. ASSUME NEW k \in Requests, Fail(k)
      PROVE  Epoch(r)'
  <2>1. CASE k # r
    <3>1. /\ phase'[r] = phase[r] /\ answer'[r] = answer[r] /\ src'[r] = src[r]
          /\ plan'[r] = plan[r] /\ added'[r] = added[r]
      BY <1>12, <2>1 DEF Fail
    <3>2. /\ running'[r] => running[r] /\ owner' = r
          /\ owner' = r => owner = r /\ target' = target
      BY <1>12, <1>0, <2>1 DEF Fail, Epoch
    <3>. QED
      BY <1>0, <3>1, <3>2, EpochFrame
  <2>2. CASE k = r
    BY <1>12, <1>0, <1>00, <2>2 DEF Fail, Epoch, Armed, Through, Rest
  <2>. QED
    BY <2>1, <2>2
<1>13. ASSUME NEW k \in Requests, SessionEnds(k)
      PROVE  Epoch(r)'
  <2>1. CASE k # r
    <3>1. /\ phase'[r] = phase[r] /\ answer'[r] = answer[r] /\ src'[r] = src[r]
          /\ plan'[r] = plan[r] /\ added'[r] = added[r]
      BY <1>13, <2>1 DEF SessionEnds
    <3>2. /\ running'[r] => running[r] /\ owner' = r
          /\ owner' = r => owner = r /\ target' = target
      BY <1>13, <1>0, <2>1 DEF SessionEnds, Epoch, Lane!Leave
    <3>. QED
      BY <1>0, <3>1, <3>2, EpochFrame
  <2>2. CASE k = r
    BY <1>13, <1>0, <1>00, <2>2 DEF SessionEnds, Epoch, Armed, Through, Rest, Lane!Leave
  <2>. QED
    BY <2>1, <2>2
<1>14. ASSUME NEW m \in Others, OtherEnters(m) \/ OtherMigrates(m) \/ OtherLeaves(m)
       PROVE  Epoch(r)'
  <2>1. UNCHANGED <<phase, answer, src, plan, added, running>>
    BY <1>14 DEF OtherEnters, OtherMigrates, OtherLeaves
  <2>2. /\ running[r] => owner' = r
        /\ owner' # r
    BY <1>14, <1>0 DEF OtherEnters, OtherMigrates, OtherLeaves, Epoch,
      Lane!Enter, Lane!Write, Lane!Leave
  <2>. QED
    BY <1>0, <2>1, <2>2, EpochFrame
<1>15. CASE EditSource
  BY <1>15, <1>0, EpochFrame DEF EditSource, Epoch
<1>16. CASE EditTarget
  BY <1>16 DEF EditTarget
<1>17. CASE UNCHANGED vars
  BY <1>17, <1>0, EpochFrame DEF vars, Epoch
<1>. QED
  BY <1>1, <1>2, <1>3, <1>4, <1>5, <1>6, <1>7, <1>8, <1>9, <1>10, <1>11,
     <1>12, <1>13, <1>14, <1>15, <1>16, <1>17
  DEF Next, Planning, Session, Reporting

(***************************************************************************)
(* The inductive invariant of the server's live applies, in every          *)
(* reachable state and with or without a lease.                            *)
(***************************************************************************)
THEOREM ServerInvariant == Spec => []ServerInv
<1>1. Init => ServerInv
  <2>1. Init => GuardInv
    BY ServerAssumption DEF Init, GuardInv
  <2>2. Init => PlanInv
    BY DEF Init, PlanInv, Armed
  <2>. QED
    BY <2>1, <2>2, TypeInit, EpochInit DEF ServerInv
<1>2. ServerInv /\ [Next]_vars => ServerInv'
  BY TypeStep, GuardStep, PlanStep, EpochStep DEF ServerInv
<1>. QED
  BY <1>1, <1>2, PTL DEF Spec

(***************************************************************************)
(* With no lease at all: two requests with statements submitted at once    *)
(* would both have the guard, or one of them was answered with an error.   *)
(***************************************************************************)
THEOREM AppliesSerial == Spec => []OneAtATime
<1>1. ServerInv => OneAtATime
  BY DEF ServerInv, OneAtATime, GuardInv, PlanInv
<1>. QED
  BY <1>1, ServerInvariant, PTL

-----------------------------------------------------------------------------
(* The journal tells whose statement a step completed, and which. *)
LEMMA WhoCommits ==
  ASSUME TypeOK, [Next]_vars, NEW r \in Requests,
         NEW w \in {"label", "transaction"}, Commits(r, w)
  PROVE  \/ w = "transaction" /\ Commit(r)
         \/ w = "label" /\ \E v \in Values : AddLabel(r, v)
<1> DEFINE S == (Requests \cup Others) \X {"label", "transaction"}
<1>1. journal \in Seq(S)
  BY DEF TypeOK
<1>2. <<r, w>> \in S
  OBVIOUS
<1>3. journal' # journal
  BY <1>1, <1>2, AppendTells DEF Commits
<1>4. ASSUME NEW k \in Requests \cup Others, NEW x \in {"label", "transaction"},
             journal' = Append(journal, <<k, x>>)
      PROVE  k = r /\ x = w
  <2>1. <<k, x>> \in S
    BY <1>4
  <2>2. <<k, x>> = <<r, w>>
    BY <1>1, <1>2, <1>4, <2>1, AppendTells DEF Commits
  <2>. QED
    BY <2>2
<1>5. CASE \E k \in Requests : Session(k)
  <2>1. PICK k \in Requests : Session(k)
    BY <1>5
  <2>2. CASE Commit(k)
    <3>1. journal' = Append(journal, <<k, "transaction">>)
      BY <2>2 DEF Commit, Logs
    <3>2. k = r /\ w = "transaction"
      BY <1>4, <3>1
    <3>. QED
      BY <2>2, <3>2
  <2>3. CASE \E v \in Values : AddLabel(k, v)
    <3>1. journal' = Append(journal, <<k, "label">>)
      BY <2>3 DEF AddLabel, Logs
    <3>2. k = r /\ w = "label"
      BY <1>4, <3>1
    <3>. QED
      BY <2>3, <3>2
  <2>. QED
    BY <2>1, <2>2, <2>3 DEF Session
<1>6. CASE \E m \in Others : OtherMigrates(m)
  <2>1. PICK m \in Others : OtherMigrates(m)
    BY <1>6
  <2>2. m = r
    BY <1>4, <2>1 DEF OtherMigrates
  <2>. QED
    BY <2>2, ServerAssumption
<1>7. CASE /\ ~\E k \in Requests : Session(k)
           /\ ~\E m \in Others : OtherMigrates(m)
  <2>1. ASSUME NEW k \in Requests,
               Lock(k) \/ Planning(k) \/ Submit(k) \/ Fail(k)
        PROVE  UNCHANGED journal
    BY <2>1 DEF Lock, Planning, ReadSource, ReadTarget, Acquire,
                ReadTargetAgain, Submit, Fail, lane, Lane!Enter, Lane!Withdraw
  <2>2. ASSUME NEW k \in Requests, Reporting(k) \/ SessionEnds(k)
        PROVE  UNCHANGED journal
    BY <2>2 DEF Reporting, CheckAfter, Verify, Release, SessionEnds, lane,
                Lane!Leave
  <2>3. ASSUME NEW m \in Others, OtherEnters(m) \/ OtherLeaves(m)
        PROVE  UNCHANGED journal
    BY <2>3 DEF OtherEnters, OtherLeaves, Lane!Enter, Lane!Leave
  <2>4. ASSUME EditSource \/ EditTarget \/ UNCHANGED vars
        PROVE  UNCHANGED journal
    BY <2>4 DEF EditSource, EditTarget, vars, lane
  <2>. QED
    BY <1>3, <1>7, <2>1, <2>2, <2>3, <2>4 DEF Next
<1>. QED
  BY <1>5, <1>6, <1>7

(***************************************************************************)
(* On PostgreSQL and CockroachDB, whoever else writes: what becomes        *)
(* durable for a request belongs to a plan without manual or gated steps,  *)
(* and nothing of its source is dropped.                                   *)
(***************************************************************************)
THEOREM ExecutableOnly == Spec => OnlyExecutable
<1>1. ServerInv /\ [Next]_vars =>
        [\A r \in Requests, what \in {"label", "transaction"} :
           Commits(r, what) =>
             /\ plan[r].manual = {}
             /\ plan[r].drop # {} => allow[r]
             /\ (target \ target') \cap src[r] = {}]_vars
  <2> SUFFICES ASSUME ServerInv, [Next]_vars, NEW r \in Requests,
                      NEW w \in {"label", "transaction"}, Commits(r, w)
               PROVE  /\ plan[r].manual = {}
                      /\ plan[r].drop # {} => allow[r]
                      /\ (target \ target') \cap src[r] = {}
    OBVIOUS
  <2>1. Commit(r) \/ \E v \in Values : AddLabel(r, v)
    BY WhoCommits DEF ServerInv
  <2>2. /\ ~Rejects(r, plan[r]) /\ plan[r].drop \cap src[r] = {}
    BY <2>1 DEF Commit, AddLabel, ServerInv, PlanInv, Armed
  <2>3. target \ target' \subseteq plan[r].drop
    BY <2>1 DEF Commit, AddLabel
  <2>. QED
    BY <2>2, <2>3 DEF Rejects, Gated
<1>. QED
  BY <1>1, ServerInvariant, PTL DEF Spec, OnlyExecutable

(***************************************************************************)
(* Under the lease a transaction makes the target the whole schema its     *)
(* request asked for.                                                      *)
(***************************************************************************)
THEOREM WholeCommitted == Spec => CommitsWhole
<1>1. ServerInv /\ [Next]_vars =>
        [Leased /\ ~OutsideEdits => \A r \in Requests :
           Commits(r, "transaction") => target' = src[r]]_vars
  <2> SUFFICES ASSUME ServerInv, [Next]_vars, Leased, ~OutsideEdits,
                      NEW r \in Requests, Commits(r, "transaction")
               PROVE  target' = src[r]
    OBVIOUS
  <2>1. Commit(r)
    BY WhoCommits DEF ServerInv
  <2>2. /\ running[r] /\ added[r] = plan[r].add
        /\ target' = (target \cup plan[r].create) \ (plan[r].drop \ Gated(r, plan[r]))
    BY <2>1 DEF Commit
  <2>3. Plan(src[r], target) = Rest(r)
    BY <2>2 DEF ServerInv, EpochInv, Epoch, Armed
  <2>4. plan[r] \in PlanSpace /\ ~Rejects(r, plan[r])
    BY <2>2 DEF ServerInv, TypeOK, PlanInv, Armed
  <2>. QED
    BY <2>2, <2>3, <2>4, CommitReaches
<1>. QED
  BY <1>1, ServerInvariant, PTL DEF Spec, CommitsWhole

(***************************************************************************)
(* A converged answer is true when it is given.                            *)
(***************************************************************************)
THEOREM ConvergenceAttested == Spec => ConvergedAttests
<1> DEFINE Attests(r) ==
      /\ phase[r] = "release" /\ phase'[r] = "done"
      /\ answer'[r] = "converged"
      => target = src[r]
<1>1. ASSUME ServerInv, Next, Leased, ~OutsideEdits, NEW r \in Requests
      PROVE  Attests(r)
  <2> SUFFICES ASSUME phase[r] = "release", phase'[r] = "done",
                      answer'[r] = "converged"
               PROVE  target = src[r]
    OBVIOUS
  <2>1. owner = r /\ answer[r] = "converged"
    <3> USE <1>1, ServerAssumption DEF ServerInv, TypeOK, Go, Decide, Finish,
            world, settings, computed, session, lane
    <3>1. ASSUME NEW k \in Requests, Release(k)
          PROVE  owner = r /\ answer[r] = "converged"
      BY <3>1 DEF Release
    <3>2. ASSUME NEW k \in Requests,
                 Lock(k) \/ Planning(k) \/ Submit(k) \/ CheckAfter(k) \/ Verify(k)
          PROVE  FALSE
      BY <3>2 DEF Lock, Planning, ReadSource, ReadTarget, Acquire,
                  ReadTargetAgain, Submit, CheckAfter, Verify
    <3>3. ASSUME NEW k \in Requests, Session(k) \/ SessionEnds(k) \/ Fail(k)
          PROVE  FALSE
      BY <3>3 DEF Session, Commit, AddLabel, Completes, SessionEnds, Fail
    <3>4. ASSUME NEW m \in Others,
                 OtherEnters(m) \/ OtherMigrates(m) \/ OtherLeaves(m)
          PROVE  FALSE
      BY <3>4 DEF OtherEnters, OtherMigrates, OtherLeaves
    <3>5. ASSUME EditSource \/ EditTarget
          PROVE  FALSE
      BY <3>5 DEF EditSource, EditTarget
    <3>. QED
      BY <3>1, <3>2, <3>3, <3>4, <3>5 DEF Next, Reporting
  <2>. QED
    BY <1>1, <2>1 DEF ServerInv, EpochInv, Epoch, Through
<1>2. ServerInv /\ [Next]_vars =>
        [Leased /\ ~OutsideEdits => \A r \in Requests : Attests(r)]_vars
  BY <1>1
<1>. QED
  BY <1>2, ServerInvariant, PTL DEF Spec, ConvergedAttests

=============================================================================
