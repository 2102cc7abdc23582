------------------------ MODULE MigrationLease_proofs ------------------------
(***************************************************************************)
(* Proofs about MigrationLease, for every set of leases and of scripts.    *)
(***************************************************************************)
EXTENDS MigrationLease, SequenceTheorems, TLAPS

(***************************************************************************)
(* Type correctness: every step of the lease, of PostgreSQL and of the     *)
(* network keeps the variables in their types.                             *)
(***************************************************************************)
THEOREM TypeCorrect == Spec => []TypeOK
<1>1. Init => TypeOK
  BY DEF Init, TypeOK, Phases, Outcomes
<1>2. ASSUME TypeOK, [Next]_vars
      PROVE  TypeOK'
  <2> USE TypeOK DEF TypeOK, Go, Return, HangUp, backend, client
  <2>1. ASSUME NEW l \in Leases, Connect(l)
        PROVE  TypeOK'
    BY <2>1 DEF Connect, Phases, Outcomes
  <2>2. ASSUME NEW l \in Leases, TryLock(l)
        PROVE  TypeOK'
    BY <2>2 DEF TryLock, Phases, Outcomes
  <2>3. ASSUME NEW l \in Leases, VerifyAcquired(l)
        PROVE  TypeOK'
    BY <2>3 DEF VerifyAcquired, LeaseUnverified, Phases, Outcomes
  <2>4. ASSUME NEW l \in Leases, NEW s \in Scripts, Apply(l, s)
        PROVE  TypeOK'
    BY <2>4 DEF Apply, Phases
  <2>5. ASSUME NEW l \in Leases, CheckBefore(l)
        PROVE  TypeOK'
    BY <2>5 DEF CheckBefore, LeaseUnverified, Phases, Outcomes
  <2>6. ASSUME NEW l \in Leases, ExecuteBroken(l)
        PROVE  TypeOK'
    BY <2>6 DEF ExecuteBroken, Phases
  <2>7. ASSUME NEW l \in Leases, CheckAfter(l)
        PROVE  TypeOK'
    <3>1. next' \in [Leases -> Nat \ {0}] /\ executed' \in [Leases -> Nat]
      <4>1. next[l] + 1 \in Nat \ {0} /\ executed[l] + next[l] \in Nat
        OBVIOUS
      <4>. QED
        BY <2>7, <4>1 DEF CheckAfter
    <3>2. phase' \in [Leases -> Phases] /\ outcome' \in [Leases -> Outcomes]
      BY <2>7 DEF CheckAfter, Phases, Outcomes
    <3>3. txn' \in [Leases -> {"idle", "open", "failed"}]
      BY <2>7 DEF CheckAfter, LeaseUnverified
    <3>. QED
      BY <2>7, <3>1, <3>2, <3>3 DEF CheckAfter
  <2>8. ASSUME NEW l \in Leases, Rollback(l)
        PROVE  TypeOK'
    <3>1. pending' \in [Leases -> Seq(Entries)]
      <4>1. [pending EXCEPT ![l] = << >>] \in [Leases -> Seq(Entries)]
        OBVIOUS
      <4>. QED
        BY <2>8, <4>1 DEF Rollback
    <3>. QED
      BY <2>8, <3>1 DEF Rollback, Phases, Outcomes
  <2>9. ASSUME NEW l \in Leases, Release(l)
        PROVE  TypeOK'
    BY <2>9 DEF Release, Phases, Outcomes
  <2>10. ASSUME NEW l \in Leases, Close(l)
         PROVE  TypeOK'
    BY <2>10 DEF Close, Phases, Outcomes
  <2>11. ASSUME NEW l \in Leases, Abandon(l)
         PROVE  TypeOK'
    BY <2>11 DEF Abandon, Phases, Outcomes
  <2>12. ASSUME NEW l \in Leases, SelfUnlock(l)
         PROVE  TypeOK'
    BY <2>12 DEF SelfUnlock
  <2>13. ASSUME NEW l \in Leases, Execute(l)
         PROVE  TypeOK'
    <3>1. <<l, next[l]>> \in Entries
      BY DEF Entries
    <3>2. /\ pending' \in [Leases -> Seq(Entries)]
          /\ journal' \in Seq(Entries)
          /\ txn' \in [Leases -> {"idle", "open", "failed"}]
      <4>1. CASE Completes(l) /\ Kind(l) = "begin"
        BY <4>1 DEF Completes, Durable
      <4>2. CASE Completes(l) /\ Kind(l) = "commit"
        <5>1. journal \o pending[l] \in Seq(Entries)
          OBVIOUS
        <5>2. [pending EXCEPT ![l] = << >>] \in [Leases -> Seq(Entries)]
          OBVIOUS
        <5>. QED
          BY <4>2, <5>1, <5>2 DEF Completes, Durable
      <4>3. CASE Completes(l) /\ Kind(l) \in Durable
        <5>1. Append(pending[l], <<l, next[l]>>) \in Seq(Entries)
          BY <3>1
        <5>2. Append(journal, <<l, next[l]>>) \in Seq(Entries)
          BY <3>1
        <5>. QED
          BY <4>3, <5>1, <5>2 DEF Completes, Durable
      <4>4. CASE Fails(l)
        BY <4>4 DEF Fails
      <4>. QED
        BY <2>13, <4>1, <4>2, <4>3, <4>4 DEF Execute, Completes
    <3>. QED
      BY <2>13, <3>2 DEF Execute, Phases
  <2>14. ASSUME NEW l \in Leases, LinkBreaks(l)
         PROVE  TypeOK'
    BY <2>14 DEF LinkBreaks
  <2>15. ASSUME NEW l \in Leases, SessionEnds(l)
         PROVE  TypeOK'
    BY <2>15 DEF SessionEnds
  <2>16. CASE UNCHANGED vars
    BY <2>16 DEF vars
  <2>. QED
    BY <1>2, <2>1, <2>2, <2>3, <2>4, <2>5, <2>6, <2>7, <2>8, <2>9, <2>10,
       <2>11, <2>12, <2>13, <2>14, <2>15, <2>16
    DEF Next, Acquiring, Applying, Environment
<1>3. QED
  BY <1>1, <1>2, PTL DEF Spec

-----------------------------------------------------------------------------
(***************************************************************************)
(* The part of the invariant about running statements is inductive.        *)
(***************************************************************************)
LEMMA RunInvStep ==
  ASSUME TypeOK, RunInv, [Next]_vars
  PROVE  RunInv'
<1> USE LeaseAssumption DEF TypeOK, RunInv, Go, Return, HangUp, Kind, backend, client
<1>0. \A l \in Leases : script[l] = << >> => ~running[l]
  <2>1. Len(<< >>) = 0
    OBVIOUS
  <2>. QED
    BY <2>1
<1>1. ASSUME NEW l \in Leases, Connect(l)
     PROVE  RunInv'
  <2>1. script[l] = << >> /\ ~running[l]
    BY <1>0, <1>1 DEF Connect
  <2>2. \A k \in Leases \ {l} : phase'[k] = phase[k] /\ conn'[k] = conn[k]
    BY <1>1 DEF Connect
  <2>3. phase'[l] \in {"connected", "done"}
    BY <1>1 DEF Connect
  <2>4. /\ script' = script /\ next' = next /\ running' = running
        /\ lockOwner' = lockOwner
    BY <1>1 DEF Connect
  <2>5. ASSUME NEW k \in Leases
        PROVE  RunInv!(k)'
    BY <2>1, <2>2, <2>3, <2>4
  <2>. QED
    BY <2>5
<1>2. ASSUME NEW l \in Leases, TryLock(l)
     PROVE  RunInv'
  BY <1>2 DEF TryLock
<1>3. ASSUME NEW l \in Leases, VerifyAcquired(l)
     PROVE  RunInv'
  BY <1>3 DEF VerifyAcquired
<1>4. ASSUME NEW l \in Leases, NEW s \in Scripts, Apply(l, s)
     PROVE  RunInv'
  <2>1. script[l] = << >> /\ next[l] = 1 /\ ~running[l] /\ phase[l] = "held"
    BY <1>0, <1>4 DEF Apply
  <2>2. s # << >> /\ s \in Seq(Kinds)
    BY <1>4, ScriptAssumption DEF Apply, ValidatedScript
  <2>3. 1 <= Len(s)
    BY <2>2
  <2>4. /\ script'[l] = s /\ phase'[l] = "before" /\ next' = next
        /\ running' = running /\ conn' = conn /\ lockOwner' = lockOwner
        /\ \A k \in Leases \ {l} : script'[k] = script[k] /\ phase'[k] = phase[k]
    BY <1>4 DEF Apply
  <2>. QED
    BY <1>4, <2>1, <2>2, <2>3, <2>4 DEF Apply
<1>5. ASSUME NEW l \in Leases, CheckBefore(l)
     PROVE  RunInv'
  BY <1>5 DEF CheckBefore, LeaseVerified
<1>6. ASSUME NEW l \in Leases, ExecuteBroken(l)
     PROVE  RunInv'
  BY <1>6 DEF ExecuteBroken
<1>7. ASSUME NEW l \in Leases, CheckAfter(l)
     PROVE  RunInv'
  BY <1>7 DEF CheckAfter, LeaseVerified
<1>8. ASSUME NEW l \in Leases, Rollback(l)
     PROVE  RunInv'
  BY <1>8 DEF Rollback
<1>9. ASSUME NEW l \in Leases, Release(l)
     PROVE  RunInv'
  BY <1>9 DEF Release
<1>10. ASSUME NEW l \in Leases, Close(l)
      PROVE  RunInv'
  BY <1>10 DEF Close
<1>11. ASSUME NEW l \in Leases, Abandon(l)
      PROVE  RunInv'
  BY <1>11 DEF Abandon
<1>12. ASSUME NEW l \in Leases, SelfUnlock(l)
      PROVE  RunInv'
  BY <1>12 DEF SelfUnlock, Unlocking, ValidatedScript
<1>13. ASSUME NEW l \in Leases, Execute(l)
      PROVE  RunInv'
  BY <1>13 DEF Execute
<1>14. ASSUME NEW l \in Leases, LinkBreaks(l)
      PROVE  RunInv'
  BY <1>14 DEF LinkBreaks
<1>15. ASSUME NEW l \in Leases, SessionEnds(l)
      PROVE  RunInv'
  BY <1>15 DEF SessionEnds
<1>16. CASE UNCHANGED vars
  BY <1>16 DEF vars, ValidatedScript
<1>. QED
  BY <1>1, <1>2, <1>3, <1>4, <1>5, <1>6, <1>7, <1>8, <1>9, <1>10, <1>11, <1>12, <1>13, <1>14, <1>15, <1>16
  DEF Next, Acquiring, Applying, Environment

(***************************************************************************)
(* Every journal entry belongs to a lease.                                 *)
(***************************************************************************)
LEMMA JournalOwners ==
  ASSUME TypeOK
  PROVE  \A n \in 1..Len(journal) : journal[n][1] \in Leases
<1>1. ASSUME NEW n \in 1..Len(journal)
      PROVE  journal[n] \in Leases \X (Nat \ {0})
  BY <1>1 DEF TypeOK, Entries
<1>. QED
  BY <1>1

(***************************************************************************)
(* Steps that make nothing durable: the lock is given up or granted to a   *)
(* lease without a script, and the transaction's entries can only shrink.  *)
(***************************************************************************)
LEMMA QuietStep ==
  ASSUME TypeOK, SerialInv, TypeOK',
         journal' = journal,
         \A l \in Leases : pending'[l] = pending[l] \/ pending'[l] = << >>,
         \A l \in Leases : script[l] # << >> => script'[l] = script[l],
         \A l \in Leases :
            lockOwner' = l => lockOwner = l \/ script[l] = << >>
  PROVE  SerialInv'
<1>1. \A n \in 1..Len(journal) : journal[n][1] \in Leases
  BY JournalOwners
<1>2. \A n \in 1..Len(journal) :
         script'[journal[n][1]] = script[journal[n][1]]
  BY <1>1 DEF SerialInv
<1>3. LeasedPositions' = LeasedPositions
  BY <1>2 DEF LeasedPositions, Leased
<1>4. \A l \in Leases : \A n \in 1..Len(pending'[l]) : pending'[l][n][1] = l
  <2>1. \A n \in 1..Len(<< >>) : FALSE
    OBVIOUS
  <2>2. ASSUME NEW l \in Leases, NEW n \in 1..Len(pending'[l])
        PROVE  pending'[l][n][1] = l
    <3>1. pending'[l] = pending[l]
      BY <2>1, <2>2
    <3>. QED
      BY <3>1, <2>2 DEF SerialInv
  <2>. QED
    BY <2>2
<1>5. \A n \in 1..Len(journal') : script'[journal'[n][1]] # << >>
  BY <1>2 DEF SerialInv
<1>6. ASSUME NEW i \in LeasedPositions, NEW j \in LeasedPositions,
             i < j, journal[i][1] # journal[j][1]
      PROVE  lockOwner' # journal[i][1]
  <2>1. i \in 1..Len(journal)
    BY DEF LeasedPositions
  <2>2. lockOwner # journal[i][1] /\ script[journal[i][1]] # << >>
    BY <1>6, <2>1 DEF SerialInv
  <2>. QED
    BY <1>1, <2>1, <2>2
<1>7. SerialWork'
  <2>1. SerialWork
    BY DEF SerialInv
  <2>. QED
    BY <1>3, <2>1 DEF SerialWork
<1>. QED
  BY <1>3, <1>4, <1>5, <1>6, <1>7 DEF SerialInv

(***************************************************************************)
(* Steps that append a batch of lease l's entries: under the lock, or none *)
(* of them leased.                                                         *)
(***************************************************************************)
LEMMA ExtendStep ==
  ASSUME TypeOK, SerialInv, NEW l \in Leases, NEW batch \in Seq(Entries),
         journal' = journal \o batch,
         \A n \in 1..Len(batch) : batch[n][1] = l,
         \A n \in 1..Len(batch) : lockOwner = l \/ ~Leased(batch[n]),
         script[l] # << >>,
         script' = script, lockOwner' = lockOwner,
         \A m \in Leases : \A n \in 1..Len(pending'[m]) : pending'[m][n][1] = m
  PROVE  SerialInv'
<1>1. /\ journal \in Seq(Entries)
      /\ Len(journal') = Len(journal) + Len(batch)
      /\ \A n \in 1..Len(journal) : journal'[n] = journal[n]
      /\ \A n \in (Len(journal) + 1)..Len(journal') :
            /\ n - Len(journal) \in 1..Len(batch)
            /\ journal'[n] = batch[n - Len(journal)]
  BY DEF TypeOK
<1>2. Len(journal) \in Nat /\ Len(batch) \in Nat
  BY <1>1
<1>3. \A n \in 1..Len(journal') :
        \/ n \in 1..Len(journal) /\ journal'[n] = journal[n]
        \/ /\ n \in (Len(journal) + 1)..Len(journal')
           /\ journal'[n][1] = l
           /\ lockOwner = l \/ ~Leased(journal'[n])
  BY <1>1, <1>2
<1>4. LeasedPositions' =
        {n \in 1..Len(journal') : Leased(journal'[n])}
  BY DEF LeasedPositions, Leased
<1>5. \A n \in LeasedPositions' :
        \/ n \in LeasedPositions /\ journal'[n] = journal[n]
        \/ /\ n \in (Len(journal) + 1)..Len(journal')
           /\ journal'[n][1] = l
           /\ lockOwner = l
  BY <1>3, <1>4 DEF LeasedPositions
<1>6. \A n \in LeasedPositions : n \in 1..Len(journal)
  BY DEF LeasedPositions
<1>7. \A n \in 1..Len(journal') : script'[journal'[n][1]] # << >>
  BY <1>3 DEF SerialInv
<1>8. ASSUME NEW i \in LeasedPositions', NEW j \in LeasedPositions',
             i < j, journal'[i][1] # journal'[j][1]
      PROVE  lockOwner' # journal'[i][1]
  <2>1. CASE j \in LeasedPositions
    <3>1. i \in LeasedPositions /\ journal'[i] = journal[i]
      BY <1>2, <1>5, <1>6, <1>8, <2>1
    <3>2. journal'[j] = journal[j]
      BY <1>1, <1>6, <2>1
    <3>. QED
      BY <1>8, <2>1, <3>1, <3>2 DEF SerialInv
  <2>2. CASE j \notin LeasedPositions
    BY <1>5, <1>8, <2>2
  <2>. QED
    BY <2>1, <2>2
<1>9. ASSUME NEW i \in LeasedPositions', NEW j \in LeasedPositions',
              NEW k \in LeasedPositions',
              i < j, j < k, journal'[i][1] = journal'[k][1]
       PROVE  journal'[j][1] = journal'[i][1]
  <2>1. CASE k \in LeasedPositions
    <3>1. /\ i \in LeasedPositions /\ journal'[i] = journal[i]
          /\ j \in LeasedPositions /\ journal'[j] = journal[j]
      BY <1>2, <1>5, <1>6, <1>9, <2>1
    <3>2. journal'[k] = journal[k]
      BY <1>1, <1>6, <2>1
    <3>. QED
      BY <1>9, <2>1, <3>1, <3>2 DEF SerialInv, SerialWork
  <2>2. CASE k \notin LeasedPositions
    <3>1. journal'[i][1] = l /\ lockOwner = l
      BY <1>5, <1>9, <2>2
    <3>. QED
      BY <1>8, <1>9, <3>1
  <2>. QED
    BY <2>1, <2>2
<1>10. SerialWork'
  BY <1>9 DEF SerialWork
<1>. QED
  BY <1>7, <1>8, <1>10 DEF SerialInv

(***************************************************************************)
(* The part of the invariant about durable work is inductive.              *)
(***************************************************************************)
LEMMA SerialInvStep ==
  ASSUME TypeOK, TypeOK', RunInv, SerialInv, [Next]_vars
  PROVE  SerialInv'
<1> USE LeaseAssumption DEF Go, Return, HangUp, backend, client
<1>1. ASSUME NEW l \in Leases, Connect(l)
     PROVE  SerialInv'
  BY <1>1, QuietStep DEF Connect, TypeOK
<1>2. ASSUME NEW l \in Leases, TryLock(l)
     PROVE  SerialInv'
  BY <1>2, QuietStep DEF TryLock, RunInv, TypeOK
<1>3. ASSUME NEW l \in Leases, VerifyAcquired(l)
     PROVE  SerialInv'
  BY <1>3, QuietStep DEF VerifyAcquired, TypeOK
<1>4. ASSUME NEW l \in Leases, NEW s \in Scripts, Apply(l, s)
     PROVE  SerialInv'
  BY <1>4, QuietStep DEF Apply, TypeOK
<1>5. ASSUME NEW l \in Leases, CheckBefore(l)
     PROVE  SerialInv'
  BY <1>5, QuietStep DEF CheckBefore, TypeOK
<1>6. ASSUME NEW l \in Leases, ExecuteBroken(l)
     PROVE  SerialInv'
  BY <1>6, QuietStep DEF ExecuteBroken, TypeOK
<1>7. ASSUME NEW l \in Leases, CheckAfter(l)
     PROVE  SerialInv'
  BY <1>7, QuietStep DEF CheckAfter, TypeOK
<1>8. ASSUME NEW l \in Leases, Rollback(l)
     PROVE  SerialInv'
  BY <1>8, QuietStep DEF Rollback, TypeOK
<1>9. ASSUME NEW l \in Leases, Release(l)
     PROVE  SerialInv'
  BY <1>9, QuietStep DEF Release, TypeOK
<1>10. ASSUME NEW l \in Leases, Close(l)
      PROVE  SerialInv'
  BY <1>10, QuietStep DEF Close, TypeOK
<1>11. ASSUME NEW l \in Leases, Abandon(l)
      PROVE  SerialInv'
  BY <1>11, QuietStep DEF Abandon, TypeOK
<1>12. ASSUME NEW l \in Leases, SelfUnlock(l)
      PROVE  SerialInv'
  BY <1>12, QuietStep DEF SelfUnlock, TypeOK
<1>13. ASSUME NEW l \in Leases, LinkBreaks(l)
      PROVE  SerialInv'
  BY <1>13, QuietStep DEF LinkBreaks, TypeOK
<1>14. ASSUME NEW l \in Leases, SessionEnds(l)
      PROVE  SerialInv'
  BY <1>14, QuietStep DEF SessionEnds, TypeOK
<1>15. ASSUME NEW l \in Leases, Execute(l)
       PROVE  SerialInv'
  <2>1. /\ running[l] /\ script' = script /\ lockOwner' = lockOwner
        /\ Completes(l) \/ Fails(l)
    BY <1>15 DEF Execute
  <2>2. /\ next[l] <= Len(script[l])
        /\ Kind(l) # "unlock" => lockOwner = l
        /\ script[l] # << >> /\ ValidatedScript(script[l])
    <3>1. Len(<< >>) = 0 /\ next[l] \in Nat \ {0} /\ next[l] <= Len(script[l])
      BY <2>1 DEF RunInv, TypeOK
    <3>. QED
      BY <2>1, <3>1 DEF RunInv
  <2>3. CASE Fails(l) \/ (Completes(l) /\ Kind(l) = "begin")
    BY <2>1, <2>3, QuietStep DEF Fails, Completes, Durable
  <2>4. CASE Completes(l) /\ Kind(l) = "commit"
    <3>1. journal' = journal \o pending[l] /\ pending' = [pending EXCEPT ![l] = << >>]
      BY <2>4 DEF Completes, Durable
    <3>2. pending[l] \in Seq(Entries)
      BY DEF TypeOK
    <3>3. \A n \in 1..Len(pending[l]) : pending[l][n][1] = l
      BY DEF SerialInv
    <3>4. lockOwner = l
      BY <2>2, <2>4
    <3>5. \A m \in Leases : \A n \in 1..Len(pending'[m]) : pending'[m][n][1] = m
      <4>1. \A n \in 1..Len(<< >>) : FALSE
        OBVIOUS
      <4>2. pending'[l] = << >> /\ \A m \in Leases \ {l} : pending'[m] = pending[m]
        BY <3>1 DEF TypeOK
      <4>. QED
        BY <4>1, <4>2 DEF SerialInv
    <3>. QED
      BY <2>1, <2>2, <3>1, <3>2, <3>3, <3>4, <3>5, ExtendStep
  <2>5. CASE Completes(l) /\ Kind(l) \in Durable
    <3> DEFINE e == <<l, next[l]>>
    <3>1. e \in Entries
      BY DEF TypeOK, Entries
    <3>2. CASE txn[l] = "open"
      <4>1. journal' = journal /\ pending' = [pending EXCEPT ![l] = Append(@, e)]
        BY <2>5, <3>2 DEF Completes, Durable
      <4>2. pending[l] \in Seq(Entries)
        BY DEF TypeOK
      <4>3. \A n \in 1..Len(Append(pending[l], e)) : Append(pending[l], e)[n][1] = l
        BY <3>1, <4>2 DEF SerialInv
      <4>4. \A m \in Leases : \A n \in 1..Len(pending'[m]) : pending'[m][n][1] = m
        BY <4>1, <4>3 DEF SerialInv, TypeOK
      <4>5. journal' = journal \o << >>
        BY <4>1 DEF TypeOK
      <4>6. << >> \in Seq(Entries) /\ \A n \in 1..Len(<< >>) : FALSE
        OBVIOUS
      <4>. QED
        BY <2>1, <2>2, <4>4, <4>5, <4>6, ExtendStep
    <3>3. CASE txn[l] # "open"
      <4>1. journal' = Append(journal, e) /\ pending' = pending
        BY <2>5, <3>3 DEF Completes, Durable
      <4>2. /\ <<e>> \in Seq(Entries)
            /\ Len(<<e>>) = 1 /\ <<e>>[1] = e /\ e[1] = l /\ e[2] = next[l]
        BY <3>1
      <4>3. journal' = journal \o <<e>>
        BY <3>1, <4>1, AppendIsConcat DEF TypeOK
      <4>4. \A n \in 1..Len(<<e>>) : <<e>>[n] = e /\ <<e>>[n][1] = l
        BY <4>2
      <4>5. lockOwner = l \/ ~Leased(e)
        BY <2>2, <4>2 DEF Leased, Kind, Unlocking
      <4>6. \A m \in Leases : \A n \in 1..Len(pending'[m]) : pending'[m][n][1] = m
        BY <4>1 DEF SerialInv
      <4> DEFINE b == <<e>>
      <4>7. /\ b \in Seq(Entries) /\ journal' = journal \o b
            /\ \A n \in 1..Len(b) : b[n] = e /\ b[n][1] = l
        BY <4>2, <4>3, <4>4
      <4> HIDE DEF b, e
      <4>8. \A n \in 1..Len(b) : lockOwner = l \/ ~Leased(b[n])
        BY <4>5, <4>7
      <4>. QED
        BY <2>1, <2>2, <4>6, <4>7, <4>8, ExtendStep
    <3>. QED
      BY <3>2, <3>3
  <2>. QED
    BY <2>1, <2>3, <2>4, <2>5 DEF Completes
<1>16. CASE UNCHANGED vars
  BY <1>16, QuietStep DEF vars
<1>. QED
  BY <1>1, <1>2, <1>3, <1>4, <1>5, <1>6, <1>7, <1>8,
     <1>9, <1>10, <1>11, <1>12, <1>13, <1>14, <1>15, <1>16
  DEF Next, Acquiring, Applying, Environment

(***************************************************************************)
(* The inductive invariant of the lease.                                   *)
(***************************************************************************)
THEOREM LeaseInvariant == Spec => []LeaseInv
<1> DEFINE Inv == RunInv /\ SerialInv
<1>1. Init => Inv
  BY DEF Init, RunInv, SerialInv, SerialWork, LeasedPositions
<1>2. TypeOK /\ TypeOK' /\ Inv /\ [Next]_vars => Inv'
  BY RunInvStep, SerialInvStep
<1>3. TypeOK /\ Inv => LeaseInv
  BY DEF RunInv, LeasedExecution, LeaseInv
<1> HIDE DEF Inv
<1>4. QED
  BY <1>1, <1>2, <1>3, TypeCorrect, PTL DEF Spec

(***************************************************************************)
(* No statement runs in a session that has lost the lock, the rest of a    *)
(* self-releasing one excepted.                                            *)
(***************************************************************************)
THEOREM ExecutesUnderLease == Spec => []LeasedExecution
<1>1. LeaseInv => LeasedExecution
  BY DEF LeaseInv
<1>2. QED
  BY <1>1, LeaseInvariant, PTL

(***************************************************************************)
(* The durable work of any number of leases never interleaves.             *)
(***************************************************************************)
THEOREM WorkIsSerial == Spec => []SerialWork
<1>1. LeaseInv => SerialWork
  BY DEF LeaseInv, SerialInv
<1>2. QED
  BY <1>1, LeaseInvariant, PTL

(***************************************************************************)
(* A release that reports the lock as held proves that nobody else's work  *)
(* became durable since the lease's first: the lock is never regained, so  *)
(* holding it at the end is having held it all along.                      *)
(***************************************************************************)
THEOREM TenureProved == Spec => ReleaseProvesTenure
<1> DEFINE Tenure(l) ==
             phase[l] = "held" /\ phase'[l] = "closing" =>
               \A i, j \in LeasedPositions :
                  i < j /\ journal[i][1] = l => journal[j][1] = l
<1>1. ASSUME TypeOK, LeaseInv, Next, NEW l \in Leases,
             phase[l] = "held", phase'[l] = "closing"
      PROVE  lockOwner = l
  <2> USE <1>1 DEF TypeOK, Go, Return
  <2>2. ASSUME NEW k \in Leases, Connect(k)
        PROVE  FALSE
    BY <2>2 DEF Connect, client
  <2>3. ASSUME NEW k \in Leases, TryLock(k)
        PROVE  FALSE
    BY <2>3 DEF TryLock, client
  <2>4. ASSUME NEW k \in Leases, VerifyAcquired(k)
        PROVE  FALSE
    BY <2>4 DEF VerifyAcquired, client
  <2>5. ASSUME NEW k \in Leases, CheckBefore(k)
        PROVE  FALSE
    BY <2>5 DEF CheckBefore, client
  <2>6. ASSUME NEW k \in Leases, ExecuteBroken(k)
        PROVE  FALSE
    BY <2>6 DEF ExecuteBroken, client
  <2>7. ASSUME NEW k \in Leases, CheckAfter(k)
        PROVE  FALSE
    BY <2>7 DEF CheckAfter, client
  <2>8. ASSUME NEW k \in Leases, Rollback(k)
        PROVE  FALSE
    BY <2>8 DEF Rollback, client
  <2>9. ASSUME NEW k \in Leases, Close(k)
        PROVE  FALSE
    BY <2>9 DEF Close, client
  <2>10. ASSUME NEW k \in Leases, Abandon(k)
        PROVE  FALSE
    BY <2>10 DEF Abandon, client
  <2>11. ASSUME NEW k \in Leases, SelfUnlock(k)
        PROVE  FALSE
    BY <2>11 DEF SelfUnlock, client
  <2>12. ASSUME NEW k \in Leases, LinkBreaks(k)
        PROVE  FALSE
    BY <2>12 DEF LinkBreaks, client
  <2>13. ASSUME NEW k \in Leases, SessionEnds(k)
        PROVE  FALSE
    BY <2>13 DEF SessionEnds, client
  <2>14. ASSUME NEW k \in Leases, Execute(k)
        PROVE  FALSE
    BY <2>14 DEF Execute, client
  <2>15. ASSUME NEW k \in Leases, NEW s \in Scripts, Apply(k, s)
        PROVE  FALSE
    BY <2>15 DEF Apply
  <2>16. ASSUME NEW k \in Leases, Release(k)
        PROVE  lockOwner = l
    <3>1. \A m \in Leases \ {k} : phase'[m] = phase[m]
      BY <2>16 DEF Release
    <3>2. k = l
      BY <3>1
    <3>3. CASE phase' = [phase EXCEPT ![l] = "done"]
      BY <3>3
    <3>4. CASE phase' = [phase EXCEPT ![l] =
                           IF lockOwner = l THEN "closing" ELSE "lost"]
      <4>1. phase'[l] = IF lockOwner = l THEN "closing" ELSE "lost"
        BY <3>4
      <4>. QED
        BY <4>1
    <3>. QED
      BY <2>16, <3>2, <3>3, <3>4 DEF Release
  <2>. QED
    BY <2>2, <2>3, <2>4, <2>5, <2>6, <2>7, <2>8,
       <2>9, <2>10, <2>11, <2>12, <2>13, <2>14,
       <2>15, <2>16
    DEF Next, Acquiring, Applying, Environment
<1>2. TypeOK /\ LeaseInv /\ [Next]_vars => [\A l \in Leases : Tenure(l)]_vars
  <2> SUFFICES ASSUME TypeOK, LeaseInv, Next, NEW l \in Leases,
                      phase[l] = "held", phase'[l] = "closing",
                      NEW i \in LeasedPositions, NEW j \in LeasedPositions,
                      i < j, journal[i][1] = l
               PROVE  journal[j][1] = l
    OBVIOUS
  <2>1. lockOwner = l
    BY <1>1
  <2>. QED
    BY <2>1 DEF LeaseInv, SerialInv
<1>3. QED
  BY <1>2, TypeCorrect, LeaseInvariant, PTL DEF Spec, ReleaseProvesTenure

-----------------------------------------------------------------------------
(***************************************************************************)
(* What a failed migration leaves behind.  The invariant follows a script  *)
(* by the statements that have completed: as long as another one may still *)
(* complete, the durable ones among them are in the journal, or in the     *)
(* transaction the session is in, and it is in one only where the script   *)
(* is.  When the script has come to its end it is in none, so all of them  *)
(* are in the journal; and where it fails, the session runs nothing more.  *)
(***************************************************************************)

(* A statement is running, or may still be submitted, and the session lives. *)
Advancing(l) ==
  conn[l] # "gone" /\ (running[l] \/ phase[l] \in {"before", "after"})

(* The number of statements that have completed. *)
Passed(l) == IF phase[l] = "after" THEN next[l] ELSE next[l] - 1

InPending(l, i) == \E n \in 1..Len(pending[l]) : pending[l][n] = <<l, i>>

Recorded(l, i) == IsDurable(l, i) \/ InPending(l, i)

ProgressInv(l) ==
  /\ running[l] => phase[l] \notin {"before", "after"}
  /\ script[l] = << >> => txn[l] = "idle"
  /\ txn[l] = "idle" => pending[l] = << >>
  /\ \A i \in Nat : Recorded(l, i) => i <= next[l]
  /\ Advancing(l) =>
       /\ txn[l] # "failed"
       /\ txn[l] = "open" => InBlock(script[l], Passed(l) + 1)
       /\ \A i \in 1..Passed(l) : script[l][i] \in Durable => Recorded(l, i)

(* No statement that released the lease is ever passed by. *)
KeptInv(l) ==
  /\ \A i \in 1..(next[l] - 1) : script[l][i] \notin Unlocking
  /\ phase[l] = "after" /\ Kind(l) \in Unlocking => lockOwner # l

PrefixOf(l) ==
  \A i, j \in 1..Len(script[l]) :
     i < j /\ script[l][i] \in Durable /\ IsDurable(l, j) => IsDurable(l, i)

CountOf(l) ==
  executed[l] > 0 =>
    /\ script[l] # << >> /\ phase[l] \notin {"before", "executing", "after"}
    /\ executed[l] = Len(script[l])
    /\ \A i \in 1..Len(script[l]) : script[l][i] \in Durable => IsDurable(l, i)
    /\ \A i \in 1..Len(script[l]) : script[l][i] \notin Unlocking

OutcomeInv(l) == ProgressInv(l) /\ KeptInv(l) /\ PrefixOf(l) /\ CountOf(l)

LEMMA ScriptTyped ==
  ASSUME TypeOK, NEW l \in Leases
  PROVE  /\ script[l] \in Seq(Kinds) /\ Len(script[l]) \in Nat
         /\ script[l] = << >> => Len(script[l]) = 0
<1>1. << >> \in Seq(Kinds) /\ Len(<< >>) = 0
  OBVIOUS
<1>2. script[l] \in Seq(Kinds)
  BY <1>1, ScriptAssumption DEF TypeOK
<1>. QED
  BY <1>1, <1>2

(* Nothing runs for a lease without a script. *)
LEMMA NoScriptNoRun ==
  ASSUME TypeOK, RunInv, NEW l \in Leases, script[l] = << >>
  PROVE  ~running[l] /\ next[l] = 1 /\ phase[l] \notin {"before", "executing", "after"}
<1>1. Len(script[l]) = 0 /\ next[l] \in Nat \ {0}
  BY ScriptTyped DEF TypeOK
<1>. QED
  BY <1>1 DEF RunInv

(* The journal after a batch of entries is what it was and the batch. *)
LEMMA DurableGrows ==
  ASSUME TypeOK, NEW batch \in Seq(Entries), journal' = journal \o batch
  PROVE  \A l, i : IsDurable(l, i)' <=>
                     \/ IsDurable(l, i)
                     \/ \E n \in 1..Len(batch) : batch[n] = <<l, i>>
<1> SUFFICES ASSUME NEW l, NEW i
             PROVE  IsDurable(l, i)' <=>
                      \/ IsDurable(l, i)
                      \/ \E n \in 1..Len(batch) : batch[n] = <<l, i>>
  OBVIOUS
<1> DEFINE e == <<l, i>>
<1>1. /\ journal \in Seq(Entries)
      /\ Len(journal) \in Nat /\ Len(batch) \in Nat
      /\ Len(journal') = Len(journal) + Len(batch)
      /\ \A n \in 1..Len(journal) : journal'[n] = journal[n]
      /\ \A n \in (Len(journal) + 1)..Len(journal') :
            /\ n - Len(journal) \in 1..Len(batch)
            /\ journal'[n] = batch[n - Len(journal)]
      /\ \A n \in 1..Len(batch) : journal'[Len(journal) + n] = batch[n]
  BY DEF TypeOK
<1> HIDE DEF e
<1>2. ASSUME \E n \in 1..Len(journal') : journal'[n] = e
      PROVE  \/ \E n \in 1..Len(journal) : journal[n] = e
             \/ \E n \in 1..Len(batch) : batch[n] = e
  <2> PICK n \in 1..Len(journal') : journal'[n] = e
    BY <1>2
  <2>1. n \in 1..Len(journal) \/ n \in (Len(journal) + 1)..Len(journal')
    BY <1>1
  <2>. QED
    BY <1>1, <2>1
<1>3. ASSUME NEW n \in 1..Len(journal), journal[n] = e
      PROVE  \E m \in 1..Len(journal') : journal'[m] = e
  BY <1>1, <1>3
<1>4. ASSUME NEW n \in 1..Len(batch), batch[n] = e
      PROVE  \E m \in 1..Len(journal') : journal'[m] = e
  <2>1. Len(journal) + n \in 1..Len(journal') /\ journal'[Len(journal) + n] = e
    BY <1>1, <1>4
  <2>. QED
    BY <2>1
<1>. QED
  BY <1>2, <1>3, <1>4 DEF IsDurable, e

(***************************************************************************)
(* Steps in which no statement of l completes or is passed by.             *)
(***************************************************************************)
LEMMA StillStep ==
  ASSUME TypeOK, NEW l \in Leases, OutcomeInv(l),
         \A i : IsDurable(l, i)' <=> IsDurable(l, i),
         script'[l] = script[l], next'[l] = next[l], executed'[l] = executed[l],
         \/ ~Advancing(l)'
         \/ /\ Advancing(l) /\ txn'[l] = txn[l] /\ pending'[l] = pending[l]
            /\ phase'[l] = "after" <=> phase[l] = "after",
         running'[l] => phase'[l] \notin {"before", "after"},
         pending'[l] = pending[l] \/ pending'[l] = << >>,
         txn'[l] = "idle" => pending'[l] = << >>,
         script[l] = << >> => txn'[l] = "idle",
         phase'[l] = "after" => phase[l] = "after",
         phase'[l] \in {"before", "executing"} =>
           phase[l] \in {"before", "executing"},
         lockOwner' = l => lockOwner = l \/ phase'[l] # "after"
  PROVE  OutcomeInv(l)'
<1>1. \A i : Recorded(l, i)' => Recorded(l, i)
  <2>1. \A n \in 1..Len(<< >>) : FALSE
    OBVIOUS
  <2>2. \A i : InPending(l, i)' => InPending(l, i)
    BY <2>1 DEF InPending
  <2>. QED
    BY <2>2 DEF Recorded
<1>2. pending'[l] = pending[l] => \A i : Recorded(l, i)' <=> Recorded(l, i)
  BY DEF Recorded, InPending
<1>3. (phase'[l] = "after" <=> phase[l] = "after") => Passed(l)' = Passed(l)
  BY DEF Passed
<1>4. Advancing(l)' =>
       /\ txn'[l] # "failed"
       /\ txn'[l] = "open" => InBlock(script'[l], Passed(l)' + 1)
       /\ \A i \in 1..(Passed(l)') : script'[l][i] \in Durable => Recorded(l, i)'
  BY <1>2, <1>3 DEF OutcomeInv, ProgressInv, InBlock
<1>5. ProgressInv(l)'
  BY <1>1, <1>4 DEF OutcomeInv, ProgressInv
<1>6. KeptInv(l)'
  BY DEF OutcomeInv, KeptInv, Kind
<1>7. PrefixOf(l)'
  BY DEF OutcomeInv, PrefixOf
<1>8. CountOf(l)'
  BY DEF OutcomeInv, CountOf
<1>. QED
  BY <1>5, <1>6, <1>7, <1>8 DEF OutcomeInv

(***************************************************************************)
(* The session finishes the statement at hand, one way or the other.       *)
(***************************************************************************)
LEMMA ExecuteStep ==
  ASSUME TypeOK, RunInv, SerialInv, NEW l \in Leases, OutcomeInv(l), Execute(l)
  PROVE  /\ OutcomeInv(l)'
         /\ \A k \in Leases \ {l} : \A i : IsDurable(k, i)' <=> IsDurable(k, i)
<1> USE DEF client, backend
<1>1. /\ running[l] /\ script[l] # << >> /\ next[l] \in Nat \ {0}
      /\ next[l] <= Len(script[l]) /\ Len(script[l]) \in Nat
      /\ phase[l] \notin {"before", "after"}
      /\ conn[l] \in {"up", "cut"} /\ (conn[l] = "up" => phase[l] = "executing")
  <2>1. running[l]
    BY DEF Execute
  <2>2. script[l] # << >>
    BY <2>1, NoScriptNoRun
  <2>. QED
    BY <2>1, <2>2, ScriptTyped DEF RunInv, OutcomeInv, ProgressInv, TypeOK
<1>2. UNCHANGED <<script, next, executed, conn, lockOwner>> /\ ~running'[l]
  BY DEF Execute, TypeOK
<1>3. Advancing(l) /\ Passed(l) = next[l] - 1
  BY <1>1 DEF Advancing, Passed
<1>4. CASE /\ Fails(l)
           /\ IF conn[l] = "up" THEN Go(l, "rollback") ELSE UNCHANGED phase
  <2>1. /\ journal' = journal /\ pending' = pending
        /\ txn'[l] = "idle" <=> txn[l] = "idle"
    BY <1>4 DEF Fails, TypeOK
  <2>2. \A k, i : IsDurable(k, i)' <=> IsDurable(k, i)
    BY <2>1 DEF IsDurable
  <2>3. phase'[l] = phase[l] \/ phase'[l] = "rollback"
    BY <1>4 DEF Go, TypeOK
  <2>4. ~Advancing(l)'
    BY <1>1, <1>2, <2>3 DEF Advancing
  <2>5. OutcomeInv(l)'
    BY <1>1, <1>2, <2>1, <2>2, <2>3, <2>4, StillStep DEF OutcomeInv, ProgressInv
  <2>. QED
    BY <2>2, <2>5
<1>5. CASE /\ Completes(l)
           /\ IF conn[l] = "up" THEN Go(l, "after") ELSE UNCHANGED phase
  <2>1. \/ conn[l] = "up" /\ phase'[l] = "after"
        \/ phase'[l] = phase[l] /\ ~Advancing(l)'
    BY <1>1, <1>2, <1>5 DEF Go, TypeOK, Advancing
  <2> DEFINE e == <<l, next[l]>>
  <2>2. e \in Entries
    BY <1>1 DEF Entries
  <2>3. PICK batch \in Seq(Entries) :
          /\ journal' = journal \o batch
          /\ \/ /\ batch = << >> /\ pending'[l] = pending[l] /\ txn'[l] = "open"
                /\ Kind(l) = "begin"
             \/ /\ batch = pending[l] /\ pending'[l] = << >> /\ txn'[l] = "idle"
                /\ Kind(l) = "commit"
             \/ /\ batch = << >> /\ pending'[l] = Append(pending[l], e)
                /\ txn[l] = "open" /\ txn'[l] = txn[l]
                /\ Kind(l) \in Durable /\ (Kind(l) \in Unlocking => lockOwner # l)
             \/ /\ batch = <<e>> /\ pending'[l] = pending[l]
                /\ txn[l] # "open" /\ txn'[l] = txn[l]
                /\ Kind(l) \in Durable /\ (Kind(l) \in Unlocking => lockOwner # l)
    <3>1. journal \in Seq(Entries) /\ pending[l] \in Seq(Entries)
      BY DEF TypeOK
    <3>2. << >> \in Seq(Entries) /\ journal \o << >> = journal
      BY <3>1
    <3>3. CASE /\ Kind(l) = "begin" /\ txn' = [txn EXCEPT ![l] = "open"]
               /\ UNCHANGED <<pending, journal>>
      BY <3>2, <3>3 DEF TypeOK
    <3>4. CASE /\ Kind(l) = "commit" /\ txn' = [txn EXCEPT ![l] = "idle"]
               /\ pending' = [pending EXCEPT ![l] = << >>]
               /\ journal' = journal \o pending[l]
      BY <3>1, <3>4 DEF TypeOK
    <3>5. ASSUME Kind(l) \in Durable, Kind(l) \in Unlocking => lockOwner # l,
                 IF txn[l] = "open"
                   THEN /\ pending' = [pending EXCEPT ![l] = Append(@, e)]
                        /\ UNCHANGED journal
                   ELSE journal' = Append(journal, e) /\ UNCHANGED pending,
                 txn' = txn
          PROVE  \/ /\ journal' = journal \o << >>
                    /\ pending'[l] = Append(pending[l], e) /\ txn[l] = "open"
                 \/ /\ journal' = journal \o <<e>>
                    /\ pending'[l] = pending[l] /\ txn[l] # "open"
      <4> HIDE DEF e
      <4>1. Append(journal, e) = journal \o <<e>>
        BY <2>2, <3>1, AppendIsConcat
      <4>. QED
        BY <3>2, <3>5, <4>1 DEF TypeOK
    <3>6. <<e>> \in Seq(Entries)
      BY <2>2
    <3>. QED
      BY <1>5, <3>2, <3>3, <3>4, <3>5, <3>6 DEF Completes
  <2>4. \A i : e = <<l, i>> <=> i = next[l]
    OBVIOUS
  <2> HIDE DEF e
  <2>5. \A k, i : IsDurable(k, i)' <=>
                    \/ IsDurable(k, i)
                    \/ \E n \in 1..Len(batch) : batch[n] = <<k, i>>
    BY <2>3, DurableGrows
  <2>6. \A n \in 1..Len(batch) : batch[n][1] = l
    <3>1. CASE batch = pending[l]
      BY <3>1 DEF SerialInv
    <3>2. CASE batch = <<e>>
      BY <3>2 DEF e
    <3>3. CASE batch = << >>
      BY <3>3
    <3>. QED
      BY <2>3, <3>1, <3>2, <3>3
  <2>7. \A k \in Leases \ {l} : \A i : IsDurable(k, i)' <=> IsDurable(k, i)
    <3>1. ASSUME NEW k \in Leases \ {l}, NEW i, NEW n \in 1..Len(batch),
                 batch[n] = <<k, i>>
          PROVE  FALSE
      <4>1. <<k, i>>[1] = k
        OBVIOUS
      <4>2. batch[n][1] = k
        BY <3>1, <4>1
      <4>. QED
        BY <2>6, <4>2
    <3>. QED
      BY <2>5, <3>1
  <2>8. /\ \A i : Recorded(l, i) => Recorded(l, i)'
        /\ \A i : Recorded(l, i)' => Recorded(l, i) \/ i = next[l]
        /\ \A i : i = next[l] /\ Kind(l) \in Durable => Recorded(l, i)'
    <3>1. pending[l] \in Seq(Entries)
      BY DEF TypeOK
    <3>2. \A n \in 1..Len(<< >>) : FALSE
      OBVIOUS
    <3>3. CASE batch = << >> /\ pending'[l] = pending[l] /\ Kind(l) = "begin"
      BY <2>5, <3>2, <3>3 DEF Recorded, InPending, Durable
    <3>4. CASE batch = pending[l] /\ pending'[l] = << >> /\ Kind(l) = "commit"
      BY <2>5, <3>2, <3>4 DEF Recorded, InPending, Durable
    <3>5. CASE batch = << >> /\ pending'[l] = Append(pending[l], e)
      <4>1. /\ Len(pending[l]) \in Nat
            /\ Len(pending'[l]) = Len(pending[l]) + 1
            /\ pending'[l][Len(pending[l]) + 1] = e
            /\ \A n \in 1..Len(pending[l]) : pending'[l][n] = pending[l][n]
        BY <2>2, <3>1, <3>5
      <4>2. \A n \in 1..Len(pending'[l]) :
              n \in 1..Len(pending[l]) \/ n = Len(pending[l]) + 1
        BY <4>1
      <4>3. \A n \in 1..Len(pending[l]) : n \in 1..Len(pending'[l])
        BY <4>1
      <4>4. Len(pending[l]) + 1 \in 1..Len(pending'[l])
        BY <4>1
      <4>5. \A i : InPending(l, i)' <=> InPending(l, i) \/ e = <<l, i>>
        BY <4>1, <4>2, <4>3, <4>4 DEF InPending
      <4>6. \A i : IsDurable(l, i)' <=> IsDurable(l, i)
        BY <2>5, <3>2, <3>5
      <4>. QED
        BY <2>4, <4>5, <4>6 DEF Recorded
    <3>6. CASE batch = <<e>> /\ pending'[l] = pending[l]
      <4>1. \A n : n \in 1..Len(batch) <=> n = 1
        BY <3>6
      <4>4. batch[1] = e
        BY <3>6
      <4>2. \A i : IsDurable(l, i)' <=> IsDurable(l, i) \/ e = <<l, i>>
        BY <2>5, <4>1, <4>4
      <4>3. \A i : InPending(l, i)' <=> InPending(l, i)
        BY <3>6 DEF InPending
      <4>. QED
        BY <2>4, <4>2, <4>3 DEF Recorded
    <3>. QED
      BY <2>3, <3>3, <3>4, <3>5, <3>6
  <2>9. ASSUME NEW j, IsDurable(l, j)', ~IsDurable(l, j)
        PROVE  pending'[l] = << >>
    <3>1. batch # << >>
      <4>1. \A n \in 1..Len(<< >>) : FALSE
        OBVIOUS
      <4>. QED
        BY <2>5, <2>9, <4>1
    <3>2. txn[l] # "open" => pending[l] = << >>
      BY <1>3 DEF OutcomeInv, ProgressInv, TypeOK
    <3>. QED
      BY <2>3, <3>1, <3>2
  <2>10. ASSUME pending'[l] = << >>, NEW i, Recorded(l, i)'
         PROVE  IsDurable(l, i)'
    <3>1. \A n \in 1..Len(<< >>) : FALSE
      OBVIOUS
    <3>. QED
      BY <2>10, <3>1 DEF Recorded, InPending
  <2>11. PrefixOf(l)'
    <3> SUFFICES ASSUME NEW i \in 1..Len(script[l]), NEW j \in 1..Len(script[l]),
                        i < j, script[l][i] \in Durable, IsDurable(l, j)'
                 PROVE  IsDurable(l, i)'
      BY <1>2 DEF PrefixOf
    <3>1. CASE IsDurable(l, j)
      BY <2>5, <3>1 DEF OutcomeInv, PrefixOf
    <3>2. CASE ~IsDurable(l, j)
      <4>1. j <= next[l]
        BY <1>1, <2>8 DEF OutcomeInv, ProgressInv, Recorded
      <4>2. i \in 1..Passed(l)
        BY <1>1, <1>3, <4>1
      <4>3. Recorded(l, i)
        BY <1>3, <4>2 DEF OutcomeInv, ProgressInv
      <4>. QED
        BY <2>8, <2>9, <2>10, <3>2, <4>3
    <3>. QED
      BY <3>1, <3>2
  <2>12. ProgressInv(l)'
    <3>1. txn'[l] = "idle" => pending'[l] = << >>
      BY <2>3 DEF OutcomeInv, ProgressInv
    <3>2. \A i \in Nat : Recorded(l, i)' => i <= next[l]
      BY <1>1, <2>8 DEF OutcomeInv, ProgressInv
    <3>3. ASSUME Advancing(l)'
          PROVE  /\ txn'[l] # "failed"
                 /\ txn'[l] = "open" => InBlock(script'[l], Passed(l)' + 1)
                 /\ \A i \in 1..(Passed(l)') :
                      script'[l][i] \in Durable => Recorded(l, i)'
      <4>1. Passed(l)' = next[l]
        BY <1>2, <2>1, <3>3 DEF Passed
      <4>2. txn'[l] # "failed"
        BY <1>3, <2>3 DEF OutcomeInv, ProgressInv
      <4>3. ASSUME txn'[l] = "open"
            PROVE  InBlock(script[l], next[l] + 1)
        <5>1. CASE Kind(l) = "begin"
          <6>1. /\ next[l] \in 1..((next[l] + 1) - 1)
                /\ script[l][next[l]] = "begin"
                /\ \A m \in (next[l] + 1)..((next[l] + 1) - 1) : FALSE
            BY <1>1, <5>1 DEF Kind
          <6>. QED
            BY <6>1 DEF InBlock
        <5>2. CASE Kind(l) \in Durable /\ txn[l] = "open"
          <6>1. InBlock(script[l], next[l])
            BY <1>1, <1>3, <5>2 DEF OutcomeInv, ProgressInv
          <6>2. PICK b \in 1..(next[l] - 1) :
                  /\ script[l][b] = "begin"
                  /\ \A m \in (b + 1)..(next[l] - 1) : script[l][m] # "commit"
            BY <6>1 DEF InBlock
          <6>3. script[l][next[l]] # "commit"
            BY <5>2 DEF Kind, Durable
          <6>4. /\ b \in 1..((next[l] + 1) - 1)
                /\ \A m \in (b + 1)..((next[l] + 1) - 1) :
                     m \in (b + 1)..(next[l] - 1) \/ m = next[l]
            BY <1>1, <6>2
          <6>. QED
            BY <6>2, <6>3, <6>4 DEF InBlock
        <5>. QED
          BY <2>3, <4>3, <5>1, <5>2
      <4>4. ASSUME NEW i \in 1..next[l], script[l][i] \in Durable
            PROVE  Recorded(l, i)'
        <5>1. CASE i = next[l]
          BY <2>8, <4>4, <5>1 DEF Kind
        <5>2. CASE i \in 1..Passed(l)
          BY <1>3, <2>8, <4>4, <5>2 DEF OutcomeInv, ProgressInv
        <5>. QED
          BY <1>1, <1>3, <5>1, <5>2
      <4>. QED
        BY <1>2, <4>1, <4>2, <4>3, <4>4
    <3>. QED
      BY <1>1, <1>2, <3>1, <3>2, <3>3 DEF ProgressInv
  <2>13. KeptInv(l)'
    BY <1>1, <1>2, <2>3 DEF OutcomeInv, KeptInv, Kind, Unlocking
  <2>14. CountOf(l)'
    BY <1>1, <1>2, <2>1, <2>5 DEF OutcomeInv, CountOf
  <2>. QED
    BY <2>7, <2>11, <2>12, <2>13, <2>14 DEF OutcomeInv
<1>. QED
  BY <1>4, <1>5 DEF Execute

(***************************************************************************)
(* The check after a statement: on to the next one, or done.               *)
(***************************************************************************)
LEMMA CheckAfterStep ==
  ASSUME TypeOK, RunInv, NEW l \in Leases, OutcomeInv(l), CheckAfter(l)
  PROVE  OutcomeInv(l)'
<1> USE DEF Go, Return, client, backend
<1>1. /\ phase[l] = "after" /\ ~running[l] /\ script[l] # << >>
      /\ next[l] \in Nat \ {0} /\ Len(script[l]) \in Nat
      /\ next[l] <= Len(script[l]) /\ Passed(l) = next[l]
      /\ executed[l] = 0
  <2>1. phase[l] = "after"
    BY DEF CheckAfter
  <2>2. script[l] # << >>
    BY <2>1, NoScriptNoRun
  <2>3. executed[l] = 0
    <3>1. executed[l] \in Nat /\ ~(executed[l] > 0)
      BY <2>1 DEF TypeOK, OutcomeInv, CountOf
    <3>. QED
      BY <3>1
  <2>. QED
    BY <2>1, <2>2, <2>3, ScriptTyped
    DEF RunInv, OutcomeInv, ProgressInv, TypeOK, Passed
<1>2. /\ UNCHANGED <<script, conn, running, pending, lockOwner, journal>>
      /\ ~running'[l]
  BY <1>1 DEF CheckAfter
<1>3. \A i : IsDurable(l, i)' <=> IsDurable(l, i)
  BY <1>2 DEF IsDurable
<1>4. \A i : Recorded(l, i)' <=> Recorded(l, i)
  BY <1>2, <1>3 DEF Recorded, InPending
<1>5. PrefixOf(l)'
  BY <1>2, <1>3 DEF OutcomeInv, PrefixOf
<1>6. CASE LeaseUnverified(l) /\ Go(l, "rollback") /\ UNCHANGED <<next, executed>>
  <2>1. phase'[l] = "rollback" /\ (txn'[l] = "idle" <=> txn[l] = "idle")
    BY <1>6 DEF LeaseUnverified, TypeOK
  <2>2. ~Advancing(l)'
    BY <1>2, <2>1 DEF Advancing
  <2>. QED
    BY <1>2, <1>3, <1>6, <2>1, <2>2, StillStep DEF OutcomeInv, ProgressInv
<1>7. ASSUME LeaseVerified(l), UNCHANGED txn
      PROVE  /\ Advancing(l) /\ txn'[l] # "failed"
             /\ \A i \in 1..next[l] : script[l][i] \notin Unlocking
  <2>1. Advancing(l) /\ txn'[l] # "failed" /\ lockOwner = l
    BY <1>1, <1>7 DEF LeaseVerified, Advancing
  <2>2. \A i \in 1..next[l] : i \in 1..(next[l] - 1) \/ i = next[l]
    BY <1>1
  <2>. QED
    BY <1>1, <2>1, <2>2 DEF OutcomeInv, KeptInv, Kind
<1>8. CASE /\ LeaseVerified(l) /\ UNCHANGED txn
           /\ next[l] < Len(script[l])
           /\ next' = [next EXCEPT ![l] = @ + 1]
           /\ Go(l, "before") /\ UNCHANGED <<outcome, executed>>
  <2>1. /\ next'[l] = next[l] + 1 /\ phase'[l] = "before" /\ executed'[l] = 0
        /\ Passed(l)' = Passed(l)
    BY <1>1, <1>8 DEF TypeOK, Passed
  <2>2. ProgressInv(l)'
    BY <1>1, <1>2, <1>4, <1>7, <1>8, <2>1 DEF OutcomeInv, ProgressInv
  <2>3. KeptInv(l)'
    BY <1>1, <1>2, <1>7, <1>8, <2>1 DEF KeptInv
  <2>4. CountOf(l)'
    BY <2>1 DEF CountOf
  <2>. QED
    BY <1>5, <2>2, <2>3, <2>4 DEF OutcomeInv
<1>9. CASE /\ LeaseVerified(l) /\ UNCHANGED txn
           /\ ~(next[l] < Len(script[l]))
           /\ executed' = [executed EXCEPT ![l] = @ + next[l]]
           /\ Return(l, "held", "applied") /\ UNCHANGED next
  <2>1. /\ next' = next /\ phase'[l] = "held" /\ next[l] = Len(script[l])
        /\ executed'[l] = Len(script[l])
    BY <1>1, <1>9 DEF TypeOK
  <2>2. ~Advancing(l)'
    BY <1>2, <2>1 DEF Advancing
  <2>3. txn[l] = "idle"
    <3>1. Balanced(script[l])
      BY <1>1, ScriptAssumption DEF TypeOK
    <3>2. ~InBlock(script[l], Passed(l) + 1)
      BY <1>1, <2>1, <3>1 DEF Balanced
    <3>. QED
      BY <1>7, <1>9, <3>2 DEF OutcomeInv, ProgressInv, TypeOK
  <2>4. \A i : Recorded(l, i) => IsDurable(l, i)
    <3>1. pending[l] = << >> /\ \A n \in 1..Len(<< >>) : FALSE
      BY <2>3 DEF OutcomeInv, ProgressInv
    <3>. QED
      BY <3>1 DEF Recorded, InPending
  <2>5. \A i \in 1..Len(script[l]) :
          /\ script[l][i] \in Durable => IsDurable(l, i)
          /\ script[l][i] \notin Unlocking
    BY <1>1, <1>7, <1>9, <2>1, <2>4 DEF OutcomeInv, ProgressInv
  <2>6. ProgressInv(l)'
    BY <1>1, <1>2, <1>4, <1>9, <2>1, <2>2 DEF OutcomeInv, ProgressInv
  <2>7. KeptInv(l)'
    BY <1>2, <2>1 DEF OutcomeInv, KeptInv
  <2>8. CountOf(l)'
    BY <1>1, <1>2, <1>3, <2>1, <2>5 DEF CountOf
  <2>. QED
    BY <1>5, <2>6, <2>7, <2>8 DEF OutcomeInv
<1>. QED
  BY <1>6, <1>8, <1>9 DEF CheckAfter

(* A lease gets its script while nothing of it has run. *)
LEMMA ApplyStep ==
  ASSUME TypeOK, RunInv, NEW l \in Leases, NEW s \in Scripts, OutcomeInv(l),
         Apply(l, s)
  PROVE  OutcomeInv(l)'
<1> USE DEF Go, client, backend
<1>1. /\ script[l] = << >> /\ ~running[l] /\ next[l] = 1 /\ txn[l] = "idle"
      /\ script'[l] = s /\ phase'[l] = "before"
      /\ UNCHANGED <<next, executed, conn, txn, running, pending, lockOwner, journal>>
  BY NoScriptNoRun DEF Apply, OutcomeInv, ProgressInv, TypeOK
<1>2. s \in Seq(Kinds) /\ Len(s) \in Nat
  BY ScriptAssumption
<1>3. /\ \A i : IsDurable(l, i)' <=> IsDurable(l, i)
      /\ \A i : Recorded(l, i)' <=> Recorded(l, i)
  BY <1>1 DEF IsDurable, Recorded, InPending
<1>4. Passed(l)' = 0
  BY <1>1 DEF Passed
<1>5. ProgressInv(l)'
  BY <1>1, <1>3, <1>4 DEF OutcomeInv, ProgressInv
<1>6. PrefixOf(l)'
  <2>1. \A j \in 1..Len(s) : IsDurable(l, j) => j <= 1
    BY <1>1, <1>2 DEF OutcomeInv, ProgressInv, Recorded
  <2>. QED
    BY <1>1, <1>2, <1>3, <2>1 DEF PrefixOf
<1>7. KeptInv(l)'
  BY <1>1 DEF KeptInv
<1>8. CountOf(l)'
  BY <1>1 DEF OutcomeInv, CountOf
<1>. QED
  BY <1>5, <1>6, <1>7, <1>8 DEF OutcomeInv

(***************************************************************************)
(* The invariant is inductive.                                             *)
(***************************************************************************)
LEMMA OutcomeStep ==
  ASSUME TypeOK, RunInv, SerialInv, \A l \in Leases : OutcomeInv(l), [Next]_vars
  PROVE  \A l \in Leases : OutcomeInv(l)'
<1> SUFFICES ASSUME NEW l \in Leases
             PROVE  OutcomeInv(l)'
  OBVIOUS
<1>0. OutcomeInv(l)
  OBVIOUS
<1> USE LeaseAssumption DEF Go, Return, HangUp, client, backend
<1>1. /\ running[l] => phase[l] \notin {"before", "after"}
      /\ txn[l] = "idle" => pending[l] = << >>
      /\ script[l] = << >> =>
           /\ txn[l] = "idle" /\ ~running[l]
           /\ phase[l] \notin {"before", "executing", "after"}
  BY <1>0, NoScriptNoRun DEF OutcomeInv, ProgressInv
<1>2. journal' = journal => \A i : IsDurable(l, i)' <=> IsDurable(l, i)
  BY DEF IsDurable
<1>3. ASSUME phase'[l] = phase[l], script'[l] = script[l], next'[l] = next[l],
             executed'[l] = executed[l], conn'[l] = conn[l], txn'[l] = txn[l],
             running'[l] = running[l], pending'[l] = pending[l],
             lockOwner' = l => lockOwner = l,
             \A i : IsDurable(l, i)' <=> IsDurable(l, i)
      PROVE  OutcomeInv(l)'
  BY <1>0, <1>1, <1>3, StillStep DEF Advancing
<1>4. ASSUME UNCHANGED <<script, next, executed, pending, journal>>,
             \/ ~Advancing(l)' /\ (txn'[l] = "idle" <=> txn[l] = "idle")
             \/ Advancing(l) /\ txn'[l] = txn[l] /\ phase[l] # "after",
             running'[l] => running[l],
             phase'[l] \notin {"before", "executing", "after"},
             lockOwner' = l => lockOwner = l \/ phase'[l] # "after"
      PROVE  OutcomeInv(l)'
  BY <1>0, <1>1, <1>2, <1>4, StillStep
<1>5. CASE Connect(l)
  <2>1. /\ ~running[l] /\ phase'[l] \in {"connected", "done"}
        /\ UNCHANGED <<script, next, executed, txn, running, pending, lockOwner, journal>>
    BY <1>1, <1>5 DEF Connect, RunInv, TypeOK
  <2>. QED
    BY <1>4, <2>1 DEF Advancing
<1>6. CASE TryLock(l)
  <2>1. /\ ~running[l] /\ phase'[l] \in {"verifying", "done"}
        /\ UNCHANGED <<script, next, executed, txn, running, pending, journal>>
    BY <1>1, <1>6 DEF TryLock, RunInv, TypeOK
  <2>. QED
    BY <1>4, <2>1 DEF Advancing
<1>7. CASE VerifyAcquired(l)
  <2>1. /\ phase[l] = "verifying" /\ phase'[l] \in {"held", "done"}
        /\ UNCHANGED <<script, next, executed, running, pending, lockOwner, journal>>
        /\ conn'[l] = "gone" <=> conn[l] = "gone"
        /\ UNCHANGED txn \/ LeaseUnverified(l)
    BY <1>7 DEF VerifyAcquired, TypeOK
  <2>3. \/ txn'[l] = txn[l]
        \/ conn[l] = "up" /\ txn[l] = "open" /\ txn'[l] = "failed"
    BY <2>1 DEF LeaseUnverified, TypeOK
  <2>2. conn[l] = "up" => ~running[l]
    BY <2>1 DEF RunInv
  <2>. QED
    BY <1>4, <2>1, <2>2, <2>3 DEF Advancing
<1>8. CASE CheckBefore(l)
  <2>1. /\ phase[l] = "before" /\ ~running[l]
        /\ UNCHANGED <<script, next, executed, conn, pending, lockOwner, journal>>
    BY <1>1, <1>8 DEF CheckBefore
  <2>2. CASE LeaseVerified(l) /\ phase'[l] = "executing" /\ txn' = txn
    <3>1. Advancing(l)
      BY <2>1, <2>2 DEF LeaseVerified, Advancing
    <3>. QED
      BY <1>0, <1>1, <1>2, <2>1, <2>2, <3>1, StillStep
  <2>3. CASE LeaseUnverified(l) /\ phase'[l] = "held" /\ running' = running
    <3>1. txn'[l] = "idle" <=> txn[l] = "idle"
      BY <2>3 DEF LeaseUnverified, TypeOK
    <3>. QED
      BY <1>4, <2>1, <2>3, <3>1 DEF Advancing
  <2>. QED
    BY <1>8, <2>2, <2>3 DEF CheckBefore, TypeOK
<1>9. CASE ExecuteBroken(l)
  <2>1. /\ phase[l] = "executing" /\ phase'[l] = "rollback"
        /\ UNCHANGED <<script, next, executed, conn, txn, running, pending, lockOwner, journal>>
    BY <1>9 DEF ExecuteBroken, TypeOK
  <2>. QED
    BY <1>4, <2>1 DEF Advancing
<1>10. CASE CheckAfter(l)
  BY <1>0, <1>10, CheckAfterStep
<1>11. CASE Rollback(l)
  <2>1. /\ phase[l] = "rollback" /\ phase'[l] = "held"
        /\ UNCHANGED <<script, next, executed, conn, running, lockOwner, journal>>
    BY <1>11 DEF Rollback, TypeOK
  <2>2. CASE conn[l] = "up" /\ txn'[l] = "idle" /\ pending'[l] = << >>
    <3>1. ~Advancing(l)'
      BY <2>1, <2>2 DEF Advancing, RunInv
    <3>. QED
      BY <1>0, <1>1, <1>2, <2>1, <2>2, <3>1, StillStep
  <2>3. CASE UNCHANGED <<txn, pending>>
    BY <1>4, <2>1, <2>3 DEF Advancing
  <2>. QED
    BY <1>11, <2>2, <2>3 DEF Rollback, TypeOK
<1>12. CASE Release(l)
  <2>1. /\ phase[l] = "held" /\ phase'[l] \in {"closing", "lost", "done"}
        /\ UNCHANGED <<script, next, executed, txn, running, pending, journal>>
        /\ conn'[l] = "gone" <=> conn[l] = "gone"
    BY <1>12 DEF Release, TypeOK
  <2>. QED
    BY <1>4, <2>1 DEF Advancing
<1>13. CASE Close(l) \/ Abandon(l)
  <2>1. /\ phase'[l] = "done"
        /\ UNCHANGED <<script, next, executed, txn, running, pending, lockOwner, journal>>
        /\ conn'[l] = "gone" <=> conn[l] = "gone"
    BY <1>13 DEF Close, Abandon, TypeOK
  <2>. QED
    BY <1>1, <1>4, <2>1 DEF Advancing
<1>14. CASE SelfUnlock(l)
  <2>1. UNCHANGED <<client, conn, backend, journal>> /\ lockOwner' = NoLease
    BY <1>14 DEF SelfUnlock
  <2>. QED
    BY <1>2, <1>3, <2>1
<1>15. CASE Execute(l)
  BY <1>0, <1>15, ExecuteStep
<1>16. CASE LinkBreaks(l)
  <2>1. /\ UNCHANGED <<client, backend, lockOwner, journal>>
        /\ conn[l] = "up" /\ conn'[l] = "cut"
    BY <1>16 DEF LinkBreaks, TypeOK
  <2>2. Advancing(l)' <=> Advancing(l)
    BY <2>1 DEF Advancing
  <2>. QED
    BY <1>0, <1>1, <1>2, <2>1, <2>2, StillStep
<1>17. CASE SessionEnds(l)
  <2>1. /\ UNCHANGED <<client, journal>> /\ conn'[l] = "gone"
        /\ txn'[l] = "idle" /\ ~running'[l] /\ pending'[l] = << >>
        /\ lockOwner' = l => lockOwner = l
    BY <1>17 DEF SessionEnds, TypeOK
  <2>2. ~Advancing(l)'
    BY <2>1 DEF Advancing
  <2>. QED
    BY <1>0, <1>1, <1>2, <2>1, <2>2, StillStep
<1>18. ASSUME NEW s \in Scripts, Apply(l, s)
       PROVE  OutcomeInv(l)'
  BY <1>0, <1>18, ApplyStep
<1>19. ASSUME NEW k \in Leases \ {l}, Acquiring(k) \/ \E s \in Scripts : Apply(k, s)
       PROVE  OutcomeInv(l)'
  BY <1>2, <1>3, <1>19
  DEF Acquiring, Connect, TryLock, VerifyAcquired, LeaseUnverified, Apply, TypeOK
<1>20. ASSUME NEW k \in Leases \ {l}, Applying(k)
       PROVE  OutcomeInv(l)'
  BY <1>2, <1>3, <1>20
  DEF Applying, CheckBefore, ExecuteBroken, CheckAfter, Rollback,
      LeaseUnverified, TypeOK
<1>21. ASSUME NEW k \in Leases \ {l}, Release(k) \/ Close(k) \/ Abandon(k)
       PROVE  OutcomeInv(l)'
  BY <1>2, <1>3, <1>21 DEF Release, Close, Abandon, TypeOK
<1>22. ASSUME NEW k \in Leases \ {l},
              SelfUnlock(k) \/ LinkBreaks(k) \/ SessionEnds(k)
       PROVE  OutcomeInv(l)'
  BY <1>2, <1>3, <1>22 DEF SelfUnlock, LinkBreaks, SessionEnds, TypeOK
<1>23. ASSUME NEW k \in Leases \ {l}, Execute(k)
       PROVE  OutcomeInv(l)'
  <2>1. \A i : IsDurable(l, i)' <=> IsDurable(l, i)
    BY <1>23, ExecuteStep
  <2>2. /\ phase'[l] = phase[l] /\ running'[l] = running[l]
        /\ UNCHANGED <<script, next, executed, conn, lockOwner>>
    BY <1>23 DEF Execute, TypeOK
  <2>3. txn'[l] = txn[l] /\ pending'[l] = pending[l]
    BY <1>23 DEF Execute, Completes, Fails, TypeOK
  <2>. QED
    BY <1>3, <2>1, <2>2, <2>3
<1>24. CASE UNCHANGED vars
  BY <1>2, <1>3, <1>24 DEF vars
<1>25. ASSUME NEW k \in Leases,
              \/ Acquiring(k) \/ \E s \in Scripts : Apply(k, s)
              \/ Applying(k) \/ Release(k) \/ Close(k) \/ Abandon(k)
              \/ Environment(k)
       PROVE  OutcomeInv(l)'
  <2>1. CASE k = l
    BY <1>5, <1>6, <1>7, <1>8, <1>9, <1>10, <1>11, <1>12, <1>13, <1>14, <1>15,
       <1>16, <1>17, <1>18, <1>25, <2>1
    DEF Acquiring, Applying, Environment
  <2>2. CASE k # l
    BY <1>19, <1>20, <1>21, <1>22, <1>23, <1>25, <2>2 DEF Environment
  <2>. QED
    BY <2>1, <2>2
<1>. QED
  BY <1>24, <1>25 DEF Next

(***************************************************************************)
(* The inductive invariant of what a migration leaves behind, whatever fails.*)
(***************************************************************************)
THEOREM OutcomeInvariant == Spec => [](\A l \in Leases : OutcomeInv(l))
<1> DEFINE Inv == \A l \in Leases : OutcomeInv(l)
<1>1. Init => Inv
  <2> SUFFICES ASSUME Init, NEW l \in Leases
               PROVE  OutcomeInv(l)
    BY Zenon
  <2>1. /\ phase[l] = "idle" /\ script[l] = << >> /\ next[l] = 1 /\ executed[l] = 0
        /\ conn[l] = "none" /\ txn[l] = "idle" /\ ~running[l]
        /\ pending[l] = << >> /\ journal = << >>
    BY Zenon DEF Init
  <2>2. \A n \in 1..Len(<< >>) : FALSE
    OBVIOUS
  <2>3. \A i : ~Recorded(l, i)
    BY <2>1, <2>2 DEF Recorded, IsDurable, InPending
  <2>. QED
    BY <2>1, <2>2, <2>3
    DEF OutcomeInv, ProgressInv, KeptInv, PrefixOf, CountOf, Advancing
<1>2. LeaseInv /\ Inv /\ [Next]_vars => Inv'
  BY OutcomeStep DEF LeaseInv
<1> HIDE DEF Inv
<1>3. Spec => []Inv
  BY <1>1, <1>2, LeaseInvariant, PTL DEF Spec
<1>. QED
  BY <1>3 DEF Inv

(***************************************************************************)
(* What a migration leaves durable is a prefix of its script's work, for   *)
(* every set of scripts, of leases, and whatever fails.                    *)
(***************************************************************************)
THEOREM PrefixDurable == Spec => []DurablePrefix
<1>1. (\A l \in Leases : OutcomeInv(l)) => DurablePrefix
  BY DEF OutcomeInv, PrefixOf, DurablePrefix
<1>. QED
  BY <1>1, OutcomeInvariant, PTL

(***************************************************************************)
(* A receipt's count is the whole script, committed, or zero, and a script *)
(* that released its own lease is never counted.                           *)
(***************************************************************************)
THEOREM CountHonest == Spec => []CountIsHonest
<1>1. (\A l \in Leases : OutcomeInv(l)) => CountIsHonest
  BY DEF OutcomeInv, CountOf, CountIsHonest, CountIsDurable, CountedKeptLease
<1>. QED
  BY <1>1, OutcomeInvariant, PTL

-----------------------------------------------------------------------------
Spent == {l \in Leases : phase[l] \notin {"idle", "connected"}}

(* The scripts of emit.rs never touch the lease: no statement releases it. *)
Generated == \A s \in Scripts : \A i \in 1..Len(s) : s[i] # "unlock"

(***************************************************************************)
(* What makes an execution lane of the lease: a statement that becomes     *)
(* durable does so in a session that holds the lock.                       *)
(***************************************************************************)
LEMMA GeneratedRunsLeased ==
  ASSUME Generated, TypeOK, RunInv, NEW l \in Leases, running[l]
  PROVE  lockOwner = l /\ Kind(l) \notin Unlocking
<1>1. next[l] \in Nat \ {0} /\ next[l] <= Len(script[l])
  BY DEF TypeOK, RunInv
<1>2. script[l] # << >>
  <2>1. Len(<< >>) = 0
    OBVIOUS
  <2>. QED
    BY <1>1, <2>1
<1>3. script[l] \in Scripts /\ Len(script[l]) \in Nat
  BY <1>2, ScriptAssumption DEF TypeOK
<1>4. next[l] \in 1..Len(script[l])
  BY <1>1, <1>3
<1>5. Kind(l) # "unlock" /\ Kind(l) # "control"
  BY <1>2, <1>3, <1>4 DEF Generated, Kind, RunInv, ValidatedScript
<1>. QED
  BY <1>5 DEF RunInv, Unlocking

(***************************************************************************)
(* The lease implements the execution lane for scripts that do not release *)
(* it: acquiring is entering, a refused or abandoned acquisition is        *)
(* withdrawing, a commit or a statement outside a transaction is writing,  *)
(* a release and the end of a session are leaving.                         *)
(***************************************************************************)
THEOREM ImplementsLane ==
  ASSUME Generated
  PROVE  Spec => LaneSpec
<1>1. Init => Lane!Init
  BY DEF Init, Lane!Init
<1>2. ASSUME TypeOK, TypeOK', LeaseInv, [Next]_vars
      PROVE  [Lane!Next]_(Lane!vars)
  <2> USE <1>2, LeaseAssumption DEF TypeOK, Go, Return, backend, client
  <2> DEFINE Same == lockOwner' = lockOwner /\ Spent' = Spent /\ journal' = journal
  <2>1. Same => UNCHANGED Lane!vars
    BY DEF Lane!vars, Spent
  <2>2. ASSUME NEW l \in Leases, phase[l] = "connected" \/ phase[l] = "idle",
               phase'[l] \notin {"idle", "connected"},
               \A k \in Leases \ {l} : phase'[k] = phase[k]
        PROVE  l \notin Spent /\ Spent' = Spent \cup {l}
    <3>1. l \notin Spent /\ l \in Spent'
      BY <2>2 DEF Spent
    <3>2. \A k \in Leases \ {l} : k \in Spent' <=> k \in Spent
      BY <2>2 DEF Spent
    <3>3. Spent \subseteq Leases /\ Spent' \subseteq Leases
      BY DEF Spent
    <3>4. \A k : k \in Spent' <=> k \in Spent \cup {l}
      BY <3>1, <3>2, <3>3
    <3>. QED
      BY <3>1, <3>4
  <2>3. ASSUME NEW l \in Leases, l \notin Spent, Spent' = Spent \cup {l},
               UNCHANGED <<lockOwner, journal>>
        PROVE  Lane!Next
    BY <2>3 DEF Lane!Next, Lane!Withdraw, Spent
  <2>4. ASSUME NEW l \in Leases, Connect(l)
        PROVE  Lane!Next \/ Same
    <3>1. CASE phase' = [phase EXCEPT ![l] = "connected"]
      BY <2>4, <3>1 DEF Connect, Spent
    <3>2. CASE phase' = [phase EXCEPT ![l] = "done"]
      BY <2>2, <2>3, <2>4, <3>2 DEF Connect
    <3>. QED
      BY <2>4, <3>1, <3>2 DEF Connect
  <2>5. ASSUME NEW l \in Leases, TryLock(l)
        PROVE  Lane!Next \/ Same
    <3>1. l \notin Spent /\ Spent' = Spent \cup {l}
      BY <2>2, <2>5 DEF TryLock
    <3>2. CASE lockOwner = NoLease /\ lockOwner' = l
      BY <2>5, <3>1, <3>2 DEF TryLock, Lane!Next, Lane!Enter, Spent
    <3>3. CASE UNCHANGED lockOwner
      BY <2>3, <2>5, <3>1, <3>3 DEF TryLock
    <3>. QED
      BY <2>5, <3>2, <3>3 DEF TryLock
  <2>6. ASSUME NEW l \in Leases, Abandon(l)
        PROVE  Lane!Next \/ Same
    <3>1. CASE phase[l] = "connected"
      BY <2>2, <2>3, <2>6, <3>1 DEF Abandon
    <3>2. CASE phase[l] # "connected"
      BY <2>6, <3>2 DEF Abandon, Spent
    <3>. QED
      BY <3>1, <3>2
  <2>7. ASSUME NEW l \in Leases, VerifyAcquired(l)
       PROVE  Same
    BY <2>7 DEF VerifyAcquired, Spent
  <2>8. ASSUME NEW l \in Leases, NEW s \in Scripts, Apply(l, s)
       PROVE  Same
    BY <2>8 DEF Apply, Spent
  <2>9. ASSUME NEW l \in Leases, CheckBefore(l)
       PROVE  Same
    BY <2>9 DEF CheckBefore, Spent
  <2>10. ASSUME NEW l \in Leases, ExecuteBroken(l)
        PROVE  Same
    BY <2>10 DEF ExecuteBroken, Spent
  <2>11. ASSUME NEW l \in Leases, CheckAfter(l)
        PROVE  Same
    BY <2>11 DEF CheckAfter, Spent
  <2>12. ASSUME NEW l \in Leases, Rollback(l)
        PROVE  Same
    BY <2>12 DEF Rollback, Spent
  <2>13. ASSUME NEW l \in Leases, Close(l)
        PROVE  Same
    BY <2>13 DEF Close, Spent
  <2>14. ASSUME NEW l \in Leases, LinkBreaks(l)
        PROVE  Same
    BY <2>14 DEF LinkBreaks, Spent
  <2>15. ASSUME NEW l \in Leases, Release(l) \/ SessionEnds(l)
         PROVE  Lane!Next \/ Same
    <3>1. Spent' = Spent /\ journal' = journal
      BY <2>15 DEF Release, SessionEnds, Spent
    <3>2. CASE lockOwner' = lockOwner
      BY <3>1, <3>2
    <3>3. CASE lockOwner' # lockOwner
      <4>1. lockOwner = l /\ lockOwner' = NoLease
        BY <2>15, <3>3 DEF Release, SessionEnds
      <4>. QED
        BY <3>1, <4>1 DEF Lane!Next, Lane!Leave, Spent
    <3>. QED
      BY <3>2, <3>3
  <2>16. ASSUME NEW l \in Leases, SelfUnlock(l)
         PROVE  FALSE
    BY <2>16, GeneratedRunsLeased DEF SelfUnlock, LeaseInv
  <2>17. ASSUME NEW l \in Leases, Execute(l)
         PROVE  Lane!Next \/ Same
    <3>1. lockOwner = l /\ lockOwner' = lockOwner
      BY <2>17, GeneratedRunsLeased DEF Execute, LeaseInv
    <3>2. Spent' = Spent
      <4>1. running[l]
        BY <2>17 DEF Execute
      <4>2. conn[l] = "up" => phase[l] = "executing"
        BY <4>1 DEF LeaseInv, RunInv
      <4>3. CASE phase' = phase
        BY <4>3 DEF Spent
      <4>4. CASE conn[l] = "up" /\ \E to \in {"after", "rollback"} : Go(l, to)
        <5>1. \A k \in Leases : phase'[k] \in {"idle", "connected"}
                                <=> phase[k] \in {"idle", "connected"}
          BY <4>2, <4>4
        <5>. QED
          BY <5>1 DEF Spent
      <4>. QED
        BY <2>17, <4>3, <4>4 DEF Execute
    <3>3. CASE journal' = journal
      BY <3>1, <3>2, <3>3
    <3>4. CASE journal' # journal
      <4>1. Completes(l)
        BY <2>17, <3>4 DEF Execute, Fails
      <4>2. PICK b \in Seq(Entries) : /\ journal' = journal \o b
                                     /\ \A i \in 1..Len(b) : b[i][1] = l
        <5>1. CASE journal' = journal \o pending[l]
          BY <5>1 DEF LeaseInv, SerialInv
        <5>2. CASE journal' = Append(journal, <<l, next[l]>>)
          <6> DEFINE e == <<l, next[l]>>
          <6>1. e \in Entries /\ e[1] = l
            BY DEF Entries
          <6>2. <<e>> \in Seq(Entries) /\ \A i \in 1..Len(<<e>>) : <<e>>[i] = e
            BY <6>1
          <6>3. journal' = journal \o <<e>>
            BY <5>2, <6>1, AppendIsConcat
          <6>. QED
            BY <6>1, <6>2, <6>3
        <5>. QED
          BY <3>4, <4>1, <5>1, <5>2 DEF Completes
      <4>3. /\ Len(journal) \in Nat /\ Len(b) \in Nat
            /\ Len(journal') = Len(journal) + Len(b)
            /\ \A i \in (Len(journal) + 1)..Len(journal') :
                 i - Len(journal) \in 1..Len(b) /\ journal'[i] = b[i - Len(journal)]
        <5>1. journal \in Seq(Entries) /\ b \in Seq(Entries)
          BY <4>2
        <5> HIDE <1>2 DEF TypeOK
        <5>2. Len(journal) \in Nat /\ Len(b) \in Nat
          BY <5>1
        <5>3. Len(journal \o b) = Len(journal) + Len(b)
          BY <5>1, <5>2
        <5>4. \A i \in (Len(journal) + 1)..(Len(journal) + Len(b)) :
                 /\ i - Len(journal) \in 1..Len(b)
                 /\ (journal \o b)[i] = b[i - Len(journal)]
          BY <5>1, <5>2
        <5>. QED
          BY <4>2, <5>2, <5>3, <5>4
      <4>4. Len(b) > 0
        BY <3>4, <4>2, <4>3
      <4>5. SubSeq(journal', 1, Len(journal)) = journal
        BY <4>2
      <4>6. Lane!Write(l)
        BY <3>1, <3>2, <4>2, <4>3, <4>4, <4>5 DEF Lane!Write, Spent
      <4>. QED
        BY <4>6 DEF Lane!Next
    <3>. QED
      BY <3>3, <3>4
  <2>18. ASSUME UNCHANGED vars
         PROVE  Same
    BY <2>18 DEF vars, Spent
  <2>19. Lane!Next \/ Same
    <3> HIDE <1>2 DEF Same, TypeOK, Go, Return, backend, client
    <3>1. CASE Next
      BY <2>4, <2>5, <2>6, <2>7, <2>8, <2>9, <2>10, <2>11, <2>12, <2>13,
         <2>14, <2>15, <2>16, <2>17, <3>1
      DEF Next, Acquiring, Applying, Environment
    <3>. QED
      BY <1>2, <2>18, <3>1
  <2>. QED
    BY <2>1, <2>19
<1>3. QED
  BY <1>1, <1>2, TypeCorrect, LeaseInvariant, PTL DEF Spec, LaneSpec, Lane!Spec

=============================================================================
