---------------------------- MODULE Admission_proofs ----------------------------
(* Proofs about admission, for any number of clients and permits. *)
EXTENDS Admission, FiniteSetTheorems, TLAPS

LEMMA AdmissionInit == Init => AdmissionInv
<1> SUFFICES ASSUME Init PROVE AdmissionInv
  OBVIOUS
<1>1. InService = {}
  BY DEF Init, InService, Serving
<1>2. ServiceBound
  <2>1. IsFiniteSet({}) /\ Cardinality({}) = 0
    BY FS_EmptySet
  <2>2. IsFiniteSet(InService) /\ Cardinality(InService) = 0
    BY <1>1, <2>1, Zenon
  <2>. QED
    BY <2>2, AdmissionAssumption DEF ServiceBound
<1>3. TypeOK
  BY DEF Init, TypeOK
<1>. QED
  BY <1>1, <1>2, <1>3, AdmissionAssumption DEF Init, AdmissionInv

(* Who leaves service frees a permit, and moving within it takes none.     *)
LEMMA BoundKept ==
  ASSUME ServiceBound, InService' \subseteq InService
  PROVE  ServiceBound'
<1>1. /\ IsFiniteSet(InService')
      /\ Cardinality(InService') \in Nat /\ Cardinality(InService) \in Nat
      /\ Cardinality(InService') <= Cardinality(InService)
  BY FS_Subset, FS_CardinalityType DEF ServiceBound
<1>. QED
  BY <1>1, AdmissionAssumption DEF ServiceBound

LEMMA BoundGrant ==
  ASSUME TypeOK, ServiceBound, NEW c \in Clients, Grant(c)
  PROVE  ServiceBound'
<1>1. InService' = InService \cup {c} /\ c \notin InService
  BY DEF Grant, Move, InService, Serving, TypeOK
<1>2. IsFiniteSet(InService) /\ Cardinality(InService) < MaxInFlight
  BY DEF Grant, ServiceBound
<1>3. /\ IsFiniteSet(InService \cup {c})
      /\ Cardinality(InService \cup {c}) = Cardinality(InService) + 1
  BY <1>1, <1>2, FS_AddElement
<1>4. Cardinality(InService) \in Nat
  BY <1>2, FS_CardinalityType
<1>. QED
  BY <1>1, <1>2, <1>3, <1>4, AdmissionAssumption DEF ServiceBound

(* A task that goes on in service, or ends. *)
LEMMA BoundMove ==
  ASSUME TypeOK, ServiceBound, NEW c \in Clients, NEW to,
         Move(c, to), c \in InService \/ to \notin Serving
  PROVE  ServiceBound'
<1>1. InService' \subseteq InService
  BY DEF Move, InService, TypeOK
<1>. QED
  BY <1>1, BoundKept

LEMMA AdmissionStep ==
  ASSUME AdmissionInv, [Next]_vars
  PROVE  AdmissionInv'
<1>0. TypeOK /\ ServiceBound
  BY DEF AdmissionInv
<1> DEFINE Rest ==
      /\ \A c \in Clients : client[c] = "away" => conn[c] = "none"
      /\ \A c \in Clients : conn[c] = "accepted" => loop = "permit"
      /\ \A c, d \in Clients : conn[c] = "accepted" /\ conn[d] = "accepted" => c = d
      /\ \A c \in Clients : conn[c] = "applying" <=> guard = c
      /\ loop = "stopped" => InService = {}
<1>1. Rest
  BY DEF AdmissionInv
<1>2. TypeOK' /\ ServiceBound' /\ Rest' => AdmissionInv'
  BY DEF AdmissionInv
<1> HIDE DEF Rest
<1>3. ASSUME NEW c \in Clients, Connect(c)
      PROVE  AdmissionInv'
  <2>1. TypeOK'
    BY <1>0, <1>3 DEF TypeOK, Connect, Move, Serving
  <2>2. Rest'
    <3>1. conn[c] = "none" /\ loop' # "stopped"
      BY <1>1, <1>3 DEF Rest, Connect
    <3>. QED
      BY <1>0, <1>1, <1>3, <3>1 DEF TypeOK, Rest, Connect, Move
  <2>3. ServiceBound'
    BY <1>0, <1>3, BoundMove DEF Connect, Serving
  <2>. QED
    BY <1>2, <2>1, <2>2, <2>3
<1>4. ASSUME NEW c \in Clients, Send(c) \/ GoAway(c)
      PROVE  AdmissionInv'
  <2>1. /\ TypeOK' /\ UNCHANGED <<loop, conn, guard>>
        /\ \A d \in Clients : client'[d] = "away" => client[d] = "away"
    BY <1>0, <1>4 DEF TypeOK, Send, GoAway
  <2>2. InService' = InService
    BY <2>1 DEF InService
  <2>3. ServiceBound' /\ Rest'
    BY <1>0, <1>1, <2>1, <2>2 DEF ServiceBound, Rest
  <2>. QED
    BY <1>2, <2>1, <2>3
<1>5. CASE Interrupt \/ UNCHANGED vars
  <2>1. TypeOK' /\ UNCHANGED <<loop, client, conn, guard>>
    BY <1>0, <1>5 DEF TypeOK, Interrupt, vars
  <2>2. InService' = InService
    BY <2>1 DEF InService
  <2>3. ServiceBound' /\ Rest'
    BY <1>0, <1>1, <2>1, <2>2 DEF ServiceBound, Rest
  <2>. QED
    BY <1>2, <2>1, <2>3
<1>6. ASSUME NEW c \in Clients, Accept(c)
      PROVE  AdmissionInv'
  <2>1. TypeOK'
    BY <1>0, <1>6 DEF TypeOK, Accept, Move, Serving
  <2>2. Rest'
    BY <1>0, <1>1, <1>6 DEF TypeOK, Rest, Accept, Move, InService, Serving
  <2>3. ServiceBound'
    BY <1>0, <1>6, BoundMove DEF Accept, Serving
  <2>. QED
    BY <1>2, <2>1, <2>2, <2>3
<1>7. ASSUME NEW c \in Clients, Grant(c)
      PROVE  AdmissionInv'
  <2>1. TypeOK'
    BY <1>0, <1>7 DEF TypeOK, Grant, Move, Serving
  <2>2. Rest'
    BY <1>0, <1>1, <1>7 DEF TypeOK, Rest, Grant, Move, InService, Serving
  <2>3. ServiceBound'
    BY <1>0, <1>7, BoundGrant
  <2>. QED
    BY <1>2, <2>1, <2>2, <2>3
<1>8. ASSUME NEW c \in Clients, Working(c) \/ Answer(c)
      PROVE  AdmissionInv'
  <2>1. TypeOK'
    BY <1>0, <1>8 DEF TypeOK, Working, ReadRequest, Compute, Lock, Apply, Answer,
      Move, Serving
  <2>2. Rest'
    BY <1>0, <1>1, <1>8, AdmissionAssumption
    DEF TypeOK, Rest, Working, ReadRequest, Compute, Lock, Apply, Answer,
      Move, InService, Serving
  <2>3. \E to : Move(c, to) /\ c \in InService
    BY <1>8 DEF Working, ReadRequest, Compute, Lock, Apply, Answer, InService, Serving
  <2>4. ServiceBound'
    BY <1>0, <2>3, BoundMove
  <2>. QED
    BY <1>2, <2>1, <2>2, <2>4
<1>9. CASE Shutdown \/ AcceptFails
  <2>1. Stop
    BY <1>9 DEF Shutdown, AcceptFails
  <2>2. InService' = {}
    BY <2>1 DEF Stop, InService, Serving
  <2>3. TypeOK'
    BY <1>0, <2>1 DEF TypeOK, Stop, Serving
  <2>4. Rest'
    BY <1>0, <1>1, <2>1, <2>2, AdmissionAssumption DEF TypeOK, Rest, Stop
  <2>5. ServiceBound'
    BY <1>0, <2>2, BoundKept
  <2>. QED
    BY <1>2, <2>3, <2>4, <2>5
<1>. QED
  BY <1>3, <1>4, <1>5, <1>6, <1>7, <1>8, <1>9 DEF Next

(***************************************************************************)
(* DPM_SERVER_MAX_IN_FLIGHT bounds the connections in service and one live *)
(* apply runs at a time, for any number of clients, finite or not.         *)
(***************************************************************************)
THEOREM AdmissionBounded == Spec => []AdmissionInv
<1>1. Init => AdmissionInv
  BY AdmissionInit
<1>2. AdmissionInv /\ [Next]_vars => AdmissionInv'
  BY AdmissionStep
<1>. QED
  BY <1>1, <1>2, PTL DEF Spec

=============================================================================
