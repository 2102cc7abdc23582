----------------------------- MODULE Admission -----------------------------
(***************************************************************************)
(* How dpm-server admits and serves connections (src/server/mod.rs,        *)
(* serve_local and handle_connection): one loop that accepts, a bounded    *)
(* number of local tasks, and the mutex that serialises live applies.      *)
(*                                                                         *)
(* A client makes one connection with one request, stalls or leaves as it  *)
(* likes, and reads its response when it likes.  What a task does with     *)
(* catalogs and databases is the subject of ServerApply.                   *)
(***************************************************************************)
EXTENDS Naturals, FiniteSets

CONSTANTS Clients, NoClient,
          MaxInFlight           \* DPM_SERVER_MAX_IN_FLIGHT

ASSUME AdmissionAssumption ==
  /\ NoClient \notin Clients
  /\ MaxInFlight \in 1..4096    \* ServerConfig::validate

VARIABLES
  loop,     \* serve_local: in select!, waiting for a permit, or returned
  signal,   \* SIGINT has been sent
  client,   \* what client c has done; gone before, or left after, sending all
  conn,     \* where c's connection is
  guard     \* the connection whose task holds apply_lock

vars == <<loop, signal, client, conn, guard>>

(* Connections whose task runs, and so holds a permit. *)
Serving == {"reading", "computing", "locking", "applying", "answering"}
InService == {c \in Clients : conn[c] \in Serving}

TypeOK ==
  /\ loop \in {"select", "permit", "stopped"}
  /\ signal \in BOOLEAN
  /\ client \in [Clients -> {"away", "sending", "sent", "gone", "left"}]
  /\ conn \in [Clients ->
                 Serving \cup {"none", "backlog", "accepted", "closed", "dropped"}]
  /\ guard \in Clients \cup {NoClient}

Init ==
  /\ loop = "select"
  /\ signal = FALSE
  /\ client = [c \in Clients |-> "away"]
  /\ conn = [c \in Clients |-> "none"]
  /\ guard = NoClient

Move(c, to) == conn' = [conn EXCEPT ![c] = to]

-----------------------------------------------------------------------------
(* Clients, and whoever sends SIGINT *)

Connect(c) ==
  /\ client[c] = "away" /\ loop # "stopped"
  /\ client' = [client EXCEPT ![c] = "sending"]
  /\ Move(c, "backlog")
  /\ UNCHANGED <<loop, signal, guard>>

Send(c) ==
  /\ client[c] = "sending"
  /\ client' = [client EXCEPT ![c] = "sent"]
  /\ UNCHANGED <<loop, signal, conn, guard>>

(* Also the timeout of DpmClient: the server is not told. *)
GoAway(c) ==
  /\ client[c] \in {"sending", "sent"}
  /\ client' = [client EXCEPT ![c] = IF @ = "sent" THEN "left" ELSE "gone"]
  /\ UNCHANGED <<loop, signal, conn, guard>>

(* A SIGINT that a ctrl_c() of the loop hears, this one or a later one; one *)
(* that is lost between two of them is no step.                            *)
Interrupt ==
  /\ ~signal /\ loop # "stopped"
  /\ signal' = TRUE
  /\ UNCHANGED <<loop, client, conn, guard>>

-----------------------------------------------------------------------------
(* serve_local *)

Accept(c) ==
  /\ loop = "select" /\ conn[c] = "backlog"
  /\ loop' = "permit"
  /\ Move(c, "accepted")
  /\ UNCHANGED <<signal, client, guard>>

\* Mutant: the task starts before it has a permit.
GrantUnbounded(c) ==
  /\ loop = "permit" /\ conn[c] = "accepted"
  /\ loop' = "select"
  /\ Move(c, "reading")
  /\ UNCHANGED <<signal, client, guard>>

Grant(c) ==
  /\ loop = "permit" /\ conn[c] = "accepted"
  /\ Cardinality(InService) < MaxInFlight
  /\ loop' = "select"
  /\ Move(c, "reading")
  /\ UNCHANGED <<signal, client, guard>>

(* serve_local returns: the tasks and the backlog go with it. *)
Stop ==
  /\ loop' = "stopped"
  /\ conn' = [c \in Clients |-> IF conn[c] \in {"none", "closed"}
                                  THEN conn[c] ELSE "dropped"]
  /\ guard' = NoClient
  /\ UNCHANGED <<signal, client>>

Shutdown == loop = "select" /\ signal /\ Stop
AcceptFails == loop = "select" /\ Stop

-----------------------------------------------------------------------------
(* handle_connection: one task per connection *)

(* An incomplete request is waited for without a timeout; a live apply     *)
(* that passed all checks queues for apply_lock; a diff or a dry run is    *)
(* computed; anything else is answered at once, a request that cannot be   *)
(* one before it is complete.                                              *)
ReadRequest(c) ==
  /\ conn[c] = "reading"
  /\ \/ /\ client[c] \in {"sent", "left"}
        /\ \E to \in {"locking", "computing"} : Move(c, to)
     \/ Move(c, "answering")
  /\ UNCHANGED <<loop, signal, client, guard>>

Compute(c) ==
  /\ conn[c] = "computing"
  /\ Move(c, "answering")
  /\ UNCHANGED <<loop, signal, client, guard>>

\* Mutant: an apply takes a second permit for the time it runs.
LockNested(c) ==
  /\ conn[c] = "locking" /\ guard = NoClient
  /\ Cardinality(InService) < MaxInFlight
  /\ guard' = c
  /\ Move(c, "applying")
  /\ UNCHANGED <<loop, signal, client>>

Lock(c) ==
  /\ conn[c] = "locking" /\ guard = NoClient
  /\ guard' = c
  /\ Move(c, "applying")
  /\ UNCHANGED <<loop, signal, client>>

\* Mutant: the guard lives until the response is written.
ApplyHolding(c) ==
  /\ \/ conn[c] = "applying" /\ Move(c, "answering") /\ UNCHANGED guard
     \/ conn[c] = "closed" /\ guard = c /\ guard' = NoClient /\ UNCHANGED conn
  /\ UNCHANGED <<loop, signal, client>>

(* handle_apply returns its response, and its guard is dropped. *)
Apply(c) ==
  /\ conn[c] = "applying"
  /\ guard' = NoClient
  /\ Move(c, "answering")
  /\ UNCHANGED <<loop, signal, client>>

(* write_response, also to a client that is gone. *)
Answer(c) ==
  /\ conn[c] = "answering"
  /\ Move(c, "closed")
  /\ UNCHANGED <<loop, signal, client, guard>>

-----------------------------------------------------------------------------

Working(c) == ReadRequest(c) \/ Compute(c) \/ Lock(c) \/ Apply(c)

Next ==
  \/ \E c \in Clients : \/ Connect(c) \/ Send(c) \/ GoAway(c)
                        \/ Accept(c) \/ Grant(c)
                        \/ Working(c) \/ Answer(c)
  \/ Interrupt \/ Shutdown \/ AcceptFails

Spec == Init /\ [][Next]_vars

(***************************************************************************)
(* The loop and the tasks are scheduled, databases answer, and writing to  *)
(* a closed socket fails.  Nothing obliges a client to complete its        *)
(* request, or to read a response larger than the socket's buffers.        *)
(***************************************************************************)
Fairness ==
  /\ WF_vars(\E c \in Clients : Accept(c))
  /\ WF_vars(\E c \in Clients : Grant(c))
  /\ WF_vars(Shutdown)
  /\ \A c \in Clients :
       /\ WF_vars(client[c] # "sending" /\ Working(c))
       /\ WF_vars(client[c] \in {"gone", "left"} /\ Answer(c))

FairSpec == Spec /\ Fairness

(* Clients that complete their requests, unless they leave, and read their *)
(* responses.                                                              *)
Courteous == \A c \in Clients : WF_vars(Send(c)) /\ WF_vars(Answer(c))

-----------------------------------------------------------------------------
(***************************************************************************)
(* DPM_SERVER_MAX_IN_FLIGHT bounds the connections in service, whatever    *)
(* clients and signals do; the loop has at most one more connection in its *)
(* hands, and that only while it waits; one live apply runs at a time.     *)
(***************************************************************************)
ServiceBound == IsFiniteSet(InService) /\ Cardinality(InService) <= MaxInFlight

AdmissionInv ==
  /\ TypeOK
  /\ ServiceBound
  /\ \A c \in Clients : client[c] = "away" => conn[c] = "none"
  /\ \A c \in Clients : conn[c] = "accepted" => loop = "permit"
  /\ \A c, d \in Clients : conn[c] = "accepted" /\ conn[d] = "accepted" => c = d
  /\ \A c \in Clients : conn[c] = "applying" <=> guard = c
  /\ loop = "stopped" => InService = {}

(***************************************************************************)
(* A live apply that waits for its turn gets it and finishes, even if      *)
(* every other client stalls in its request or never reads its response:   *)
(* nobody holds apply_lock while waiting for a client.                     *)
(***************************************************************************)
AppliesProceed ==
  \A c \in Clients :
     conn[c] = "locking" ~> conn[c] \notin {"locking", "applying"}

(***************************************************************************)
(* If all clients behave, every connection is answered unless the server   *)
(* stops: permits, apply_lock and the loop never wait for one another.     *)
(***************************************************************************)
EachAnswered ==
  Courteous =>
    \A c \in Clients : conn[c] = "backlog" ~> conn[c] \in {"closed", "dropped"}

(***************************************************************************)
(* "SIGINT stops the accept loop and closes the local task set cleanly",   *)
(* says docs/server.md.                                                    *)
(***************************************************************************)
InterruptStops == signal ~> loop = "stopped"

=============================================================================
