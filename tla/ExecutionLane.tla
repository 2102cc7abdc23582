---------------------------- MODULE ExecutionLane ----------------------------
(***************************************************************************)
(* What the migration lease promises, without PostgreSQL: one lane per     *)
(* database, entered by one migrator at a time and by each migrator once,  *)
(* and only the migrator in the lane adds to the database's durable work.  *)
(* An entry of the journal is <<m, i>>: statement i of m became durable.   *)
(* So what lies between two entries of one migrator is that migrator's.    *)
(***************************************************************************)
EXTENDS Naturals, Sequences

CONSTANTS Migrators, Nobody    \* Nobody is no migrator

VARIABLES
  owner,     \* the migrator in the lane, or Nobody
  spent,     \* the migrators that entered the lane or gave up trying
  journal    \* the durable work of all migrators, in commit order

vars == <<owner, spent, journal>>

Init ==
  /\ owner = Nobody
  /\ spent = {}
  /\ journal = << >>

Enter(m) ==
  /\ owner = Nobody
  /\ m \notin spent
  /\ owner' = m
  /\ spent' = spent \cup {m}
  /\ UNCHANGED journal

Withdraw(m) ==
  /\ m \notin spent
  /\ spent' = spent \cup {m}
  /\ UNCHANGED <<owner, journal>>

(* m's statements become durable together: one of them, or a transaction.  *)
Write(m) ==
  /\ owner = m
  /\ Len(journal') > Len(journal)
  /\ SubSeq(journal', 1, Len(journal)) = journal
  /\ \A i \in (Len(journal) + 1)..Len(journal') : journal'[i][1] = m
  /\ UNCHANGED <<owner, spent>>

Leave ==
  /\ owner # Nobody
  /\ owner' = Nobody
  /\ UNCHANGED <<spent, journal>>

Next ==
  \/ \E m \in Migrators : Enter(m) \/ Withdraw(m) \/ Write(m)
  \/ Leave

Spec == Init /\ [][Next]_vars

=============================================================================
