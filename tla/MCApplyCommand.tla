--------------------------- MODULE MCApplyCommand ---------------------------
(***************************************************************************)
(* Two runs over an enum label and two tables.  The deployed schemas make  *)
(* every kind of plan: labels to add and to report, tables to create and   *)
(* to drop, both at once.                                                  *)
(***************************************************************************)
EXTENDS ApplyCommand, TLC

MCObjects == {"label", "old", "new"}
MCValues == {"label"}
MCCatalogs == {{"old"}, {"new"}, {"label", "new"}}
(* PostgreSQL, where everybody takes the lease, and CockroachDB.           *)
MCServers == {[leased |-> TRUE, outside |-> FALSE],
              [leased |-> FALSE, outside |-> TRUE]}
MCConsents == [sql: BOOLEAN, ops: BOOLEAN]

(* For the leads-to properties: every kind of change, one policy. *)
LiveCatalogs == {{"old"}, {"label", "new"}}
LiveServers == {[leased |-> TRUE, outside |-> FALSE]}
LiveConsents == {[sql |-> TRUE, ops |-> TRUE]}

RunSymmetry == Permutations(Runs)

=============================================================================
