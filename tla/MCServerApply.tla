--------------------------- MODULE MCServerApply ---------------------------
(***************************************************************************)
(* Two requests over an enum label and two tables; the schemas make plans  *)
(* that add, create and drop, alone or together, and plans with a label to *)
(* remove, which the server refuses.                                       *)
(***************************************************************************)
EXTENDS ServerApply

MCObjects == {"label", "old", "new"}
MCValues == {"label"}
MCCatalogs == {{"old"}, {"new"}, {"label", "new"}}

(* PostgreSQL, where everybody takes the lease, and CockroachDB.           *)
MCServers == {[leased |-> TRUE, outside |-> FALSE],
              [leased |-> FALSE, outside |-> TRUE]}

=============================================================================
