------------------------------- MODULE Plans -------------------------------
(***************************************************************************)
(* Catalogs and plans as dpm apply and dpm-server see them: diff           *)
(* (src/diff.rs) down to what it means for the catalog.                    *)
(*                                                                         *)
(* A catalog is the set of objects it holds.  Values are labels of enum    *)
(* types, each of a type of its own: the script adds them before its       *)
(* transaction, one statement each, and only reports the ones to remove.   *)
(* Other objects are created and dropped inside the transaction.           *)
(***************************************************************************)
CONSTANTS Objects, Values    \* what a catalog may hold, and its enum labels

PlanSpace == [add: SUBSET Values, create: SUBSET (Objects \ Values),
              drop: SUBSET (Objects \ Values), manual: SUBSET Values]

Plan(s, t) == [add    |-> (s \ t) \cap Values,
               create |-> (s \ t) \ Values,
               drop   |-> (t \ s) \ Values,
               manual |-> (t \ s) \cap Values]

=============================================================================
