---------------------------- MODULE CrossChecks ----------------------------
(***************************************************************************)
(* How the answers of the independent schema tools are judged              *)
(* (src/crosscheck.rs).  What a tool printed is the sequence of its lines. *)
(*                                                                         *)
(* For every tool but liquibase a line is a "difference", a "comment", a   *)
(* "setting" (SET of a dump), or it says that the schemas are "synced".    *)
(* For liquibase, the only tool whose objects are told by indentation, a   *)
(* line is of one of the LiquibaseLines kinds.                             *)
(***************************************************************************)
EXTENDS Integers, Sequences, SequencesExt, Folds

(* In the order they are run. *)
DiffTools == <<"migra", "pgdiff", "atlas", "pg_schema_diff", "liquibase",
               "apgdiff">>

Tools == ToSet(DiffTools) \cup {"flyway"}

LiquibaseLines ==
  {"equal",     \* a category that ends in NONE or EQUAL, or Changed Catalog(s)
   "missing",   \* Missing or Unexpected <object>(s):
   "changed",   \* Changed Column(s):
   "object",    \* indented once: an object of the category
   "order",     \* indented twice: order changed from 'm' to 'n'
   "detail",    \* indented twice: any other change
   "text"}      \* anything else, not indented

PlainLines == {"difference", "comment", "setting", "synced"}

LinesOf(tool) == IF tool = "liquibase" THEN LiquibaseLines ELSE PlainLines

-----------------------------------------------------------------------------
(* liquibase_violations: a fold over the lines.  The category in force is  *)
(* "none" when nothing under it counts; the open entry collects details.   *)

Closed == [category |-> "none", open |-> FALSE, details |-> {}, found |-> 0]

\* Mutant: one ordinal among the changes of a column excuses them all.
ExcusesAny(s) == s.category = "changed" /\ "order" \in s.details

(* Ordinal drift is by design: the entry has details, all about order.     *)
Excused(s) == s.category = "changed" /\ s.details = {"order"}

Flush(s) ==
  [s EXCEPT !.open = FALSE, !.details = {},
            !.found = IF s.open /\ ~Excused(s) THEN @ + 1 ELSE @]

Read(s, line) ==
  CASE line \in {"equal", "text"} -> [Flush(s) EXCEPT !.category = "none"]
    [] line \in {"missing", "changed"} -> [Flush(s) EXCEPT !.category = line]
    [] line = "object" /\ s.category # "none" -> [Flush(s) EXCEPT !.open = TRUE]
    [] line \in {"order", "detail"} /\ s.open ->
         [s EXCEPT !.details = @ \cup {line}]
    [] OTHER -> s

Violations(printed) == Flush(FoldLeft(Read, Closed, printed)).found

-----------------------------------------------------------------------------
(* Each tool's agreement contract.  migra prints nothing but SQL; pgdiff   *)
(* (once per aspect) and apgdiff have their comments and settings filtered *)
(* out; atlas and pg-schema-diff say that nothing is to be done, and any   *)
(* output that says so will do; flyway is judged by its exit status alone. *)

MigraAgrees(success, printed) == success /\ printed = <<>>

PgdiffAgrees(success, printed) ==
  success /\ \A i \in DOMAIN printed : printed[i] = "comment"

AtlasAgrees(success, printed) ==
  success /\ (printed = <<>> \/ Contains(printed, "synced"))

PgSchemaDiffAgrees(success, printed) ==
  success /\ (printed = <<>> \/ Contains(printed, "synced"))

LiquibaseAgrees(success, printed) == success /\ Violations(printed) = 0

ApgdiffAgrees(success, printed) ==
  success /\ \A i \in DOMAIN printed : printed[i] \in {"comment", "setting"}

FlywayAgrees(success) == success

(* The command of --external-check: as migra. *)
ExternalAgrees(success, printed) == success /\ printed = <<>>

Agrees(tool, success, printed) ==
  CASE tool = "migra"          -> MigraAgrees(success, printed)
    [] tool = "pgdiff"         -> PgdiffAgrees(success, printed)
    [] tool = "atlas"          -> AtlasAgrees(success, printed)
    [] tool = "pg_schema_diff" -> PgSchemaDiffAgrees(success, printed)
    [] tool = "liquibase"      -> LiquibaseAgrees(success, printed)
    [] tool = "apgdiff"        -> ApgdiffAgrees(success, printed)
    [] tool = "flyway"         -> FlywayAgrees(success)
    [] tool = "external"       -> ExternalAgrees(success, printed)

Report(tool, success, printed) ==
  [agreed |-> Agrees(tool, success, printed), success |-> success,
   printed |-> printed]

(* Missing, not prepared, or not started: reported, and not agreement.     *)
Failed == [agreed |-> FALSE, success |-> FALSE, printed |-> <<>>]

=============================================================================
