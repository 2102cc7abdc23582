----------------------------- MODULE Rehearsal ------------------------------
(***************************************************************************)
(* The commands of src/main.rs around the throwaway databases they create  *)
(* on the shadow server (src/source.rs): loading .sql sides, canonical     *)
(* definitions (src/canonicalize.rs), the rehearsal of a migration on a    *)
(* replica (src/verify.rs), the cross-checkers (src/crosscheck.rs) and the *)
(* reviewer (src/ai.rs).                                                   *)
(*                                                                         *)
(* A command is a stack of procedure calls.  A frame stands at one of the  *)
(* awaits of its procedure and owns ShadowDb values: nothing but the code  *)
(* of the procedure drops the database of a value (there is no Drop).      *)
(* Everything may fail; a hang of a spawned tool is a ToolExits that is    *)
(* never taken.  What a database holds is the catalog it reproduces.       *)
(***************************************************************************)
EXTENDS AiReview, CrossChecks, FiniteSets, Functions

CONSTANTS
  Calls,           \* the invocations: records as CallOK says
  Transcripts,     \* what a reviewer may write
  Printed(_),      \* what a tool may print
  MaxUndropped     \* databases the server may refuse to drop

VARIABLES
  call,        \* the invocation: its sides, flags and environment
  stack,       \* frames, the innermost first
  result,      \* of the procedure that returned last
  shadows,     \* databases on the shadow server: [role, holds, fate]
  converged,   \* the re-diff was empty
  reports,     \* check reports, by tool
  reviews,     \* outcomes of "review" and "scan"
  lease,       \* the migration lease is held
  exit         \* the exit code, or "running"

vars == <<call, stack, result, shadows, converged, reports, reviews, lease, exit>>
found == <<converged, reports, reviews, lease>>

Commands == {"cmd_diff", "cmd_review", "cmd_verify", "cmd_apply"}
Sides == {"source", "target"}
Replicas == {"replica", "source_replica", "flyway_replica"}
Roles == Sides \cup Replicas \cup {"scratch", "orphan"}
Procedures == Commands \cup
  {"resolve", "load", "canonicalize", "materialize", "verify", "rehearse",
   "checks", "ai"}

CallOK(c) ==
  /\ c.command \in Commands
  /\ c.sides \in [Sides -> {"url", "json", "sql"}]
  /\ c.flavors \in [Sides \cup {"shadow"} -> {"postgres", "cockroach"}]
  /\ {c.bootstrap, c.shadow, c.rewritable, c.work, c.keep, c.all, c.external,
      c.review, c.scan, c.strict, c.key, c.custom, c.yes} \subseteq BOOLEAN
  /\ c.bootstrap => c.command = "cmd_diff"
  \* Dumps made by hand: they record no server_version_num.
  /\ c.unversioned \subseteq {side \in Sides : c.sides[side] = "json"}
  /\ c.checks \subseteq Tools /\ c.installed \subseteq Tools
  /\ c.transport \in {"auto", "api", "cli"}

ASSUME CallsAssumption == \A c \in Calls : CallOK(c)
ASSUME TranscriptsAssumption == Transcripts \subseteq Seq({"approve", "reject", "chatter"})
ASSUME PrintedAssumption ==
  \A tool \in Tools \cup {"external"} : Printed(tool) \subseteq Seq(LinesOf(tool))

Frame(proc, about) ==
  [proc |-> proc, about |-> about, at |-> "start", owns |-> {}, tries |-> 1]

Results == {"none", "ok", "failed", "ai", "external"}
Exits == {"running", "0", "1", "2", "3", "4", "error"}

TypeOK ==
  /\ call \in Calls
  /\ \A i \in DOMAIN stack :
       stack[i].proc \in Procedures /\ stack[i].owns \subseteq Roles
  /\ (stack = <<>>) <=> (exit # "running")
  /\ result \in Results
  /\ shadows \subseteq
       [role : Roles, holds : {"nothing", "source", "target", "other", "partial"},
        fate : {"open", "kept", "undropped"}]
  /\ converged \in BOOLEAN /\ lease \in BOOLEAN
  /\ DOMAIN reports \subseteq Tools \cup {"external", "source-replica"}
  /\ DOMAIN reviews \subseteq {"review", "scan"}
  /\ exit \in Exits

Init ==
  /\ call \in Calls
  /\ stack = <<Frame(call.command, "all")>>
  /\ result = "none"
  /\ shadows = {}
  /\ converged = FALSE
  /\ reports = <<>> /\ reviews = <<>>
  /\ lease = FALSE
  /\ exit = "running"

-----------------------------------------------------------------------------
(* Calls and returns *)

At(proc, place) ==
  stack # <<>> /\ Head(stack).proc = proc /\ Head(stack).at = place

Goto(place) == stack' = [stack EXCEPT ![1].at = place]

Invoke(proc, about, place) ==
  /\ stack' = <<Frame(proc, about)>> \o [stack EXCEPT ![1].at = place]
  /\ result' = "none"

Return(r) == stack' = Tail(stack) /\ result' = r

(* The value moves to the caller. *)
ReturnOwned ==
  /\ stack' = [Tail(stack) EXCEPT ![1].owns = @ \cup Head(stack).owns]
  /\ result' = "ok"

(* Whatever the process still owns, its sessions end with it. *)
Exit(code) ==
  /\ exit' = code
  /\ stack' = <<>>
  /\ lease' = FALSE

-----------------------------------------------------------------------------
(* ShadowDb *)

Open(role) == [role |-> role, holds |-> "nothing", fate |-> "open"]

Live(role) == CHOOSE s \in shadows : s.role = role /\ s.fate = "open"

(* ShadowDb::create: nothing is created; or the database is, and no value  *)
(* for it, when the answer of CREATE DATABASE is lost or the URL of the    *)
(* new database cannot be written; or both.                                *)
Create(role, place) ==
  \/ Return("failed") /\ UNCHANGED shadows
  \/ /\ shadows' = shadows \cup {Open("orphan")}
     /\ Return("failed")
  \/ /\ call.rewritable
     /\ shadows' = shadows \cup {Open(role)}
     /\ stack' = [stack EXCEPT ![1].at = place, ![1].owns = @ \cup {role}]
     /\ UNCHANGED result

Fill(role, holds) ==
  shadows' = (shadows \ {Live(role)}) \cup {[Live(role) EXCEPT !.holds = holds]}

(* into_kept, or drop_db: best effort, its failures are not reported.      *)
Dispose(role, keep) ==
  \/ ~keep /\ shadows' = shadows \ {Live(role)}
  \/ /\ keep \/ Cardinality({s \in shadows : s.fate = "undropped"}) < MaxUndropped
     /\ shadows' = (shadows \ {Live(role)}) \cup
          {[role |-> role, holds |-> "nothing",
            fate |-> IF keep THEN "kept" ELSE "undropped"]}

Disown(role, place) ==
  stack' = [stack EXCEPT ![1].at = place, ![1].owns = @ \ {role}]

-----------------------------------------------------------------------------
(* One more report or review: those there are stay. *)
Adding(table, key, entry) ==
  [k \in DOMAIN table \cup {key} |-> IF k \in DOMAIN table THEN table[k] ELSE entry]

-----------------------------------------------------------------------------
(* resolve and load_sides *)

Resolve ==
  /\ At("resolve", "start")
  /\ LET side == Head(stack).about
     IN  IF call.sides[side] = "sql" /\ call.shadow
         THEN Create(side, "filled")
         ELSE /\ \E r \in {"ok", "failed"} :
                   (call.sides[side] = "sql" => r = "failed") /\ Return(r)
              /\ UNCHANGED shadows
  /\ UNCHANGED <<call, found, exit>>

\* Mutant: an error in the schema file returns before the database is dropped.
ResolvedEarly ==
  /\ At("resolve", "filled")
  /\ \/ Return("failed") /\ UNCHANGED shadows
     \/ Dispose(Head(stack).about, call.keep) /\ Return("ok")
  /\ UNCHANGED <<call, found, exit>>

(* apply_sql and the introspection, and the disposal whatever came of it.  *)
Resolved ==
  /\ At("resolve", "filled")
  /\ Dispose(Head(stack).about, call.keep)
  /\ \E r \in {"ok", "failed"} : Return(r)
  /\ UNCHANGED <<call, found, exit>>

(* Of two server families.  load_sides looks only when both catalogs       *)
(* record a server version; verify always does.                            *)
Mixed == ~call.bootstrap /\ call.flavors["source"] # call.flavors["target"]

LoadSource ==
  /\ At("load", "start")
  /\ Invoke("resolve", "source", "target")
  /\ UNCHANGED <<call, shadows, found, exit>>

LoadTarget ==
  /\ At("load", "target")
  /\ IF result # "ok" THEN Return(result)
     ELSE IF call.bootstrap THEN Goto("compare") /\ UNCHANGED result
     ELSE Invoke("resolve", "target", "compare")
  /\ UNCHANGED <<call, shadows, found, exit>>

Compare ==
  /\ At("load", "compare")
  /\ IF result # "ok" THEN Return(result)
     ELSE IF Mixed /\ call.unversioned = {} THEN Return("failed")
     ELSE IF call.shadow THEN Invoke("canonicalize", "sides", "loaded")
     ELSE Return("ok")
  /\ UNCHANGED <<call, shadows, found, exit>>

(* load_sides ends with what canonicalize_defs returned. *)
Loaded ==
  /\ At("load", "loaded")
  /\ Return(result)
  /\ UNCHANGED <<call, shadows, found, exit>>

-----------------------------------------------------------------------------
(* canonicalize_defs *)

(* The side whose catalog a database reproduces. *)
Subject(role) == IF role = "source_replica" THEN "source" ELSE "target"

(* The catalogs it is given: the two sides (an empty target is PostgreSQL  *)
(* by default), or what was read of a replica or of the migrated target.   *)
Given(about) ==
  IF about # "sides" THEN {Subject(about)}
  ELSE IF call.bootstrap THEN {"source"} ELSE Sides

(* Nothing to do without views, indexes, checks or generated columns, and  *)
(* nothing done for CockroachDB.                                           *)
Canonicalize ==
  /\ At("canonicalize", "start")
  /\ IF call.work /\ \A side \in Given(Head(stack).about) : call.flavors[side] = "postgres"
     THEN Create("scratch", "scratched")
     ELSE Return("ok") /\ UNCHANGED shadows
  /\ UNCHANGED <<call, found, exit>>

Canonicalized ==
  /\ At("canonicalize", "scratched")
  /\ Dispose("scratch", FALSE)
  /\ \E r \in {"ok", "failed"} :
       (call.flavors["shadow"] # "postgres" => r = "ok") /\ Return(r)
  /\ UNCHANGED <<call, found, exit>>

-----------------------------------------------------------------------------
(* materialize_catalog, and verify *)

Materialize ==
  /\ At("materialize", "start")
  /\ Create(Head(stack).about, "bootstrap")
  /\ UNCHANGED <<call, found, exit>>

WrongServer(role) == call.flavors["shadow"] # call.flavors[Subject(role)]

(* The wrong server family, or DDL that fails: dropped and reported.       *)
(* Otherwise the replica holds the catalog, or something else that only    *)
(* the comparison after canonicalization will tell.                        *)
Bootstrap ==
  /\ At("materialize", "bootstrap")
  /\ LET role == Head(stack).about
     IN  \/ Dispose(role, FALSE) /\ Return("failed")
         \/ /\ ~WrongServer(role)
            /\ \E holds \in {Subject(role), "other"} : Fill(role, holds)
            /\ Invoke("canonicalize", role, "sane")
  /\ UNCHANGED <<call, found, exit>>

Materialized ==
  /\ At("materialize", "sane")
  /\ LET role == Head(stack).about
     IN  IF result = "ok" /\ Live(role).holds = Subject(role)
         THEN ReturnOwned /\ UNCHANGED shadows
         ELSE Dispose(role, FALSE) /\ Return("failed")
  /\ UNCHANGED <<call, found, exit>>

VerifyStart ==
  /\ At("verify", "start")
  /\ IF Mixed THEN Return("failed") ELSE Invoke("canonicalize", "sides", "replica")
  /\ UNCHANGED <<call, shadows, found, exit>>

VerifyCreate ==
  /\ At("verify", "replica")
  /\ IF result # "ok" THEN Return(result) /\ UNCHANGED shadows
     ELSE Create("replica", "created")
  /\ UNCHANGED <<call, found, exit>>

VerifyRun ==
  /\ At("verify", "created")
  /\ IF WrongServer("replica")
     THEN Dispose("replica", FALSE) /\ Return("failed")
     ELSE Invoke("rehearse", "replica", "dispose") /\ UNCHANGED shadows
  /\ UNCHANGED <<call, found, exit>>

(* The outcome is returned after the replica is gone. *)
VerifyEnd ==
  /\ At("verify", "dispose")
  /\ Dispose("replica", call.keep)
  /\ Return(result)
  /\ UNCHANGED <<call, found, exit>>

-----------------------------------------------------------------------------
(* run_on_replica *)

RehearseBootstrap ==
  /\ At("rehearse", "start")
  /\ \/ Return("failed") /\ UNCHANGED shadows
     \/ /\ \E holds \in {"target", "other"} : Fill("replica", holds)
        /\ Invoke("canonicalize", "replica", "sane")
  /\ UNCHANGED <<call, found, exit>>

\* Mutant: the replica is not compared with the target first.
RehearseMigrateAnything ==
  /\ At("rehearse", "sane")
  /\ IF result # "ok"
     THEN Return("failed") /\ UNCHANGED shadows
     ELSE \/ Return("failed") /\ Fill("replica", "partial")
          \/ /\ \E holds \in {"source", "other"} : Fill("replica", holds)
             /\ Invoke("canonicalize", "replica", "rediff")
  /\ UNCHANGED <<call, found, exit>>

(* An unfaithful replica ends it; the migration may fail halfway, leave    *)
(* something different from the source, or converge.                       *)
RehearseMigrate ==
  /\ At("rehearse", "sane")
  /\ IF result # "ok" \/ Live("replica").holds # "target"
     THEN Return("failed") /\ UNCHANGED shadows
     ELSE \/ Return("failed") /\ Fill("replica", "partial")
          \/ /\ \E holds \in {"source", "other"} : Fill("replica", holds)
             /\ Invoke("canonicalize", "replica", "rediff")
  /\ UNCHANGED <<call, found, exit>>

AnyCheck == call.all \/ call.checks # {}

Rediff ==
  /\ At("rehearse", "rediff")
  /\ IF result # "ok" THEN Return(result) /\ UNCHANGED converged
     ELSE /\ converged' = (Live("replica").holds = "source")
          /\ IF ~AnyCheck /\ ~call.external THEN Return("ok")
             ELSE IF call.sides["source"] = "url"
                  THEN Invoke("checks", "replica", "checked")
                  ELSE Invoke("materialize", "source_replica", "comparable")
  /\ UNCHANGED <<call, shadows, reports, reviews, lease, exit>>

(* No source to compare with is a report, and no check is run. *)
Comparable ==
  /\ At("rehearse", "comparable")
  /\ IF result = "ok"
     THEN Invoke("checks", "replica", "checked") /\ UNCHANGED reports
     ELSE reports' = Adding(reports, "source-replica", Failed) /\ Return("ok")
  /\ UNCHANGED <<call, shadows, converged, reviews, lease, exit>>

Wanted(tool) ==
  tool \in call.checks \/ (call.all /\ tool \in call.installed)

(* flyway gets the script and a fresh replica of the original target.      *)
FlywayReplica ==
  /\ At("rehearse", "checked")
  /\ IF Wanted("flyway")
     THEN Invoke("materialize", "flyway_replica", "flyable")
     ELSE Goto("external") /\ UNCHANGED result
  /\ UNCHANGED <<call, shadows, found, exit>>

(* No replica for flyway, or no flyway: reported as not agreed. *)
FlywayStart ==
  /\ At("rehearse", "flyable")
  /\ \/ /\ result # "ok"
        /\ reports' = Adding(reports, "flyway", Failed)
        /\ Goto("external") /\ UNCHANGED shadows
     \/ /\ result = "ok"
        /\ reports' = Adding(reports, "flyway", Failed)
        /\ Dispose("flyway_replica", FALSE)
        /\ Disown("flyway_replica", "external")
     \/ /\ result = "ok" /\ "flyway" \in call.installed
        /\ Goto("flying") /\ UNCHANGED <<reports, shadows>>
  /\ UNCHANGED <<call, result, converged, reviews, lease, exit>>

FlywayExits ==
  /\ At("rehearse", "flying")
  /\ \E success \in BOOLEAN :
       reports' = Adding(reports, "flyway", Report("flyway", success, <<>>))
  /\ Dispose("flyway_replica", FALSE)
  /\ Disown("flyway_replica", "external")
  /\ UNCHANGED <<call, result, converged, reviews, lease, exit>>

(* A checker that cannot be spawned is an error of run_on_replica: `?`     *)
(* returns at once, and the source replica is forgotten.                   *)
ExternalStart ==
  /\ At("rehearse", "external")
  /\ \/ ~call.external /\ Goto("finish") /\ UNCHANGED result
     \/ call.external /\ Goto("outside") /\ UNCHANGED result
     \/ call.external /\ Return("external")
  /\ UNCHANGED <<call, shadows, found, exit>>

ExternalExits ==
  /\ At("rehearse", "outside")
  /\ \E success \in BOOLEAN, printed \in Printed("external") :
       reports' = Adding(reports, "external", Report("external", success, printed))
  /\ Goto("finish")
  /\ UNCHANGED <<call, result, shadows, converged, reviews, lease, exit>>

RehearseEnd ==
  /\ At("rehearse", "finish")
  /\ IF Head(stack).owns = {} THEN UNCHANGED shadows
     ELSE Dispose("source_replica", call.keep)
  /\ Return("ok")
  /\ UNCHANGED <<call, found, exit>>

-----------------------------------------------------------------------------
(* run_diff_checks: every wanted tool in turn *)

Pending ==
  {i \in DOMAIN DiffTools :
     Wanted(DiffTools[i]) /\ DiffTools[i] \notin DOMAIN reports}

NextTool == DiffTools[Min(Pending)]

(* A missing tool, or one that cannot be prepared (its URL cannot be       *)
(* parsed, pg_dump fails), is a report of its own.                         *)
StartTool ==
  /\ At("checks", "start")
  /\ IF Pending = {} THEN Return("ok") /\ UNCHANGED reports
     ELSE \/ reports' = Adding(reports, NextTool, Failed) /\ UNCHANGED <<stack, result>>
          \/ /\ NextTool \in call.installed
             /\ Goto("waits") /\ UNCHANGED <<result, reports>>
  /\ UNCHANGED <<call, shadows, converged, reviews, lease, exit>>

(* run_shell returns when the tool exits: there is no timeout. *)
ToolExits ==
  /\ At("checks", "waits")
  /\ \E success \in BOOLEAN, printed \in Printed(NextTool) :
       reports' = Adding(reports, NextTool, Report(NextTool, success, printed))
  /\ Goto("start")
  /\ UNCHANGED <<call, result, shadows, converged, reviews, lease, exit>>

-----------------------------------------------------------------------------
(* run_payload: Head(stack).about is "review" or "scan" *)

Answered(well, said) ==
  /\ reviews' = Adding(reviews, Head(stack).about, Outcome(well, said))
  /\ Return("ok")

Ask ==
  /\ At("ai", "start")
  /\ IF TransportRefused(call.transport, call.key, call.custom) THEN Return("ai")
     ELSE IF UsesApi(call.transport, call.key, call.custom)
     THEN Goto("calling") /\ UNCHANGED result
     ELSE \/ Return("ai")    \* the payload file, or the spawn, fails
          \/ Goto("waits") /\ UNCHANGED result
  /\ UNCHANGED <<call, shadows, found, exit>>

\* Mutant: the attempts are counted round and round.
RetryForever ==
  /\ At("ai", "calling")
  /\ \/ \E said \in Transcripts : Answered(TRUE, said)
     \/ /\ stack' = [stack EXCEPT ![1].tries = (@ % MaxAttempts) + 1]
        /\ UNCHANGED <<result, reviews>>
  /\ UNCHANGED <<call, shadows, converged, reports, lease, exit>>

(* One HTTP call: an answer, a refusal of the model, or an error, which    *)
(* is final unless it is transient and an attempt is left.                 *)
CallProvider ==
  /\ At("ai", "calling")
  /\ \/ \E said \in Transcripts : Answered(TRUE, said)
     \/ Answered(FALSE, <<>>)
     \/ \E error \in CallErrors :
          /\ IF Transient(error) /\ Head(stack).tries < MaxAttempts
             THEN /\ stack' = [stack EXCEPT ![1].tries = @ + 1]
                  /\ UNCHANGED result
             ELSE Return("ai")
          /\ UNCHANGED reviews
  /\ UNCHANGED <<call, shadows, converged, reports, lease, exit>>

(* run_review_cli waits for the reviewer without a timeout. *)
ReviewerExits ==
  /\ At("ai", "waits")
  /\ \E well \in BOOLEAN, said \in Transcripts : Answered(well, said)
  /\ UNCHANGED <<call, shadows, converged, reports, lease, exit>>

=============================================================================
