------------------------------ MODULE Commands ------------------------------
(***************************************************************************)
(* The four commands of src/main.rs that use the procedures of Rehearsal,  *)
(* from their first await to their exit code, and what holds of them.      *)
(*                                                                         *)
(* Of `dpm apply` this module follows the databases, checks and reviews;   *)
(* the interleaving with other migrators is ApplyCommand's.                *)
(***************************************************************************)
EXTENDS Rehearsal

(* Every command starts with load_sides; verify needs a shadow server, and *)
(* apply a live target.                                                    *)
Start ==
  /\ \E c \in Commands : At(c, "start")
  /\ IF \/ call.command = "cmd_verify" /\ ~call.shadow
        \/ call.command = "cmd_apply" /\ call.sides["target"] # "url"
     THEN Exit("error") /\ UNCHANGED result
     ELSE Invoke("load", "sides", "loaded") /\ UNCHANGED <<lease, exit>>
  /\ UNCHANGED <<call, shadows, converged, reports, reviews>>

(* `?` in a command: main prints the error and exits with 1. *)
Fail ==
  /\ Len(stack) = 1 /\ result \notin {"none", "ok"}
  /\ Exit("error")
  /\ UNCHANGED <<call, result, shadows, converged, reports, reviews>>

Reached(command, place) == At(command, place) /\ result = "ok"

Decide(code) ==
  /\ Exit(code)
  /\ UNCHANGED <<call, result, shadows, converged, reports, reviews>>

AskReviewer(about, place) ==
  /\ Invoke("ai", about, place)
  /\ UNCHANGED <<call, shadows, found, exit>>

Rejected(about) ==
  about \in DOMAIN reviews /\ ~reviews[about].approved /\ call.strict

AllAgreed == \A t \in DOMAIN reports : reports[t].agreed

\* Mutant: what the checkers said does not count.
VerdictOfDiff == IF converged THEN "0" ELSE "3"

(* Ok, or 3 when the databases or the checkers disagree. *)
Verdict == IF converged /\ AllAgreed THEN "0" ELSE "3"

-----------------------------------------------------------------------------
(* cmd_diff and cmd_review.  With --fail-on-diff a difference is exit 2;   *)
(* review always asks, diff if told to.  Writing the migration may fail.   *)

Rendered ==
  \E c \in {"cmd_diff", "cmd_review"} :
    /\ Reached(c, "loaded")
    /\ \/ Decide("error")
       \/ IF call.review \/ c = "cmd_review" THEN AskReviewer("review", "reviewed")
          ELSE \E code \in {"0", "2"} : Decide(code)

Reviewed ==
  \E c \in {"cmd_diff", "cmd_review"} :
    /\ Reached(c, "reviewed")
    /\ IF Rejected("review") THEN Decide("4")
       ELSE \E code \in {"0", "2"} : (c = "cmd_review" => code = "0") /\ Decide(code)

-----------------------------------------------------------------------------
(* cmd_verify *)

(* The checkers know PostgreSQL only. *)
Verify ==
  /\ Reached("cmd_verify", "loaded")
  /\ IF call.flavors["source"] = "cockroach" /\ (AnyCheck \/ call.external)
     THEN Decide("error")
     ELSE /\ Invoke("verify", "sides", "verified")
          /\ UNCHANGED <<call, shadows, found, exit>>

(* The migration is written, which may fail; then the discrepancy scan of  *)
(* the reports, then the review of the migration.                          *)
Verified ==
  /\ Reached("cmd_verify", "verified")
  /\ \/ Decide("error")
     \/ IF call.scan THEN AskReviewer("scan", "scanned")
        ELSE Goto("scanned") /\ UNCHANGED <<call, result, shadows, found, exit>>

VerifyScanned ==
  /\ Reached("cmd_verify", "scanned")
  /\ IF call.review THEN AskReviewer("review", "reviewed")
     ELSE Goto("reviewed") /\ UNCHANGED <<call, result, shadows, found, exit>>

VerifyReviewed ==
  /\ Reached("cmd_verify", "reviewed")
  /\ Decide(IF Rejected("scan") \/ Rejected("review") THEN "4" ELSE Verdict)

-----------------------------------------------------------------------------
(* cmd_apply, before the lease *)

(* Refused for the checkers' sake, nothing to do, or not approved: neither *)
(* the pinned checksum nor the consents are looked into here.              *)
Plan ==
  /\ Reached("cmd_apply", "loaded")
  /\ \/ /\ call.flavors["source"] = "cockroach" /\ AnyCheck
        /\ Decide("error")
     \/ /\ call.flavors["source"] = "cockroach" => ~AnyCheck
        /\ \/ \E code \in {"0", "error"} : Decide(code)
           \/ IF call.review THEN AskReviewer("review", "reviewed")
              ELSE /\ Goto("reviewed")
                   /\ UNCHANGED <<call, result, shadows, found, exit>>

(* A rejection ends it.  Then the question is asked, unless --yes answers. *)
Confirm ==
  /\ Reached("cmd_apply", "reviewed")
  /\ IF Rejected("review") THEN Decide("4")
     ELSE /\ Goto(IF call.yes THEN "confirmed" ELSE "asked")
          /\ UNCHANGED <<call, result, shadows, found, exit>>

(* read_line waits for a person: who says yes, or anything else, or is     *)
(* gone with the terminal.                                                 *)
Answer ==
  /\ Reached("cmd_apply", "asked")
  /\ \/ \E code \in {"1", "error"} : Decide(code)
     \/ Goto("confirmed") /\ UNCHANGED <<call, result, shadows, found, exit>>

(* For PostgreSQL the lease, or none to be had, and both sides again.      *)
AcquireLease ==
  /\ Reached("cmd_apply", "confirmed")
  /\ \/ call.flavors["source"] = "postgres" /\ Decide("error")
     \/ /\ lease' = (call.flavors["source"] = "postgres")
        /\ IF lease' THEN Invoke("load", "sides", "refreshed")
           ELSE Goto("execute") /\ UNCHANGED result
        /\ UNCHANGED <<call, shadows, converged, reports, reviews, exit>>

(* Converged meanwhile, changed meanwhile, or as reviewed. *)
Refreshed ==
  /\ Reached("cmd_apply", "refreshed")
  /\ \/ \E code \in {"0", "error"} : Decide(code)
     \/ Goto("execute") /\ UNCHANGED <<call, result, shadows, found, exit>>

-----------------------------------------------------------------------------
(* cmd_apply, from the execution on *)

(* The script and the introspection after it, either of which may fail.    *)
Execute ==
  /\ Reached("cmd_apply", "execute")
  /\ \/ Decide("error")
     \/ /\ IF call.shadow THEN Invoke("canonicalize", "target", "residual")
           ELSE Goto("residual") /\ UNCHANGED result
        /\ UNCHANGED <<call, shadows, found, exit>>

(* The convergence check, then what the checks compare the target with.    *)
Residual ==
  /\ Reached("cmd_apply", "residual")
  /\ converged' \in BOOLEAN
  /\ IF ~AnyCheck THEN Goto("release") /\ UNCHANGED result
     ELSE IF call.sides["source"] = "url" THEN Invoke("checks", "target", "checked")
     ELSE IF call.shadow THEN Invoke("materialize", "source_replica", "compare")
     ELSE Goto("release") /\ UNCHANGED result   \* skipped, with a note
  /\ UNCHANGED <<call, shadows, reports, reviews, lease, exit>>

Compared ==
  /\ Reached("cmd_apply", "compare")
  /\ Invoke("checks", "target", "checked")
  /\ UNCHANGED <<call, shadows, found, exit>>

(* The source replica is still there while the scan runs; an error of the  *)
(* scan is Fail's, and the replica is forgotten.                           *)
Checked ==
  /\ Reached("cmd_apply", "checked")
  /\ IF call.scan THEN AskReviewer("scan", "scanned")
     ELSE Goto("scanned") /\ UNCHANGED <<call, result, shadows, found, exit>>

Scanned ==
  /\ Reached("cmd_apply", "scanned")
  /\ IF Head(stack).owns = {} THEN Goto("release") /\ UNCHANGED shadows
     ELSE Dispose("source_replica", FALSE) /\ Disown("source_replica", "release")
  /\ UNCHANGED <<call, result, found, exit>>

(* Released last, so that the evidence is of one execution epoch. *)
Release ==
  /\ Reached("cmd_apply", "release")
  /\ \/ lease /\ Decide("error")
     \/ Decide(IF Rejected("scan") THEN "4" ELSE Verdict)

-----------------------------------------------------------------------------

Own ==
  \/ Start \/ Fail
  \/ Resolve \/ Resolved \/ LoadSource \/ LoadTarget \/ Compare \/ Loaded
  \/ Canonicalize \/ Canonicalized
  \/ Materialize \/ Bootstrap \/ Materialized
  \/ VerifyStart \/ VerifyCreate \/ VerifyRun \/ VerifyEnd
  \/ RehearseBootstrap \/ RehearseMigrate \/ Rediff \/ Comparable
  \/ FlywayReplica \/ FlywayStart \/ ExternalStart \/ RehearseEnd
  \/ StartTool
  \/ Ask \/ CallProvider
  \/ Rendered \/ Reviewed
  \/ Verify \/ Verified \/ VerifyScanned \/ VerifyReviewed
  \/ Plan \/ Confirm \/ AcquireLease \/ Refreshed \/ Execute \/ Residual \/ Compared
  \/ Checked \/ Scanned \/ Release

(* What the spawned tools do, in their own time. *)
Spawned == ToolExits \/ FlywayExits \/ ExternalExits \/ ReviewerExits

Next == Own \/ Spawned \/ Answer

(* Servers answer and the HTTP client has a timeout, so dpm's own steps    *)
(* are taken; nothing makes a spawned tool exit, or a person answer.       *)
Spec == Init /\ [][Next]_vars /\ WF_vars(Own)

-----------------------------------------------------------------------------
Waiting(proc) == stack # <<>> /\ Head(stack).proc = proc
                 /\ Head(stack).at \in {"waits", "flying", "outside"}

Caller == stack[2].proc

(* A database of the shadow server is, at any moment, in the hands of one  *)
(* procedure that will drop it, or kept as --keep-shadow asked, or the     *)
(* server refused to drop it.  There are four ways to forget one: the      *)
(* answer of its CREATE DATABASE is lost (source.rs:131), its URL cannot   *)
(* be written (source.rs:139), the external checker cannot be spawned      *)
(* (verify.rs:414), the discrepancy scan of `apply` fails (main.rs:725).   *)
Forgotten(s) ==
  \/ s.role = "orphan"
  \/ /\ s.role = "source_replica"
     /\ \/ call.command = "cmd_verify" /\ result = "external"
        \/ call.command = "cmd_apply" /\ result = "ai"

Holders(role) == {i \in DOMAIN stack : role \in stack[i].owns}

NothingForgotten ==
  /\ TypeOK
  /\ \A s \in shadows :
       \/ s.fate = "open" /\ (Cardinality(Holders(s.role)) = 1 \/ Forgotten(s))
       \/ s.fate = "kept" /\ call.keep /\ s.role \notin {"scratch", "flyway_replica"}
       \/ s.fate = "undropped"
  /\ \A i \in DOMAIN stack : \A role \in stack[i].owns :
       \E s \in shadows : s.role = role /\ s.fate = "open"

(* Exit 0 of verify: the migration made a faithful replica of the target   *)
(* equal to the source, every checker asked for by name has run to a       *)
(* successful end, and so has every installed one if all were asked for.   *)
VerifiedMeans ==
  (call.command = "cmd_verify" /\ exit = "0") =>
    /\ converged
    /\ \A t \in Tools : Wanted(t) => (t \in DOMAIN reports /\ reports[t].success)
    /\ \A t \in DOMAIN reports : reports[t].agreed
    /\ call.external => "external" \in DOMAIN reports

(* A migrated target is left with exit 0 although a check was asked for    *)
(* and not made, only if it is flyway (verify's) or there is no live       *)
(* source and no shadow server to make one on.                             *)
ChecksAreSkippedKnowingly ==
  (call.command = "cmd_apply" /\ exit = "0" /\ converged) =>
    \A t \in call.checks \ {"flyway"} :
      \/ t \in DOMAIN reports /\ reports[t].agreed
      \/ call.sides["source"] # "url" /\ ~call.shadow

(* What exit 0 lets the caller conclude, from either command that checks.  *)
ExitZeroMeans == VerifiedMeans /\ ChecksAreSkippedKnowingly

(* A running checker looks at what it is meant to judge: the migrated      *)
(* replica (the target itself for apply) and the source or its faithful    *)
(* replica, both of which outlive it; flyway at a fresh copy of the target *)
(* and not at the database the migration has been applied to.              *)
Exists(role, contents) ==
  \E s \in shadows : s.role = role /\ s.fate = "open" /\ s.holds \in contents

CheckersSeeTheSides ==
  /\ (Waiting("checks") \/ (Waiting("rehearse") /\ Head(stack).at = "outside")) =>
       /\ call.sides["source"] # "url" => Exists("source_replica", {"source"})
       /\ (Waiting("rehearse") \/ Caller = "rehearse") =>
            Exists("replica", IF converged THEN {"source"} ELSE {"other"})
  /\ (Waiting("rehearse") /\ Head(stack).at = "flying") =>
       Exists("flyway_replica", {"target"})

(* A replica is migrated only when it has reproduced the target, and one   *)
(* that reproduces a catalog for a checker is never written again by dpm:  *)
(* what it holds changes from nothing, or from the target to what the      *)
(* migration under test makes of it.                                       *)
OnlyFaithfulReplicas ==
  [][\A s \in shadows, t \in shadows' :
       (s.role = t.role /\ {s.fate, t.fate} = {"open"} /\ s.holds # t.holds) =>
         \/ s.holds = "nothing"
         \/ s.role = "replica" /\ s.holds = "target"]_vars

(* With --ai-strict a command that asked the reviewer exits with 0, or     *)
(* writes to the target, only after a reviewer that ended well and whose   *)
(* last verdict line approves: no answer is a rejection.                   *)
ApprovedIn(about) ==
  /\ about \in DOMAIN reviews
  /\ reviews[about].well
  /\ \E i \in DOMAIN reviews[about].said :
       /\ reviews[about].said[i] = "approve"
       /\ \A j \in DOMAIN reviews[about].said :
            j > i => reviews[about].said[j] = "chatter"

Writing == stack # <<>> /\ Last(stack).proc = "cmd_apply"
           /\ Last(stack).at \in {"execute", "residual", "compare", "checked",
                                  "scanned", "release"}

FailsClosed ==
  /\ (call.strict /\ call.review /\ Writing) => ApprovedIn("review")
  /\ (call.strict /\ exit = "0") =>
       /\ call.review /\ call.command \in {"cmd_diff", "cmd_verify"} =>
            ApprovedIn("review")
       /\ call.command = "cmd_review" => ApprovedIn("review")
       /\ call.scan /\ call.command = "cmd_verify" => ApprovedIn("scan")
       /\ "scan" \in DOMAIN reviews => ApprovedIn("scan")

(* Agreement is silence about everything but by-design differences: under  *)
(* every liquibase category that counts there is no object, unless it is a *)
(* changed column with changes, all of its ordinal.  atlas and             *)
(* pg-schema-diff are believed when anything they print says that nothing  *)
(* is to be done, even next to a difference (crosscheck.rs:481, 554).      *)
Category(said, i) ==
  LET at == SelectLastInSubSeq(said, 1, i, LAMBDA l : l \in
              {"equal", "text", "missing", "changed"})
  IN  IF at = 0 THEN "text" ELSE said[at]

DetailsOf(said, i) ==
  LET next == SelectInSubSeq(said, i + 1, Len(said), LAMBDA l : l \notin
                {"order", "detail"})
  IN  {said[j] : j \in (i + 1)..(IF next = 0 THEN Len(said) ELSE next - 1)}

AgreementIsSilence ==
  \A t \in DOMAIN reports : reports[t].agreed =>
    LET said == reports[t].printed
    IN  \A i \in DOMAIN said :
          /\ said[i] = "difference" =>
               (t \in {"atlas", "pg_schema_diff"} /\ Contains(said, "synced"))
          /\ (said[i] = "object" /\ Category(said, i) \in {"missing", "changed"}) =>
               (Category(said, i) = "changed" /\ DetailsOf(said, i) = {"order"})

(* From the first checker to the scan of their reports the lease is held:  *)
(* the evidence is about one execution epoch.                              *)
LeaseCoversEvidence ==
  (Writing /\ call.flavors["source"] = "postgres") => lease

(* The reports are evidence about this migration: made on databases that   *)
(* hold what they should, that nobody changes meanwhile, under the lease.  *)
EvidenceIsGenuine == [](CheckersSeeTheSides /\ LeaseCoversEvidence) /\ OnlyFaithfulReplicas

(* A command ends, and gives the lease back, unless a spawned tool never   *)
(* exits or the question is never answered; and whoever keeps the question *)
(* open keeps no lease from the other migrators.                           *)
Hangs == Waiting("checks") \/ Waiting("rehearse") \/ Waiting("ai")

LeftAsking == At("cmd_apply", "asked") /\ ~lease

EndsUnlessLeftWaiting ==
  <>(exit # "running" /\ ~lease) \/ <>[]Hangs \/ <>[]LeftAsking

=============================================================================
