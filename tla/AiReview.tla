------------------------------ MODULE AiReview ------------------------------
(***************************************************************************)
(* How dpm asks a reviewer and reads its answer (src/ai.rs): which         *)
(* transport is used, how often a call is repeated, and what a transcript  *)
(* says.  A transcript is the sequence of its lines, each of them          *)
(* "approve" or "reject" (a DPM_VERDICT line) or "chatter".                *)
(***************************************************************************)
EXTENDS Integers, Sequences, SequencesExt

(* One retry on transient failures. *)
MaxAttempts == 2

(* What one HTTP call comes to when the provider gives no answer: no       *)
(* connection (or 300 s without an answer), status 429 or 5xx, another     *)
(* status, a body that is not JSON.                                        *)
CallErrors == {"unreachable", "busy", "denied", "unparsable"}

(* The body is parsed before the status is looked at, so a gateway's 503   *)
(* in HTML is "unparsable", which is not transient.                        *)
Transient(error) == error \in {"unreachable", "busy"}

(* api is refused when there is no key to use it with. *)
TransportRefused(transport, key, custom) ==
  transport = "api" /\ ~key /\ ~custom

UsesApi(transport, key, custom) ==
  transport # "cli" /\ key /\ ~custom

\* Mutant: the first verdict line counts.
FirstVerdict(said) ==
  LET at == SelectInSeq(said, LAMBDA line : line # "chatter")
  IN  IF at = 0 THEN "none" ELSE said[at]

(* The last verdict line, "none" if there is none. *)
ParseVerdict(said) ==
  LET at == SelectLastInSeq(said, LAMBDA line : line # "chatter")
  IN  IF at = 0 THEN "none" ELSE said[at]

(* A reviewer that did not end well (a refusal, a nonzero exit) has not    *)
(* approved, whatever it wrote.                                            *)
Outcome(well, said) ==
  [approved |-> well /\ ParseVerdict(said) = "approve",
   well |-> well, said |-> said]

=============================================================================
