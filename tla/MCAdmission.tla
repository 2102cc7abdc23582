---------------------------- MODULE MCAdmission ----------------------------
(***************************************************************************)
(* Three clients for two permits: two can stall, or queue for apply_lock,  *)
(* while the loop has the third in its hands.                              *)
(***************************************************************************)
EXTENDS Admission

=============================================================================
