--------------------------- MODULE MCMigrationLease ---------------------------
(* Model values, scripts and symmetry for MigrationLease. *)
EXTENDS MigrationLease, TLC

(* emit.rs: enum additions outside the transaction, then one transaction.  *)
Emitted == <<"work", "begin", "work", "commit">>
Plain == <<"work", "work">>

(* Scripts that carry a hidden lease release, last, first and in between.  *)
UnlockLast == <<"work", "unlock">>
UnlockFirst == <<"unlock", "work">>
UnlockInTxn == <<"begin", "unlock", "work", "commit">>
SpelledOut == <<"work", "control">>

MCScripts == {Emitted, UnlockLast, UnlockFirst, UnlockInTxn, SpelledOut}
GeneratedScripts == {Emitted, Plain, << >>}

LeaseSymmetry == Permutations(Leases)

=============================================================================
