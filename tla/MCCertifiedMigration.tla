----------------------- MODULE MCCertifiedMigration -----------------------
(***************************************************************************)
(* Two migrations and two owners.  The first plan is any of up to three    *)
(* different changes, chosen so that every kind of borrow and conflict     *)
(* occurs; the second one is short.                                        *)
(***************************************************************************)
EXTENDS CertifiedMigration, TLC

CONSTANTS m1, m2, o1, o2

Change(op, on) == [op |-> op, on |-> on]

Sequence == Change("create_sequence", <<"sequence", "a", "s">>)

\* Changes of two schemas: exact objects, two subtrees, a definition that
\* reads the whole database and one that takes it.
MCChanges ==
    { Change("create_schema", <<"schema", "b">>),
      Change("create_enum", <<"enum", "b", "e">>),
      Change("enable_rls", <<"table", "a", "t">>),
      Change("create_view", <<"view", "a", "v">>),
      Change("create_extension", <<"extension", "a", "x">>),
      Sequence }

Sequences(S, n) == {f \in [1..n -> S] : \A i, j \in 1..n : i # j => f[i] # f[j]}

MCPlansOf ==
    m1 :> UNION {Sequences(MCChanges \ {Sequence}, n) : n \in 0..3}
      @@ m2 :> {<<Sequence>>}

Alike == Permutations({o1, o2})
=============================================================================
