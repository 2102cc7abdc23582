----------------------------- MODULE SchemaEmit -----------------------------
(***************************************************************************)
(* src/emit.rs: a plan rendered as statements in fixed phases.  Within     *)
(* a phase the plan's order stays.  A statement is [do, on, with]: what it *)
(* does, to which object, with what; comments are left out, and with them  *)
(* every gated statement, which is only ever a comment.                    *)
(***************************************************************************)
EXTENDS SchemaDiff

Stmt(do, on, with) == [do |-> do, on |-> on, with |-> with]

Begin == Stmt("begin", <<>>, "none")
Commit == Stmt("commit", <<>>, "none")

One(id, value) == [i \in {id} |-> value]
DropStmt(id) == Stmt("drop", id, "none")
Set(id, facet, value) == Stmt("set", id, [facet |-> facet, value |-> value])

\* serial_sequence_qname
SerialSeq(col) == <<"sequence", col[2], col[3] \o "_" \o col[4] \o "_seq">>

-----------------------------------------------------------------------------
(***************************************************************************)
(* The phase a change is emitted in; the numbers keep the order of the     *)
(* passes over the plan, not the header's numbering.                       *)
(***************************************************************************)
\* Mutant: constraints are dropped in the plan's order.
OneDropPhase(c) == 8

\* Foreign keys go before the keys they refer to.
ConstraintDropPhase(c) == IF c.to = "foreign" THEN 7 ELSE 8

IsFk(c) == c.op = "add_constraint" /\ c.to.kind = "foreign"

PhaseOf(c) ==
    CASE c.op = "add_enum_value"                       -> 0
      [] c.op \in {"create_schema", "create_extension", "move_extension",
                   "create_enum", "enum_needs_rebuild"} -> 2
      [] c.op = "drop_trigger"                         -> 3
      [] c.op = "drop_function" /\ c.replaced          -> 4
      [] c.op = "drop_policy"                          -> 5
      [] c.op = "drop_view"                            -> 6
      [] c.op = "drop_constraint"                      -> ConstraintDropPhase(c)
      [] c.op = "drop_index"                           -> 9
      [] c.op \in {"create_sequence", "alter_sequence"} -> 10
      [] c.op = "create_table"                         -> 11
      [] c.op \in {"add_column", "alter_column_type", "set_not_null",
                   "drop_not_null", "set_column_visibility", "set_default",
                   "drop_default", "make_serial", "drop_serial", "add_identity",
                   "drop_identity", "set_identity_kind", "regenerate_column"} -> 12
      [] c.op = "drop_column"                          -> 13
      [] c.op = "drop_table"                           -> 14
      [] c.op = "add_constraint" /\ ~IsFk(c)           -> 15
      [] c.op = "create_index"                         -> 16
      [] IsFk(c)                                       -> 17
      [] c.op = "create_view" /\ ~c.to.mat             -> 19
      [] c.op = "create_view" /\ c.to.mat              -> 20
      [] c.op = "create_function"                      -> 21
      [] c.op = "create_trigger"                       -> 22
      [] c.op = "set_trigger_mode"                     -> 23
      [] c.op \in {"enable_rls", "disable_rls", "force_rls", "unforce_rls",
                   "create_policy"}                    -> 25
      [] c.op = "drop_function" /\ ~c.replaced         -> 26
      [] c.op \in {"drop_sequence", "drop_enum", "drop_extension"} -> 26
      [] c.op = "drop_schema"                          -> 27

NewTableFks == 18       \* the foreign keys of the tables phase 11 creates
NewTableRls == 24       \* their row-level security and policies
LastPhase == 27

-----------------------------------------------------------------------------
\* CREATE TABLE IF NOT EXISTS with the columns and the constraints that are
\* not foreign keys inline, then one CREATE INDEX each.
Inline(def, id) ==
    \/ id[1] \in {"table", "column"}
    \/ id[1] = "constraint" /\ def[id].kind # "foreign"

CreateTableSql(q, def) ==
    <<Stmt("ensure", q, [id \in {i \in DOMAIN def : Inline(def, i)} |-> def[id]])>>
      \o Each(Parts(def, "index", q), LAMBDA i : <<Stmt("create", i, One(i, def[i]))>>)

\* Foreign keys and checks of an existing table are added NOT VALID first.
AddConstraintSql(id, def, tableIsNew) ==
    <<Stmt("create", id, One(id, def))>>
      \o When(~tableIsNew /\ def.kind \in {"check", "foreign"},
              Stmt("validate", id, "none"))

CreateExtensionSql(c) ==
    <<Stmt("ensure", <<"schema", c.to.schema>>, One(<<"schema", c.to.schema>>, "none")),
      Stmt("ensure", c.on, One(c.on, c.to))>>
MoveExtensionSql(c) ==
    <<Stmt("ensure", <<"schema", c.to.schema>>, One(<<"schema", c.to.schema>>, "none")),
      Set(c.on, "schema", c.to.schema)>>

\* A new sequence, the default that draws from it, and ownership.
MakeSerialSql(col) ==
    LET seq == SerialSeq(col) IN
    <<Stmt("ensure", seq, One(seq, [min |-> 1, max |-> 9])),
      Set(col, "default", Expr("nextval", {seq})),
      Stmt("own_sequence", seq, col)>>
DropSerialSql(col) ==
    <<Set(col, "default", NoExpr), DropStmt(SerialSeq(col))>>

\* Mutant: the bounds change under the counter.
ResizeThenClamp(c) ==
    <<Stmt("resize", c.on, c.to), Stmt("clamp", c.on, c.to)>>

\* The counter is moved into the new bounds before the bounds change.
AlterSequenceSql(c) ==
    <<Stmt("clamp", c.on, c.to), Stmt("resize", c.on, c.to)>>

\* CockroachDB drops a unique constraint as the index it is.
DependentDropSql(c, flavor) ==
    <<IF c.op = "drop_constraint" /\ flavor = "cockroach" /\ c.to = "unique"
      THEN Stmt("drop_cascade", c.on, "none")
      ELSE DropStmt(c.on)>>

CreateSql(c) == <<Stmt("create", c.on, One(c.on, c.to))>>

\* A type to be rebuilt is a comment that tells how.
TypeSql(c) ==
    CASE c.op = "create_schema"      -> <<Stmt("ensure", c.on, One(c.on, "none"))>>
      [] c.op = "create_extension"   -> CreateExtensionSql(c)
      [] c.op = "move_extension"     -> MoveExtensionSql(c)
      [] c.op = "create_enum"        -> CreateSql(c)
      [] c.op = "enum_needs_rebuild" -> <<>>

EnsureSql(c) == <<Stmt("ensure", c.on, One(c.on, c.to))>>

SequenceSql(c) ==
    IF c.op = "create_sequence" THEN EnsureSql(c) ELSE AlterSequenceSql(c)

FacetOps == {"add_column", "alter_column_type", "set_not_null", "drop_not_null",
             "set_column_visibility", "set_default", "drop_default"}

FacetSql(c) ==
    CASE c.op = "add_column"         -> EnsureSql(c)
      [] c.op = "alter_column_type"  -> <<Set(c.on, "type", c.to)>>
      [] c.op = "set_not_null"       -> <<Set(c.on, "notnull", TRUE)>>
      [] c.op = "drop_not_null"      -> <<Set(c.on, "notnull", FALSE)>>
      [] c.op = "set_column_visibility" -> <<Set(c.on, "hidden", c.to)>>
      [] c.op = "set_default"        -> <<Set(c.on, "default", c.to)>>
      [] c.op = "drop_default"       -> <<Set(c.on, "default", NoExpr)>>

\* Where a column's values come from: its sequence, or an expression.
OriginSql(c) ==
    CASE c.op = "make_serial"        -> MakeSerialSql(c.on)
      [] c.op = "drop_serial"        -> DropSerialSql(c.on)
      [] c.op = "add_identity"       -> <<Stmt("add_identity", c.on, c.to)>>
      [] c.op = "drop_identity"      -> <<Stmt("drop_identity", c.on, "none")>>
      [] c.op = "set_identity_kind"  -> <<Stmt("set_identity", c.on, c.to)>>
      [] c.op = "regenerate_column"  ->
             <<DropStmt(c.on), Stmt("create", c.on, One(c.on, c.to))>>

RoutineSql(c) ==
    CASE c.op = "create_function"    ->
             <<Stmt(IF c.replaced THEN "replace" ELSE "create", c.on, One(c.on, c.to))>>
      [] c.op = "create_trigger"     ->
             <<Stmt("create", c.on, One(c.on, [c.to EXCEPT !.mode = "origin"]))>>
      [] c.op = "set_trigger_mode"   -> <<Set(c.on, "mode", c.to)>>

RlsSql(c) ==
    CASE c.op = "enable_rls"         -> <<Set(c.on, "rls", TRUE)>>
      [] c.op = "disable_rls"        -> <<Set(c.on, "rls", FALSE)>>
      [] c.op = "force_rls"          -> <<Set(c.on, "forced", TRUE)>>
      [] c.op = "unforce_rls"        -> <<Set(c.on, "forced", FALSE)>>
      [] c.op = "create_policy"      -> CreateSql(c)

\* The passes of emit, each with the statements of its changes.
Statements(c, flavor) ==
    LET n == PhaseOf(c) IN
    CASE n = 0                            -> <<Stmt("add_label", c.on, c.to)>>
      [] n = 2                            -> TypeSql(c)
      [] n \in 3..9                       -> DependentDropSql(c, flavor)
      [] n = 10                           -> SequenceSql(c)
      [] n = 11                           -> CreateTableSql(c.on, c.to)
      [] n = 12 /\ c.op \in FacetOps      -> FacetSql(c)
      [] n = 12 /\ c.op \notin FacetOps   -> OriginSql(c)
      [] n \in {13, 14, 26, 27}           -> <<DropStmt(c.on)>>
      [] c.op = "add_constraint"          -> AddConstraintSql(c.on, c.to, FALSE)
      [] n \in {16, 19, 20}               -> CreateSql(c)
      [] n \in 21..23                     -> RoutineSql(c)
      [] n = 25                           -> RlsSql(c)

\* Emitter::change: destructive statements are comments unless allowed.  What
\* needs a manual rebuild is a comment either way, and counted apart.
Gated(c, allow) == Destructive(c) /\ ~Manual(c) /\ ~allow
Rendered(c, flavor, allow) == IF Gated(c, allow) THEN <<>> ELSE Statements(c, flavor)

\* What a new table carries beside CREATE TABLE: never gated.
ForeignKeysOf(q, def) ==
    Each(Parts(def, "constraint", q),
         LAMBDA k : IF def[k].kind = "foreign" THEN AddConstraintSql(k, def[k], TRUE)
                    ELSE <<>>)
RlsOf(q, def) ==
    When(def[q].rls, Set(q, "rls", TRUE))
      \o When(def[q].forced, Set(q, "forced", TRUE))
      \o Each(Parts(def, "policy", q), LAMBDA k : <<Stmt("create", k, One(k, def[k]))>>)

InPhase(plan, n, flavor, allow) ==
    Each(plan, LAMBDA c :
        CASE n = NewTableFks -> IF c.op = "create_table" THEN ForeignKeysOf(c.on, c.to) ELSE <<>>
          [] n = NewTableRls -> IF c.op = "create_table" THEN RlsOf(c.on, c.to) ELSE <<>>
          [] OTHER           -> IF PhaseOf(c) = n THEN Rendered(c, flavor, allow) ELSE <<>>)

Phases(plan, first, last, flavor, allow) ==
    FlattenSeq([n \in 1..(last - first + 1) |->
                    InPhase(plan, first + n - 1, flavor, allow)])

\* Mutant: schemas, extensions and types are made before BEGIN.
EmitLateBegin(plan, flavor, allow) ==
    IF plan = <<>> THEN <<>>
    ELSE InPhase(plan, 0, flavor, allow) \o InPhase(plan, 2, flavor, allow) \o <<Begin>>
           \o Phases(plan, 3, LastPhase, flavor, allow) \o <<Commit>>

Emit(plan, flavor, allow) ==
    IF plan = <<>> THEN <<>>
    ELSE InPhase(plan, 0, flavor, allow) \o <<Begin>>
           \o Phases(plan, 2, LastPhase, flavor, allow) \o <<Commit>>

\* The footer's counts.
GatedCount(plan, allow) == Len(SelectSeq(plan, LAMBDA c : Gated(c, allow)))
ManualCount(plan) == Len(SelectSeq(plan, Manual))
=============================================================================
