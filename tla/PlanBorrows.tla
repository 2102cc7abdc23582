---------------------------- MODULE PlanBorrows ----------------------------
(***************************************************************************)
(* src/plan_safety/resource.rs: what each change of a plan borrows of      *)
(* the database, and when two borrows conflict.  A resource is its path    *)
(* below the database: <<>> is the database itself, <<s>> a schema and     *)
(* <<s, kind, n>> an object in it.                                         *)
(***************************************************************************)
EXTENDS Naturals, Sequences

Borrow(resource, mode, scope) == [resource |-> resource, mode |-> mode, scope |-> scope]
Exclusive(resource) == Borrow(resource, "exclusive", "exact")
ExclusiveSubtree(resource) == Borrow(resource, "exclusive", "subtree")
SharedSubtree(resource) == Borrow(resource, "shared", "subtree")

IsPrefixOf(left, right) ==
    /\ Len(left) <= Len(right)
    /\ \A i \in 1..Len(left) : left[i] = right[i]

\* Two shared borrows never conflict; others do when one covers the other.
ConflictsWith(left, right) ==
    /\ left.mode = "exclusive" \/ right.mode = "exclusive"
    /\ \/ left.resource = right.resource
       \/ left.scope = "subtree" /\ IsPrefixOf(left.resource, right.resource)
       \/ right.scope = "subtree" /\ IsPrefixOf(right.resource, left.resource)

\* first_conflict: whether there is one.
Conflict(left, right) ==
    \E b \in left, d \in right : ConflictsWith(b, d)
-----------------------------------------------------------------------------
\* Object identifiers are those of Catalogs: <<kind, schema, name>>, with the
\* relation third when the object is a part of one.
DirectBorrow(op, on) ==
    CASE op \in {"create_schema", "drop_schema"} -> ExclusiveSubtree(<<on[2]>>)
      [] op \in {"create_extension", "move_extension", "drop_extension"} ->
             ExclusiveSubtree(<<>>)
      [] op \in {"create_enum", "add_enum_value", "enum_needs_rebuild", "drop_enum",
                 "create_sequence", "alter_sequence", "drop_sequence", "create_view",
                 "drop_view", "create_function", "drop_function"} ->
             Exclusive(<<on[2], on[1], on[3]>>)
      [] op = "drop_index" -> ExclusiveSubtree(<<on[2]>>)
      [] OTHER             -> ExclusiveSubtree(<<on[2], "table", on[3]>>)

\* Mutant: what a view or a routine names is overlooked.
HasTableDependencies(op) ==
    op \in {"create_table", "drop_table", "add_column", "drop_column",
            "alter_column_type", "set_default", "add_constraint", "create_index"}

\* Definitions may name anything, so what carries one reads the database.
HasOpaqueDependencies(op) ==
    op \in {"create_table", "drop_table", "add_column", "drop_column",
            "alter_column_type", "set_default", "drop_default", "make_serial",
            "drop_serial", "regenerate_column", "add_constraint", "drop_constraint",
            "create_index", "drop_index", "create_policy", "drop_policy",
            "create_view", "drop_view", "create_function", "drop_function",
            "create_trigger", "drop_trigger"}

ChangeBorrows(op, on) ==
    {DirectBorrow(op, on)}
      \cup IF HasOpaqueDependencies(op) THEN {SharedSubtree(<<>>)} ELSE {}
=============================================================================
