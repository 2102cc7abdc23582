----------------------------- MODULE SchemaDiff -----------------------------
(***************************************************************************)
(* src/diff.rs: the typed change plan that brings a target catalog to      *)
(* a source catalog.  A plan is a sequence of changes in the order the     *)
(* code pushes them; `on` is the object a change is about, `to` its new    *)
(* definition (or what the emitter needs to know of the old one) and       *)
(* `replaced` says that the other half of a drop-and-create pair follows.  *)
(***************************************************************************)
EXTENDS Catalogs

Change(op, on, to, replaced) ==
    [op |-> op, on |-> on, to |-> to, replaced |-> replaced]
Plain(op, on) == Change(op, on, "none", FALSE)

Each(keys, F(_)) == FlattenSeq([i \in DOMAIN keys |-> F(keys[i])])
When(p, change) == IF p THEN <<change>> ELSE <<>>

\* The shape every object class shares: what only the source has is created,
\* what both have and differs is changed, what only the target has is dropped.
Compare(s, t, skeys, tkeys, Create(_), Same(_), Alter(_), Drop(_)) ==
    Each(skeys, LAMBDA k : IF k \notin DOMAIN t THEN Create(k)
                           ELSE IF Same(k) THEN <<>> ELSE Alter(k))
      \o Each(tkeys, LAMBDA k : IF k \in DOMAIN s THEN <<>> ELSE Drop(k))

\* Mutant: only drops are taken for destructive.
DropsOnly(c) ==
    c.op \in {"drop_schema", "drop_extension", "drop_enum", "drop_sequence", "drop_table",
              "drop_column", "drop_serial", "drop_function", "drop_view",
              "drop_trigger", "drop_policy"}

Destructive(c) ==
    \/ c.op \in {"drop_schema", "drop_extension", "drop_enum",
                 "enum_needs_rebuild", "drop_sequence", "drop_table",
                 "drop_column", "drop_serial", "regenerate_column"}
    \/ c.op \in {"drop_function", "drop_view", "drop_trigger", "drop_policy"}
         /\ ~c.replaced
    \/ c.op = "drop_constraint" /\ ~c.replaced
         /\ c.to \in {"primary", "unique", "exclusion"}
    \/ c.op = "drop_index" /\ ~c.replaced /\ c.to

Manual(c) == c.op = "enum_needs_rebuild"
-----------------------------------------------------------------------------
UsesSchema(s, name) ==
    \E id \in DOMAIN s :
        id[1] \in {"table", "enum", "sequence", "view", "routine"} /\ id[2] = name

DiffSchemas(s, t) ==
    Each(Keys(s, "schema"),
         LAMBDA k : When(k \notin DOMAIN t /\ (UsesSchema(s, k[2]) \/ k[2] # Public),
                         Plain("create_schema", k)))
      \o Each(Keys(t, "schema"),
         LAMBDA k : When(k[2] # Public /\ k \notin DOMAIN s, Plain("drop_schema", k)))

\* Creations, then moves, then drops: three passes over the names.
DiffExtensions(s, t) ==
    Each(Keys(s, "extension"),
         LAMBDA k : When(k \notin DOMAIN t, Change("create_extension", k, s[k], FALSE)))
      \o Each(Keys(s, "extension"),
         LAMBDA k : When(IF k \in DOMAIN t THEN s[k].schema # t[k].schema ELSE FALSE,
                         Change("move_extension", k, s[k], FALSE)))
      \o Each(Keys(t, "extension"),
         LAMBDA k : When(k \notin DOMAIN s, Plain("drop_extension", k)))

\* Labels are distinct, so the greedy scan finds a subsequence exactly when
\* the target's labels are what is left of the source's without the new ones.
IsSubsequence(needle, haystack) ==
    Each(haystack, LAMBDA l : When(\E i \in DOMAIN needle : needle[i] = l, l)) = needle

\* Mutant: new labels go to the end.
AppendLabels(k, labels, old) ==
    FlattenSeq([i \in DOMAIN labels |->
        When(~\E j \in DOMAIN old : old[j] = labels[i],
             Change("add_enum_value", k, [label |-> labels[i], before |-> "end"], FALSE))])

\* The anchor of a new label is the next label the target already has.
AddLabels(k, labels, old) ==
    LET Old(i) == \E j \in DOMAIN old : old[j] = labels[i]
        After(i) == {j \in (i + 1)..Len(labels) : Old(j)}
        Anchor(i) == IF After(i) = {} THEN "end"
                     ELSE labels[CHOOSE j \in After(i) : \A m \in After(i) : j <= m]
    IN  FlattenSeq([i \in DOMAIN labels |->
            When(~Old(i), Change("add_enum_value", k,
                                 [label |-> labels[i], before |-> Anchor(i)], FALSE))])

DiffEnums(s, t) ==
    Compare(s, t, Keys(s, "enum"), Keys(t, "enum"),
        LAMBDA k : <<Change("create_enum", k, s[k], FALSE)>>,
        LAMBDA k : s[k].labels = t[k].labels,
        LAMBDA k : IF IsSubsequence(t[k].labels, s[k].labels)
                   THEN AddLabels(k, s[k].labels, t[k].labels)
                   ELSE <<Plain("enum_needs_rebuild", k)>>,
        LAMBDA k : <<Plain("drop_enum", k)>>)

DiffSequences(s, t) ==
    Compare(s, t, Keys(s, "sequence"), Keys(t, "sequence"),
        LAMBDA k : <<Change("create_sequence", k, s[k], FALSE)>>,
        LAMBDA k : s[k] = t[k],
        LAMBDA k : <<Change("alter_sequence", k, s[k], FALSE)>>,
        LAMBDA k : <<Plain("drop_sequence", k)>>)
-----------------------------------------------------------------------------
\* A new generation expression is a rebuild and nothing else; identity
\* transitions come before the default's, which are skipped while either side
\* is an identity column.
DiffIdentity(k, s, t) ==
    IF t.identity = s.identity THEN <<>>
    ELSE IF t.identity = "none" THEN <<Change("add_identity", k, s.identity, FALSE)>>
    ELSE IF s.identity = "none" THEN <<Plain("drop_identity", k)>>
    ELSE <<Change("set_identity_kind", k, s.identity, FALSE)>>

SetDefault(k, s) == Change("set_default", k, s.default, FALSE)

DiffDefault(k, s, t) ==
    IF s.identity # "none" \/ t.identity # "none" THEN <<>>
    ELSE IF s.serial THEN When(~t.serial, Plain("make_serial", k))
    ELSE IF t.serial
         THEN <<Plain("drop_serial", k)>> \o When(s.default # NoExpr, SetDefault(k, s))
    ELSE IF s.default = t.default THEN <<>>
    ELSE IF s.default = NoExpr THEN <<Plain("drop_default", k)>>
    ELSE <<SetDefault(k, s)>>

DiffOneColumn(k, s, t) ==
    IF s.generated # t.generated THEN <<Change("regenerate_column", k, s, FALSE)>>
    ELSE When(s.type # t.type, Change("alter_column_type", k, s.type, FALSE))
           \o DiffIdentity(k, s, t)
           \o DiffDefault(k, s, t)
           \o When(s.notnull /\ ~t.notnull, Plain("set_not_null", k))
           \o When(~s.notnull /\ t.notnull, Plain("drop_not_null", k))
           \o When(s.hidden # t.hidden, Change("set_column_visibility", k, s.hidden, FALSE))

DiffColumns(q, s, t) ==
    Compare(s, t, Parts(s, "column", q), Parts(t, "column", q),
        LAMBDA k : <<Change("add_column", k, s[k], FALSE)>>,
        LAMBDA k : SemanticEq(s[k], t[k]),
        LAMBDA k : DiffOneColumn(k, s[k], t[k]),
        LAMBDA k : <<Plain("drop_column", k)>>)

DiffConstraints(q, s, t) ==
    Compare(s, t, Parts(s, "constraint", q), Parts(t, "constraint", q),
        LAMBDA k : <<Change("add_constraint", k, s[k], FALSE)>>,
        LAMBDA k : s[k].def = t[k].def,
        LAMBDA k : <<Change("drop_constraint", k, t[k].kind, TRUE),
                     Change("add_constraint", k, s[k], FALSE)>>,
        LAMBDA k : <<Change("drop_constraint", k, t[k].kind, FALSE)>>)

DiffIndexes(q, s, t) ==
    Compare(s, t, Parts(s, "index", q), Parts(t, "index", q),
        LAMBDA k : <<Change("create_index", k, s[k], FALSE)>>,
        LAMBDA k : s[k].def = t[k].def,
        LAMBDA k : <<Change("drop_index", k, t[k].unique, TRUE),
                     Change("create_index", k, s[k], FALSE)>>,
        LAMBDA k : <<Change("drop_index", k, t[k].unique, FALSE)>>)

DiffRls(q, s, t) ==
    When(s[q].rls /\ ~t[q].rls, Plain("enable_rls", q))
      \o When(~s[q].rls /\ t[q].rls, Plain("disable_rls", q))
      \o When(s[q].forced /\ ~t[q].forced, Plain("force_rls", q))
      \o When(~s[q].forced /\ t[q].forced, Plain("unforce_rls", q))

DiffPolicies(q, s, t) ==
    Compare(s, t, Parts(s, "policy", q), Parts(t, "policy", q),
        LAMBDA k : <<Change("create_policy", k, s[k], FALSE)>>,
        LAMBDA k : s[k] = t[k],
        LAMBDA k : <<Change("drop_policy", k, "none", TRUE),
                     Change("create_policy", k, s[k], FALSE)>>,
        LAMBDA k : <<Change("drop_policy", k, "none", FALSE)>>)

\* A table's definition carries everything the catalog keeps under it.
TableDef(s, q) ==
    [id \in {q} \cup {p \in PartsOf(s, q) : p[1] # "trigger"} |-> s[id]]
CreateTable(s, q) == Change("create_table", q, TableDef(s, q), FALSE)

\* Another partitioning is a rebuild: drop, then create, and nothing finer.
DiffOneTable(q, s, t) ==
    IF s[q].partition # t[q].partition
    THEN <<Plain("drop_table", q), CreateTable(s, q)>>
    ELSE DiffColumns(q, s, t) \o DiffConstraints(q, s, t) \o DiffIndexes(q, s, t)
           \o DiffRls(q, s, t) \o DiffPolicies(q, s, t)

DiffTables(s, t) ==
    Compare(s, t, Keys(s, "table"), Keys(t, "table"),
        LAMBDA k : <<CreateTable(s, k)>>,
        LAMBDA k : FALSE,
        LAMBDA k : DiffOneTable(k, s, t),
        LAMBDA k : <<Plain("drop_table", k)>>)
-----------------------------------------------------------------------------
\* Mutant: a changed view is created while the old one stands.
ViewsInPlace(s, t) ==
    Compare(s, t, Keys(s, "view"), Keys(t, "view"),
        LAMBDA k : <<Change("create_view", k, s[k], FALSE)>>,
        LAMBDA k : s[k] = t[k],
        LAMBDA k : <<Change("create_view", k, s[k], FALSE)>>,
        LAMBDA k : <<Change("drop_view", k, "none", FALSE)>>)

DiffViews(s, t) ==
    Compare(s, t, Keys(s, "view"), Keys(t, "view"),
        LAMBDA k : <<Change("create_view", k, s[k], FALSE)>>,
        LAMBDA k : s[k] = t[k],
        LAMBDA k : <<Change("drop_view", k, "none", TRUE),
                     Change("create_view", k, s[k], FALSE)>>,
        LAMBDA k : <<Change("drop_view", k, "none", FALSE)>>)

\* A routine of the same kind is replaced in place, another kind is dropped.
DiffFunctions(s, t) ==
    Compare(s, t, Keys(s, "routine"), Keys(t, "routine"),
        LAMBDA k : <<Change("create_function", k, s[k], FALSE)>>,
        LAMBDA k : s[k] = t[k],
        LAMBDA k : IF s[k].kind = t[k].kind
                   THEN <<Change("create_function", k, s[k], TRUE)>>
                   ELSE <<Change("drop_function", k, "none", TRUE),
                          Change("create_function", k, s[k], FALSE)>>,
        LAMBDA k : <<Change("drop_function", k, "none", FALSE)>>)

\* CockroachDB cannot replace a function a trigger uses, so any changed
\* function makes every trigger be dropped and created again.
CycleTriggers(s, t, flavor) ==
    /\ flavor = "cockroach"
    /\ \E k \in DOMAIN s \cap DOMAIN t :
        /\ k[1] = "routine" /\ s[k].kind = "function" /\ t[k].kind = "function"
        /\ s[k].def # t[k].def

\* Mutant: a trigger's mode is not compared.
DiffTriggerBodies(s, t, cycle) ==
    LET Create(k) == <<Change("create_trigger", k, s[k], FALSE)>> IN
    Compare(s, t, Keys(s, "trigger"), Keys(t, "trigger"), Create,
        LAMBDA k : s[k].def = t[k].def /\ ~cycle,
        LAMBDA k : <<Change("drop_trigger", k, "none", TRUE)>> \o Create(k),
        LAMBDA k : <<Change("drop_trigger", k, "none", FALSE)>>)

DiffTriggers(s, t, cycle) ==
    LET Mode(k) == Change("set_trigger_mode", k, s[k].mode, FALSE)
        Create(k) == <<Change("create_trigger", k, s[k], FALSE)>>
                       \o When(s[k].mode # "origin", Mode(k))
    IN  Compare(s, t, Keys(s, "trigger"), Keys(t, "trigger"),
            Create,
            LAMBDA k : s[k] = t[k] /\ ~cycle,
            LAMBDA k : IF s[k].def = t[k].def /\ ~cycle
                       THEN <<Mode(k)>>
                       ELSE <<Change("drop_trigger", k, "none", TRUE)>> \o Create(k),
            LAMBDA k : <<Change("drop_trigger", k, "none", FALSE)>>)

Diff(s, t, flavor) ==
    DiffSchemas(s, t) \o DiffExtensions(s, t) \o DiffEnums(s, t)
      \o DiffSequences(s, t) \o DiffTables(s, t) \o DiffViews(s, t)
      \o DiffFunctions(s, t) \o DiffTriggers(s, t, CycleTriggers(s, t, flavor))
=============================================================================
