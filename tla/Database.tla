------------------------------ MODULE Database ------------------------------
(***************************************************************************)
(* The database server as the emitted statements meet it: which of them    *)
(* PostgreSQL (or CockroachDB) accepts, and what they leave.  This is not  *)
(* dpm's code; it is modelled from the statements emit.rs writes and the   *)
(* rules its phases are laid out for.  Data does not make a statement      *)
(* fail here: rows satisfy every constraint added and every cast, and so   *)
(* do a column's default and its new type.                                 *)
(*                                                                         *)
(* A database is a function from identifiers to values as in Catalogs,     *)
(* with what a catalog leaves out: whether the content of a table or of a  *)
(* column is what was there before (`kept`), the owner and the counter of  *)
(* a sequence, triggers and indexes on views.                              *)
(***************************************************************************)
EXTENDS SchemaEmit, Integers

Deparsed == {"constraint", "index", "policy", "view", "routine", "trigger"}

\* The objects a value names and so depends on.
UsesOf(id, value) ==
    CASE id[1] = "column"  -> value.type.uses \cup value.default.uses
                                \cup value.generated.uses
      [] id[1] \in Deparsed -> value.def.uses
      [] OTHER             -> {}

\* What goes with an object: the parts of a relation, the constraints, indexes
\* and sequences of a column.
Owned(db, id) ==
    CASE id[1] \in {"table", "view"} -> PartsOf(db, id)
      [] id[1] = "column" ->
           {p \in PartsOf(db, id) : /\ p[1] \in {"constraint", "index"}
                                    /\ id \in UsesOf(p, db[p])}
             \cup {q \in DOMAIN db : q[1] = "sequence" /\ db[q].owner = {id}}
      [] OTHER -> {}

Closure(db, id) ==
    LET first == {id} \cup Owned(db, id)
    IN  first \cup UNION {Owned(db, o) : o \in first}

\* What keeps a plain DROP from succeeding.
Contents(db, id) ==
    IF id[1] # "schema" THEN {}
    ELSE {o \in DOMAIN db : IF o[1] = "extension" THEN db[o].schema = id[2]
                            ELSE o # id /\ o[2] = id[2]}
Dependents(db, id) ==
    LET gone == Closure(db, id)
    IN  {o \in DOMAIN db \ gone : UsesOf(o, db[o]) \cap gone # {}} \cup Contents(db, id)

Without(db, ids) == [o \in DOMAIN db \ ids |-> db[o]]
Merge(db, new) ==
    [o \in DOMAIN db \cup DOMAIN new |-> IF o \in DOMAIN new THEN new[o] ELSE db[o]]
-----------------------------------------------------------------------------
(***************************************************************************)
(* Creation.                                                               *)
(***************************************************************************)
\* Tables, views, sequences, indexes and the constraints that are indexes
\* share the names of a schema.
IsRelation(id, value) ==
    \/ id[1] \in {"table", "view", "sequence", "index"}
    \/ id[1] = "constraint" /\ value.kind \in {"primary", "unique", "exclusion"}
RelationName(id) == <<id[2], id[Len(id)]>>
NameTaken(db, id, value) ==
    /\ IsRelation(id, value)
    /\ \E o \in DOMAIN db : /\ Len(o) > 2 /\ IsRelation(o, db[o])
                            /\ RelationName(o) = RelationName(id)

\* Views have indexes and triggers, tables have all the parts.
RelationOf(db, id) ==
    LET kinds == IF id[1] \in {"index", "trigger"} THEN {"table", "view"} ELSE {"table"}
    IN  {r \in DOMAIN db : r[1] \in kinds /\ SameRelation(id, r)}

\* Where an object is to live must exist: its schema, and its relation.
HasPlace(db, id) ==
    /\ Len(id) > 2 => <<"schema", id[2]>> \in DOMAIN db
    /\ Len(id) = 4 => RelationOf(db, id) # {}

PrimaryKeys(db, id) ==
    {p \in PartsOf(db, id) : p[1] = "constraint" /\ db[p].kind = "primary"}

\* The rows of a new table, the owned sequence of a new serial column.
NewValue(id, value) ==
    CASE id[1] = "table"    -> [partition |-> value.partition, rls |-> FALSE,
                                forced |-> FALSE, kept |-> FALSE]
      [] id[1] = "column"   ->
           [type |-> value.type, notnull |-> value.notnull,
            default |-> IF value.serial THEN Expr("nextval", {SerialSeq(id)})
                        ELSE IF value.identity = "none" THEN value.default ELSE NoExpr,
            identity |-> value.identity, generated |-> value.generated,
            hidden |-> value.hidden, kept |-> FALSE]
      [] id[1] = "sequence" -> [min |-> value.min, max |-> value.max,
                                owner |-> {}, last |-> value.min, kept |-> FALSE]
      [] OTHER              -> value

NewSequences(group) ==
    LET serial == {c \in DOMAIN group : c[1] = "column" /\ group[c].serial}
        column(q) == CHOOSE c \in serial : SerialSeq(c) = q
    IN  [q \in {SerialSeq(c) : c \in serial} |->
            [min |-> 1, max |-> 9, owner |-> {column(q)}, last |-> 1, kept |-> FALSE]]

\* A primary key makes its columns NOT NULL.
Created(db, group) ==
    LET all == Merge(db, Merge([id \in DOMAIN group |-> NewValue(id, group[id])],
                               NewSequences(group)))
        keyed == UNION {UsesOf(k, group[k]) : k \in
                    {g \in DOMAIN group : g[1] = "constraint" /\ group[g].kind = "primary"}}
    IN  [id \in DOMAIN all |->
            IF id[1] = "column" /\ id \in keyed THEN [all[id] EXCEPT !.notnull = TRUE]
            ELSE all[id]]

\* A foreign key refers to a key.
RefersToKeys(db, id) ==
    \A u \in UsesOf(id, db[id]) :
        u[1] = "constraint" => db[u].kind \in {"primary", "unique"}

CanCreate(db, id, group) ==
    LET all == Created(db, group)
        new == DOMAIN group \cup DOMAIN NewSequences(group)
    IN  /\ id \notin DOMAIN db
        /\ \A g \in new :
            /\ ~NameTaken(db, g, all[g])
            /\ HasPlace(all, g)
            /\ UsesOf(g, all[g]) \subseteq DOMAIN all
            /\ RefersToKeys(all, g)
        /\ id[1] = "constraint" => Cardinality(PrimaryKeys(all, id)) <= 1
-----------------------------------------------------------------------------
(***************************************************************************)
(* Alteration.                                                             *)
(***************************************************************************)
\* A type does not change under a view, a policy, a trigger or a generated
\* column.  Indexes and constraints are rebuilt.
TypeInUse(db, col) ==
    \E o \in DOMAIN db :
        /\ \/ o[1] \in {"view", "policy", "trigger"}
           \/ o[1] = "column" /\ col \in db[o].generated.uses
        /\ col \in UsesOf(o, db[o])

InPrimaryKey(db, col) ==
    \E p \in PrimaryKeys(db, col) : col \in UsesOf(p, db[p])

CanSet(db, id, facet, value) ==
    /\ id \in DOMAIN db
    /\ facet \in {"type", "default"} => value.uses \subseteq DOMAIN db
    /\ facet = "type" => ~TypeInUse(db, id)
    /\ facet = "default" => db[id].identity = "none" /\ db[id].generated = NoExpr
    /\ (facet = "notnull" /\ value = FALSE)
         => db[id].identity = "none" /\ ~InPrimaryKey(db, id)
    /\ facet = "schema" => <<"schema", value>> \in DOMAIN db

SetFacet(db, id, facet, value) ==
    [db EXCEPT ![id] = [f \in DOMAIN @ |-> IF f = facet THEN value ELSE @[f]]]

\* ADD IDENTITY needs NOT NULL and no default.
CanAddIdentity(db, col) ==
    /\ col \in DOMAIN db
    /\ db[col].notnull /\ db[col].identity = "none" /\ db[col].default = NoExpr

Clamped(seq, bounds) ==
    LET low == IF seq.last <= bounds.max THEN seq.last ELSE bounds.max
    IN  IF low >= bounds.min THEN low ELSE bounds.min

\* BEFORE names a label that exists, or the label goes to the end.
InsertLabel(labels, new) ==
    IF new.before = "end" THEN Append(labels, new.label)
    ELSE LET at == CHOOSE i \in DOMAIN labels : labels[i] = new.before
         IN  SubSeq(labels, 1, at - 1) \o <<new.label>> \o SubSeq(labels, at, Len(labels))
HasLabel(labels, l) == \E i \in DOMAIN labels : labels[i] = l

-----------------------------------------------------------------------------
(***************************************************************************)
(* One statement: whether the server accepts it, and what it leaves.       *)
(***************************************************************************)
Accepts(db, st, flavor) ==
    LET id == st.on  with == st.with IN
    CASE st.do = "ensure" -> IF id \in DOMAIN db THEN HasPlace(db, id)
                             ELSE CanCreate(db, id, with)
      [] st.do = "create" -> CanCreate(db, id, with)
      [] st.do = "replace" ->
            /\ HasPlace(db, id)
            /\ UsesOf(id, with[id]) \subseteq DOMAIN db
            /\ flavor = "cockroach" =>
                 ~\E o \in DOMAIN db : o[1] = "trigger" /\ id \in UsesOf(o, db[o])
      [] st.do = "drop" ->
            /\ Dependents(db, id) = {}
            /\ id[1] \in {"column", "constraint"} => RelationOf(db, id) # {}
      [] st.do = "drop_cascade" -> TRUE
      [] st.do = "set" -> CanSet(db, id, with.facet, with.value)
      [] st.do = "add_identity" -> CanAddIdentity(db, id)
      [] st.do = "set_identity" -> id \in DOMAIN db /\ db[id].identity # "none"
      [] st.do = "own_sequence" -> {id, with} \subseteq DOMAIN db
      [] st.do = "clamp" -> /\ id \in DOMAIN db
                            /\ Clamped(db[id], with) \in db[id].min..db[id].max
      [] st.do = "resize" -> id \in DOMAIN db /\ db[id].last \in with.min..with.max
      [] st.do = "add_label" ->
            /\ id \in DOMAIN db
            /\ \/ HasLabel(db[id].labels, with.label)
               \/ with.before = "end"
               \/ HasLabel(db[id].labels, with.before)
      [] OTHER -> id \in DOMAIN db

Effect(db, st) ==
    LET id == st.on  with == st.with IN
    CASE st.do = "ensure" -> IF id \in DOMAIN db THEN db ELSE Created(db, with)
      [] st.do = "create" -> Created(db, with)
      [] st.do = "replace" -> Merge(db, with)
      [] st.do = "drop" -> IF id \in DOMAIN db THEN Without(db, Closure(db, id)) ELSE db
      [] st.do = "drop_cascade" ->
            IF id \in DOMAIN db THEN Without(db, Closure(db, id) \cup Dependents(db, id))
            ELSE db
      [] st.do = "set" -> SetFacet(db, id, with.facet, with.value)
      [] st.do \in {"add_identity", "set_identity"} -> [db EXCEPT ![id].identity = with]
      [] st.do = "drop_identity" -> [db EXCEPT ![id].identity = "none"]
      [] st.do = "own_sequence" -> [db EXCEPT ![id].owner = {with}]
      [] st.do = "clamp" -> [db EXCEPT ![id].last = Clamped(db[id], with)]
      [] st.do = "resize" -> [db EXCEPT ![id].min = with.min, ![id].max = with.max]
      [] st.do = "add_label" ->
            IF HasLabel(db[id].labels, with.label) THEN db
            ELSE [db EXCEPT ![id].labels = InsertLabel(@, with)]
      [] OTHER -> db
-----------------------------------------------------------------------------
(***************************************************************************)
(* What a database is, whatever was executed on it.                        *)
(***************************************************************************)
IsColumn(id, v) ==
    /\ v = [type |-> v.type, notnull |-> v.notnull, default |-> v.default,
            identity |-> v.identity, generated |-> v.generated, hidden |-> v.hidden,
            kept |-> v.kept]
    /\ {v.notnull, v.hidden, v.kept} \subseteq BOOLEAN
    /\ v.identity # "none" => v.default = NoExpr

\* A sequence lives in the schema of the column that owns it, and its counter
\* within its bounds.
InBounds(v) ==
    {v.min, v.max, v.last} \subseteq Int /\ v.min <= v.last /\ v.last <= v.max
IsSequence(id, v) ==
    /\ v = [min |-> v.min, max |-> v.max, owner |-> v.owner, last |-> v.last,
            kept |-> v.kept]
    /\ v.kept \in BOOLEAN /\ InBounds(v)
    /\ \A c \in v.owner : c[1] = "column" /\ c[2] = id[2]

\* A primary key is of columns of its table.
IsConstraint(id, v) ==
    /\ v = [kind |-> v.kind, def |-> v.def]
    /\ v.kind = "primary" =>
         \A u \in v.def.uses : u[1] = "column" => SameRelation(u, id)

Injective(labels) == \A i, j \in DOMAIN labels : labels[i] = labels[j] => i = j

IsValue(id, v) ==
    CASE id[1] = "schema"     -> v = "none"
      [] id[1] = "extension"  -> v = [schema |-> v.schema] /\ v.schema \in NameSet
      [] id[1] = "enum"       -> /\ v = [labels |-> v.labels]
                                 /\ v.labels \in Seq(STRING) /\ Injective(v.labels)
      [] id[1] = "table"      -> /\ v = [partition |-> v.partition, rls |-> v.rls,
                                         forced |-> v.forced, kept |-> v.kept]
                                 /\ {v.rls, v.forced, v.kept} \subseteq BOOLEAN
      [] id[1] = "column"     -> IsColumn(id, v)
      [] id[1] = "constraint" -> IsConstraint(id, v)
      [] id[1] = "index"      -> v = [unique |-> v.unique, def |-> v.def]
      [] id[1] = "policy"     -> v = [def |-> v.def]
      [] id[1] = "sequence"   -> IsSequence(id, v)
      [] id[1] = "view"       -> v = [mat |-> v.mat, def |-> v.def]
      [] id[1] = "routine"    -> v = [kind |-> v.kind, def |-> v.def]
      [] id[1] = "trigger"    -> v = [mode |-> v.mode, def |-> v.def]

\* Nothing but a foreign key refers to a constraint.
NamesNoKey(id, v) ==
    (\E u \in UsesOf(id, v) : u[1] = "constraint")
      => id[1] = "constraint" /\ v.kind = "foreign"

\* Nothing in a database names what is not there.
WellFormed(d) ==
    \A id \in DOMAIN d : /\ HasPlace(d, id)
                         /\ UsesOf(id, d[id]) \subseteq DOMAIN d
                         /\ RefersToKeys(d, id)

IsDatabase(d) ==
    /\ d = [id \in DOMAIN d |-> d[id]]
    /\ DOMAIN d \subseteq Identifiers /\ IsFiniteSet(DOMAIN d)
    /\ \A id \in DOMAIN d : IsValue(id, d[id]) /\ NamesNoKey(id, d[id])
    /\ WellFormed(d)
=============================================================================
