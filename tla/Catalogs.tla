------------------------------ MODULE Catalogs ------------------------------
(***************************************************************************)
(* What dpm compares: the catalog of src/model.rs, and how                 *)
(* src/introspect.rs reads it off a live database.                         *)
(*                                                                         *)
(* A database, and likewise a catalog, is a function from object           *)
(* identifiers to values.  An identifier is a tuple that begins with the   *)
(* kind of object:                                                         *)
(*   <<"schema", s>>   <<"extension", e>>                                  *)
(*   <<k, s, n>>       k an enum, sequence, table, view or routine         *)
(*   <<k, s, r, n>>    k a column, constraint, index, policy or trigger    *)
(*                     of the relation n of schema s                       *)
(* so that one map of the model stands for the nested BTreeMaps of the     *)
(* code.  Deparsed text is abstracted to an Expr: a label that tells two   *)
(* texts apart and the objects the text names.                             *)
(***************************************************************************)
EXTENDS Naturals, Sequences, FiniteSets, SequencesExt

CONSTANTS
    Names,       \* the names in use, as a sequence in the byte order of String
    OutOfScope,  \* the schemas introspection leaves alone: the excluded ones,
                 \* or all but those of --schemas
    SchemasGiven \* both sides are read with a list of --schemas

ASSUME NamesAssumption ==
    /\ Names \in Seq(STRING)
    /\ \A i, j \in DOMAIN Names : Names[i] = Names[j] => i = j

Public == "public"

NameSet == {Names[i] : i \in DOMAIN Names}
Identifiers ==
    {"schema", "extension"} \X NameSet
      \cup {"enum", "sequence", "table", "view", "routine"} \X NameSet \X NameSet
      \cup {"column", "constraint", "index", "policy", "trigger"}
             \X NameSet \X NameSet \X NameSet

Expr(text, uses) == [text |-> text, uses |-> uses]
NoExpr == Expr("none", {})

(***************************************************************************)
(* BTreeMap iteration: the identifiers of one kind in name order.  Columns *)
(* are kept in the order of the table, and compared by name; here they are *)
(* taken in name order too.                                                *)
(***************************************************************************)
Rank(n) == CHOOSE i \in DOMAIN Names : Names[i] = n
Precedes(a, b) ==
    \E i \in 2..Len(a) : /\ Rank(a[i]) < Rank(b[i])
                         /\ \A j \in 2..(i - 1) : a[j] = b[j]

Ordered(ids) ==
    CHOOSE s \in [1..Cardinality(ids) -> ids] :
        \A i, j \in DOMAIN s : i < j => Precedes(s[i], s[j])
Keys(cat, kind) == Ordered({id \in DOMAIN cat : id[1] = kind})

SameRelation(id, rel) == id[2] = rel[2] /\ id[3] = rel[3]
PartsOf(cat, rel) ==
    {id \in DOMAIN cat : Len(id) = 4 /\ SameRelation(id, rel)}
Parts(cat, kind, rel) == Ordered({id \in PartsOf(cat, rel) : id[1] = kind})

(***************************************************************************)
(* Introspection.  Owned sequences belong to their column, indexes are     *)
(* kept for tables only (an index on a materialized view finds no table to *)
(* go to), and CockroachDB is asked for triggers table by table.           *)
(***************************************************************************)
OnTable(db, id) == <<"table", id[2], id[3]>> \in DOMAIN db

InScope(id) == id[1] = "extension" \/ id[2] \notin OutOfScope

\* A list of --schemas is taken for the schemas of either side as it is, there
\* or not, so the two sides have the same ones and none is compared.
Asked(id) == id[1] = "schema" => ~SchemasGiven

\* A sequence that a column owns belongs to the column.
Unowned(db, id) == id[1] = "sequence" => db[id].owner = {}

\* Mutant: every schema is read.
AllVisible(db, flavor) ==
    {id \in DOMAIN db : Unowned(db, id) /\ (id[1] = "index" => OnTable(db, id))}

Visible(db, flavor) ==
    {id \in DOMAIN db :
        /\ InScope(id) /\ Asked(id) /\ Unowned(db, id)
        /\ id[1] = "index" => OnTable(db, id)
        /\ id[1] = "trigger" /\ flavor = "cockroach" => OnTable(db, id)}

\* pg_get_serial_sequence answers with any sequence the column owns.
IsSerial(db, id) ==
    /\ db[id].identity = "none"
    /\ \E q \in DOMAIN db : q[1] = "sequence" /\ db[q].owner = {id}
    /\ db[id].default.text = "nextval"

\* Only CockroachDB hides columns.
ReadColumn(db, id, flavor) ==
    [type |-> db[id].type, notnull |-> db[id].notnull,
     default |-> db[id].default, identity |-> db[id].identity,
     generated |-> db[id].generated, serial |-> IsSerial(db, id),
     hidden |-> flavor = "cockroach" /\ db[id].hidden]

\* What is read of the other kinds: the content of tables, and the owner and
\* the counter of a sequence, are not.
ReadExtension(e) == [schema |-> e.schema]
ReadEnum(e) == [labels |-> e.labels]
ReadTable(t) == [partition |-> t.partition, rls |-> t.rls, forced |-> t.forced]
ReadConstraint(c) == [kind |-> c.kind, def |-> c.def]
ReadIndex(i) == [unique |-> i.unique, def |-> i.def]
ReadPolicy(p) == [def |-> p.def]
ReadSequence(q) == [min |-> q.min, max |-> q.max]
ReadView(v) == [mat |-> v.mat, def |-> v.def]
ReadRoutine(r) == [kind |-> r.kind, def |-> r.def]

\* A trigger of CockroachDB is enabled or not; replication modes are
\* PostgreSQL's.
ReadTrigger(t, flavor) ==
    [mode |-> IF flavor = "cockroach" /\ t.mode # "disabled" THEN "origin" ELSE t.mode,
     def |-> t.def]

Reading(db, id, flavor) ==
    CASE id[1] = "schema"     -> db[id]
      [] id[1] = "extension"  -> ReadExtension(db[id])
      [] id[1] = "enum"       -> ReadEnum(db[id])
      [] id[1] = "table"      -> ReadTable(db[id])
      [] id[1] = "column"     -> ReadColumn(db, id, flavor)
      [] id[1] = "constraint" -> ReadConstraint(db[id])
      [] id[1] = "index"      -> ReadIndex(db[id])
      [] id[1] = "policy"     -> ReadPolicy(db[id])
      [] id[1] = "sequence"   -> ReadSequence(db[id])
      [] id[1] = "view"       -> ReadView(db[id])
      [] id[1] = "routine"    -> ReadRoutine(db[id])
      [] id[1] = "trigger"    -> ReadTrigger(db[id], flavor)

Introspect(db, flavor) ==
    [id \in Visible(db, flavor) |-> Reading(db, id, flavor)]

\* Column::semantic_eq: a serial column's default names its sequence, and
\* sequence names are not compared.
SemanticEq(s, t) ==
    /\ \A f \in DOMAIN s \ {"default"} : s[f] = t[f]
    /\ s.serial \/ s.default = t.default
=============================================================================
