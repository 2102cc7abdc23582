----------------------------- MODULE Convergence -----------------------------
(***************************************************************************)
(* dpm's promise: apply the script that Emit renders of Diff, and the      *)
(* target is the source.  A database server executes the script statement  *)
(* by statement (module Database); what it refuses, or a session lost on   *)
(* the way, rolls the open transaction back.  The target is then read      *)
(* again and the next apply starts from what was left.                     *)
(***************************************************************************)
EXTENDS Database, PlanBorrows

CONSTANTS
    Cases,      \* [source, target, allow, flavor]: databases, --allow-destructive
    MaxApplies, \* bound: applies that reach COMMIT
    MaxLosses   \* bound: sessions lost in the middle of a script

ASSUME BoundsAssumption == MaxApplies \in Nat /\ MaxLosses \in Nat

\* What the catalogs deparse of a constraint or an index begins with its kind,
\* so two that read alike are of one kind.  A table and a view never share a
\* name.  "end" stands for no anchor and is no label.
ASSUME CasesAssumption ==
    \A c \in Cases :
        /\ c = [source |-> c.source, target |-> c.target, allow |-> c.allow,
                flavor |-> c.flavor]
        /\ IsDatabase(c.source) /\ IsDatabase(c.target)
        /\ c.allow \in BOOLEAN /\ c.flavor \in {"postgres", "cockroach"}
        /\ \A id \in DOMAIN c.source :
             /\ (/\ id \in DOMAIN c.target /\ id[1] \in {"constraint", "index"}
                 /\ c.source[id].def = c.target[id].def) => c.source[id] = c.target[id]
             /\ (id[1] = "column" /\ IsSerial(c.source, id))
                  => SerialSeq(id) \in Identifiers
             /\ id[1] = "enum" => ~HasLabel(c.source[id].labels, "end")
        /\ \A v, r \in DOMAIN c.target :
             v[1] = "view" /\ r[1] = "table" => ~SameRelation(v, r)

VARIABLES
    case,       \* the case, which does not change
    db,         \* the target as the session sees it
    saved,      \* the target as of BEGIN while a transaction is open
    open,       \* a transaction is open
    script,     \* the statements still to run
    phase,      \* "compare", "run", "refused" or "equal"
    applies,    \* scripts committed
    losses      \* sessions lost

vars == <<case, db, saved, open, script, phase, applies, losses>>

Durable == IF open THEN saved ELSE db

Source == Introspect(case.source, case.flavor)
PlanFrom(target) == Diff(Source, Introspect(target, case.flavor), case.flavor)

Init ==
    /\ case \in Cases
    /\ db = case.target /\ saved = case.target
    /\ open = FALSE /\ script = <<>>
    /\ phase = "compare" /\ applies = 0 /\ losses = 0

Compared ==
    /\ phase = "compare"
    /\ LET plan == PlanFrom(db) IN
        \/ /\ plan = <<>>
           /\ phase' = "equal" /\ UNCHANGED script
        \/ /\ plan # <<>> /\ applies < MaxApplies
           /\ script' = Emit(plan, case.flavor, case.allow)
           /\ phase' = "run"
    /\ UNCHANGED <<case, db, saved, open, applies, losses>>

BeginTx ==
    /\ phase = "run" /\ Head(script).do = "begin"
    /\ open' = TRUE /\ saved' = db
    /\ script' = Tail(script)
    /\ UNCHANGED <<case, db, phase, applies, losses>>

Execute ==
    /\ phase = "run" /\ Head(script).do \notin {"begin", "commit"}
    /\ Accepts(db, Head(script), case.flavor)
    /\ db' = Effect(db, Head(script))
    /\ script' = Tail(script)
    /\ UNCHANGED <<case, saved, open, phase, applies, losses>>

CommitTx ==
    /\ phase = "run" /\ Head(script).do = "commit"
    /\ open' = FALSE /\ saved' = db
    /\ script' = <<>> /\ phase' = "compare"
    /\ applies' = applies + 1
    /\ UNCHANGED <<case, db, losses>>

Refuse ==
    /\ phase = "run" /\ Head(script).do \notin {"begin", "commit"}
    /\ ~Accepts(db, Head(script), case.flavor)
    /\ db' = Durable /\ open' = FALSE
    /\ phase' = "refused"
    /\ UNCHANGED <<case, saved, script, applies, losses>>

Lose ==
    /\ phase = "run" /\ losses < MaxLosses
    /\ db' = Durable /\ open' = FALSE
    /\ script' = <<>> /\ phase' = "compare"
    /\ losses' = losses + 1
    /\ UNCHANGED <<case, saved, applies>>

Next == Compared \/ BeginTx \/ Execute \/ CommitTx \/ Refuse \/ Lose
Spec == Init /\ [][Next]_vars
-----------------------------------------------------------------------------
(***************************************************************************)
(* What the properties speak of.                                           *)
(***************************************************************************)
\* What the target itself cannot lose without a destructive change.
Protected(d, id) ==
    CASE id[1] \in {"table", "column", "sequence"} -> d[id].kept
      [] id[1] = "constraint" -> d[id].kind \in {"primary", "unique"}
      [] id[1] = "index"      -> d[id].unique
      [] OTHER                -> TRUE
Survives(id, d, e) ==
    /\ id \in DOMAIN e
    /\ id[1] \in {"table", "column", "sequence"} => e[id].kept
    /\ id[1] = "enum" => \A i \in DOMAIN d[id].labels : HasLabel(e[id].labels, d[id].labels[i])
OfReplacedView(id, d) ==
    /\ Len(id) = 4
    /\ \E v \in DOMAIN d \cap DOMAIN Source :
            v[1] = "view" /\ SameRelation(id, v) /\ d[v] # Source[v]

RunAll(d, statements) ==
    FoldLeft(LAMBDA r, st : IF r.ok /\ Accepts(r.db, st, case.flavor)
                            THEN [r EXCEPT !.db = Effect(r.db, st)]
                            ELSE [ok |-> FALSE, db |-> <<>>],
             [ok |-> TRUE, db |-> d], statements)

Resisted ==
    /\ phase = "run" /\ Head(script).do \notin {"begin", "commit"}
    /\ ~Accepts(db, Head(script), case.flavor)

\* A later statement of the script, run first, would have made the resisted
\* one acceptable.
Inversions ==
    {i \in 2..Len(script) :
        /\ script[i].do \notin {"begin", "commit"}
        /\ Accepts(db, script[i], case.flavor)
        /\ Accepts(Effect(db, script[i]), Head(script), case.flavor)}

\* What the new text of a statement names, and what a drop would set free.
NamedBy(st) ==
    CASE st.do \in {"ensure", "create", "replace"} ->
            UNION {UsesOf(id, st.with[id]) : id \in {i \in DOMAIN st.with : i[1] # "sequence"}}
      [] st.do = "set" /\ st.with.facet \in {"type", "default"} -> st.with.value.uses
      [] OTHER -> {}
FreedBy(id) == UNION {UsesOf(o, db[o]) : o \in Closure(db, id)}

\* The pairs of statements the phases, and the order of names within one, put
\* the wrong way round.  Routines come after the columns and views that call
\* them, and views follow their names.  A replaced routine is dropped before
\* the column that calls it, a type before the routine that takes it, a key
\* before the table that refers to it, tables and views in the order of their
\* names.  ADD IDENTITY precedes the NOT NULL it asks for.
CreatedTooLate(first, then) ==
    /\ then.do = "create" /\ then.on \in NamedBy(first)
    /\ then.on[1] = "routine" \/ (then.on[1] = "view" /\ first.on[1] = "view")
DroppedTooSoon(first, then) ==
    /\ first.do = "drop" /\ then.on \in DOMAIN db
    /\ FreedBy(then.on) \cap Closure(db, first.on) # {}
    /\ <<first.on[1], then.on[1]>> \in
         {<<"routine", "column">>, <<"enum", "routine">>, <<"extension", "routine">>,
          <<"constraint", "table">>, <<"table", "table">>, <<"view", "view">>}
NotNullTooLate(first, then) ==
    /\ first.do = "add_identity"
    /\ \/ then = Set(first.on, "notnull", TRUE)
       \/ then.do = "create" /\ then.on[1] = "constraint" /\ first.on \in NamedBy(then)
KnownInversion(first, then) ==
    CreatedTooLate(first, then) \/ DroppedTooSoon(first, then) \/ NotNullTooLate(first, then)

\* What stands in the way of a statement: the dependents of a drop, what forbids
\* another type or a null, the triggers that keep CockroachDB from replacing.
InTheWay(st) ==
    CASE st.do = "drop" -> Dependents(db, st.on)
      [] st.do = "set" /\ st.with.facet = "type" ->
            {o \in DOMAIN db : TypeInUse(One(o, db[o]), st.on)}
      [] st.do = "set" /\ st.with.facet = "notnull" ->
            {p \in PrimaryKeys(db, st.on) : st.on \in UsesOf(p, db[p])}
      [] st.do = "replace" ->
            {o \in DOMAIN db : o[1] = "trigger" /\ st.on \in UsesOf(o, db[o])}
      [] OTHER -> {}

\* What no statement moves out of the way: it is the same on both sides, out
\* of scope, or its drop is withheld.
SameOnBothSides(id) ==
    LET target == Introspect(db, case.flavor)
    IN  id \in DOMAIN target \cap DOMAIN Source /\ Source[id] = target[id]
NotTakenDown(id) ==
    SameOnBothSides(id) \/ ~InScope(id) \/ (~case.allow /\ id \notin DOMAIN Source)

SchemaIsThere(st) ==
    st.do \in {"create", "ensure"} =>
        \A id \in DOMAIN st.with : Len(id) > 2 => <<"schema", id[2]>> \in DOMAIN db

\* Two tables to be dropped that refer to each other.
Circular(st) ==
    /\ st.do = "drop" /\ st.on[1] = "table"
    /\ \E q \in DOMAIN db \ DOMAIN Source :
         /\ q[1] = "table" /\ q # st.on
         /\ \E k \in Dependents(db, st.on) : SameRelation(k, q)
         /\ \E k \in Dependents(db, q) : SameRelation(k, st.on)

\* What the first script cannot finish although everything is allowed.
TargetHas(id) == id \in DOMAIN case.target
Rebuilt(t) ==
    /\ TargetHas(t) /\ t \in DOMAIN Source
    /\ Source[t].partition # case.target[t].partition
Regenerated(id) ==
    \E col \in UsesOf(id, Source[id]) :
        /\ col[1] = "column" /\ TargetHas(col) /\ col \in DOMAIN Source
        /\ Source[col].generated # case.target[col].generated
\* Labels removed or reordered to begin with.
NeedsHands(c) ==
    /\ Manual(c) /\ TargetHas(c.on)
    /\ ~IsSubsequence(case.target[c.on].labels, Source[c.on].labels)
LeftToTheNext(c) ==
    \/ c.op \in {"set_default", "make_serial"} /\ TargetHas(c.on)
         /\ case.target[c.on].identity # "none"
    \/ c.op \in {"add_constraint", "create_index"} /\ Regenerated(c.on)
    \/ c.op = "create_table" /\ Rebuilt(c.on)
    \/ c.op = "create_trigger" /\ OfReplacedView(c.on, case.target)
    \/ c.op = "add_constraint" /\ case.flavor = "cockroach" /\ c.to.kind = "foreign"
-----------------------------------------------------------------------------
(***************************************************************************)
(* Properties.                                                             *)
(***************************************************************************)
\* The target never holds an object that names a missing one, a transaction
\* is open only while a script runs, and the bounds hold.
TypeOK ==
    /\ IsDatabase(db) /\ IsDatabase(saved)
    /\ open \in BOOLEAN /\ (open => phase = "run")
    /\ phase \in {"compare", "run", "refused", "equal"}
    /\ applies \in 0..MaxApplies /\ losses \in 0..MaxLosses

\* The diff misses nothing: an empty plan means that the two catalogs have the
\* same objects (public itself aside) with the same definitions, up to the
\* default of a serial column and the kind a constraint's text implies.
EmptyPlanMeansEqual ==
    phase = "equal" =>
        LET target == Introspect(db, case.flavor)
            Named(cat) == DOMAIN cat \ {<<"schema", Public>>}
        IN  /\ Named(Source) = Named(target)
            /\ \A id \in Named(Source) :
                 IF id[1] = "column" THEN SemanticEq(Source[id], target[id])
                 ELSE Source[id] = target[id]

\* One apply with everything allowed leaves only what its script could not
\* finish: the default of a former identity column, what went with a
\* regenerated column, a table rebuilt for another partitioning, a trigger of
\* a replaced view, a foreign key that CockroachDB's CASCADE took along, and
\* enums that need hands.
OnceIsEnough ==
    (phase = "compare" /\ applies = 1 /\ case.allow) =>
        LET plan == PlanFrom(db) IN
        \A i \in DOMAIN plan : NeedsHands(plan[i]) \/ LeftToTheNext(plan[i])

\* The second apply ends it: what is left is withheld for want of permission
\* or needs hands, and applying again would change nothing.
Settles ==
    (phase = "compare" /\ applies = 2) =>
        LET plan == PlanFrom(db) IN
        \A i \in DOMAIN plan :
            \/ NeedsHands(plan[i]) \/ Gated(plan[i], case.allow)
            \/ ~case.allow /\ plan[i].op = "create_table" /\ Rebuilt(plan[i].on)

\* The phases of emit.rs never put one change in the way of another, but for
\* the pairs listed: a statement the server resists waits for none that comes
\* later in its script.
OrderSuffices ==
    Resisted =>
        \A i \in Inversions : KnownInversion(Head(script), script[i])

\* A refusal that no later statement would cure is for want of a statement the
\* plan does not have: one that takes down and puts back what stays in the way,
\* drops the default before ADD IDENTITY, breaks the circle of two tables,
\* moves a sequence between disjoint bounds, rebuilds a table in the order of
\* its parts, or makes a schema that --schemas names and the target lacks.
RefusalsAreExplained ==
    (Resisted /\ Inversions = {}) =>
        LET st == Head(script) IN
        \/ \E id \in InTheWay(st) : NotTakenDown(id)
        \/ st.do = "add_identity" /\ db[st.on].default # NoExpr
        \/ Circular(st)
        \/ st.do = "clamp" /\ (db[st.on].max < st.with.min \/ st.with.max < db[st.on].min)
        \/ Len(st.on) > 2 /\ Rebuilt(<<"table", st.on[2], st.on[3]>>)
        \/ SchemasGiven /\ ~SchemaIsThere(st)

\* Applying either stops at a refusal that has one of the causes above, or
\* brings the target to the source but for the ends listed: no other change
\* stands in the way of another or lacks a statement, one apply leaves little
\* behind, and after a second one there is nothing left that dpm could do.
Converges ==
    TypeOK /\ OrderSuffices /\ RefusalsAreExplained /\ OnceIsEnough /\ Settles

\* A sequence's counter strands outside no bounds that overlap the old ones:
\* moving it first (sequence_alter_sql) is refused only when they do not, and
\* then the bounds follow whatever the counter was.
ClampStrandsNothing ==
    (Resisted /\ Head(script).do \in {"clamp", "resize"}) =>
        LET seq == db[Head(script).on]  new == Head(script).with IN
        /\ Head(script).do = "clamp" /\ Head(script).on \in DOMAIN db
        /\ seq.max < new.min \/ new.max < seq.min

\* What the certificate calls compatible is: two changes without a borrow
\* conflict, run in either order, are accepted or refused alike and leave the
\* same database.
CompatibleCommute ==
    phase = "compare" =>
        LET plan == PlanFrom(db)
            Sql(i) == Statements(plan[i], case.flavor)
            Lent(i) == ChangeBorrows(plan[i].op, plan[i].on)
        IN  \A i, j \in DOMAIN plan :
                (i < j /\ ~Conflict(Lent(i), Lent(j))) =>
                    LET first == RunAll(db, Sql(i) \o Sql(j))
                        last == RunAll(db, Sql(j) \o Sql(i))
                    IN  first.ok = last.ok /\ (first.ok => first.db = last.db)

\* Without --allow-destructive no apply, whatever becomes of it, loses a table,
\* a column or a sequence with its content, a label, or an object whose drop
\* is destructive; triggers and indexes of a replaced view are the exception.
GatedKeeps ==
    [][~case.allow =>
        \A id \in DOMAIN Durable :
            Protected(Durable, id) =>
                Survives(id, Durable, Durable') \/ OfReplacedView(id, Durable)]_vars

\* Short of COMMIT nothing is left behind but labels the source wants.
AtomicButLabels ==
    [][(Durable' # Durable /\ applies' = applies) =>
        /\ DOMAIN Durable' = DOMAIN Durable
        /\ \A id \in DOMAIN Durable : Durable'[id] # Durable[id] =>
              /\ id[1] = "enum"
              /\ IsSubsequence(Durable[id].labels, Durable'[id].labels)
              /\ IsSubsequence(Durable'[id].labels, Source[id].labels)]_vars

\* What is out of scope is never touched, except a foreign key that refers to
\* a constraint CockroachDB drops with CASCADE, and a missing schema that an
\* extension of the source lives in: extensions are in scope wherever they are.
Untouched(d, e, id) == id \in DOMAIN d /\ id \in DOMAIN e /\ e[id] = d[id]
HomeOfExtension(id) ==
    \E x \in DOMAIN Source : x[1] = "extension" /\ id = <<"schema", Source[x].schema>>
OutOfScopeKept ==
    [][\A id \in DOMAIN Durable \cup DOMAIN Durable' :
        \/ InScope(id) \/ Untouched(Durable, Durable', id)
        \/ /\ id \in DOMAIN Durable
           /\ id[1] = "constraint" /\ case.flavor = "cockroach"
        \/ id \notin DOMAIN Durable /\ HomeOfExtension(id)]_vars
-----------------------------------------------------------------------------
(***************************************************************************)
(* What the repository says of itself and the code does not do.            *)
(***************************************************************************)
\* readme.md:265: applying the generated migration and diffing again yields no
\* changes, with destructive changes allowed as in tests/convergence.rs:177.
\* Labels that need hands are excepted, as in readme.md:172.
RediffIsEmpty ==
    (phase = "compare" /\ applies = 1 /\ case.allow /\ case.flavor = "postgres") =>
        LET plan == PlanFrom(db) IN \A i \in DOMAIN plan : Manual(plan[i])

\* readme.md:172: another partition strategy is surfaced as a comment for
\* review; the table and its rows stay.
PartitionsAreLeftAlone ==
    \A t \in DOMAIN case.target :
        (t[1] = "table" /\ Rebuilt(t)) => t \in DOMAIN Durable /\ Durable[t].kept
=============================================================================
