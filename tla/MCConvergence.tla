---------------------------- MODULE MCConvergence ----------------------------
(***************************************************************************)
(* The databases Convergence is checked on.  Each family varies what one   *)
(* part of the diff looks at; every member is taken as the target of every *)
(* other one.  The first family of a run is chosen by its cfg.             *)
(***************************************************************************)
EXTENDS Convergence

CONSTANT Families

MCNames == <<"__end__", "a", "app", "audit", "b", "ck", "e", "f", "fk", "hstore",
             "item", "item_b_seq", "ix", "k", "p", "public", "q", "spot", "tr",
             "un", "v", "w">>

\* A family's members are unions of fragments.
Nothing == [i \in {} |-> "none"]
Union(parts) == FoldLeft(Merge, Nothing, parts)
Schema(s) == One(<<"schema", s>>, "none")

Tab(n) == <<"table", Public, n>>
ColOf(t, c) == <<"column", Public, t, c>>
PartOf(kind, t, n) == <<kind, Public, t, n>>
Obj(kind, n) == <<kind, Public, n>>

Table(n) == One(Tab(n), [partition |-> "none", rls |-> FALSE, forced |-> FALSE,
                         kept |-> TRUE])
Plainly == [type |-> Expr("int", {}), notnull |-> FALSE, default |-> NoExpr,
            identity |-> "none", generated |-> NoExpr, hidden |-> FALSE, kept |-> TRUE]
Column(t, c) == One(ColOf(t, c), Plainly)
Typed(t, c, type) == One(ColOf(t, c), [Plainly EXCEPT !.type = type])
Def(kind, t, n, text, uses) ==
    One(PartOf(kind, t, n), [def |-> Expr(text, uses)])
Constraint(kind, t, n, text, uses) ==
    One(PartOf("constraint", t, n), [kind |-> kind, def |-> Expr(kind \o text, uses)])
Index(t, n, unique, uses) ==
    One(PartOf("index", t, n), [unique |-> unique, def |-> Expr("on", uses)])
View(n, mat, text, uses) == One(Obj("view", n), [mat |-> mat, def |-> Expr(text, uses)])
Routine(n, kind, text, uses) ==
    One(Obj("routine", n), [kind |-> kind, def |-> Expr(text, uses)])
Trigger(t, n, mode, text, uses) ==
    One(PartOf("trigger", t, n), [mode |-> mode, def |-> Expr(text, uses)])
Enum(n, labels) == One(Obj("enum", n), [labels |-> labels])
SequenceOf(n, min, max, last, owner) ==
    One(Obj("sequence", n), [min |-> min, max |-> max, owner |-> owner,
                             last |-> last, kept |-> TRUE])

-----------------------------------------------------------------------------
\* One table whose column b is anything a column can be.
BColumns ==
    LET b == ColOf("item", "b")
        With(f, v) == [Plainly EXCEPT ![f] = v]
        zero == Expr("0", {})
        Sum(text) == [Plainly EXCEPT !.generated = Expr(text, {ColOf("item", "a")})]
    IN  {Nothing,
         One(b, Plainly), One(b, With("notnull", TRUE)),
         One(b, With("default", zero)),
         One(b, [With("default", zero) EXCEPT !.notnull = TRUE]),
         One(b, With("type", Expr("text", {}))),
         One(b, With("hidden", TRUE)),
         One(b, [With("identity", "always") EXCEPT !.notnull = TRUE]),
         One(b, [With("identity", "default") EXCEPT !.notnull = TRUE]),
         One(b, Sum("a+1")), One(b, Sum("a+2")),
         Merge(One(b, [With("default", Expr("nextval", {SerialSeq(b)})) EXCEPT !.notnull = TRUE]),
               One(SerialSeq(b), [min |-> 1, max |-> 9, owner |-> {b}, last |-> 1,
                                  kept |-> TRUE]))}
Columns ==
    LET base == Union(<<Schema(Public), Table("item"), Column("item", "a")>>)
        b == {ColOf("item", "b")}
        Uses(c) == IF c = Nothing THEN {Nothing}
                   ELSE {Nothing, Index("item", "ix", TRUE, b),
                         Constraint("primary", "item", "k", "(b)", b),
                         View("v", FALSE, "select b", b)}
        Keyed(c, u) == IF PartOf("constraint", "item", "k") \in DOMAIN u
                       THEN [c EXCEPT ![ColOf("item", "b")].notnull = TRUE] ELSE c
    IN  UNION {{Union(<<base, Keyed(c, u), u>>) : u \in Uses(c)} : c \in BColumns}

-----------------------------------------------------------------------------
\* Two tables that may refer to each other, either of which may be missing.
Referring ==
    LET P == Union(<<Table("p"), Column("p", "a")>>)
        Q == Union(<<Table("q"), Column("q", "a")>>)
        On(t) == {ColOf(t, "a")}
        KeyP(kind, text) == Constraint(kind, "p", "k", text, On("p"))
        KeyQ == Constraint("unique", "q", "un", "(a)", On("q"))
        ToQ(text) == Constraint("foreign", "p", "fk", text,
                                On("p") \cup {PartOf("constraint", "q", "un")})
        ToP == Constraint("foreign", "q", "fk", "to p",
                          On("q") \cup {PartOf("constraint", "p", "k")})
        Audit == Union(<<Schema("audit"),
                   One(<<"table", "audit", "q">>, Table("q")[Tab("q")]),
                   One(<<"constraint", "audit", "q", "fk">>,
                       [kind |-> "foreign", def |-> Expr("to p", {PartOf("constraint", "p", "k")})])>>)
        Check == Constraint("check", "p", "ck", "a > 0", On("p"))
        S == Schema(Public)
    IN  {S, Union(<<S, P>>), Union(<<S, Q>>), Union(<<S, P, Q>>),
         Union(<<S, P, Check>>),
         Union(<<S, P, KeyP("unique", "(a)")>>), Union(<<S, SetFacet(P, ColOf("p", "a"), "notnull", TRUE), KeyP("primary", "(a)")>>),
         Union(<<S, P, KeyP("unique", "(a) deferrable")>>),
         Union(<<S, P, Q, KeyQ>>), Union(<<S, Q, KeyQ>>),
         Union(<<S, P, Q, KeyQ, ToQ("to q")>>),
         Union(<<S, P, Q, KeyQ, ToQ("to q cascade")>>),
         Union(<<S, P, Q, KeyP("unique", "(a)"), ToP>>),
         Union(<<S, P, Q, KeyP("unique", "(a) deferrable"), ToP>>),
         Union(<<S, P, Q, KeyP("unique", "(a)"), KeyQ, ToP, ToQ("to q")>>),
         Union(<<S, P, KeyP("unique", "(a)"), Audit>>)}

\* An enum with any labels, the type of a column or of a routine's argument.
Labels == {l \in UNION {[1..n -> {"x", "y", "z"}] : n \in 0..3} :
              \A i, j \in DOMAIN l : l[i] = l[j] => i = j}
Enums ==
    LET base == Union(<<Schema(Public), Table("item"), Column("item", "a")>>)
        e == {Obj("enum", "e")}
        Users == {Nothing, Typed("item", "b", Expr("e", e)),
                  Routine("f", "function", "takes e", e)}
    IN  {Union(<<base, Enum("e", l)>>) : l \in Labels}
          \cup {base}
          \cup {Union(<<base, Enum("e", <<"x">>), u>>) : u \in Users}

\* Row-level security, policies, partitioning and an index of one table.
Tables ==
    LET base == Union(<<Schema(Public), Table("item"), Column("item", "a")>>)
        a == {ColOf("item", "a")}
        With(facet, v) == SetFacet(base, Tab("item"), facet, v)
        Policy(text) == Def("policy", "item", "p", text, a)
        Ix == Index("item", "ix", FALSE, a)
    IN  {base, Merge(base, Ix), Merge(base, Policy("one")), Merge(base, Policy("two")),
         With("rls", TRUE), SetFacet(With("rls", TRUE), Tab("item"), "forced", TRUE),
         Merge(With("rls", TRUE), Policy("one")),
         With("partition", "hash"), Merge(With("partition", "hash"), Ix),
         Merge(With("partition", "hash"), Policy("one")), Schema(Public)}

\* Views over a table, over each other and over a routine; a trigger and an
\* index on a view.
Views ==
    LET base == Union(<<Schema(Public), Table("item"), Column("item", "a"),
                        Column("item", "b")>>)
        less == Without(base, {ColOf("item", "b")})
        a == {ColOf("item", "a")}
        f == Routine("f", "function", "one", {})
        V(text) == View("v", FALSE, text, a)
        W == View("w", FALSE, "over v", {Obj("view", "v")})
        Over == View("v", FALSE, "over w", {Obj("view", "w")})
        Instead == Trigger("v", "tr", "origin", "instead", {Obj("routine", "f")})
    IN  {base, less, Merge(base, V("one")), Merge(base, V("two")), Merge(less, V("one")),
         Merge(base, View("v", FALSE, "b", {ColOf("item", "b")})),
         Merge(base, View("v", TRUE, "one", a)),
         Union(<<base, View("v", TRUE, "one", a), Index("v", "ix", FALSE, {Obj("view", "v")})>>),
         Union(<<base, V("one"), W>>), Union(<<base, V("two"), W>>),
         Union(<<base, View("w", FALSE, "one", a), Over>>),
         Union(<<base, f, V("one")>>), Union(<<base, f, V("one"), Instead>>),
         Union(<<base, f, V("two"), Instead>>),
         Union(<<base, f, View("v", FALSE, "f", {Obj("routine", "f")})>>)}

\* A routine of either kind, the trigger and the default that call it.
Routines ==
    LET base == Union(<<Schema(Public), Table("item"), Column("item", "a")>>)
        f == {Obj("routine", "f")}
        F(kind, text) == Routine("f", kind, text, {})
        Tr(mode, text) == Trigger("item", "tr", mode, text, f)
        Calls == SetFacet(base, ColOf("item", "a"), "default", Expr("f()", f))
        Sum == One(ColOf("item", "b"), [Plainly EXCEPT !.generated = Expr("f()", f)])
    IN  {Schema(Public), base, Union(<<base, F("function", "one"), Sum>>),
         Merge(base, F("procedure", "one")), Merge(base, F("procedure", "two"))}
          \cup {Merge(base, F("function", d)) : d \in {"one", "two"}}
          \cup {Merge(Calls, F("function", d)) : d \in {"one", "two"}}
          \cup {Union(<<base, F("function", d), Tr(m, x)>>) :
                    d \in {"one", "two"}, m \in {"origin", "disabled"}, x \in {"each", "after"}}

\* Schemas, an extension with a type, sequences, and a schema out of scope.
Spaces ==
    LET base == Union(<<Schema(Public), Table("item"), Column("item", "a")>>)
        app == Schema("app")
        hstore(s) == One(<<"extension", "hstore">>, [schema |-> s])
        b == Typed("item", "b", Expr("hstore", {<<"extension", "hstore">>}))
        inside == One(<<"enum", "app", "e">>, [labels |-> <<"x">>])
        spot(min, max, last) == SequenceOf("spot", min, max, last, {})
        audit == Union(<<Schema("audit"), One(<<"view", "audit", "v">>,
                     [mat |-> FALSE, def |-> Expr("a", {ColOf("item", "a")})])>>)
    IN  {Schema(Public), base, Merge(base, app), Union(<<base, app, inside>>),
         Merge(base, hstore(Public)), Union(<<base, app, hstore("app")>>),
         Union(<<base, hstore(Public), Routine("f", "function", "takes hstore", {<<"extension", "hstore">>})>>),
         Union(<<base, hstore(Public), b>>), Union(<<base, app, hstore("app"), b>>),
         Union(<<base, Schema("audit"), hstore("audit")>>),
         Merge(base, audit), Merge(base, spot(1, 9, 9)), Merge(base, spot(1, 9, 1)),
         Merge(base, spot(5, 20, 5)), Merge(base, spot(11, 20, 20))}
-----------------------------------------------------------------------------
CaseOf(s, t, allow, flavor) == [source |-> s, target |-> t, allow |-> allow, flavor |-> flavor]
AllPairs(family, flavors) ==
    {CaseOf(s, t, allow, flavor) :
        s \in family, t \in family, allow \in BOOLEAN, flavor \in flavors}
Both == {"postgres", "cockroach"}
MCCases ==
    UNION {CASE f = "columns"   -> AllPairs(Columns, Both)
             [] f = "referring" -> AllPairs(Referring, Both)
             [] f = "enums"     -> AllPairs(Enums, {"postgres"})
             [] f = "tables"    -> AllPairs(Tables, {"postgres"})
             [] f = "views"     -> AllPairs(Views, {"postgres"})
             [] f = "routines"  -> AllPairs(Routines, Both)
             [] f = "spaces"    -> AllPairs(Spaces, {"postgres"})
           : f \in Families}
=============================================================================
