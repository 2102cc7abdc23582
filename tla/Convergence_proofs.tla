-------------------------- MODULE Convergence_proofs --------------------------
(***************************************************************************)
(* Proofs about Convergence: the invariant of a script that runs, and the  *)
(* theorems that follow from it.                                           *)
(***************************************************************************)
EXTENDS Convergence, Database_proofs

-----------------------------------------------------------------------------
(***************************************************************************)
(* The run of a script.                                                    *)
(***************************************************************************)
LEMMA TailIs ==
  ASSUME NEW s, IsSeq(s), Len(s) > 0
  PROVE  /\ Len(s) \in Nat /\ 1 \in DOMAIN s /\ Len(s) \in DOMAIN s /\ Head(s) = s[1]
         /\ IsSeq(Tail(s)) /\ Len(Tail(s)) = Len(s) - 1
         /\ DOMAIN Tail(s) = 1..(Len(s) - 1)
         /\ \A i \in 1..(Len(s) - 1) : Tail(s)[i] = s[i + 1] /\ i + 1 \in DOMAIN s
<1>1. PICK T : s \in Seq(T)
  BY DEF IsSeq
<1>2. s # <<>>
  BY <1>1
<1>3. Tail(s) \in Seq(T)
  BY <1>1, <1>2
<1>4. /\ Len(s) \in Nat /\ 1 \in DOMAIN s /\ Len(s) \in DOMAIN s /\ Head(s) = s[1]
      /\ Len(Tail(s)) = Len(s) - 1 /\ DOMAIN Tail(s) = 1..(Len(s) - 1)
  BY <1>1, <1>2, <1>3
<1>5. \A i \in 1..(Len(s) - 1) : Tail(s)[i] = s[i + 1] /\ i + 1 \in DOMAIN s
  BY <1>1, <1>2
<1> QED
  BY <1>3, <1>4, <1>5 DEF IsSeq

LEMMA StmtDoes ==
  ASSUME NEW st, StmtOK(st)
  PROVE  st.do \notin {"begin", "commit"}
BY DEF StmtOK, IdentityDos

Shift(ph, n) == [i \in 1..n |-> ph[i + 1]]

LEMMA PhasedHead ==
  ASSUME NEW scr, NEW ph, NEW s, NEW t, NEW fl, NEW allow, NEW all,
         Phased(scr, ph, s, t, fl, allow, all)
  PROVE  /\ IsSeq(scr) /\ Len(scr) > 0 /\ Len(scr) \in Nat /\ 1 \in DOMAIN scr
         /\ Head(scr) = scr[1] /\ ph[1] \in 0..28
         /\ scr[1].do = "begin" <=> ph[1] = 1
         /\ scr[1].do = "commit" <=> ph[1] = 28
         /\ ph[1] = 28 => Len(scr) = 1
         /\ ph[1] # 28 => Len(scr) > 1
         /\ ph[1] \notin {1, 28} =>
              Serves(scr[1], ph[1], s, t, fl, allow, all) /\ StmtOK(scr[1])
<1>1. /\ IsSeq(scr) /\ Len(scr) > 0 /\ Len(scr) \in Nat /\ 1 \in DOMAIN scr /\ Head(scr) = scr[1]
  <2>1. IsSeq(scr) /\ Len(scr) > 0
    BY DEF Phased
  <2> QED
    BY <2>1, TailIs
<1>2. /\ ph[1] \in 0..28
      /\ \/ ph[1] = 1 /\ scr[1] = Begin /\ 1 < Len(scr)
         \/ ph[1] = 28 /\ scr[1] = Commit /\ 1 = Len(scr)
         \/ /\ ph[1] \in (0..27) \ {1} /\ 1 < Len(scr)
            /\ Serves(scr[1], ph[1], s, t, fl, allow, all)
  BY <1>1 DEF Phased
<1>3. Serves(scr[1], ph[1], s, t, fl, allow, all) => StmtOK(scr[1])
  BY DEF Serves
<1>4. StmtOK(scr[1]) => scr[1].do \notin {"begin", "commit"}
  BY StmtDoes
<1>5. Begin.do = "begin" /\ Commit.do = "commit"
  BY DEF Begin, Commit, Stmt
<1> DEFINE x == scr[1].do  n == ph[1]  l == Len(scr)
<1>6. /\ x = "begin" <=> n = 1
      /\ x = "commit" <=> n = 28
      /\ n = 28 => l = 1
      /\ n # 28 => l > 1
      /\ n \notin {1, 28} => Serves(scr[1], n, s, t, fl, allow, all) /\ StmtOK(scr[1])
  <2>1. CASE n = 1 /\ scr[1] = Begin /\ 1 < l
    <3>1. x = "begin"
      BY <1>5, <2>1
    <3> HIDE DEF x, n
    <3> QED
      BY <2>1, <3>1
  <2>2. CASE n = 28 /\ scr[1] = Commit /\ 1 = l
    <3>1. x = "commit"
      BY <1>5, <2>2
    <3> HIDE DEF x, n
    <3> QED
      BY <2>2, <3>1
  <2>3. CASE /\ n \in (0..27) \ {1} /\ 1 < l
             /\ Serves(scr[1], n, s, t, fl, allow, all)
    <3>1. StmtOK(scr[1]) /\ x \notin {"begin", "commit"}
      BY <1>3, <1>4, <2>3
    <3>2. n # 1 /\ n # 28 /\ l > 1
      <4>1. n \in (0..27) \ {1} /\ 1 < l /\ l \in Nat
        BY <1>1, <2>3
      <4> HIDE DEF n, l
      <4>2. n # 1 /\ n # 28
        BY <4>1
      <4>3. l > 1
        BY <4>1
      <4> QED
        BY <4>2, <4>3
    <3> HIDE DEF x, n
    <3> QED
      BY <2>3, <3>1, <3>2
  <2> QED
    BY <1>2, <2>1, <2>2, <2>3
<1> QED
  BY <1>1, <1>2, <1>6

LEMMA PhasedTail ==
  ASSUME NEW scr, NEW ph, NEW s, NEW t, NEW fl, NEW allow, NEW all,
         Phased(scr, ph, s, t, fl, allow, all), ph[1] # 28
  PROVE  LET more == Tail(scr)  n == Len(scr) - 1 IN
         /\ Phased(more, Shift(ph, n), s, t, fl, allow, all)
         /\ n \in Nat /\ DOMAIN more = 1..n
         /\ \A i \in 1..n : /\ more[i] = scr[i + 1] /\ Shift(ph, n)[i] = ph[i + 1]
                            /\ i + 1 \in DOMAIN scr /\ ph[1] <= ph[i + 1]
<1> DEFINE more == Tail(scr)  n == Len(scr) - 1  sh == Shift(ph, n)
<1>1. IsSeq(scr) /\ Len(scr) > 0 /\ Len(scr) \in Nat /\ 1 \in DOMAIN scr /\ Len(scr) > 1
  BY PhasedHead
<1>2. /\ IsSeq(more) /\ Len(more) = n /\ DOMAIN more = 1..n
      /\ \A i \in 1..n : more[i] = scr[i + 1] /\ i + 1 \in DOMAIN scr
  BY <1>1, TailIs
<1>3. n \in Nat /\ n > 0 /\ n + 1 = Len(scr)
  BY <1>1
<1>4. \A i \in 1..n : sh[i] = ph[i + 1]
  BY DEF Shift
<1> HIDE DEF more, n, sh
<1>5. /\ scr[Len(scr)] = Commit
      /\ \A i \in DOMAIN scr : ph[i] \in 0..28
      /\ \A i, j \in DOMAIN scr : i < j => ph[i] <= ph[j]
      /\ \A i, j \in DOMAIN scr : ph[i] = 1 /\ ph[j] = 1 => i = j
      /\ \A i \in DOMAIN scr :
           \/ ph[i] = 1 /\ scr[i] = Begin /\ i < Len(scr)
           \/ ph[i] = 28 /\ scr[i] = Commit /\ i = Len(scr)
           \/ /\ ph[i] \in (0..27) \ {1} /\ i < Len(scr)
              /\ Serves(scr[i], ph[i], s, t, fl, allow, all)
  BY DEF Phased
<1>6. more[Len(more)] = Commit
  <2>1. n \in 1..n
    BY <1>3
  <2>2. more[n] = scr[n + 1]
    BY <1>2, <2>1
  <2> QED
    BY <1>2, <1>3, <1>5, <2>2
<1>7. \A i \in 1..n : sh[i] \in 0..28
  BY <1>2, <1>4, <1>5
<1>8. ASSUME NEW i \in 1..n, NEW j \in 1..n
      PROVE  /\ i < j => sh[i] <= sh[j]
             /\ sh[i] = 1 /\ sh[j] = 1 => i = j
  <2>1. i + 1 \in DOMAIN scr /\ j + 1 \in DOMAIN scr /\ sh[i] = ph[i + 1] /\ sh[j] = ph[j + 1]
    BY <1>2, <1>4
  <2>2. /\ i + 1 < j + 1 => ph[i + 1] <= ph[j + 1]
        /\ ph[i + 1] = 1 /\ ph[j + 1] = 1 => i + 1 = j + 1
    BY <1>5, <2>1
  <2>3. (i < j <=> i + 1 < j + 1) /\ (i + 1 = j + 1 => i = j)
    OBVIOUS
  <2> QED
    BY <2>1, <2>2, <2>3
<1>9. ASSUME NEW i \in 1..n
      PROVE  \/ sh[i] = 1 /\ more[i] = Begin /\ i < Len(more)
             \/ sh[i] = 28 /\ more[i] = Commit /\ i = Len(more)
             \/ /\ sh[i] \in (0..27) \ {1} /\ i < Len(more)
                /\ Serves(more[i], sh[i], s, t, fl, allow, all)
  <2>1. i + 1 \in DOMAIN scr /\ sh[i] = ph[i + 1] /\ more[i] = scr[i + 1]
    BY <1>2, <1>4
  <2>2. (i + 1 < Len(scr) <=> i < Len(more)) /\ (i + 1 = Len(scr) <=> i = Len(more))
    BY <1>2, <1>3
  <2> QED
    BY <1>5, <2>1, <2>2
<1>10. ASSUME NEW i \in 1..n PROVE ph[1] <= ph[i + 1]
  <2>1. 1 < i + 1
    OBVIOUS
  <2> QED
    BY <1>1, <1>2, <1>5, <2>1
<1>11. Phased(more, sh, s, t, fl, allow, all)
  BY <1>2, <1>3, <1>6, <1>7, <1>8, <1>9 DEF Phased
<1> QED
  BY <1>2, <1>3, <1>4, <1>10, <1>11 DEF more, n, sh

Provenance(d, target, s) ==
  \A id \in DOMAIN d : id[1] \in {"constraint", "index"} =>
     \/ id \in DOMAIN target /\ d[id] = target[id]
     \/ id \in DOMAIN s /\ d[id] = s[id]

HomeIn(s, id) == \E x \in DOMAIN s : x[1] = "extension" /\ id = <<"schema", s[x].schema>>

OutKept(d, e, s, fl) ==
  \A id \in DOMAIN d \cup DOMAIN e :
    \/ InScope(id) \/ Untouched(d, e, id)
    \/ id \in DOMAIN d /\ id[1] = "constraint" /\ fl = "cockroach"
    \/ id \notin DOMAIN d /\ HomeIn(s, id)

LEMMA OutKeptJoins ==
  ASSUME NEW d, NEW e, NEW f, NEW s, NEW fl, OutKept(d, e, s, fl), OutKept(e, f, s, fl)
  PROVE  OutKept(d, f, s, fl)
<1> SUFFICES ASSUME NEW id \in DOMAIN d \cup DOMAIN f, ~InScope(id)
             PROVE  \/ Untouched(d, f, id)
                    \/ id \in DOMAIN d /\ id[1] = "constraint" /\ fl = "cockroach"
                    \/ id \notin DOMAIN d /\ HomeIn(s, id)
  BY DEF OutKept
<1>1. id \in DOMAIN d \cup DOMAIN e =>
        \/ Untouched(d, e, id)
        \/ id \in DOMAIN d /\ id[1] = "constraint" /\ fl = "cockroach"
        \/ id \notin DOMAIN d /\ HomeIn(s, id)
  BY DEF OutKept
<1>2. id \in DOMAIN e \cup DOMAIN f =>
        \/ Untouched(e, f, id)
        \/ id \in DOMAIN e /\ id[1] = "constraint" /\ fl = "cockroach"
        \/ id \notin DOMAIN e /\ HomeIn(s, id)
  BY DEF OutKept
<1>3. HomeIn(s, id) => id[1] = "schema"
  BY DEF HomeIn
<1> QED
  BY <1>1, <1>2, <1>3 DEF Untouched

(* What a statement that serves the source keeps, and where its objects are from. *)
LEMMA ServedKeeps ==
  ASSUME NEW d, IsDatabase(d), NEW st, NEW n, NEW s, NEW t, NEW fl, NEW allow, NEW all,
         Serves(st, n, s, t, fl, allow, all), Accepts(d, st, fl)
  PROVE  LET e == Effect(d, st) IN
         /\ IsDatabase(e) /\ AllTouched(d, e, st)
         /\ OutKept(d, e, s, fl)
         /\ \A target : Provenance(d, target, s) => Provenance(e, target, s)
<1> DEFINE e == Effect(d, st)
<1>1. StmtOK(st)
  BY DEF Serves
<1>2. IsDatabase(e) /\ AllTouched(d, e, st)
  BY <1>1, EffectKeeps, EffectTouches
<1> HIDE DEF e
<1>3. ASSUME NEW id \in DOMAIN d \cup DOMAIN e, ~InScope(id)
      PROVE  \/ Untouched(d, e, id)
             \/ id \in DOMAIN d /\ id[1] = "constraint" /\ fl = "cockroach"
             \/ id \notin DOMAIN d /\ HomeIn(s, id)
  <2>1. Touched(id, d, e, st)
    BY <1>2 DEF AllTouched
  <2>2. \/ InScope(st.on)
        \/ st.do = "ensure" /\ \E k \in DOMAIN s : k[1] = "extension" /\ st.on = <<"schema", s[k].schema>>
    BY DEF Serves
  <2>3. Kin(id, st.on) => ~InScope(st.on) /\ (id = st.on \/ st.on[1] # "schema")
    BY <1>3 DEF Kin, InScope
  <2>4. st.on = id => ~InScope(st.on)
    BY <1>3
  <2>5. ~InScope(st.on) => st.on[1] = "schema" /\ HomeIn(s, st.on) /\ st.do = "ensure"
    BY <2>2 DEF HomeIn
  <2>6. CASE Made(id, d, e, st)
    <3>1. Kin(id, st.on) /\ id \notin DOMAIN d
      BY <2>6 DEF Made
    <3> QED
      BY <2>3, <2>5, <3>1
  <2>7. CASE Tight(id, d, e, st)
    <3>1. Kin(id, st.on) /\ id[1] = "column"
      BY <2>7 DEF Tight
    <3> QED
      BY <2>3, <2>5, <3>1
  <2>8. CASE st.do = "replace" /\ id = st.on
    BY <2>4, <2>5, <2>8
  <2>9. CASE Gone(id, d, e, st)
    <3>1. st.do \in Drops /\ id \in DOMAIN d
      BY <2>9 DEF Gone
    <3>2. InScope(st.on)
      BY <2>5, <3>1 DEF Drops
    <3>3. id # st.on /\ ~(id[2] = st.on[2] /\ st.on[1] \in {"table", "view", "column"})
      BY <1>3, <3>2 DEF InScope
    <3>4. st.do = "drop_cascade" /\ id[1] = "constraint"
      BY <2>9, <3>3 DEF Gone
    <3>5. fl = "cockroach"
      BY <3>4 DEF Serves
    <3> QED
      BY <3>1, <3>4, <3>5
  <2>10. CASE AlteredAs(id, d, e, st)
    <3>1. id = st.on /\ st.do # "ensure"
      BY <2>10 DEF AlteredAs, Makes
    <3> QED
      BY <2>4, <2>5, <3>1
  <2>11. CASE id \in DOMAIN d /\ id \in DOMAIN e /\ e[id] = d[id]
    BY <2>11 DEF Untouched
  <2> QED
    BY <2>1, <2>6, <2>7, <2>8, <2>9, <2>10, <2>11 DEF Touched
<1>4. ASSUME NEW target, Provenance(d, target, s), NEW id \in DOMAIN e,
             id[1] \in {"constraint", "index"}
      PROVE  \/ id \in DOMAIN target /\ e[id] = target[id]
             \/ id \in DOMAIN s /\ e[id] = s[id]
  <2>1. Touched(id, d, e, st)
    BY <1>2 DEF AllTouched
  <2>2. CASE id \in DOMAIN d /\ e[id] = d[id]
    BY <1>4, <2>2 DEF Provenance
  <2>3. CASE Made(id, d, e, st)
    <3>1. st.do \in Makes /\ id \in DOMAIN st.with /\ e[id] = st.with[id]
      BY <1>4, <2>3 DEF Made
    <3>2. id \in DOMAIN s /\ st.with[id] = s[id]
      BY <1>4, <3>1 DEF Serves
    <3> QED
      BY <3>1, <3>2
  <2>4. ~Tight(id, d, e, st) /\ ~Gone(id, d, e, st) /\ ~AlteredAs(id, d, e, st)
    BY <1>4 DEF Tight, Gone, AlteredAs
  <2> QED
    BY <1>4, <2>1, <2>2, <2>3, <2>4 DEF Touched
<1>5. OutKept(d, e, s, fl)
  BY <1>3 DEF OutKept
<1>6. \A target : Provenance(d, target, s) => Provenance(e, target, s)
  BY <1>4 DEF Provenance
<1> QED
  BY <1>2, <1>5, <1>6 DEF e

-----------------------------------------------------------------------------
(***************************************************************************)
(* The invariant.  While a script runs, what is left of it serves the      *)
(* source, phase by phase, and its BEGIN is ahead or behind.               *)
(***************************************************************************)
Running(t, all, ph) ==
  /\ Phased(script, ph, Source, t, case.flavor, case.allow, all)
  /\ open <=> \A i \in DOMAIN script : ph[i] # 1

Inv ==
  /\ case \in Cases /\ TypeOK
  /\ Provenance(db, case.target, Source) /\ Provenance(saved, case.target, Source)
  /\ open => OutKept(saved, db, Source, case.flavor)
  /\ phase = "equal" => PlanFrom(db) = <<>>
  /\ phase = "run" => applies < MaxApplies /\ \E t, all, ph : Running(t, all, ph)

LEMMA CaseIs ==
  ASSUME NEW c \in Cases
  PROVE  /\ IsDatabase(c.source) /\ IsDatabase(c.target) /\ Named(c.source)
         /\ c.allow \in BOOLEAN /\ c.flavor \in {"postgres", "cockroach"}
BY CasesAssumption DEF Named

(* The script of a plan serves the source. *)
LEMMA ScriptServes ==
  ASSUME NEW c \in Cases, NEW d, IsDatabase(d)
  PROVE  LET s == Introspect(c.source, c.flavor)
             t == Introspect(d, c.flavor)
             p == Diff(s, t, c.flavor)
             scr == Emit(p, c.flavor, c.allow)
         IN  /\ Offered(s) /\ IsReading(t) /\ Within(t) /\ IsSeq(p)
             /\ \A x \in ToSet(p) : Wants(x, s, t, ToSet(p))
             /\ p = <<>> => SameCatalogs(s, t)
             /\ Some(p) =>
                  /\ AllOf(scr, p, c.flavor, c.allow)
                  /\ \E ph : /\ Phased(scr, ph, s, t, c.flavor, c.allow, ToSet(p))
                             /\ LabelsFirst(scr, ph, InPhase(p, 0, c.flavor, c.allow))
<1> DEFINE fl == c.flavor  allow == c.allow
           s == Introspect(c.source, fl)
           t == Introspect(d, fl)
           p == Diff(s, t, fl)
           all == ToSet(p)
<1>1. Offered(s) /\ IsReading(s)
  <2>1. IsDatabase(c.source) /\ Named(c.source)
    BY CaseIs
  <2> QED
    BY <2>1, IsOffered DEF Offered
<1>2. IsReading(t)
  BY Introspected
<1>3. Within(t)
  <2>1. DOMAIN t \subseteq DOMAIN d /\ \A id \in DOMAIN t : InScope(id)
    BY ReadShape
  <2> QED
    BY <2>1 DEF Within, IsDatabase
<1>4. allow \in BOOLEAN
  BY CaseIs
<1> HIDE DEF s, t, fl, allow
<1>5. IsSeq(p) /\ (\A x \in ToSet(p) : Wants(x, s, t, ToSet(p))) /\ (p = <<>> => SameCatalogs(s, t))
  BY <1>1, <1>2, DiffIs
<1>51. IsSeq(p) /\ \A x \in ToSet(p) : Wants(x, s, t, all)
  BY <1>5
<1> HIDE DEF p, all
<1>6. ASSUME Some(p)
      PROVE  /\ AllOf(Emit(p, fl, allow), p, fl, allow)
             /\ \E ph : /\ Phased(Emit(p, fl, allow), ph, s, t, fl, allow, all)
                        /\ LabelsFirst(Emit(p, fl, allow), ph, InPhase(p, 0, fl, allow))
  BY <1>1, <1>3, <1>4, <1>51, <1>6, EmitServes
<1> QED
  BY <1>1, <1>2, <1>3, <1>5, <1>6 DEF s, t, fl, allow, p, all

LEMMA InvInit ==
  ASSUME Init
  PROVE  Inv
<1>1. /\ case \in Cases /\ db = case.target /\ saved = case.target /\ open = FALSE
      /\ phase = "compare" /\ applies = 0 /\ losses = 0
  BY DEF Init
<1>2. IsDatabase(db) /\ IsDatabase(saved)
  BY <1>1, CaseIs
<1>3. 0 \in 0..MaxApplies /\ 0 \in 0..MaxLosses
  BY BoundsAssumption
<1>4. TypeOK
  BY <1>1, <1>2, <1>3 DEF TypeOK
<1>5. Provenance(db, case.target, Source) /\ Provenance(saved, case.target, Source)
  BY <1>1 DEF Provenance
<1> QED
  BY <1>1, <1>4, <1>5 DEF Inv

LEMMA InvCompared ==
  ASSUME Inv, Compared
  PROVE  Inv'
<1>1. /\ phase = "compare" /\ case \in Cases /\ IsDatabase(db) /\ open = FALSE
  BY DEF Inv, TypeOK, Compared
<1>2. /\ case' = case /\ db' = db /\ saved' = saved /\ open' = open
      /\ applies' = applies /\ losses' = losses
  BY DEF Compared
<1>3. Source' = Source /\ PlanFrom(db)' = PlanFrom(db)
  BY <1>2 DEF Source, PlanFrom
<1>4. \/ PlanFrom(db) = <<>> /\ phase' = "equal"
      \/ /\ Some(PlanFrom(db)) /\ applies < MaxApplies /\ phase' = "run"
         /\ script' = Emit(PlanFrom(db), case.flavor, case.allow)
  BY DEF Compared, Some
<1>5. TypeOK'
  BY <1>1, <1>2, <1>4 DEF Inv, TypeOK
<1>6. CASE PlanFrom(db) = <<>> /\ phase' = "equal"
  BY <1>1, <1>2, <1>3, <1>5, <1>6 DEF Inv
<1>7. CASE /\ Some(PlanFrom(db)) /\ applies < MaxApplies /\ phase' = "run"
           /\ script' = Emit(PlanFrom(db), case.flavor, case.allow)
  <2> DEFINE t == Introspect(db, case.flavor)
             all == ToSet(PlanFrom(db))
             scr == Emit(PlanFrom(db), case.flavor, case.allow)
             u == InPhase(PlanFrom(db), 0, case.flavor, case.allow)
  <2>1. \E ph : /\ Phased(scr, ph, Source, t, case.flavor, case.allow, all)
                /\ LabelsFirst(scr, ph, u)
    BY <1>1, <1>7, ScriptServes DEF Source, PlanFrom
  <2> HIDE DEF t, all, scr, u
  <2>2. PICK ph : /\ Phased(scr, ph, Source, t, case.flavor, case.allow, all)
                  /\ LabelsFirst(scr, ph, u)
    BY <2>1
  <2>3. \E i \in DOMAIN scr : ph[i] = 1
    BY <2>2 DEF LabelsFirst
  <2>4. script' = scr
    BY <1>7 DEF scr
  <2>5. /\ Phased(script', ph, Source', t, case'.flavor, case'.allow, all)
        /\ open' <=> \A i \in DOMAIN script' : ph[i] # 1
    BY <1>1, <1>2, <1>3, <2>2, <2>3, <2>4
  <2>6. \E tt, aa, pp : /\ Phased(script', pp, Source', tt, case'.flavor, case'.allow, aa)
                        /\ open' <=> \A i \in DOMAIN script' : pp[i] # 1
    BY <2>5
  <2>7. (\E tt, aa, pp : Running(tt, aa, pp))'
    BY <2>6 DEF Running
  <2> QED
    BY <1>1, <1>2, <1>3, <1>5, <1>7, <2>7 DEF Inv
<1> QED
  BY <1>4, <1>6, <1>7

LEMMA InvBegin ==
  ASSUME Inv, BeginTx
  PROVE  Inv'
<1>1. /\ phase = "run" /\ Head(script).do = "begin" /\ open' = TRUE /\ saved' = db
      /\ script' = Tail(script) /\ case' = case /\ db' = db /\ phase' = phase
      /\ applies' = applies /\ losses' = losses
  BY DEF BeginTx
<1>2. PICK t, all, ph : Running(t, all, ph)
  BY <1>1 DEF Inv
<1> DEFINE n == Len(script) - 1  sh == Shift(ph, n)
<1>3. Phased(script, ph, Source, t, case.flavor, case.allow, all)
  BY <1>2 DEF Running
<1>4. ph[1] = 1 /\ 1 \in DOMAIN script
  <2>1. Head(script) = script[1] /\ (script[1].do = "begin" <=> ph[1] = 1) /\ 1 \in DOMAIN script
    BY <1>3, PhasedHead
  <2> QED
    BY <1>1, <2>1
<1>5. ph[1] # 28
  BY <1>4
<1>6. /\ Phased(Tail(script), sh, Source, t, case.flavor, case.allow, all)
      /\ n \in Nat /\ DOMAIN Tail(script) = 1..n
      /\ \A i \in 1..n : sh[i] = ph[i + 1] /\ i + 1 \in DOMAIN script
  BY <1>3, <1>5, PhasedTail
<1> HIDE DEF n, sh
<1>7. ASSUME NEW i \in 1..n PROVE sh[i] # 1
  <2>1. i + 1 \in DOMAIN script /\ sh[i] = ph[i + 1] /\ i + 1 # 1
    BY <1>6
  <2> QED
    BY <1>3, <1>4, <2>1 DEF Phased
<1>8. Source' = Source /\ (case.target)' = case.target
  BY <1>1 DEF Source
<1>9. /\ Phased(script', sh, Source', t, case'.flavor, case'.allow, all)
      /\ open' <=> \A i \in DOMAIN script' : sh[i] # 1
  BY <1>1, <1>6, <1>7, <1>8
<1>10. \E tt, aa, pp : /\ Phased(script', pp, Source', tt, case'.flavor, case'.allow, aa)
                       /\ open' <=> \A i \in DOMAIN script' : pp[i] # 1
  BY <1>9
<1>11. (\E tt, aa, pp : Running(tt, aa, pp))'
  BY <1>10 DEF Running
<1>12. OutKept(saved', db', Source', (case.flavor)')
  BY <1>1 DEF OutKept, Untouched
<1>13. TypeOK'
  BY <1>1 DEF Inv, TypeOK
<1> QED
  BY <1>1, <1>8, <1>11, <1>12, <1>13 DEF Inv

LEMMA InvExecute ==
  ASSUME Inv, Execute
  PROVE  Inv'
<1>1. /\ phase = "run" /\ Head(script).do \notin {"begin", "commit"}
      /\ Accepts(db, Head(script), case.flavor) /\ db' = Effect(db, Head(script))
      /\ script' = Tail(script) /\ case' = case /\ saved' = saved /\ open' = open
      /\ phase' = phase /\ applies' = applies /\ losses' = losses
  BY DEF Execute
<1>2. PICK t, all, ph : Running(t, all, ph)
  BY <1>1 DEF Inv
<1> DEFINE n == Len(script) - 1  sh == Shift(ph, n)
<1>3. Phased(script, ph, Source, t, case.flavor, case.allow, all)
  BY <1>2 DEF Running
<1>4. /\ ph[1] # 1 /\ ph[1] # 28 /\ 1 \in DOMAIN script
      /\ Serves(Head(script), ph[1], Source, t, case.flavor, case.allow, all)
  <2>1. /\ Head(script) = script[1] /\ 1 \in DOMAIN script
        /\ (script[1].do = "begin" <=> ph[1] = 1) /\ (script[1].do = "commit" <=> ph[1] = 28)
        /\ ph[1] \notin {1, 28} =>
             Serves(script[1], ph[1], Source, t, case.flavor, case.allow, all)
    BY <1>3, PhasedHead
  <2> QED
    BY <1>1, <2>1
<1>6. /\ Phased(Tail(script), sh, Source, t, case.flavor, case.allow, all)
      /\ n \in Nat /\ DOMAIN Tail(script) = 1..n
      /\ \A i \in 1..n : sh[i] = ph[i + 1] /\ i + 1 \in DOMAIN script
  BY <1>3, <1>4, PhasedTail
<1>60. n + 1 = Len(script) /\ DOMAIN script = 1..(n + 1)
  <2>1. IsSeq(script) /\ Len(script) \in Nat
    BY <1>3, PhasedHead
  <2> QED
    BY <2>1, SeqDomain
<1> HIDE DEF n, sh
<1>7. (\A i \in DOMAIN script : ph[i] # 1) <=> (\A i \in 1..n : sh[i] # 1)
  <2>1. ASSUME NEW i \in DOMAIN script, ph[i] = 1 PROVE \E j \in 1..n : sh[j] = 1
    <3>1. i # 1 /\ i \in 1..(n + 1)
      BY <1>4, <1>60, <2>1
    <3>2. i - 1 \in 1..n /\ i - 1 + 1 = i
      BY <1>6, <3>1
    <3> QED
      BY <1>6, <2>1, <3>2
  <2> QED
    BY <1>6, <2>1
<1>8. Source' = Source /\ (case.target)' = case.target
  BY <1>1 DEF Source
<1>9. /\ Phased(script', sh, Source', t, case'.flavor, case'.allow, all)
      /\ open' <=> \A i \in DOMAIN script' : sh[i] # 1
  <2>1. open <=> \A i \in DOMAIN script : ph[i] # 1
    BY <1>2 DEF Running
  <2> QED
    BY <1>1, <1>6, <1>7, <1>8, <2>1
<1>10. \E tt, aa, pp : /\ Phased(script', pp, Source', tt, case'.flavor, case'.allow, aa)
                       /\ open' <=> \A i \in DOMAIN script' : pp[i] # 1
  BY <1>9
<1>11. (\E tt, aa, pp : Running(tt, aa, pp))'
  BY <1>10 DEF Running
<1>12. /\ IsDatabase(db') /\ OutKept(db, db', Source, case.flavor)
       /\ Provenance(db', case.target, Source)
  <2>1. IsDatabase(db) /\ Provenance(db, case.target, Source)
    BY DEF Inv, TypeOK
  <2> QED
    BY <1>1, <1>4, <2>1, ServedKeeps
<1>13. TypeOK'
  BY <1>1, <1>12 DEF Inv, TypeOK
<1>14. open' => OutKept(saved', db', Source', (case.flavor)')
  <2> SUFFICES ASSUME open PROVE OutKept(saved, db', Source, case.flavor)
    BY <1>1, <1>8
  <2>1. OutKept(saved, db, Source, case.flavor)
    BY DEF Inv
  <2> QED
    BY <1>12, <2>1, OutKeptJoins
<1> QED
  BY <1>1, <1>8, <1>11, <1>12, <1>13, <1>14 DEF Inv

LEMMA InvCommit ==
  ASSUME Inv, CommitTx
  PROVE  Inv'
<1>1. /\ phase = "run" /\ open' = FALSE /\ saved' = db
      /\ case' = case /\ db' = db /\ phase' = "compare"
      /\ applies' = applies + 1 /\ losses' = losses
  BY DEF CommitTx
<1>2. applies < MaxApplies /\ applies \in 0..MaxApplies
  BY <1>1 DEF Inv, TypeOK
<1>3. applies + 1 \in 0..MaxApplies
  BY <1>2, BoundsAssumption
<1>4. TypeOK'
  BY <1>1, <1>3 DEF Inv, TypeOK
<1>5. Source' = Source /\ (case.target)' = case.target
  BY <1>1 DEF Source
<1> QED
  BY <1>1, <1>4, <1>5 DEF Inv

LEMMA InvRefuse ==
  ASSUME Inv, Refuse
  PROVE  Inv'
<1>1. /\ open' = FALSE /\ saved' = saved /\ db' \in {db, saved}
      /\ case' = case /\ phase' = "refused" /\ applies' = applies /\ losses' = losses
  BY DEF Refuse, Durable
<1>2. TypeOK'
  BY <1>1 DEF Inv, TypeOK
<1>3. Source' = Source /\ (case.target)' = case.target
  BY <1>1 DEF Source
<1> QED
  BY <1>1, <1>2, <1>3 DEF Inv

LEMMA InvLose ==
  ASSUME Inv, Lose
  PROVE  Inv'
<1>1. /\ open' = FALSE /\ saved' = saved /\ db' \in {db, saved}
      /\ case' = case /\ phase' = "compare" /\ applies' = applies
      /\ losses < MaxLosses /\ losses' = losses + 1
  BY DEF Lose, Durable
<1>2. losses' \in 0..MaxLosses
  <2>1. losses \in 0..MaxLosses
    BY DEF Inv, TypeOK
  <2> QED
    BY <1>1, <2>1, BoundsAssumption
<1>3. TypeOK'
  BY <1>1, <1>2 DEF Inv, TypeOK
<1>4. Source' = Source /\ (case.target)' = case.target
  BY <1>1 DEF Source
<1> QED
  BY <1>1, <1>3, <1>4 DEF Inv

LEMMA InvStutter ==
  ASSUME Inv, UNCHANGED vars
  PROVE  Inv'
<1>1. /\ case' = case /\ db' = db /\ saved' = saved /\ open' = open /\ script' = script
      /\ phase' = phase /\ applies' = applies /\ losses' = losses
  BY DEF vars
<1>2. Source' = Source /\ PlanFrom(db)' = PlanFrom(db)
  BY <1>1 DEF Source, PlanFrom
<1>3. TypeOK'
  BY <1>1 DEF Inv, TypeOK
<1>4. phase = "run" => (\E t, all, ph : Running(t, all, ph))'
  <2> SUFFICES ASSUME phase = "run" PROVE (\E t, all, ph : Running(t, all, ph))'
    OBVIOUS
  <2>1. PICK t, all, ph : Running(t, all, ph)
    BY DEF Inv
  <2>2. /\ Phased(script', ph, Source', t, case'.flavor, case'.allow, all)
        /\ open' <=> \A i \in DOMAIN script' : ph[i] # 1
    BY <1>1, <1>2, <2>1 DEF Running
  <2>3. \E tt, aa, pp : /\ Phased(script', pp, Source', tt, case'.flavor, case'.allow, aa)
                        /\ open' <=> \A i \in DOMAIN script' : pp[i] # 1
    BY <2>2
  <2> QED
    BY <2>3 DEF Running
<1> QED
  BY <1>1, <1>2, <1>3, <1>4 DEF Inv

(* The invariant is inductive. *)
LEMMA InvNext ==
  ASSUME Inv, [Next]_vars
  PROVE  Inv'
BY InvCompared, InvBegin, InvExecute, InvCommit, InvRefuse, InvLose, InvStutter DEF Next

LEMMA Invariance == Spec => []Inv
<1>1. Init => Inv
  BY InvInit
<1>2. Inv /\ [Next]_vars => Inv'
  BY InvNext
<1> QED
  BY <1>1, <1>2, PTL DEF Spec

(* The first part of Converges: whatever the cases are, and however the      *)
(* server answers, no statement leaves an object that names a missing one,   *)
(* a transaction is open only while a script runs, and no script runs past   *)
(* the bounds.                                                               *)
THEOREM TypeCorrect == Spec => []TypeOK
<1>1. Inv => TypeOK
  BY DEF Inv
<1> QED
  BY <1>1, Invariance, PTL

-----------------------------------------------------------------------------
(***************************************************************************)
(* An empty plan.                                                          *)
(***************************************************************************)
TableKinds == {"column", "constraint", "index", "policy"}

(* What is read of a table's parts is read with the table. *)
LEMMA ReadWithTable ==
  ASSUME NEW d, IsDatabase(d), NEW fl, NEW k \in DOMAIN Introspect(d, fl), k[1] \in TableKinds
  PROVE  \E q \in OfKind(Introspect(d, fl), "table") :
            k \in PiecesOf(Introspect(d, fl), k[1], q)
<1> DEFINE s == Introspect(d, fl)
<1>1. DOMAIN s = Visible(d, fl) /\ DOMAIN s \subseteq DOMAIN d
  BY ReadShape
<1>2. k \in DOMAIN d /\ InScope(k) /\ (k[1] = "index" => OnTable(d, k))
  BY <1>1 DEF Visible
<1>3. k \in Identifiers /\ HasPlace(d, k) /\ k[1] \in Pieces
  BY <1>2, InDatabase DEF Pieces, TableKinds
<1>4. Len(k) = 4
  BY <1>3, IdShape
<1>5. \E q \in DOMAIN d : q[1] = "table" /\ SameRelation(k, q)
  <2>1. CASE k[1] = "index"
    <3>1. <<"table", k[2], k[3]>> \in DOMAIN d
      BY <1>2, <2>1 DEF OnTable
    <3> QED
      BY <3>1 DEF SameRelation
  <2>2. CASE k[1] # "index"
    <3>1. RelationOf(d, k) # {}
      BY <1>3, PlaceIs
    <3>2. k[1] \notin {"index", "trigger"}
      BY <2>2 DEF TableKinds
    <3> QED
      BY <3>1, <3>2 DEF RelationOf
  <2> QED
    BY <2>1, <2>2
<1>6. PICK q \in DOMAIN d : q[1] = "table" /\ SameRelation(k, q)
  BY <1>5
<1>7. InScope(q)
  BY <1>2, <1>6 DEF InScope, SameRelation, TableKinds
<1>8. q \in Visible(d, fl)
  BY <1>6, <1>7 DEF Visible, Unowned, Asked
<1> HIDE DEF s
<1>9. q \in OfKind(s, "table") /\ k \in PiecesOf(s, k[1], q)
  BY <1>1, <1>4, <1>6, <1>8 DEF OfKind, PiecesOf, PartsOf, s
<1> QED
  BY <1>9 DEF s

LEMMA SameMeansEqual ==
  ASSUME NEW ds, IsDatabase(ds), NEW dt, IsDatabase(dt), NEW fl, NEW s, NEW t,
         s = Introspect(ds, fl), t = Introspect(dt, fl), SameCatalogs(s, t),
         \A k \in DOMAIN s \cap DOMAIN t :
            k[1] \in {"constraint", "index"} /\ s[k].def = t[k].def => s[k] = t[k]
  PROVE  /\ DOMAIN s \ {<<"schema", Public>>} = DOMAIN t \ {<<"schema", Public>>}
         /\ \A k \in DOMAIN s \ {<<"schema", Public>>} :
              IF k[1] = "column" THEN SemanticEq(s[k], t[k]) ELSE s[k] = t[k]
<1>1. /\ DOMAIN s \subseteq DOMAIN ds /\ DOMAIN s \subseteq Identifiers
      /\ \A k \in DOMAIN s : s[k] = Reading(ds, k, fl)
  BY ReadShape DEF IsCatalog
<1>2. /\ DOMAIN t \subseteq DOMAIN dt /\ DOMAIN t \subseteq Identifiers
      /\ \A k \in DOMAIN t : t[k] = Reading(dt, k, fl)
  BY ReadShape DEF IsCatalog
<1>3. \A k \in Identifiers : k[1] \in Spaces \cup Things \cup Pieces
  BY IdShape
<1>4. \A k \in Identifiers : k[1] = "schema" /\ k[2] = Public => k = <<"schema", Public>>
  BY IdShape DEF Spaces
<1>5. \A k \in DOMAIN s : k[1] \in TableKinds =>
        \E q \in OfKind(s, "table") : k \in PiecesOf(s, k[1], q)
  BY ReadWithTable
<1>6. \A k \in DOMAIN t : k[1] \in TableKinds =>
        \E q \in OfKind(t, "table") : k \in PiecesOf(t, k[1], q)
  BY ReadWithTable
<1>7. ASSUME NEW k \in DOMAIN s, k # <<"schema", Public>> PROVE k \in DOMAIN t
  <2>1. CASE k[1] \in TableKinds
    <3>1. PICK q \in OfKind(s, "table") : k \in PiecesOf(s, k[1], q)
      BY <1>5, <2>1
    <3>2. TableSame(q, s, t)
      BY <3>1 DEF SameCatalogs
    <3>3. PiecesOf(s, k[1], q) = PiecesOf(t, k[1], q)
      BY <2>1, <3>2 DEF TableSame, TableKinds
    <3> QED
      BY <3>1, <3>3 DEF PiecesOf, PartsOf
  <2>2. CASE k[1] = "schema"
    <3>1. k[2] # Public
      BY <1>1, <1>4, <1>7, <2>2
    <3> QED
      BY <2>2, <3>1 DEF SameCatalogs, OfKind
  <2>3. CASE k[1] \in {"extension", "enum", "sequence", "table", "view", "routine", "trigger"}
    BY <2>3 DEF SameCatalogs, OfKind
  <2> QED
    BY <1>1, <1>3, <2>1, <2>2, <2>3 DEF TableKinds, Spaces, Things, Pieces
<1>8. ASSUME NEW k \in DOMAIN t, k # <<"schema", Public>> PROVE k \in DOMAIN s
  <2>1. CASE k[1] \in TableKinds
    <3>1. PICK q \in OfKind(t, "table") : k \in PiecesOf(t, k[1], q)
      BY <1>6, <2>1
    <3>2. TableSame(q, s, t)
      BY <3>1 DEF SameCatalogs
    <3>3. PiecesOf(s, k[1], q) = PiecesOf(t, k[1], q)
      BY <2>1, <3>2 DEF TableSame, TableKinds
    <3> QED
      BY <3>1, <3>3 DEF PiecesOf, PartsOf
  <2>2. CASE k[1] = "schema"
    <3>1. k[2] # Public
      BY <1>2, <1>4, <1>8, <2>2
    <3> QED
      BY <2>2, <3>1 DEF SameCatalogs, OfKind
  <2>3. CASE k[1] \in {"extension", "enum", "sequence", "table", "view", "routine", "trigger"}
    BY <2>3 DEF SameCatalogs, OfKind
  <2> QED
    BY <1>2, <1>3, <2>1, <2>2, <2>3 DEF TableKinds, Spaces, Things, Pieces
<1>9. ASSUME NEW k \in DOMAIN s, k # <<"schema", Public>>
      PROVE  IF k[1] = "column" THEN SemanticEq(s[k], t[k]) ELSE s[k] = t[k]
  <2>0. k \in DOMAIN t /\ s[k] = Reading(ds, k, fl) /\ t[k] = Reading(dt, k, fl)
    BY <1>1, <1>2, <1>7, <1>9
  <2>1. CASE k[1] \in TableKinds
    <3>1. PICK q \in OfKind(s, "table") : k \in PiecesOf(s, k[1], q)
      BY <1>5, <2>1
    <3>2. TableSame(q, s, t)
      BY <3>1 DEF SameCatalogs
    <3>3. CASE k[1] = "column"
      BY <3>1, <3>2, <3>3 DEF TableSame
    <3>4. CASE k[1] \in {"constraint", "index"}
      <4>1. s[k].def = t[k].def
        BY <3>1, <3>2, <3>4 DEF TableSame
      <4> QED
        BY <2>0, <3>4, <4>1
    <3>5. CASE k[1] = "policy"
      BY <3>1, <3>2, <3>5 DEF TableSame
    <3> QED
      BY <2>1, <3>3, <3>4, <3>5 DEF TableKinds
  <2>2. CASE k[1] = "schema"
    <3>1. ds[k] = "none" /\ dt[k] = "none"
      <4>1. IsValue(k, ds[k]) /\ IsValue(k, dt[k])
        BY <1>1, <1>2, <2>0, InDatabase
      <4> QED
        BY <2>2, <4>1 DEF IsValue
    <3> QED
      BY <2>0, <2>2, <3>1 DEF Reading
  <2>3. CASE k[1] \in {"sequence", "view", "routine", "trigger"}
    BY <2>3 DEF SameCatalogs, OfKind
  <2>4. CASE k[1] = "extension"
    <3>1. s[k].schema = t[k].schema
      BY <2>4 DEF SameCatalogs, OfKind
    <3>2. s[k] = [schema |-> ds[k].schema] /\ t[k] = [schema |-> dt[k].schema]
      BY <2>0, <2>4 DEF Reading, ReadExtension
    <3> QED
      BY <2>4, <3>1, <3>2
  <2>5. CASE k[1] = "enum"
    <3>1. s[k].labels = t[k].labels
      BY <2>5 DEF SameCatalogs, OfKind
    <3>2. s[k] = [labels |-> ds[k].labels] /\ t[k] = [labels |-> dt[k].labels]
      BY <2>0, <2>5 DEF Reading, ReadEnum
    <3> QED
      BY <2>5, <3>1, <3>2
  <2>6. CASE k[1] = "table"
    <3>1. s[k].partition = t[k].partition /\ s[k].rls = t[k].rls /\ s[k].forced = t[k].forced
      BY <2>6 DEF SameCatalogs, OfKind, TableSame
    <3>2. /\ s[k] = [partition |-> ds[k].partition, rls |-> ds[k].rls, forced |-> ds[k].forced]
          /\ t[k] = [partition |-> dt[k].partition, rls |-> dt[k].rls, forced |-> dt[k].forced]
      BY <2>0, <2>6 DEF Reading, ReadTable
    <3> QED
      BY <2>6, <3>1, <3>2
  <2> QED
    BY <1>1, <1>3, <2>1, <2>2, <2>3, <2>4, <2>5, <2>6 DEF TableKinds, Spaces, Things, Pieces
<1> QED
  BY <1>7, <1>8, <1>9

(* EmptyPlanMeansEqual: when the diff finds nothing, nothing differs.  Each  *)
(* class of objects is compared by its own rule in diff.rs, parts only       *)
(* within a table both sides have: that these rules leave no difference      *)
(* unseen needs that every part has its table, and that constraints and      *)
(* indexes, compared by their text alone, come from one of the two sides.    *)
THEOREM EmptyPlanIsEqual == Spec => []EmptyPlanMeansEqual
<1>1. ASSUME Inv PROVE EmptyPlanMeansEqual
  <2> SUFFICES ASSUME phase = "equal" PROVE EmptyPlanMeansEqual
    BY DEF EmptyPlanMeansEqual
  <2> DEFINE fl == case.flavor
             s == Source
             t == Introspect(db, fl)
  <2>1. case \in Cases /\ IsDatabase(db) /\ PlanFrom(db) = <<>> /\ Provenance(db, case.target, s)
    BY <1>1 DEF Inv, TypeOK
  <2>2. IsDatabase(case.source) /\ IsDatabase(case.target)
    BY <2>1, CaseIs
  <2>3. SameCatalogs(s, t)
    BY <2>1, ScriptServes DEF Source, PlanFrom
  <2>4. s = Introspect(case.source, fl) /\ t = Introspect(db, fl)
    BY DEF Source
  <2>5. /\ DOMAIN s \subseteq DOMAIN case.source
        /\ \A k \in DOMAIN s : s[k] = Reading(case.source, k, fl)
    BY <2>2, <2>4, ReadShape
  <2>6. /\ DOMAIN t \subseteq DOMAIN db
        /\ \A k \in DOMAIN t : t[k] = Reading(db, k, fl)
    BY <2>1, <2>4, ReadShape
  <2>7. ASSUME NEW k \in DOMAIN s \cap DOMAIN t, k[1] \in {"constraint", "index"},
               s[k].def = t[k].def
        PROVE  s[k] = t[k]
    <3>1. k \in DOMAIN case.source /\ k \in DOMAIN db
      BY <2>5, <2>6
    <3>2. IsValue(k, case.source[k]) /\ IsValue(k, db[k])
      BY <2>1, <2>2, <3>1, InDatabase
    <3>3. s[k] = case.source[k] /\ t[k] = db[k]
      <4>1. CASE k[1] = "constraint"
        BY <2>5, <2>6, <3>2, <4>1 DEF Reading, ReadConstraint, IsValue, IsConstraint
      <4>2. CASE k[1] = "index"
        BY <2>5, <2>6, <3>2, <4>2 DEF Reading, ReadIndex, IsValue
      <4> QED
        BY <2>7, <4>1, <4>2
    <3>4. CASE k \in DOMAIN s /\ db[k] = s[k]
      BY <3>3, <3>4
    <3>5. CASE k \in DOMAIN case.target /\ db[k] = case.target[k]
      <4>1. case.source[k].def = case.target[k].def
        BY <2>7, <3>3, <3>5
      <4>2. case.source[k] = case.target[k]
        BY <2>1, <2>7, <3>1, <3>5, <4>1, CasesAssumption
      <4> QED
        BY <3>3, <3>5, <4>2
    <3> QED
      BY <2>1, <2>7, <3>1, <3>4, <3>5 DEF Provenance
  <2> HIDE DEF s, t, fl
  <2>8. /\ DOMAIN s \ {<<"schema", Public>>} = DOMAIN t \ {<<"schema", Public>>}
        /\ \A k \in DOMAIN s \ {<<"schema", Public>>} :
             IF k[1] = "column" THEN SemanticEq(s[k], t[k]) ELSE s[k] = t[k]
    BY <2>1, <2>2, <2>3, <2>4, <2>7, SameMeansEqual
  <2> QED
    BY <2>8 DEF EmptyPlanMeansEqual, s, t, fl
<1> QED
  BY <1>1, Invariance, PTL

-----------------------------------------------------------------------------
(***************************************************************************)
(* What becomes durable: a label, or a transaction as a whole.             *)
(***************************************************************************)
LEMMA Durability ==
  ASSUME Inv, [Next]_vars
  PROVE  \/ Durable' = Durable
         \/ Execute /\ ~open /\ Durable = db /\ Durable' = db'
         \/ CommitTx /\ open /\ Durable = saved /\ Durable' = db
<1>1. CASE Compared
  <2>1. Durable' = Durable
    BY <1>1 DEF Compared, Durable
  <2> QED
    BY <2>1
<1>2. CASE BeginTx
  <2>1. phase = "run" /\ Head(script).do = "begin" /\ open' = TRUE /\ saved' = db
    BY <1>2 DEF BeginTx
  <2>2. PICK t, all, ph : Running(t, all, ph)
    BY <2>1 DEF Inv
  <2>3. Phased(script, ph, Source, t, case.flavor, case.allow, all)
    BY <2>2 DEF Running
  <2>4. ph[1] = 1 /\ 1 \in DOMAIN script
    <3>1. Head(script) = script[1] /\ (script[1].do = "begin" <=> ph[1] = 1) /\ 1 \in DOMAIN script
      BY <2>3, PhasedHead
    <3> QED
      BY <2>1, <3>1
  <2>5. ~open
    BY <2>2, <2>4 DEF Running
  <2>6. Durable = db /\ Durable' = saved'
    BY <2>1, <2>5 DEF Durable
  <2> QED
    BY <2>1, <2>6
<1>3. CASE Execute
  <2>1. open' = open /\ saved' = saved
    BY <1>3 DEF Execute
  <2>2. CASE open
    <3>1. Durable' = Durable
      BY <2>1, <2>2 DEF Durable
    <3> QED
      BY <3>1
  <2>3. CASE ~open
    <3>1. Durable = db /\ Durable' = db'
      BY <2>1, <2>3 DEF Durable
    <3> QED
      BY <1>3, <2>3, <3>1
  <2> QED
    BY <2>2, <2>3
<1>4. CASE CommitTx
  <2>1. phase = "run" /\ Head(script).do = "commit" /\ open' = FALSE /\ db' = db
    BY <1>4 DEF CommitTx
  <2>2. PICK t, all, ph : Running(t, all, ph)
    BY <2>1 DEF Inv
  <2>3. Phased(script, ph, Source, t, case.flavor, case.allow, all)
    BY <2>2 DEF Running
  <2>4. ph[1] = 28 /\ Len(script) = 1 /\ IsSeq(script)
    <3>1. /\ Head(script) = script[1] /\ (script[1].do = "commit" <=> ph[1] = 28)
          /\ (ph[1] = 28 => Len(script) = 1) /\ IsSeq(script)
      BY <2>3, PhasedHead
    <3> QED
      BY <2>1, <3>1
  <2>5. DOMAIN script = 1..1
    BY <2>4, SeqDomain
  <2>6. \A i \in DOMAIN script : ph[i] # 1
    <3>1. \A i \in 1..1 : i = 1
      OBVIOUS
    <3>2. ph[1] # 1
      BY <2>4
    <3> QED
      BY <2>5, <3>1, <3>2
  <2>7. open
    BY <2>2, <2>6 DEF Running
  <2>8. Durable = saved /\ Durable' = db'
    BY <2>1, <2>7 DEF Durable
  <2> QED
    BY <1>4, <2>1, <2>7, <2>8
<1>5. CASE Refuse \/ Lose
  <2>1. Durable' = Durable
    BY <1>5 DEF Refuse, Lose, Durable
  <2> QED
    BY <2>1
<1>6. CASE UNCHANGED vars
  <2>1. Durable' = Durable
    BY <1>6 DEF vars, Durable
  <2> QED
    BY <2>1
<1> QED
  BY <1>1, <1>2, <1>3, <1>4, <1>5, <1>6 DEF Next

(* The statement that is next serves the source. *)
LEMMA NextServes ==
  ASSUME Inv, Execute
  PROVE  \E t, all, ph :
           /\ Running(t, all, ph) /\ ph[1] \notin {1, 28}
           /\ Serves(Head(script), ph[1], Source, t, case.flavor, case.allow, all)
<1>1. phase = "run" /\ Head(script).do \notin {"begin", "commit"}
  BY DEF Execute
<1>2. PICK t, all, ph : Running(t, all, ph)
  BY <1>1 DEF Inv
<1>3. Phased(script, ph, Source, t, case.flavor, case.allow, all)
  BY <1>2 DEF Running
<1>4. /\ ph[1] \notin {1, 28}
      /\ Serves(Head(script), ph[1], Source, t, case.flavor, case.allow, all)
  <2>1. /\ Head(script) = script[1]
        /\ (script[1].do = "begin" <=> ph[1] = 1) /\ (script[1].do = "commit" <=> ph[1] = 28)
        /\ ph[1] \notin {1, 28} =>
             Serves(script[1], ph[1], Source, t, case.flavor, case.allow, all)
    BY <1>3, PhasedHead
  <2> QED
    BY <1>1, <2>1
<1> QED
  BY <1>2, <1>4

(* OutOfScopeKept: introspection leaves schemas alone, yet statements are    *)
(* rendered from what it read, cascade to dependents, tighten columns and    *)
(* make sequences nobody named.  None of it reaches an object out of scope,  *)
(* but for the foreign keys CockroachDB takes along and the schema an        *)
(* extension is to live in.                                                  *)
THEOREM OutOfScopeIsKept == Spec => OutOfScopeKept
<1> DEFINE Kept ==
      \A id \in DOMAIN Durable \cup DOMAIN Durable' :
        \/ InScope(id) \/ Untouched(Durable, Durable', id)
        \/ /\ id \in DOMAIN Durable
           /\ id[1] = "constraint" /\ case.flavor = "cockroach"
        \/ id \notin DOMAIN Durable /\ HomeOfExtension(id)
<1>1. ASSUME OutKept(Durable, Durable', Source, case.flavor) PROVE Kept
  BY <1>1 DEF OutKept, HomeIn, HomeOfExtension
<1>2. ASSUME Inv, [Next]_vars PROVE Kept
  <2>1. CASE Durable' = Durable
    BY <2>1 DEF Untouched
  <2>2. CASE Execute /\ ~open /\ Durable = db /\ Durable' = db'
    <3>1. PICK t, all, ph :
            Serves(Head(script), ph[1], Source, t, case.flavor, case.allow, all)
      BY <1>2, <2>2, NextServes
    <3>2. Accepts(db, Head(script), case.flavor) /\ db' = Effect(db, Head(script))
      BY <2>2 DEF Execute
    <3>3. IsDatabase(db)
      BY <1>2 DEF Inv, TypeOK
    <3>4. OutKept(db, db', Source, case.flavor)
      BY <3>1, <3>2, <3>3, ServedKeeps
    <3> QED
      BY <1>1, <2>2, <3>4
  <2>3. CASE CommitTx /\ open /\ Durable = saved /\ Durable' = db
    <3>1. OutKept(saved, db, Source, case.flavor)
      BY <1>2, <2>3 DEF Inv
    <3> QED
      BY <1>1, <2>3, <3>1
  <2> QED
    BY <1>2, <2>1, <2>2, <2>3, Durability
<1>3. Inv /\ [Next]_vars => [Kept]_vars
  BY <1>2
<1> QED
  BY <1>3, Invariance, PTL DEF Spec, OutOfScopeKept

-----------------------------------------------------------------------------
(***************************************************************************)
(* Labels and their order.                                                 *)
(***************************************************************************)
Before(L, x, y) == \E a, b \in DOMAIN L : a < b /\ L[a] = x /\ L[b] = y

InOrder(D, L) ==
  /\ \A i \in DOMAIN D : HasLabel(L, D[i])
  /\ \A i, j \in DOMAIN D : i < j => Before(L, D[i], D[j])

(* F takes elements of v one after the other: where f says. *)
Picks(F, n, v, f) ==
  /\ \A p \in DOMAIN F : f[p] \in 1..n /\ F[p] = v[f[p]]
  /\ \A p, q \in DOMAIN F : p < q => f[p] < f[q]

LEMMA OneEach ==
  ASSUME NEW m, IsSeq(m), NEW v,
         \A i \in DOMAIN m : IsSeq(m[i]) /\ \A h \in DOMAIN m[i] : h = 1 /\ m[i][h] = v[i]
  PROVE  \E f : Picks(FlattenSeq(m), Len(m), v, f)
<1> DEFINE F == FlattenSeq(m)
<1>1. Len(m) \in Nat /\ DOMAIN m = 1..Len(m)
  BY SeqDomain
<1>2. PICK g : Spots(F, m, Len(m), g)
  BY FlattenLaws
<1> HIDE DEF F
<1>3. \A p \in DOMAIN F : /\ g[p][1] \in 1..Len(m) /\ g[p][2] = 1 /\ F[p] = v[g[p][1]]
  BY <1>1, <1>2 DEF Spots
<1> DEFINE f == [p \in DOMAIN F |-> g[p][1]]
<1>4. ASSUME NEW p \in DOMAIN F, NEW q \in DOMAIN F, p < q PROVE f[p] < f[q]
  <2>1. \/ g[p][1] < g[q][1]
        \/ g[p][1] = g[q][1] /\ g[p][2] < g[q][2]
    BY <1>2, <1>4 DEF Spots
  <2>2. g[p][2] = 1 /\ g[q][2] = 1
    BY <1>3
  <2> QED
    BY <2>1, <2>2
<1>5. Picks(F, Len(m), v, f)
  BY <1>3, <1>4 DEF Picks
<1> QED
  BY <1>5 DEF F

(* Two rising enumerations of the same numbers are the same. *)
Rising(n, f) == /\ \A i \in 1..n : f[i] \in Nat
                /\ \A i, j \in 1..n : i < j => f[i] < f[j]

Reached(m, f, n, g) == \A i \in 1..m : \E j \in 1..n : f[i] = g[j]

LEMMA RisingMeets ==
  ASSUME NEW m \in Nat, NEW n \in Nat, NEW f, Rising(m, f), NEW g, Rising(n, g),
         Reached(m, f, n, g), Reached(n, g, m, f)
  PROVE  \A i \in 1..m : i \in 1..n /\ g[i] = f[i]
<1> DEFINE Off == {i \in 1..m : ~(i \in 1..n /\ g[i] = f[i])}
<1> SUFFICES ASSUME Off # {} PROVE FALSE
  OBVIOUS
<1>1. PICK i \in Off : \A x \in Off : i <= x
  <2>1. Off \in SUBSET Nat
    OBVIOUS
  <2> HIDE DEF Off
  <2> QED
    BY <2>1, LeastOf
<1>2. i \in 1..m /\ ~(i \in 1..n /\ g[i] = f[i])
  OBVIOUS
<1>3. \A x \in 1..m : x < i => x \in 1..n /\ g[x] = f[x]
  BY <1>1
<1> HIDE DEF Off
<1>4. PICK j \in 1..n : f[i] = g[j]
  BY <1>2 DEF Reached
<1>5. ~(j < i)
  BY <1>2, <1>3, <1>4 DEF Rising
<1>6. i < j /\ i \in 1..n
  <2>1. i # j
    BY <1>2, <1>4
  <2>2. i \in Nat /\ j \in Nat /\ i >= 1 /\ j <= n
    BY <1>2
  <2> QED
    BY <1>5, <2>1, <2>2
<1>7. PICK h \in 1..m : g[i] = f[h]
  BY <1>6 DEF Reached
<1>8. CASE h < i
  BY <1>2, <1>3, <1>6, <1>7, <1>8 DEF Rising
<1>9. CASE h = i
  BY <1>2, <1>6, <1>7, <1>9
<1>10. CASE i < h
  <2>1. f[i] < f[h] /\ g[i] < g[j]
    BY <1>2, <1>6, <1>10 DEF Rising
  <2>2. f[i] \in Nat /\ f[h] \in Nat
    BY <1>2 DEF Rising
  <2> QED
    BY <1>4, <1>7, <2>1, <2>2
<1> QED
  BY <1>2, <1>8, <1>9, <1>10

LEMMA RisingIsOne ==
  ASSUME NEW m \in Nat, NEW n \in Nat, NEW f, Rising(m, f), NEW g, Rising(n, g),
         Reached(m, f, n, g), Reached(n, g, m, f)
  PROVE  m = n /\ \A i \in 1..m : f[i] = g[i]
<1>1. \A i \in 1..m : i \in 1..n /\ g[i] = f[i]
  BY RisingMeets
<1>2. \A i \in 1..n : i \in 1..m /\ f[i] = g[i]
  BY RisingMeets
<1>3. m <= n
  <2>1. m = 0 \/ m \in 1..m
    OBVIOUS
  <2> QED
    BY <1>1, <2>1
<1>4. n <= m
  <2>1. n = 0 \/ n \in 1..n
    OBVIOUS
  <2> QED
    BY <1>2, <2>1
<1> QED
  BY <1>1, <1>3, <1>4

(* What is_subsequence computes. *)
LEMMA SubsequencePicks ==
  ASSUME NEW D \in Seq(STRING), NEW L \in Seq(STRING)
  PROVE  LET m == [i \in DOMAIN L |-> When(\E h \in DOMAIN D : D[h] = L[i], L[i])] IN
         /\ IsSubsequence(D, L) <=> FlattenSeq(m) = D
         /\ IsSeq(m) /\ Len(m) = Len(L) /\ DOMAIN m = DOMAIN L
         /\ \A i \in DOMAIN L : IsSeq(m[i]) /\ ToSet(m[i]) = (IF HasLabel(D, L[i]) THEN {L[i]} ELSE {})
         /\ \E f : Picks(FlattenSeq(m), Len(L), L, f)
<1> DEFINE m == [i \in DOMAIN L |-> When(\E h \in DOMAIN D : D[h] = L[i], L[i])]
<1>1. IsSubsequence(D, L) <=> FlattenSeq(m) = D
  BY DEF IsSubsequence, Each
<1>2. Len(L) \in Nat /\ DOMAIN L = 1..Len(L)
  OBVIOUS
<1>3. m \in Seq({m[i] : i \in DOMAIN L}) /\ Len(m) = Len(L) /\ DOMAIN m = DOMAIN L
  <2> DEFINE Only(i) == When(\E h \in DOMAIN D : D[h] = L[i], L[i])
  <2>1. m = [i \in 1..Len(L) |-> Only(i)]
    BY <1>2
  <2> HIDE DEF Only, m
  <2> QED
    BY <1>2, <2>1
<1>4. \A i \in DOMAIN L :
        /\ IsSeq(m[i]) /\ ToSet(m[i]) = (IF HasLabel(D, L[i]) THEN {L[i]} ELSE {})
  BY WhenIs DEF HasLabel
<1>5. \A i \in DOMAIN L : \A h \in DOMAIN m[i] : h = 1 /\ m[i][h] = L[i]
  BY DEF When
<1> HIDE DEF m
<1>6. IsSeq(m)
  BY <1>3 DEF IsSeq
<1>7. \E f : Picks(FlattenSeq(m), Len(m), L, f)
  BY <1>3, <1>4, <1>5, <1>6, OneEach
<1> QED
  BY <1>1, <1>3, <1>4, <1>6, <1>7 DEF m

LEMMA SubsequenceInOrder ==
  ASSUME NEW D \in Seq(STRING), NEW L \in Seq(STRING), IsSubsequence(D, L)
  PROVE  InOrder(D, L)
<1> DEFINE m == [i \in DOMAIN L |-> When(\E h \in DOMAIN D : D[h] = L[i], L[i])]
<1>0. /\ IsSubsequence(D, L) <=> FlattenSeq(m) = D
      /\ \E f : Picks(FlattenSeq(m), Len(L), L, f)
  BY SubsequencePicks
<1> HIDE DEF m
<1>1. PICK f : Picks(D, Len(L), L, f)
  BY <1>0
<1>2. DOMAIN L = 1..Len(L)
  OBVIOUS
<1> QED
  BY <1>1, <1>2 DEF Picks, InOrder, HasLabel, Before

LEMMA InOrderSubsequence ==
  ASSUME NEW D \in Seq(STRING), NEW L \in Seq(STRING), Injective(L), InOrder(D, L)
  PROVE  IsSubsequence(D, L)
<1> DEFINE m == [i \in DOMAIN L |-> When(\E h \in DOMAIN D : D[h] = L[i], L[i])]
           F == FlattenSeq(m)
<1>1. /\ IsSubsequence(D, L) <=> F = D
      /\ IsSeq(m) /\ Len(m) = Len(L) /\ DOMAIN m = DOMAIN L
      /\ \A i \in DOMAIN L : IsSeq(m[i]) /\ ToSet(m[i]) = (IF HasLabel(D, L[i]) THEN {L[i]} ELSE {})
      /\ \E f : Picks(F, Len(L), L, f)
  BY SubsequencePicks
<1> HIDE DEF m
<1>2. IsSeq(F) /\ ToSet(F) = UNION {ToSet(m[i]) : i \in DOMAIN m}
  BY <1>1, FlattenLaws
<1>3. PICK f : Picks(F, Len(L), L, f)
  BY <1>1
<1> HIDE DEF F
<1>4. /\ Len(F) \in Nat /\ DOMAIN F = 1..Len(F) /\ Len(D) \in Nat /\ DOMAIN D = 1..Len(D)
      /\ DOMAIN L = 1..Len(L) /\ Len(L) \in Nat
  BY <1>2, SeqDomain
<1> DEFINE g == [i \in DOMAIN D |-> CHOOSE a \in DOMAIN L : L[a] = D[i]]
<1>5. \A i \in DOMAIN D : g[i] \in DOMAIN L /\ L[g[i]] = D[i]
  BY DEF InOrder, HasLabel
<1> HIDE DEF g
<1>6. ASSUME NEW i \in DOMAIN D, NEW j \in DOMAIN D, i < j PROVE g[i] < g[j]
  <2>1. PICK a, b \in DOMAIN L : a < b /\ L[a] = D[i] /\ L[b] = D[j]
    BY <1>6 DEF InOrder, Before
  <2>2. g[i] = a /\ g[j] = b
    BY <1>5, <2>1 DEF Injective
  <2> QED
    BY <2>1, <2>2
<1>7. Rising(Len(D), g)
  BY <1>4, <1>5, <1>6 DEF Rising
<1>8. Rising(Len(F), f)
  BY <1>3, <1>4 DEF Rising, Picks
<1>9. ASSUME NEW i \in 1..Len(F) PROVE \E j \in 1..Len(D) : f[i] = g[j]
  <2>1. F[i] \in ToSet(F) /\ f[i] \in DOMAIN L /\ F[i] = L[f[i]]
    BY <1>3, <1>4 DEF ToSet, Picks
  <2>2. PICK k \in DOMAIN L : F[i] \in ToSet(m[k])
    BY <1>1, <1>2, <2>1
  <2>3. HasLabel(D, L[f[i]])
    BY <1>1, <2>1, <2>2
  <2>4. PICK j \in DOMAIN D : D[j] = L[f[i]]
    BY <2>3 DEF HasLabel
  <2> QED
    BY <1>4, <1>5, <2>1, <2>4 DEF Injective
<1>10. ASSUME NEW j \in 1..Len(D) PROVE \E i \in 1..Len(F) : g[j] = f[i]
  <2>1. g[j] \in DOMAIN L /\ L[g[j]] = D[j] /\ HasLabel(D, D[j])
    BY <1>4, <1>5 DEF HasLabel
  <2>2. D[j] \in ToSet(F)
    BY <1>1, <1>2, <2>1
  <2>3. PICK i \in DOMAIN F : F[i] = D[j]
    BY <2>2 DEF ToSet
  <2>4. f[i] \in DOMAIN L /\ L[f[i]] = D[j]
    BY SMTT(60), <1>3, <1>4, <2>3 DEF Picks
  <2> QED
    BY <1>4, <2>1, <2>3, <2>4 DEF Injective
<1>11. Len(F) = Len(D) /\ \A i \in 1..Len(F) : f[i] = g[i]
  <2>1. Reached(Len(F), f, Len(D), g) /\ Reached(Len(D), g, Len(F), f)
    BY <1>9, <1>10 DEF Reached
  <2> QED
    BY ZenonT(60), <1>4, <1>7, <1>8, <2>1, RisingIsOne
<1>12. \A i \in 1..Len(D) : F[i] = D[i]
  BY <1>3, <1>4, <1>5, <1>11 DEF Picks
<1>13. F = D
  <2>1. PICK T : F \in Seq(T)
    BY <1>2 DEF IsSeq
  <2> QED
    BY <1>4, <1>11, <1>12, <2>1
<1> QED
  BY <1>1, <1>13

(* The labels a plan adds to an enum of s come in the order of s. *)
Adds(c) == c.op = "add_enum_value"
NoLabels(p) == \A c \in ToSet(p) : ~Adds(c)
Rise(p, s) ==
  \A i, j \in DOMAIN p :
    (i < j /\ Adds(p[i]) /\ Adds(p[j]) /\ p[i].on = p[j].on)
      => Before(s[p[i].on].labels, p[i].to.label, p[j].to.label)

LEMMA AddLabelsRise ==
  ASSUME NEW s, NEW k, s[k].labels \in Seq(STRING), NEW old \in Seq(STRING)
  PROVE  LET p == AddLabels(k, s[k].labels, old) IN
         IsSeq(p) /\ Rise(p, s) /\ \A c \in ToSet(p) : c.on = k
<1> DEFINE labels == s[k].labels
           After(i) == {j \in (i + 1)..Len(labels) : \E h \in DOMAIN old : old[h] = labels[j]}
           Anchor(i) == IF After(i) = {} THEN "end"
                        ELSE labels[CHOOSE j \in After(i) : \A m \in After(i) : j <= m]
           Add(i) == Change("add_enum_value", k, [label |-> labels[i], before |-> Anchor(i)], FALSE)
           m == [i \in DOMAIN labels |-> When(~(\E h \in DOMAIN old : old[h] = labels[i]), Add(i))]
           p == AddLabels(k, labels, old)
           v == [i \in DOMAIN labels |-> Add(i)]
<1>1. p = FlattenSeq(m)
  BY DEF AddLabels
<1>2. \A i \in DOMAIN labels : Add(i).op = "add_enum_value" /\ Add(i).on = k /\ Add(i).to.label = labels[i]
  BY DEF Change
<1> HIDE DEF Add, Anchor
<1>3. \A i \in DOMAIN labels : IsSeq(m[i]) /\ \A h \in DOMAIN m[i] : h = 1 /\ m[i][h] = v[i]
  <2> SUFFICES ASSUME NEW i \in DOMAIN labels
               PROVE  IsSeq(m[i]) /\ \A h \in DOMAIN m[i] : h = 1 /\ m[i][h] = v[i]
    OBVIOUS
  <2>1. m[i] = <<>> \/ m[i] = <<Add(i)>>
    BY DEF When
  <2>2. v[i] = Add(i)
    OBVIOUS
  <2> HIDE DEF m, v
  <2>3. IsSeq(<<>>) /\ IsSeq(<<Add(i)>>)
    BY Listed
  <2> QED
    BY <2>1, <2>2, <2>3
<1>4. IsSeq(m) /\ DOMAIN m = DOMAIN labels /\ Len(m) = Len(labels) /\ DOMAIN labels = 1..Len(labels)
  <2>1. DOMAIN labels = 1..Len(labels) /\ Len(labels) \in Nat
    OBVIOUS
  <2>2. m \in Seq({m[i] : i \in DOMAIN labels}) /\ DOMAIN m = DOMAIN labels /\ Len(m) = Len(labels)
    BY <2>1
  <2> QED
    BY <2>1, <2>2 DEF IsSeq
<1>5. \A i \in DOMAIN labels : v[i].op = "add_enum_value" /\ v[i].on = k /\ v[i].to.label = labels[i]
  BY <1>2
<1>6. IsSeq(p) /\ \A c \in ToSet(p) : c.on = k
  <2>1. IsSeq(p) /\ \A c \in ToSet(p) : LabelChange(c, k, labels, old)
    BY LabelChanges
  <2> HIDE DEF p
  <2>2. ASSUME NEW c \in ToSet(p) PROVE c.on = k
    <3>1. LabelChange(c, k, labels, old)
      BY <2>1
    <3> QED
      BY <3>1 DEF LabelChange, Change
  <2> QED
    BY <2>1, <2>2
<1> HIDE DEF m, v, p
<1>7. PICK f : Picks(p, Len(m), v, f)
  BY <1>1, <1>3, <1>4, OneEach
<1>8. ASSUME NEW i \in DOMAIN p, NEW j \in DOMAIN p, i < j
      PROVE  p[i].on = k /\ Before(labels, p[i].to.label, p[j].to.label)
  <2>1. /\ f[i] \in DOMAIN labels /\ f[j] \in DOMAIN labels /\ f[i] < f[j]
        /\ p[i] = v[f[i]] /\ p[j] = v[f[j]]
    BY <1>4, <1>7, <1>8 DEF Picks
  <2>2. p[i].to.label = labels[f[i]] /\ p[j].to.label = labels[f[j]] /\ p[i].on = k
    BY <1>5, <2>1
  <2> QED
    BY <2>1, <2>2 DEF Before
<1>9. Rise(p, s)
  BY <1>8 DEF Rise
<1> QED
  BY <1>6, <1>9 DEF p

LEMMA RiseJoins ==
  ASSUME NEW a, IsSeq(a), NEW b, IsSeq(b), NEW s, Rise(a, s), Rise(b, s),
         NoLabels(a) \/ NoLabels(b)
  PROVE  /\ IsSeq(a \o b) /\ Rise(a \o b, s)
         /\ NoLabels(a) /\ NoLabels(b) => NoLabels(a \o b)
<1> DEFINE p == a \o b
<1>1. /\ IsSeq(p) /\ ToSet(p) = ToSet(a) \cup ToSet(b)
  BY Joined
<1>2. /\ Len(p) = Len(a) + Len(b)
      /\ \A i \in 1..(Len(a) + Len(b)) : p[i] = IF i <= Len(a) THEN a[i] ELSE b[i - Len(a)]
  BY Concat
<1> HIDE DEF p
<1>3. /\ Len(a) \in Nat /\ DOMAIN a = 1..Len(a) /\ Len(b) \in Nat /\ DOMAIN b = 1..Len(b)
      /\ Len(p) \in Nat /\ DOMAIN p = 1..Len(p)
  BY <1>1, SeqDomain
<1>4. \A i \in DOMAIN p :
        \/ i \in DOMAIN a /\ p[i] = a[i]
        \/ i > Len(a) /\ i - Len(a) \in DOMAIN b /\ p[i] = b[i - Len(a)]
  BY <1>2, <1>3
<1>5. /\ NoLabels(a) => \A i \in DOMAIN a : ~Adds(a[i])
      /\ NoLabels(b) => \A i \in DOMAIN b : ~Adds(b[i])
  BY DEF NoLabels, ToSet
<1>6. ASSUME NEW i \in DOMAIN p, NEW j \in DOMAIN p, i < j, Adds(p[i]), Adds(p[j]), p[i].on = p[j].on
      PROVE  Before(s[p[i].on].labels, p[i].to.label, p[j].to.label)
  <2>1. i \in Nat /\ j \in Nat
    BY <1>3
  <2>2. CASE i \in DOMAIN a /\ p[i] = a[i] /\ j \in DOMAIN a /\ p[j] = a[j]
    BY <1>6, <2>2 DEF Rise
  <2>3. CASE /\ i > Len(a) /\ i - Len(a) \in DOMAIN b /\ p[i] = b[i - Len(a)]
             /\ j > Len(a) /\ j - Len(a) \in DOMAIN b /\ p[j] = b[j - Len(a)]
    <3>1. i - Len(a) < j - Len(a)
      BY <1>3, <1>6, <2>1
    <3> QED
      BY <1>6, <2>3, <3>1 DEF Rise
  <2>4. CASE /\ i \in DOMAIN a /\ p[i] = a[i]
             /\ j > Len(a) /\ j - Len(a) \in DOMAIN b /\ p[j] = b[j - Len(a)]
    BY <1>5, <1>6, <2>4
  <2>5. ~(j \in DOMAIN a /\ i > Len(a))
    BY <1>3, <1>6, <2>1
  <2> QED
    BY <1>4, <2>2, <2>3, <2>4, <2>5
<1>7. Rise(p, s)
  BY <1>6 DEF Rise
<1>8. NoLabels(a) /\ NoLabels(b) => NoLabels(p)
  BY <1>1 DEF NoLabels
<1> QED
  BY <1>1, <1>7, <1>8 DEF p

LEMMA NoLabelsRise ==
  ASSUME NEW p, NoLabels(p), NEW s
  PROVE  Rise(p, s)
<1>1. \A i \in DOMAIN p : ~Adds(p[i])
  BY DEF NoLabels, ToSet
<1> QED
  BY <1>1 DEF Rise

LEMMA KeysOnce ==
  ASSUME NEW s, IsCatalog(s), NEW kind
  PROVE  Injective(Keys(s, kind))
<1>1. OfKind(s, kind) \in SUBSET DOMAIN s
  BY DEF OfKind
<1>2. IsFiniteSet(OfKind(s, kind)) /\ OneKind(OfKind(s, kind))
  BY <1>1, FS_Subset DEF IsCatalog, OneKind, OfKind
<1>3. Keys(s, kind) = Ordered(OfKind(s, kind))
  BY DEF Keys, OfKind
<1> QED
  BY <1>2, <1>3, OrderedLists

LEMMA PassRises ==
  ASSUME NEW ks, IsSeq(ks), Injective(ks), NEW A, NEW s,
         \A k \in ToSet(ks) : IsSeq(A[k]) /\ Rise(A[k], s) /\ \A c \in ToSet(A[k]) : c.on = k
  PROVE  IsSeq(Pass(ks, A)) /\ Rise(Pass(ks, A), s)
<1> DEFINE m == [i \in DOMAIN ks |-> A[ks[i]]]
           p == Pass(ks, A)
<1>1. Len(ks) \in Nat /\ DOMAIN ks = 1..Len(ks) /\ \A i \in DOMAIN ks : ks[i] \in ToSet(ks)
  BY SeqDomain DEF ToSet
<1>2. p = FlattenSeq(m) /\ DOMAIN m = DOMAIN ks /\ \A i \in DOMAIN ks : m[i] = A[ks[i]]
  BY DEF Pass
<1>3. IsSeq(m) /\ Len(m) = Len(ks)
  <2>1. m \in Seq({m[i] : i \in DOMAIN ks}) /\ Len(m) = Len(ks)
    BY <1>1
  <2> QED
    BY <2>1 DEF IsSeq
<1> HIDE DEF m, p
<1>4. \A i \in DOMAIN m : IsSeq(m[i]) /\ Rise(m[i], s) /\ \A c \in ToSet(m[i]) : c.on = ks[i]
  BY <1>1, <1>2
<1>5. IsSeq(p) /\ \E g : Spots(p, m, Len(m), g)
  BY <1>2, <1>3, <1>4, FlattenLaws
<1>6. PICK g : Spots(p, m, Len(m), g)
  BY <1>5
<1>7. \A i \in DOMAIN p : /\ g[i][1] \in DOMAIN m /\ g[i][2] \in DOMAIN m[g[i][1]]
                          /\ p[i] = m[g[i][1]][g[i][2]] /\ p[i] \in ToSet(m[g[i][1]])
  BY SMTT(60), <1>1, <1>2, <1>3, <1>6 DEF Spots, ToSet
<1>8. ASSUME NEW i \in DOMAIN p, NEW j \in DOMAIN p, i < j, Adds(p[i]), Adds(p[j]), p[i].on = p[j].on
      PROVE  Before(s[p[i].on].labels, p[i].to.label, p[j].to.label)
  <2> DEFINE a == g[i][1]  b == g[j][1]
  <2>1. ks[a] = ks[b] /\ a \in DOMAIN ks /\ b \in DOMAIN ks
    BY <1>2, <1>4, <1>7, <1>8
  <2>2. a = b
    BY <2>1 DEF Injective
  <2>3. g[i][2] < g[j][2]
    <3>1. a \in Nat /\ b \in Nat
      BY <1>1, <2>1
    <3>2. a < b \/ (a = b /\ g[i][2] < g[j][2])
      BY <1>6, <1>8 DEF Spots
    <3> HIDE DEF a, b
    <3> QED
      BY <2>2, <3>1, <3>2
  <2>4. Rise(m[a], s) /\ p[i] = m[a][g[i][2]] /\ p[j] = m[a][g[j][2]]
        /\ g[i][2] \in DOMAIN m[a] /\ g[j][2] \in DOMAIN m[a]
    BY <1>4, <1>7, <2>2
  <2> QED
    BY ZenonT(60), <1>8, <2>3, <2>4 DEF Rise
<1>9. Rise(p, s)
  BY <1>8 DEF Rise
<1> QED
  BY <1>5, <1>9 DEF p

LEMMA OneRises ==
  ASSUME NEW c, NEW s
  PROVE  Rise(<<c>>, s) /\ Rise(<<>>, s)
BY DEF Rise

LEMMA EnumsRise ==
  ASSUME NEW s, IsCatalog(s), NEW t, IsCatalog(t),
         \A k \in OfKind(s, "enum") : s[k].labels \in Seq(STRING),
         \A k \in OfKind(t, "enum") : t[k].labels \in Seq(STRING)
  PROVE  Rise(DiffEnums(s, t), s)
<1> DEFINE ks == Keys(s, "enum")  kt == Keys(t, "enum")
           S == OfKind(s, "enum")  T == OfKind(t, "enum")
           al(k) == IF IsSubsequence(t[k].labels, s[k].labels)
                    THEN AddLabels(k, s[k].labels, t[k].labels) ELSE <<Plain("enum_needs_rebuild", k)>>
           A == [k \in S |-> IF k \notin DOMAIN t THEN <<Change("create_enum", k, s[k], FALSE)>>
                             ELSE IF s[k].labels = t[k].labels THEN <<>> ELSE al(k)]
           B == [k \in T |-> IF k \in DOMAIN s THEN <<>> ELSE <<Plain("drop_enum", k)>>]
<1>1. IsSeq(ks) /\ ToSet(ks) = S /\ IsSeq(kt) /\ ToSet(kt) = T
  BY SMTT(60), KeysAre
<1>2. Injective(ks)
  BY SMTT(60), KeysOnce
<1> HIDE DEF ks, kt
<1>3. DiffEnums(s, t) = Pass(ks, A) \o Pass(kt, B)
  <2>1. (\A i \in DOMAIN ks : ks[i] \in S) /\ (\A i \in DOMAIN kt : kt[i] \in T)
    BY <1>1 DEF ToSet
  <2> QED
    BY ZenonT(60), <2>1 DEF DiffEnums, Compare, Each, Pass, ks, kt
<1>4. ASSUME NEW k \in S PROVE IsSeq(A[k]) /\ Rise(A[k], s) /\ \A c \in ToSet(A[k]) : c.on = k
  <2> DEFINE new == Change("create_enum", k, s[k], FALSE)  no == Plain("enum_needs_rebuild", k)
             add == AddLabels(k, s[k].labels, t[k].labels)
  <2>1. \/ A[k] = <<new>> \/ A[k] = <<>> \/ A[k] = <<no>>
        \/ A[k] = add /\ k \in T
    BY DEF OfKind
  <2>2. new.on = k /\ no.on = k
    BY DEF Change, Plain
  <2> HIDE DEF A, new, no, add
  <2>3. CASE A[k] = <<new>> \/ A[k] = <<no>> \/ A[k] = <<>>
    <3>1. /\ IsSeq(<<>>) /\ IsSeq(<<new>>) /\ IsSeq(<<no>>)
          /\ ToSet(<<>>) = {} /\ ToSet(<<new>>) = {new} /\ ToSet(<<no>>) = {no}
          /\ Rise(<<>>, s) /\ Rise(<<new>>, s) /\ Rise(<<no>>, s)
      BY Listed, OneRises
    <3> QED
      BY <2>2, <2>3, <3>1
  <2>4. CASE A[k] = add /\ k \in T
    <3>1. IsSeq(add) /\ Rise(add, s) /\ \A c \in ToSet(add) : c.on = k
      <4>1. s[k].labels \in Seq(STRING) /\ t[k].labels \in Seq(STRING)
        BY <2>4
      <4> QED
        BY <4>1, AddLabelsRise DEF add
    <3> QED
      BY <2>4, <3>1
  <2> QED
    BY <2>1, <2>3, <2>4
<1>5. ASSUME NEW k \in T PROVE IsSeq(B[k]) /\ \A c \in ToSet(B[k]) : ~Adds(c)
  <2> DEFINE gone == Plain("drop_enum", k)
  <2>1. B[k] = <<gone>> \/ B[k] = <<>>
    OBVIOUS
  <2>2. ~Adds(gone)
    BY DEF Change, Plain, Adds
  <2> HIDE DEF B, gone
  <2>3. IsSeq(<<>>) /\ IsSeq(<<gone>>) /\ ToSet(<<>>) = {} /\ ToSet(<<gone>>) = {gone}
    BY Listed
  <2> QED
    BY <2>1, <2>2, <2>3
<1> HIDE DEF A, B, S, T
<1> DEFINE a == Pass(ks, A)  b == Pass(kt, B)
<1>6. IsSeq(a) /\ Rise(a, s)
  BY <1>1, <1>2, <1>4, PassRises
<1>7. IsSeq(b) /\ NoLabels(b)
  <2>1. IsSeq(b) /\ \A c : c \in ToSet(b) <=> \E k \in ToSet(kt) : c \in ToSet(B[k])
    BY <1>1, <1>5, PassIs
  <2> HIDE DEF b
  <2> QED
    BY <1>1, <1>5, <2>1 DEF NoLabels
<1> HIDE DEF a, b
<1>8. Rise(b, s)
  BY <1>7, NoLabelsRise
<1>9. Rise(a \o b, s)
  BY <1>6, <1>7, <1>8, RiseJoins
<1> QED
  BY <1>3, <1>9 DEF a, b

LEMMA OthersAddNone ==
  ASSUME NEW x, NEW s, NEW t, NEW all
  PROVE  /\ SchemaChange(x, s, t) => ~Adds(x)
         /\ ExtensionChange(x, s, t) => ~Adds(x)
         /\ SequenceChange(x, s, t, all) => ~Adds(x)
         /\ TableChange(x, s, t, all) => ~Adds(x)
         /\ ViewChange(x, s, t, all) => ~Adds(x)
         /\ RoutineChange(x, s, t, all) => ~Adds(x)
         /\ TriggerChange(x, s, t, all) => ~Adds(x)
<1>1. SchemaChange(x, s, t) => ~Adds(x)
  BY DEF SchemaChange, Adds, Change, Plain
<1>2. ExtensionChange(x, s, t) => ~Adds(x)
  BY DEF ExtensionChange, Adds, Change, Plain
<1>3. SequenceChange(x, s, t, all) => ~Adds(x)
  BY DEF SequenceChange, Adds, Change, Plain
<1>4. ViewChange(x, s, t, all) => ~Adds(x)
  BY DEF ViewChange, Adds, Change
<1>5. RoutineChange(x, s, t, all) => ~Adds(x)
  BY DEF RoutineChange, Adds, Change
<1>6. TriggerChange(x, s, t, all) => ~Adds(x)
  BY DEF TriggerChange, Adds, Change
<1>7. ConstraintChange(x, s, t, all) \/ IndexChange(x, s, t, all) \/ PolicyChange(x, s, t, all)
        => ~Adds(x)
  BY DEF ConstraintChange, IndexChange, PolicyChange, Adds, Change
<1>8. ColumnChange(x, s, t, all) => ~Adds(x)
  <2>1. \A a, b : OneColumnChange(x, x.on, a, b) => ~Adds(x)
    BY DEF OneColumnChange, Adds, Change, Plain, SetDefault
  <2> QED
    BY <2>1 DEF ColumnChange, Adds, Change, Plain
<1>9. TableChange(x, s, t, all) => ~Adds(x)
  <2>1. x = CreateTable(s, x.on) \/ x = Plain("drop_table", x.on) \/ RlsChange(x, x.on) => ~Adds(x)
    BY DEF CreateTable, RlsChange, Adds, Change, Plain
  <2> QED
    BY <1>7, <1>8, <2>1 DEF TableChange
<1> QED
  BY <1>1, <1>2, <1>3, <1>4, <1>5, <1>6, <1>9

LEMMA DiffRises ==
  ASSUME NEW s, IsReading(s), NEW t, IsReading(t), NEW flavor
  PROVE  Rise(Diff(s, t, flavor), s)
<1> DEFINE a == DiffSchemas(s, t)
           b == DiffExtensions(s, t)
           c == DiffEnums(s, t)
           d == DiffSequences(s, t)
           e == DiffTables(s, t)
           f == DiffViews(s, t)
           g == DiffFunctions(s, t)
           h == DiffTriggers(s, t, CycleTriggers(s, t, flavor))
<1>1. Diff(s, t, flavor) = a \o b \o c \o d \o e \o f \o g \o h
  BY DEF Diff
<1>2. IsCatalog(s) /\ IsCatalog(t)
  BY DEF IsReading
<1>3. IsSeq(a) /\ \A x \in ToSet(a) : SchemaChange(x, s, t)
  BY <1>2, SchemaChanges
<1>4. IsSeq(b) /\ \A x \in ToSet(b) : ExtensionChange(x, s, t)
  BY <1>2, ExtensionChanges
<1>5. IsSeq(c) /\ Rise(c, s)
  <2>1. /\ \A k \in OfKind(s, "enum") : s[k].labels \in Seq(STRING)
        /\ \A k \in OfKind(t, "enum") : t[k].labels \in Seq(STRING)
    BY DEF OfKind, IsReading
  <2> QED
    BY <1>2, <2>1, EnumChanges, EnumsRise
<1>6. IsSeq(d) /\ \A x \in ToSet(d) : SequenceChange(x, s, t, ToSet(d))
  BY <1>2, SequenceChanges
<1>7. IsSeq(e) /\ \A x \in ToSet(e) : TableChange(x, s, t, ToSet(e))
  BY <1>2, TableChanges
<1>8. IsSeq(f) /\ \A x \in ToSet(f) : ViewChange(x, s, t, ToSet(f))
  BY <1>2, ViewChanges
<1>9. IsSeq(g) /\ \A x \in ToSet(g) : RoutineChange(x, s, t, ToSet(g))
  BY <1>2, RoutineChanges
<1>10. IsSeq(h) /\ \A x \in ToSet(h) : TriggerChange(x, s, t, ToSet(h))
  <2>1. CycleTriggers(s, t, flavor) \in BOOLEAN
    BY DEF CycleTriggers
  <2> QED
    BY <1>2, <2>1, TriggerChanges
<1> HIDE DEF a, b, c, d, e, f, g, h
<1>11. /\ NoLabels(a) /\ NoLabels(b) /\ NoLabels(d) /\ NoLabels(e) /\ NoLabels(f)
       /\ NoLabels(g) /\ NoLabels(h)
  BY <1>3, <1>4, <1>6, <1>7, <1>8, <1>9, <1>10, OthersAddNone DEF NoLabels
<1>12. /\ Rise(a, s) /\ Rise(b, s) /\ Rise(d, s) /\ Rise(e, s) /\ Rise(f, s)
       /\ Rise(g, s) /\ Rise(h, s)
  BY <1>11, NoLabelsRise
<1> DEFINE p1 == a \o b
<1>13. IsSeq(p1) /\ Rise(p1, s) /\ NoLabels(p1)
  BY <1>3, <1>4, <1>11, <1>12, RiseJoins
<1> HIDE DEF p1
<1> DEFINE p2 == p1 \o c
<1>14. IsSeq(p2) /\ Rise(p2, s)
  BY <1>5, <1>13, RiseJoins
<1> HIDE DEF p2
<1> DEFINE p3 == p2 \o d
<1>15. IsSeq(p3) /\ Rise(p3, s)
  BY <1>6, <1>11, <1>12, <1>14, RiseJoins
<1> HIDE DEF p3
<1> DEFINE p4 == p3 \o e
<1>16. IsSeq(p4) /\ Rise(p4, s)
  BY <1>7, <1>11, <1>12, <1>15, RiseJoins
<1> HIDE DEF p4
<1> DEFINE p5 == p4 \o f
<1>17. IsSeq(p5) /\ Rise(p5, s)
  BY <1>8, <1>11, <1>12, <1>16, RiseJoins
<1> HIDE DEF p5
<1> DEFINE p6 == p5 \o g
<1>18. IsSeq(p6) /\ Rise(p6, s)
  BY <1>9, <1>11, <1>12, <1>17, RiseJoins
<1> HIDE DEF p6
<1>19. Rise(p6 \o h, s)
  BY <1>10, <1>11, <1>12, <1>18, RiseJoins
<1>20. Diff(s, t, flavor) = p6 \o h
  BY <1>1 DEF p6, p5, p4, p3, p2, p1
<1> QED
  BY <1>19, <1>20

(* So do the statements that add them. *)
Labels(st) == st.do = "add_label"
StmtsRise(scr, s) ==
  \A i, j \in DOMAIN scr :
    (i < j /\ Labels(scr[i]) /\ Labels(scr[j]) /\ scr[i].on = scr[j].on)
      => Before(s[scr[i].on].labels, scr[i].with.label, scr[j].with.label)

LEMMA LabelStmts ==
  ASSUME NEW s, Offered(s), NEW t, Within(t), NEW all, NEW fl, NEW allow \in BOOLEAN,
         NEW c, Wants(c, s, t, all), NEW h \in DOMAIN OfPhase(c, 0, fl, allow)
  PROVE  h = 1 /\ Adds(c) /\ OfPhase(c, 0, fl, allow)[h] = Stmt("add_label", c.on, c.to)
<1> DEFINE p == OfPhase(c, 0, fl, allow)  st == Stmt("add_label", c.on, c.to)
<1>1. p = IF PhaseOf(c) = 0 THEN Rendered(c, fl, allow) ELSE <<>>
  BY DEF OfPhase, NewTableFks, NewTableRls
<1>2. ASSUME PhaseOf(c) = 0 PROVE Statements(c, fl) = <<st>>
  <2>1. c.op # "add_constraint"
    <3>1. c.op = "add_constraint" => PhaseOf(c) \in {15, 17}
      BY AddPhases
    <3> QED
      BY <1>2, <3>1
  <2> QED
    BY <1>2, <2>1 DEF Statements
<1> HIDE DEF st
<1>3. PhaseOf(c) = 0 /\ p = <<st>>
  BY <1>1, <1>2 DEF Rendered
<1>4. h = 1 /\ p[h] = st
  BY <1>3
<1>5. \A x \in ToSet(p) : Serves(x, 0, s, t, fl, allow, all)
  BY OfPhaseServes
<1> HIDE DEF p
<1>6. Serves(st, 0, s, t, fl, allow, all)
  BY <1>3, <1>5, Listed
<1>7. c.on[1] = "enum"
  <2>1. st.do = "add_label" /\ st.on = c.on
    BY DEF st, Stmt
  <2>2. LabelOK(st.on, st.with, s, t)
    BY <1>6, <2>1 DEF Serves
  <2> QED
    BY <2>1, <2>2 DEF LabelOK
<1>8. EnumChange(c, s, t, all)
  BY <1>7 DEF Wants, SchemaChange, ExtensionChange, SequenceChange, TableChange, ColumnChange,
              ConstraintChange, IndexChange, PolicyChange, ViewChange, RoutineChange, TriggerChange
<1>9. c.op # "create_enum" /\ c.op # "enum_needs_rebuild" /\ c.op # "drop_enum"
  <2>1. /\ c.op = "create_enum" => PhaseOf(c) = 2
        /\ c.op = "enum_needs_rebuild" => PhaseOf(c) = 2
        /\ c.op = "drop_enum" => PhaseOf(c) = 26
    BY TypePhases, LatePhases
  <2> QED
    BY <1>3, <2>1
<1>10. Adds(c)
  BY <1>8, <1>9 DEF EnumChange, LabelChange, Adds, Change, Plain
<1> QED
  BY <1>4, <1>10 DEF p, st

LEMMA FirstPhaseRises ==
  ASSUME NEW s, Offered(s), NEW t, Within(t), NEW all, NEW fl, NEW allow \in BOOLEAN,
         NEW plan, IsSeq(plan), \A c \in ToSet(plan) : Wants(c, s, t, all), Rise(plan, s)
  PROVE  StmtsRise(InPhase(plan, 0, fl, allow), s)
<1> DEFINE u == InPhase(plan, 0, fl, allow)
           m == InPhaseOf(plan, 0, fl, allow)
           v == [i \in DOMAIN plan |-> Stmt("add_label", plan[i].on, plan[i].to)]
<1>1. /\ IsSeq(u) /\ \A st \in ToSet(u) : Serves(st, 0, s, t, fl, allow, all)
      /\ \A c \in ToSet(plan) : ToSet(OfPhase(c, 0, fl, allow)) \subseteq ToSet(u)
      /\ Len(m) = Len(plan) /\ DOMAIN m = DOMAIN plan
      /\ \E g : Spots(u, m, Len(plan), g)
  BY InPhaseServes
<1>2. PICK g : Spots(u, m, Len(plan), g)
  BY <1>1
<1>3. Len(plan) \in Nat /\ DOMAIN plan = 1..Len(plan) /\ \A i \in DOMAIN plan : plan[i] \in ToSet(plan)
  BY SeqDomain DEF ToSet
<1>4. \A i \in DOMAIN plan : m[i] = OfPhase(plan[i], 0, fl, allow)
  BY DEF InPhaseOf
<1> HIDE DEF u, m
<1>5. ASSUME NEW i \in DOMAIN u
      PROVE  /\ g[i][1] \in DOMAIN plan /\ g[i][2] = 1 /\ Adds(plan[g[i][1]])
             /\ u[i] = Stmt("add_label", plan[g[i][1]].on, plan[g[i][1]].to)
  <2> DEFINE k == g[i][1]  h == g[i][2]  c == plan[k]
  <2>1. k \in DOMAIN plan /\ h \in DOMAIN m[k] /\ u[i] = m[k][h]
    BY <1>2, <1>3 DEF Spots
  <2> HIDE DEF k, h
  <2>2. m[k] = OfPhase(c, 0, fl, allow) /\ Wants(c, s, t, all)
    BY <1>3, <1>4, <2>1
  <2> HIDE DEF c
  <2>3. h \in DOMAIN OfPhase(c, 0, fl, allow)
    BY <2>1, <2>2
  <2>4. h = 1 /\ Adds(c) /\ OfPhase(c, 0, fl, allow)[h] = Stmt("add_label", c.on, c.to)
    BY <2>2, <2>3, LabelStmts
  <2> QED
    BY <2>1, <2>2, <2>4 DEF k, h, c
<1>6. ASSUME NEW i \in DOMAIN u, NEW j \in DOMAIN u, i < j, u[i].on = u[j].on
      PROVE  Before(s[u[i].on].labels, u[i].with.label, u[j].with.label)
  <2> DEFINE a == g[i][1]  b == g[j][1]
  <2>1. /\ a \in DOMAIN plan /\ b \in DOMAIN plan /\ Adds(plan[a]) /\ Adds(plan[b])
        /\ u[i].on = plan[a].on /\ u[i].with = plan[a].to
        /\ u[j].on = plan[b].on /\ u[j].with = plan[b].to
    BY <1>5 DEF Stmt
  <2>2. a < b
    <3>1. g[i][2] = 1 /\ g[j][2] = 1
      BY <1>5
    <3> QED
      BY <1>2, <1>6, <3>1 DEF Spots
  <2> HIDE DEF a, b
  <2> QED
    BY <1>6, <2>1, <2>2 DEF Rise
<1>7. StmtsRise(u, s)
  BY <1>6 DEF StmtsRise
<1> QED
  BY <1>7 DEF u

-----------------------------------------------------------------------------
(***************************************************************************)
(* What a pending label needs to be put where the source has it.           *)
(***************************************************************************)
LEMMA BeforeOrders ==
  ASSUME NEW L \in Seq(STRING), Injective(L), NEW x, NEW y, NEW z
  PROVE  /\ ~Before(L, x, x) /\ ~(Before(L, x, y) /\ Before(L, y, x))
         /\ Before(L, x, y) /\ Before(L, y, z) => Before(L, x, z)
<1>1. DOMAIN L \subseteq Nat
  OBVIOUS
<1>2. ASSUME Before(L, x, y), Before(L, y, z) PROVE Before(L, x, z) /\ x # z
  <2>1. PICK a, b \in DOMAIN L : a < b /\ L[a] = x /\ L[b] = y
    BY <1>2 DEF Before
  <2>2. PICK c, e \in DOMAIN L : c < e /\ L[c] = y /\ L[e] = z
    BY <1>2 DEF Before
  <2>3. b = c
    BY <2>1, <2>2 DEF Injective
  <2>4. a < e
    BY <1>1, <2>1, <2>2, <2>3
  <2>5. x # z
    <3>1. a # e
      BY <1>1, <2>1, <2>2, <2>4
    <3> QED
      BY <2>1, <2>2, <3>1 DEF Injective
  <2> QED
    BY <2>1, <2>2, <2>4, <2>5 DEF Before
<1>3. ~Before(L, x, x)
  <2> SUFFICES ASSUME Before(L, x, x) PROVE FALSE
    OBVIOUS
  <2>1. PICK a, b \in DOMAIN L : a < b /\ L[a] = x /\ L[b] = x
    BY DEF Before
  <2> QED
    BY <1>1, <2>1 DEF Injective
<1>4. ~(Before(L, x, y) /\ Before(L, y, x))
  <2> SUFFICES ASSUME Before(L, x, y), Before(L, y, x) PROVE FALSE
    OBVIOUS
  <2>1. PICK a, b \in DOMAIN L : a < b /\ L[a] = x /\ L[b] = y
    BY DEF Before
  <2>2. PICK c, e \in DOMAIN L : c < e /\ L[c] = y /\ L[e] = x
    BY DEF Before
  <2>3. b = c /\ a = e
    BY <2>1, <2>2 DEF Injective
  <2> QED
    BY <1>1, <2>1, <2>2, <2>3
<1> QED
  BY <1>2, <1>3, <1>4

Fits(D, L, new) ==
  /\ HasLabel(L, new.label)
  /\ \A i \in DOMAIN D :
       \/ Before(L, D[i], new.label)
       \/ new.before # "end" /\ (D[i] = new.before \/ Before(L, new.before, D[i]))
  /\ new.before # "end" => Before(L, new.label, new.before)

LEMMA AnchoredFits ==
  ASSUME NEW D \in Seq(STRING), NEW L \in Seq(STRING), InOrder(D, L), NEW new,
         Anchored(new, L, D), ~HasLabel(L, "end")
  PROVE  Fits(D, L, new)
<1>1. PICK i \in DOMAIN L :
        /\ new.label = L[i] /\ ~HasLabel(D, L[i])
        /\ \/ new.before = "end" /\ \A j \in DOMAIN L : j > i => ~HasLabel(D, L[j])
           \/ \E a \in DOMAIN L :
                /\ a > i /\ new.before = L[a] /\ HasLabel(D, L[a])
                /\ \A j \in DOMAIN L : j > i /\ j < a => ~HasLabel(D, L[j])
  BY DEF Anchored
<1>2. DOMAIN L \subseteq Nat
  OBVIOUS
<1>3. HasLabel(L, new.label)
  BY <1>1 DEF HasLabel
<1>4. ASSUME NEW j \in DOMAIN D
      PROVE  \E b \in DOMAIN L : L[b] = D[j] /\ b # i /\ HasLabel(D, L[b])
  <2>1. PICK b \in DOMAIN L : L[b] = D[j]
    BY DEF InOrder, HasLabel
  <2>2. HasLabel(D, L[b])
    BY <2>1 DEF HasLabel
  <2> QED
    BY <1>1, <2>1, <2>2
<1>5. CASE new.before = "end" /\ \A j \in DOMAIN L : j > i => ~HasLabel(D, L[j])
  <2>1. ASSUME NEW j \in DOMAIN D PROVE Before(L, D[j], new.label)
    <3>1. PICK b \in DOMAIN L : L[b] = D[j] /\ b # i /\ HasLabel(D, L[b])
      BY <1>4
    <3>2. b < i
      BY <1>2, <1>5, <3>1
    <3> QED
      BY <1>1, <3>1, <3>2 DEF Before
  <2> QED
    BY <1>3, <1>5, <2>1 DEF Fits
<1>6. CASE \E a \in DOMAIN L :
             /\ a > i /\ new.before = L[a] /\ HasLabel(D, L[a])
             /\ \A j \in DOMAIN L : j > i /\ j < a => ~HasLabel(D, L[j])
  <2>1. PICK a \in DOMAIN L : /\ a > i /\ new.before = L[a]
                              /\ \A j \in DOMAIN L : j > i /\ j < a => ~HasLabel(D, L[j])
    BY <1>6
  <2>2. new.before # "end"
    BY <2>1 DEF HasLabel
  <2>3. i < a
    BY <1>2, <2>1
  <2>4. Before(L, new.label, new.before)
    BY <1>1, <2>1, <2>3 DEF Before
  <2>5. ASSUME NEW j \in DOMAIN D
        PROVE  \/ Before(L, D[j], new.label)
               \/ D[j] = new.before \/ Before(L, new.before, D[j])
    <3>1. PICK b \in DOMAIN L : L[b] = D[j] /\ b # i /\ HasLabel(D, L[b])
      BY <1>4
    <3>2. b < i \/ b = a \/ a < b
      BY <1>2, <2>1, <3>1
    <3> QED
      BY <1>1, <2>1, <3>1, <3>2 DEF Before
  <2> QED
    BY <1>3, <2>2, <2>4, <2>5 DEF Fits
<1> QED
  BY <1>1, <1>5, <1>6

LEMMA InsertFits ==
  ASSUME NEW D \in Seq(STRING), Injective(D), NEW L \in Seq(STRING), Injective(L), InOrder(D, L),
         NEW new, new.label \in STRING, Fits(D, L, new), ~HasLabel(D, new.label),
         new.before = "end" \/ HasLabel(D, new.before)
  PROVE  LET E == InsertLabel(D, new) IN
         /\ E \in Seq(STRING) /\ Injective(E) /\ InOrder(E, L) /\ InOrder(D, E)
         /\ \A l : HasLabel(E, l) <=> l = new.label \/ HasLabel(D, l)
<1> DEFINE E == InsertLabel(D, new)  n == Len(D)  x == new.label
<1>1. /\ E \in Seq(STRING) /\ Injective(E)
      /\ \A l : HasLabel(E, l) <=> l = new.label \/ HasLabel(D, l)
  BY InsertKeepsDistinct
<1>2. PICK at \in 1..(n + 1) :
        /\ E = [i \in 1..(n + 1) |-> IF i < at THEN D[i] ELSE IF i = at THEN x ELSE D[i - 1]]
        /\ E \in Seq(STRING)
        /\ IF new.before = "end" THEN at = n + 1 ELSE at \in DOMAIN D /\ D[at] = new.before
  BY InsertIs
<1>3. n \in Nat /\ DOMAIN D = 1..n /\ at \in Nat /\ DOMAIN E = 1..(n + 1)
  BY <1>2
<1>4. \A i \in DOMAIN E :
        /\ i < at => i \in DOMAIN D /\ E[i] = D[i]
        /\ i = at => E[i] = x
        /\ i > at => i - 1 \in DOMAIN D /\ E[i] = D[i - 1] /\ i - 1 >= at
  BY <1>2, <1>3
<1>5. \A i \in DOMAIN D : /\ i < at => i \in DOMAIN E /\ E[i] = D[i]
                          /\ i >= at => i + 1 \in DOMAIN E /\ E[i + 1] = D[i]
  BY <1>2, <1>3
<1> HIDE DEF E, n, x
<1>6. ASSUME NEW i \in DOMAIN D, i < at PROVE Before(L, D[i], x)
  <2>1. CASE new.before = "end"
    BY <2>1 DEF Fits, x
  <2>2. CASE new.before # "end"
    <3>1. Before(L, D[i], new.before)
      BY <1>2, <1>6, <2>2 DEF InOrder
    <3>2. D[i] # new.before /\ ~Before(L, new.before, D[i])
      BY <3>1, BeforeOrders
    <3> QED
      BY <3>2 DEF Fits, x
  <2> QED
    BY <2>1, <2>2
<1>7. ASSUME NEW i \in DOMAIN D, i >= at PROVE Before(L, x, D[i])
  <2>1. new.before # "end" /\ at \in DOMAIN D /\ D[at] = new.before
    BY <1>2, <1>3, <1>7
  <2>2. Before(L, x, new.before)
    BY <2>1 DEF Fits, x
  <2>3. i = at \/ Before(L, new.before, D[i])
    <3>1. i = at \/ at < i
      BY <1>3, <1>7
    <3> QED
      BY <2>1, <3>1 DEF InOrder
  <2> QED
    BY <2>1, <2>2, <2>3, BeforeOrders
<1>8. ASSUME NEW i \in DOMAIN E, NEW j \in DOMAIN E, i < j PROVE Before(L, E[i], E[j])
  <2>1. i \in Nat /\ j \in Nat
    BY <1>3
  <2>2. CASE j < at
    <3>1. i < at
      BY <1>3, <1>8, <2>1, <2>2
    <3> QED
      BY <1>4, <1>8, <2>2, <3>1 DEF InOrder
  <2>3. CASE j = at
    BY <1>4, <1>6, <1>8, <2>3
  <2>4. CASE j > at /\ i < at
    <3>1. i < j - 1
      BY <1>3, <2>1, <2>4, <1>4
    <3> QED
      BY <1>4, <2>4, <3>1 DEF InOrder
  <2>5. CASE j > at /\ i = at
    BY <1>4, <1>7, <2>5
  <2>6. CASE i > at
    <3>1. j > at /\ i - 1 < j - 1
      BY <1>3, <1>8, <2>1, <2>6
    <3> QED
      BY <1>4, <2>6, <3>1 DEF InOrder
  <2> QED
    BY <1>3, <1>8, <2>1, <2>2, <2>3, <2>4, <2>5, <2>6
<1>9. \A i \in DOMAIN E : HasLabel(L, E[i])
  <2>1. \A i \in DOMAIN E : E[i] = x \/ \E j \in DOMAIN D : E[i] = D[j]
    BY <1>3, <1>4
  <2> QED
    BY <2>1 DEF InOrder, Fits, x
<1>10. InOrder(E, L)
  BY <1>8, <1>9 DEF InOrder
<1>11. ASSUME NEW i \in DOMAIN D, NEW j \in DOMAIN D, i < j PROVE Before(E, D[i], D[j])
  <2>1. i \in Nat /\ j \in Nat
    BY <1>3
  <2>2. CASE j < at
    <3>1. i < at
      BY <1>3, <1>11, <2>1, <2>2
    <3> QED
      BY <1>5, <1>11, <2>2, <3>1 DEF Before
  <2>3. CASE i < at /\ j >= at
    <3>1. i < j + 1
      BY <1>11, <2>1
    <3> QED
      BY <1>5, <2>3, <3>1 DEF Before
  <2>4. CASE i >= at
    <3>1. j >= at /\ i + 1 < j + 1
      BY <1>3, <1>11, <2>1, <2>4
    <3> QED
      BY <1>5, <2>4, <3>1 DEF Before
  <2> QED
    BY <1>3, <2>1, <2>2, <2>3, <2>4
<1>12. InOrder(D, E)
  BY <1>1, <1>11 DEF InOrder, HasLabel
<1> QED
  BY <1>1, <1>10, <1>12 DEF E

LEMMA FitsStays ==
  ASSUME NEW D, NEW E, NEW L, NEW x, NEW new, Fits(D, L, new), Before(L, x, new.label),
         \A l : HasLabel(E, l) <=> l = x \/ HasLabel(D, l)
  PROVE  Fits(E, L, new)
<1>1. \A i \in DOMAIN E : E[i] = x \/ \E j \in DOMAIN D : E[i] = D[j]
  BY DEF HasLabel
<1> QED
  BY <1>1 DEF Fits

(* What is left of a script can still put its labels where the source has  *)
(* them.                                                                    *)
Pending(scr, d, s) ==
  /\ \A i \in DOMAIN scr : Labels(scr[i]) =>
       LET k == scr[i].on IN
       /\ k \in DOMAIN d /\ k \in DOMAIN s /\ k[1] = "enum"
       /\ InOrder(d[k].labels, s[k].labels) /\ Fits(d[k].labels, s[k].labels, scr[i].with)
  /\ StmtsRise(scr, s)

LabelInv == phase = "run" /\ ~open => Pending(script, db, Source)

(* The enums of a source. *)
Ranked(s) ==
  \A k \in DOMAIN s : k[1] = "enum" =>
    /\ s[k].labels \in Seq(STRING) /\ Injective(s[k].labels) /\ ~HasLabel(s[k].labels, "end")

LEMMA ReadLabels ==
  ASSUME NEW d, IsDatabase(d), NEW fl, NEW k \in DOMAIN Introspect(d, fl), k[1] = "enum"
  PROVE  /\ k \in DOMAIN d /\ Introspect(d, fl)[k].labels = d[k].labels
         /\ d[k].labels \in Seq(STRING) /\ Injective(d[k].labels)
<1>1. k \in DOMAIN d /\ Introspect(d, fl)[k] = Reading(d, k, fl)
  BY ReadShape
<1>2. IsValue(k, d[k])
  BY <1>1 DEF IsDatabase
<1>3. d[k].labels \in Seq(STRING) /\ Injective(d[k].labels)
  BY <1>2 DEF IsValue
<1>4. Reading(d, k, fl) = [labels |-> d[k].labels]
  BY DEF Reading, ReadEnum
<1> QED
  BY <1>1, <1>3, <1>4

LEMMA SourceRanked ==
  ASSUME NEW c \in Cases
  PROVE  Ranked(Introspect(c.source, c.flavor))
<1> DEFINE s == Introspect(c.source, c.flavor)
<1>1. IsDatabase(c.source)
  BY CaseIs
<1>2. ASSUME NEW k \in DOMAIN s, k[1] = "enum"
      PROVE  s[k].labels \in Seq(STRING) /\ Injective(s[k].labels) /\ ~HasLabel(s[k].labels, "end")
  <2>1. /\ k \in DOMAIN c.source /\ s[k].labels = c.source[k].labels
        /\ c.source[k].labels \in Seq(STRING) /\ Injective(c.source[k].labels)
    BY <1>1, <1>2, ReadLabels
  <2> HIDE DEF s
  <2>2. ~HasLabel(c.source[k].labels, "end")
    BY <1>2, <2>1, CasesAssumption
  <2> QED
    BY <2>1, <2>2
<1> QED
  BY <1>2 DEF Ranked

LEMMA PendingAtFirst ==
  ASSUME NEW c \in Cases, NEW d, IsDatabase(d)
  PROVE  LET s == Introspect(c.source, c.flavor)
             p == Diff(s, Introspect(d, c.flavor), c.flavor)
         IN  Some(p) => Pending(Emit(p, c.flavor, c.allow), d, s)
<1> DEFINE fl == c.flavor  allow == c.allow
           s == Introspect(c.source, fl)
           t == Introspect(d, fl)
           p == Diff(s, t, fl)
           scr == Emit(p, fl, allow)
           u == InPhase(p, 0, fl, allow)
           all == ToSet(p)
<1> SUFFICES ASSUME Some(p) PROVE Pending(scr, d, s)
  OBVIOUS
<1>1. /\ Offered(s) /\ IsReading(t) /\ Within(t) /\ IsSeq(p)
      /\ \A x \in ToSet(p) : Wants(x, s, t, ToSet(p))
      /\ p = <<>> => SameCatalogs(s, t)
      /\ Some(p) =>
           /\ AllOf(scr, p, fl, allow)
           /\ \E ph : /\ Phased(scr, ph, s, t, fl, allow, ToSet(p))
                      /\ LabelsFirst(scr, ph, u)
  BY ScriptServes
<1>2. allow \in BOOLEAN
  BY CaseIs
<1>3. Ranked(s)
  BY SourceRanked
<1>4. \A k \in DOMAIN t : k[1] = "enum" =>
         k \in DOMAIN d /\ t[k].labels = d[k].labels /\ d[k].labels \in Seq(STRING)
  BY ReadLabels
<1>5. \E ph : Phased(scr, ph, s, t, fl, allow, all) /\ LabelsFirst(scr, ph, u)
  BY <1>1
<1> HIDE DEF s, t, fl, allow, scr, u
<1>6. Rise(p, s)
  BY <1>1, DiffRises DEF Offered
<1> HIDE DEF p
<1>7. \A x \in ToSet(p) : Wants(x, s, t, all)
  BY <1>1
<1> HIDE DEF all
<1>8. StmtsRise(u, s)
  BY <1>1, <1>2, <1>6, <1>7, FirstPhaseRises DEF u
<1>9. PICK ph : Phased(scr, ph, s, t, fl, allow, all) /\ LabelsFirst(scr, ph, u)
  BY <1>5
<1>10. ASSUME NEW i \in DOMAIN scr, Labels(scr[i])
       PROVE  i \in DOMAIN u /\ scr[i] = u[i] /\ LabelOK(scr[i].on, scr[i].with, s, t)
  <2>1. scr[i].do = "add_label" /\ scr[i] # Begin /\ scr[i] # Commit
    BY <1>10 DEF Labels, Begin, Commit, Stmt
  <2>2. Serves(scr[i], ph[i], s, t, fl, allow, all)
    BY <1>9, <2>1 DEF Phased
  <2>3. ph[i] = 0 /\ LabelOK(scr[i].on, scr[i].with, s, t)
    BY <2>1, <2>2 DEF Serves
  <2> QED
    BY <1>9, <2>3 DEF LabelsFirst
<1>11. StmtsRise(scr, s)
  BY <1>8, <1>10 DEF StmtsRise
<1>12. ASSUME NEW i \in DOMAIN scr, Labels(scr[i])
       PROVE  LET k == scr[i].on IN
              /\ k \in DOMAIN d /\ k \in DOMAIN s /\ k[1] = "enum"
              /\ InOrder(d[k].labels, s[k].labels)
              /\ Fits(d[k].labels, s[k].labels, scr[i].with)
  <2> DEFINE k == scr[i].on  new == scr[i].with  D == d[k].labels  L == s[k].labels
  <2>1. LabelOK(k, new, s, t)
    BY <1>10, <1>12
  <2> HIDE DEF k, new
  <2>2. /\ k \in DOMAIN s /\ k \in DOMAIN t /\ k[1] = "enum"
        /\ IsSubsequence(t[k].labels, L) /\ Anchored(new, L, t[k].labels)
    BY <2>1 DEF LabelOK
  <2>3. k \in DOMAIN d /\ t[k].labels = D /\ D \in Seq(STRING)
    BY <1>4, <2>2
  <2>4. L \in Seq(STRING) /\ ~HasLabel(L, "end")
    BY <1>3, <2>2 DEF Ranked
  <2>5. IsSubsequence(D, L) /\ Anchored(new, L, D)
    BY <2>2, <2>3
  <2> HIDE DEF D, L
  <2>6. InOrder(D, L)
    BY <2>3, <2>4, <2>5, SubsequenceInOrder
  <2>7. Fits(D, L, new)
    BY <2>3, <2>4, <2>5, <2>6, AnchoredFits
  <2> QED
    BY <2>2, <2>3, <2>6, <2>7 DEF k, new, D, L
<1>13. Pending(scr, d, s)
  BY <1>11, <1>12 DEF Pending
<1> QED
  BY <1>13

LEMMA LabelEffect ==
  ASSUME NEW d, IsDatabase(d), NEW st, NEW fl, StmtOK(st), Labels(st), Accepts(d, st, fl)
  PROVE  LET k == st.on  e == Effect(d, st) IN
         /\ k \in DOMAIN d /\ k[1] = "enum" /\ st.with.label \in STRING
         /\ d[k].labels \in Seq(STRING) /\ Injective(d[k].labels)
         /\ \/ e = d
            \/ /\ ~HasLabel(d[k].labels, st.with.label)
               /\ st.with.before = "end" \/ HasLabel(d[k].labels, st.with.before)
               /\ DOMAIN e = DOMAIN d /\ \A o \in DOMAIN d : o # k => e[o] = d[o]
               /\ e[k].labels = InsertLabel(d[k].labels, st.with)
<1> DEFINE id == st.on  v == d[id]  e == Effect(d, st)  l == st.with
<1>0. st.do = "add_label"
  BY DEF Labels
<1>1. id[1] = "enum" /\ l.label \in STRING
  BY <1>0 DEF StmtOK, IdentityDos
<1>2. /\ id \in DOMAIN d
      /\ HasLabel(v.labels, l.label) \/ l.before = "end" \/ HasLabel(v.labels, l.before)
  BY <1>0 DEF Accepts
<1>3. v = [labels |-> v.labels] /\ v.labels \in Seq(STRING) /\ Injective(v.labels)
  BY <1>1, <1>2, InDatabase DEF IsValue
<1>4. e = IF HasLabel(v.labels, l.label) THEN d
          ELSE [d EXCEPT ![id].labels = InsertLabel(@, l)]
  BY <1>0 DEF Effect
<1>5. CASE HasLabel(v.labels, l.label)
  BY <1>1, <1>2, <1>3, <1>4, <1>5
<1>6. CASE ~HasLabel(v.labels, l.label)
  <2> DEFINE more == InsertLabel(v.labels, l)
  <2>1. e = [d EXCEPT ![id] = [v EXCEPT !.labels = more]]
    <3>1. e = [d EXCEPT ![id].labels = InsertLabel(@, l)]
      BY <1>4, <1>6
    <3> HIDE DEF e, id, l
    <3> QED
      BY <1>2, <3>1
  <2>2. [v EXCEPT !.labels = more] = [labels |-> more]
    <3> HIDE DEF v, more
    <3>1. PICK a : v = [labels |-> a]
      BY <1>3
    <3> QED
      BY <3>1
  <2> HIDE DEF e, v, more, id, l
  <2>3. /\ DOMAIN e = DOMAIN d /\ e[id].labels = more
        /\ \A o \in DOMAIN d : o # id => e[o] = d[o]
    BY <1>2, <2>1, <2>2
  <2> QED
    BY <1>1, <1>2, <1>3, <1>6, <2>3 DEF e, id, v, l, more
<1> QED
  BY <1>5, <1>6

(* A label is put into its place, and what is left can still follow. *)
Placed(d, e, s) ==
  /\ DOMAIN e = DOMAIN d
  /\ \A id \in DOMAIN d : e[id] # d[id] =>
       /\ id[1] = "enum"
       /\ IsSubsequence(d[id].labels, e[id].labels) /\ IsSubsequence(e[id].labels, s[id].labels)

LEMMA PendingTail ==
  ASSUME NEW scr, IsSeq(scr), Len(scr) > 0, NEW d, NEW s, Pending(scr, d, s)
  PROVE  Pending(Tail(scr), d, s)
<1>1. /\ DOMAIN Tail(scr) = 1..(Len(scr) - 1) /\ Len(scr) \in Nat
      /\ \A i \in 1..(Len(scr) - 1) : Tail(scr)[i] = scr[i + 1] /\ i + 1 \in DOMAIN scr
  BY TailIs
<1> DEFINE more == Tail(scr)  n == Len(scr) - 1
<1>2. DOMAIN more = 1..n /\ \A i \in DOMAIN more : more[i] = scr[i + 1] /\ i + 1 \in DOMAIN scr
  BY <1>1
<1> HIDE DEF more, n
<1>3. StmtsRise(more, s)
  <2> SUFFICES ASSUME NEW i \in DOMAIN more, NEW j \in DOMAIN more, i < j,
                      Labels(more[i]), Labels(more[j]), more[i].on = more[j].on
               PROVE  Before(s[more[i].on].labels, more[i].with.label, more[j].with.label)
    BY DEF StmtsRise
  <2>1. i + 1 < j + 1
    BY <1>2
  <2>2. StmtsRise(scr, s)
    BY DEF Pending
  <2> QED
    BY <1>2, <2>1, <2>2 DEF StmtsRise
<1>4. Pending(more, d, s)
  BY <1>2, <1>3 DEF Pending
<1> QED
  BY <1>4 DEF more

LEMMA PendingNext ==
  ASSUME NEW scr, IsSeq(scr), Len(scr) > 0, NEW d, IsDatabase(d), NEW s, Ranked(s), Pending(scr, d, s),
         StmtOK(Head(scr)), Labels(Head(scr)), NEW fl, Accepts(d, Head(scr), fl)
  PROVE  Pending(Tail(scr), Effect(d, Head(scr)), s) /\ Placed(d, Effect(d, Head(scr)), s)
<1> DEFINE st == Head(scr)  k == st.on  e == Effect(d, st)  new == st.with
           D == d[k].labels  L == s[k].labels  E == e[k].labels  more == Tail(scr)
<1>1. /\ k \in DOMAIN d /\ k[1] = "enum" /\ new.label \in STRING
      /\ D \in Seq(STRING) /\ Injective(D)
      /\ \/ e = d
         \/ /\ ~HasLabel(D, new.label)
            /\ new.before = "end" \/ HasLabel(D, new.before)
            /\ DOMAIN e = DOMAIN d /\ \A o \in DOMAIN d : o # k => e[o] = d[o]
            /\ E = InsertLabel(D, new)
  BY LabelEffect
<1>2. /\ DOMAIN more = 1..(Len(scr) - 1) /\ Len(scr) \in Nat
      /\ \A i \in 1..(Len(scr) - 1) : more[i] = scr[i + 1] /\ i + 1 \in DOMAIN scr
      /\ 1 \in DOMAIN scr /\ st = scr[1]
  BY TailIs
<1>3. Pending(more, d, s)
  BY PendingTail
<1>4. k \in DOMAIN s /\ InOrder(D, L) /\ Fits(D, L, new)
  <2>1. Labels(scr[1]) /\ scr[1] = st
    BY <1>2
  <2> HIDE DEF st
  <2> QED
    BY <1>2, <2>1 DEF Pending
<1>5. \A i \in DOMAIN more : (Labels(more[i]) /\ more[i].on = k) => Before(L, new.label, more[i].with.label)
  <2> SUFFICES ASSUME NEW i \in DOMAIN more, Labels(more[i]), more[i].on = k
               PROVE  Before(L, new.label, more[i].with.label)
    OBVIOUS
  <2>1. Labels(scr[1]) /\ scr[1] = st
    BY <1>2
  <2> HIDE DEF st, more
  <2>2. more[i] = scr[i + 1] /\ i + 1 \in DOMAIN scr /\ 1 < i + 1
    BY <1>2
  <2>3. StmtsRise(scr, s)
    BY DEF Pending
  <2> QED
    BY <1>2, <2>1, <2>2, <2>3 DEF StmtsRise
<1>6. L \in Seq(STRING) /\ Injective(L)
  BY <1>1, <1>4 DEF Ranked
<1> HIDE DEF st, k, e, new, D, L, E, more
<1>7. CASE e = d
  BY <1>3, <1>7 DEF Placed, st, e, more
<1>8. CASE /\ ~HasLabel(D, new.label)
           /\ new.before = "end" \/ HasLabel(D, new.before)
           /\ DOMAIN e = DOMAIN d /\ \A o \in DOMAIN d : o # k => e[o] = d[o]
           /\ E = InsertLabel(D, new)
  <2>1. /\ E \in Seq(STRING) /\ Injective(E) /\ InOrder(E, L) /\ InOrder(D, E)
        /\ \A l : HasLabel(E, l) <=> l = new.label \/ HasLabel(D, l)
    BY <1>1, <1>4, <1>6, <1>8, InsertFits
  <2>2. IsSubsequence(D, E) /\ IsSubsequence(E, L)
    BY <1>1, <1>6, <2>1, InOrderSubsequence
  <2>3. Placed(d, e, s)
    BY <1>1, <1>8, <2>2 DEF Placed, D, E, L
  <2>4. ASSUME NEW i \in DOMAIN more, Labels(more[i])
        PROVE  LET o == more[i].on IN
               /\ o \in DOMAIN e /\ o \in DOMAIN s /\ o[1] = "enum"
               /\ InOrder(e[o].labels, s[o].labels) /\ Fits(e[o].labels, s[o].labels, more[i].with)
    <3> DEFINE o == more[i].on  late == more[i].with
    <3>1. /\ o \in DOMAIN d /\ o \in DOMAIN s /\ o[1] = "enum"
          /\ InOrder(d[o].labels, s[o].labels) /\ Fits(d[o].labels, s[o].labels, late)
      BY <1>3, <2>4 DEF Pending
    <3>2. o = k => Before(L, new.label, late.label)
      BY <1>5, <2>4
    <3> HIDE DEF o, late
    <3>3. CASE o # k
      <4>1. o \in DOMAIN e /\ e[o] = d[o]
        BY <1>8, <3>1, <3>3
      <4> QED
        BY <3>1, <4>1 DEF o, late
    <3>4. CASE o = k
      <4>1. Fits(D, L, late)
        BY <3>1, <3>4 DEF D, L
      <4>2. Fits(E, L, late)
        BY <2>1, <3>2, <3>4, <4>1, FitsStays
      <4> QED
        BY <1>8, <2>1, <3>1, <3>4, <4>2 DEF E, L, o, late
    <3> QED
      BY <3>3, <3>4
  <2>5. Pending(more, e, s)
    BY <1>3, <2>4 DEF Pending
  <2> QED
    BY <2>3, <2>5 DEF st, e, more
<1> QED
  BY <1>1, <1>7, <1>8

(* Before BEGIN a script adds labels and does nothing else. *)
LEMMA OnlyLabels ==
  ASSUME Inv, Execute, ~open
  PROVE  /\ IsSeq(script) /\ Len(script) > 0 /\ StmtOK(Head(script)) /\ Labels(Head(script))
         /\ Accepts(db, Head(script), case.flavor) /\ db' = Effect(db, Head(script))
<1>1. PICK t, all, ph :
        /\ Running(t, all, ph) /\ ph[1] \notin {1, 28}
        /\ Serves(Head(script), ph[1], Source, t, case.flavor, case.allow, all)
  BY NextServes
<1>2. Phased(script, ph, Source, t, case.flavor, case.allow, all)
  BY <1>1 DEF Running
<1>3. IsSeq(script) /\ Len(script) > 0 /\ 1 \in DOMAIN script
  BY <1>2, PhasedHead
<1>4. PICK i \in DOMAIN script : ph[i] = 1
  BY <1>1 DEF Running
<1>5. ph[1] = 0
  <2>1. i \in Nat /\ i >= 1
    BY <1>3, SeqDomain
  <2>2. i # 1
    BY <1>1, <1>4
  <2>3. 1 < i
    BY <2>1, <2>2
  <2>4. ph[1] <= ph[i] /\ ph[1] \in 0..28
    BY <1>2, <1>3, <2>3 DEF Phased
  <2> HIDE <1>4
  <2>5. ph[1] <= 1 /\ ph[1] \in 0..28 /\ ph[1] # 1
    BY <1>1, <1>4, <2>4
  <2> QED
    BY <2>5
<1>6. StmtOK(Head(script)) /\ Labels(Head(script))
  BY <1>1, <1>5 DEF Serves, Labels
<1> QED
  BY <1>3, <1>6 DEF Execute

LEMMA LabelStep ==
  ASSUME Inv, Execute, ~open, LabelInv
  PROVE  Pending(script', db', Source) /\ Placed(db, db', Source)
<1>1. /\ IsSeq(script) /\ Len(script) > 0 /\ StmtOK(Head(script)) /\ Labels(Head(script))
      /\ Accepts(db, Head(script), case.flavor) /\ db' = Effect(db, Head(script))
  BY OnlyLabels
<1>2. script' = Tail(script) /\ Pending(script, db, Source)
  BY DEF Execute, LabelInv
<1>3. IsDatabase(db) /\ Ranked(Source)
  BY SourceRanked DEF Inv, TypeOK, Source
<1>4. Pending(Tail(script), Effect(db, Head(script)), Source) /\ Placed(db, Effect(db, Head(script)), Source)
  BY <1>1, <1>2, <1>3, PendingNext
<1> QED
  BY <1>1, <1>2, <1>4

LEMMA LabelNext ==
  ASSUME Inv, LabelInv, [Next]_vars
  PROVE  LabelInv'
<1> SUFFICES ASSUME phase' = "run", ~open' PROVE Pending(script', db', Source')
  BY DEF LabelInv
<1>1. CASE Compared
  <2>1. /\ case' = case /\ db' = db /\ case \in Cases /\ IsDatabase(db)
        /\ Some(PlanFrom(db)) /\ script' = Emit(PlanFrom(db), case.flavor, case.allow)
    BY <1>1 DEF Compared, Some, Inv, TypeOK
  <2>2. Source' = Source
    BY <2>1 DEF Source
  <2>3. Pending(Emit(PlanFrom(db), case.flavor, case.allow), db, Source)
    BY <2>1, PendingAtFirst DEF PlanFrom, Source
  <2> QED
    BY <2>1, <2>2, <2>3
<1>2. CASE BeginTx
  BY <1>2 DEF BeginTx
<1>3. CASE Execute
  <2>1. ~open /\ case' = case
    BY <1>3 DEF Execute
  <2>2. Source' = Source
    BY <2>1 DEF Source
  <2> QED
    BY <1>3, <2>1, <2>2, LabelStep
<1>4. CASE CommitTx \/ Refuse \/ Lose
  BY <1>4 DEF CommitTx, Refuse, Lose
<1>5. CASE UNCHANGED vars
  BY <1>5 DEF vars, LabelInv, Source
<1> QED
  BY <1>1, <1>2, <1>3, <1>4, <1>5 DEF Next

(* AtomicButLabels: new labels are committed one by one before BEGIN, and    *)
(* whatever happens then, the enum has old and new ones in the order of the  *)
(* source, so that the next diff finds a subsequence again and not an enum   *)
(* that needs a rebuild.  Nothing else is left short of COMMIT.              *)
THEOREM OnlyLabelsPrecede == Spec => AtomicButLabels
<1> DEFINE Step ==
      (Durable' # Durable /\ applies' = applies) =>
        /\ DOMAIN Durable' = DOMAIN Durable
        /\ \A id \in DOMAIN Durable : Durable'[id] # Durable[id] =>
              /\ id[1] = "enum"
              /\ IsSubsequence(Durable[id].labels, Durable'[id].labels)
              /\ IsSubsequence(Durable'[id].labels, Source[id].labels)
<1>1. Init => LabelInv
  BY DEF Init, LabelInv
<1>2. Inv /\ LabelInv /\ [Next]_vars => LabelInv'
  BY LabelNext
<1>3. ASSUME Inv, LabelInv, [Next]_vars PROVE Step
  <2>1. CASE Durable' = Durable
    BY <2>1
  <2>2. CASE Execute /\ ~open /\ Durable = db /\ Durable' = db'
    <3>1. Placed(db, db', Source)
      BY <1>3, <2>2, LabelStep
    <3> QED
      BY <2>2, <3>1 DEF Placed
  <2>3. CASE CommitTx /\ open /\ Durable = saved /\ Durable' = db
    <3>1. applies \in Nat /\ applies' = applies + 1
      BY <1>3, <2>3, BoundsAssumption DEF CommitTx, Inv, TypeOK
    <3> QED
      BY <3>1
  <2> QED
    BY <1>3, <2>1, <2>2, <2>3, Durability
<1>4. Inv /\ LabelInv /\ [Next]_vars => [Step]_vars
  BY <1>3
<1> QED
  BY <1>1, <1>2, <1>4, Invariance, PTL DEF Spec, AtomicButLabels

-----------------------------------------------------------------------------
(***************************************************************************)
(* What is kept without --allow-destructive.                               *)
(***************************************************************************)
(* No table has the name of a view. *)
Apart(d) ==
  \A v, r \in DOMAIN d : v[1] = "view" /\ r[1] = "table" => ~SameRelation(v, r)

LEMMA NameFree ==
  ASSUME NEW d, IsDatabase(d), NEW st, NEW fl, StmtOK(st), Accepts(d, st, fl),
         NEW o \in DOMAIN Effect(d, st), o \notin DOMAIN d, o[1] \in {"table", "view"},
         NEW x \in DOMAIN d, x[1] \in {"table", "view"}
  PROVE  ~SameRelation(o, x)
<1> DEFINE e == Effect(d, st)
<1>1. Touched(o, d, e, st) /\ IsDatabase(e)
  BY EffectTouches, EffectKeeps DEF AllTouched
<1>2. Made(o, d, e, st)
  <2> HIDE DEF e
  <2>1. o[1] # "routine" /\ o[1] # "column"
    OBVIOUS
  <2> QED
    BY ZenonT(60), <1>1, <2>1 DEF Touched, Tight, Gone, AlteredAs
<1>3. st.do \in Makes /\ o \in DOMAIN st.with
  BY <1>2 DEF Made
<1>4. Together(st.on, st.with)
  BY <1>3 DEF StmtOK, Makes, IdentityDos
<1>5. o = st.on
  BY <1>3, <1>4 DEF Together
<1>6. CanCreate(d, o, st.with)
  BY <1>3, <1>5 DEF Accepts, Makes
<1>7. ~NameTaken(d, o, Created(d, st.with)[o])
  BY <1>3, <1>6 DEF CanCreate
<1>8. o \in Identifiers /\ x \in Identifiers
  <2>1. DOMAIN e \subseteq Identifiers /\ DOMAIN d \subseteq Identifiers
    BY <1>1 DEF IsDatabase
  <2> QED
    BY <2>1
<1>9. Len(o) = 3 /\ Len(x) = 3
  BY <1>8, IdShape DEF Things
<1>10. RelationName(x) # RelationName(o)
  <2>1. IsRelation(o, Created(d, st.with)[o]) /\ IsRelation(x, d[x])
    BY DEF IsRelation
  <2>2. Len(x) > 2
    BY <1>9
  <2> QED
    BY ZenonT(60), <1>7, <2>1, <2>2 DEF NameTaken
<1> QED
  BY <1>9, <1>10 DEF RelationName, SameRelation

LEMMA ApartKeeps ==
  ASSUME NEW d, IsDatabase(d), NEW st, NEW fl, StmtOK(st), Accepts(d, st, fl), Apart(d)
  PROVE  Apart(Effect(d, st))
<1> DEFINE e == Effect(d, st)
<1> SUFFICES ASSUME NEW v \in DOMAIN e, NEW r \in DOMAIN e, v[1] = "view", r[1] = "table",
                    SameRelation(v, r)
             PROVE  FALSE
  BY DEF Apart
<1>1. SameRelation(r, v)
  BY DEF SameRelation
<1>2. CASE v \in DOMAIN d /\ r \in DOMAIN d
  BY <1>2 DEF Apart
<1>3. CASE v \notin DOMAIN d /\ r \in DOMAIN d
  BY <1>3, NameFree
<1>4. CASE v \in DOMAIN d /\ r \notin DOMAIN d
  BY <1>1, <1>4, NameFree
<1>5. CASE v \notin DOMAIN d /\ r \notin DOMAIN d
  <2>1. AllTouched(d, e, st)
    BY EffectTouches
  <2>2. Touched(v, d, e, st) /\ Touched(r, d, e, st)
    BY <2>1 DEF AllTouched
  <2> HIDE DEF e
  <2>3. Made(v, d, e, st) /\ Made(r, d, e, st)
    <3>1. /\ v[1] # "routine" /\ v[1] # "column" /\ v[1] # "sequence"
          /\ r[1] # "routine" /\ r[1] # "column" /\ r[1] # "sequence"
      OBVIOUS
    <3> QED
      BY ZenonT(60), <1>5, <2>2, <3>1 DEF Touched, Tight, Gone, AlteredAs
  <2>4. st.do \in Makes /\ v \in DOMAIN st.with /\ r \in DOMAIN st.with
    BY <2>3 DEF Made
  <2>5. Together(st.on, st.with)
    BY <2>4 DEF StmtOK, Makes, IdentityDos
  <2>6. v = st.on /\ r = st.on
    BY <2>4, <2>5 DEF Together
  <2> QED
    BY <2>6
<1> QED
  BY <1>2, <1>3, <1>4, <1>5

(* With a view go its parts and nothing else. *)
LEMMA ViewClosure ==
  ASSUME NEW d, IsDatabase(d), Apart(d), NEW v \in DOMAIN d, v[1] = "view",
         NEW o \in Closure(d, v), o # v
  PROVE  Len(o) = 4 /\ SameRelation(o, v)
<1>1. Owned(d, v) = PartsOf(d, v)
  BY DEF Owned
<1>2. \A p \in PartsOf(d, v) : p \in DOMAIN d /\ Len(p) = 4 /\ SameRelation(p, v)
  BY DEF PartsOf
<1>3. ASSUME NEW p \in PartsOf(d, v), NEW x \in Owned(d, p) PROVE FALSE
  <2>1. p \in DOMAIN d /\ p \in Identifiers /\ HasPlace(d, p) /\ Len(p) = 4 /\ SameRelation(p, v)
    BY <1>2, InDatabase
  <2>2. p[1] # "table" /\ p[1] # "view"
    BY <2>1, IdShape DEF Things
  <2>3. p[1] \in {"table", "view", "column"}
    BY <1>3, <2>1, OwnedIs
  <2>4. p[1] = "column"
    BY <2>2, <2>3
  <2>5. RelationOf(d, p) # {}
    BY <2>1 DEF HasPlace
  <2>6. PICK r : r \in DOMAIN d /\ r[1] = "table" /\ SameRelation(p, r)
    BY <2>4, <2>5 DEF RelationOf
  <2>7. SameRelation(v, r)
    BY <2>1, <2>6 DEF SameRelation
  <2> QED
    BY <2>6, <2>7 DEF Apart
<1>4. Owned(d, v) \subseteq PartsOf(d, v)
  BY <1>1
<1>5. o \in {v} \cup Owned(d, v) \/ \E x \in {v} \cup Owned(d, v) : o \in Owned(d, x)
  BY DEF Closure
<1>6. o \in PartsOf(d, v)
  BY <1>1, <1>3, <1>5
<1> QED
  BY <1>2, <1>6

(* What a script is still to create. *)
Promised(scr, k) ==
  k[1] \in Deparsed /\ \E i \in DOMAIN scr : scr[i].do = "create" /\ scr[i].on = k

LEMMA CreateMakes ==
  ASSUME NEW d, NEW st, NEW fl, StmtOK(st), st.do = "create"
  PROVE  st.on \in DOMAIN Effect(d, st)
<1>1. Together(st.on, st.with)
  BY DEF StmtOK, IdentityDos
<1>2. Effect(d, st) = Created(d, st.with)
  BY DEF Effect
<1> DEFINE group == st.with
<1>3. DOMAIN group \subseteq DOMAIN Created(d, group)
  <2>1. Together(st.on, group)
    BY <1>1
  <2> HIDE DEF group
  <2>2. DOMAIN Created(d, group) = DOMAIN d \cup DOMAIN group \cup DOMAIN NewSequences(group)
    BY ZenonT(60), <2>1, CreatedIs
  <2> QED
    BY <2>2
<1> QED
  BY <1>1, <1>2, <1>3 DEF Together

(* What is owed is rendered as a CREATE, whatever is allowed. *)
Renews(c, k, fl, allow) ==
  \E n \in (0..27) \ {1} : \E st \in ToSet(OfPhase(c, n, fl, allow)) :
    st.do = "create" /\ st.on = k

LEMMA OwedStatement ==
  ASSUME NEW op \in CreateOps, NEW k, NEW v, NEW fl, NEW allow
  PROVE  Renews(Change(op, k, v, FALSE), k, fl, allow)
<1> DEFINE c == Change(op, k, v, FALSE)  n == PhaseOf(c)
<1>1. c.op = op /\ c.on = k /\ c.to = v /\ c.replaced = FALSE
  BY DEF Change
<1> HIDE DEF c
<1>2. ~Gated(c, allow)
  BY <1>1 DEF Gated, Destructive, Manual, CreateOps
<1>3. /\ n \in 15..25 /\ n # NewTableFks /\ n # NewTableRls
      /\ \E st \in ToSet(Statements(c, fl)) : st.do = "create" /\ st.on = k
  <2>1. CASE op = "add_constraint"
    <3> DEFINE a == Stmt("create", k, One(k, v))  b == Stmt("validate", k, "none")
               p == ~FALSE /\ v.kind \in {"check", "foreign"}
    <3>1. n \in {15, 17} /\ Statements(c, fl) = AddConstraintSql(k, v, FALSE)
      BY <1>1, <2>1, AddPhases
    <3>2. AddConstraintSql(k, v, FALSE) = <<a>> \o When(p, b)
      BY DEF AddConstraintSql
    <3>3. p \in BOOLEAN /\ a.do = "create" /\ a.on = k
      BY DEF Stmt
    <3> HIDE DEF a, b, p
    <3>4. IsSeq(When(p, b)) /\ IsSeq(<<a>>) /\ ToSet(<<a>>) = {a}
      BY <3>3, WhenIs, Listed
    <3>5. ToSet(<<a>> \o When(p, b)) = ToSet(<<a>>) \cup ToSet(When(p, b))
      BY <3>4, Joined
    <3>6. a \in ToSet(Statements(c, fl))
      BY <3>1, <3>2, <3>4, <3>5
    <3>7. n \in 15..25 /\ n # NewTableFks /\ n # NewTableRls
      BY <3>1 DEF NewTableFks, NewTableRls
    <3> QED
      BY <3>3, <3>6, <3>7
  <2>2. CASE op # "add_constraint"
    <3> DEFINE w == IF op = "create_trigger" THEN One(k, [v EXCEPT !.mode = "origin"]) ELSE One(k, v)
               a == Stmt("create", k, w)
    <3>1. op \in {"create_trigger", "create_function", "create_policy", "create_view", "create_index"}
      BY <2>2 DEF CreateOps
    <3>2. n \in {16, 19, 20, 21, 22, 25} /\ Statements(c, fl) = <<a>>
      BY <1>1, <3>1, AddPhases, LatePhases DEF CreateSql
    <3>3. a.do = "create" /\ a.on = k
      BY DEF Stmt
    <3> HIDE DEF a
    <3>4. ToSet(<<a>>) = {a}
      BY Listed
    <3>5. n \in 15..25 /\ n # NewTableFks /\ n # NewTableRls
      BY <3>2 DEF NewTableFks, NewTableRls
    <3>6. a \in ToSet(Statements(c, fl))
      BY <3>2, <3>4
    <3> QED
      BY <3>3, <3>5, <3>6
  <2> QED
    BY <2>1, <2>2
<1> HIDE DEF n
<1>4. OfPhase(c, n, fl, allow) = Statements(c, fl)
  BY <1>2, <1>3 DEF OfPhase, Rendered, n
<1>5. n \in (0..27) \ {1}
  BY <1>3
<1> QED
  BY <1>3, <1>4, <1>5 DEF c, Renews

LEMMA PromisedAtFirst ==
  ASSUME NEW scr, NEW plan, NEW fl, NEW allow, AllOf(scr, plan, fl, allow),
         NEW s, NEW k \in DOMAIN s, k[1] \in Deparsed, Owes(k, s, ToSet(plan))
  PROVE  Promised(scr, k)
<1> DEFINE v == s[k]
<1>1. PICK op \in CreateOps : Change(op, k, v, FALSE) \in ToSet(plan)
  BY DEF Owes
<1> HIDE DEF v
<1> DEFINE c == Change(op, k, v, FALSE)
<1>2. Renews(c, k, fl, allow)
  BY OwedStatement
<1> HIDE DEF c
<1>3. PICK n \in (0..27) \ {1} : \E st \in ToSet(OfPhase(c, n, fl, allow)) :
        st.do = "create" /\ st.on = k
  BY <1>2 DEF Renews
<1>4. PICK st \in ToSet(OfPhase(c, n, fl, allow)) : st.do = "create" /\ st.on = k
  BY <1>3
<1>5. \E i \in DOMAIN scr : scr[i] = st
  BY <1>1, <1>4 DEF AllOf, c
<1> QED
  BY <1>4, <1>5 DEF Promised

LEMMA PromisedLater ==
  ASSUME NEW scr, IsSeq(scr), Len(scr) > 0, NEW k, Promised(scr, k),
         Head(scr).do = "create" => Head(scr).on # k
  PROVE  Promised(Tail(scr), k)
<1>1. PICK i \in DOMAIN scr : scr[i].do = "create" /\ scr[i].on = k
  BY DEF Promised
<1>2. /\ Len(scr) \in Nat /\ Head(scr) = scr[1] /\ DOMAIN Tail(scr) = 1..(Len(scr) - 1)
      /\ \A j \in 1..(Len(scr) - 1) : Tail(scr)[j] = scr[j + 1]
  BY TailIs
<1>3. DOMAIN scr = 1..Len(scr)
  BY SeqDomain
<1>4. i # 1
  BY <1>1, <1>2
<1>5. i - 1 \in 1..(Len(scr) - 1) /\ (i - 1) + 1 = i
  BY <1>2, <1>3, <1>4
<1>6. i - 1 \in DOMAIN Tail(scr) /\ Tail(scr)[i - 1] = scr[i]
  BY <1>2, <1>5
<1> QED
  BY <1>1, <1>6 DEF Promised

(* Nothing but enums has changed. *)
Stays(d0, b) == \A id \in DOMAIN d0 : id[1] # "enum" => id \in DOMAIN b /\ b[id] = d0[id]

(* No --allow-destructive. *)
NotAllowed == FALSE

(* Goes with a view that is replaced. *)
WithView(id, b, s) ==
  /\ Len(id) = 4
  /\ \E v \in DOMAIN b \cap DOMAIN s : v[1] = "view" /\ SameRelation(id, v) /\ b[v] # s[v]

(* A script that may destroy nothing, the database b of its BEGIN and the    *)
(* database d it has come to: t is what was read of d0, of which only enums  *)
(* had changed at BEGIN; while there are drops, what they owe is still to be *)
(* created; and whatever is protected and gone since BEGIN is still to come, *)
(* but for the parts of views that are replaced.                             *)
Held(scr, b, d, op, s, fl, d0, t, all, ph) ==
  /\ Phased(scr, ph, s, t, fl, NotAllowed, all)
  /\ op <=> \A i \in DOMAIN scr : ph[i] # 1
  /\ IsDatabase(d0) /\ t = Introspect(d0, fl)
  /\ Stays(d0, IF op THEN b ELSE d)
  /\ ph[1] <= 9 =>
       \A k \in DOMAIN s : k[1] \in Deparsed /\ Owes(k, s, all) => Promised(scr, k)
  /\ op =>
       /\ ph[1] > 1
       /\ \A id \in DOMAIN b : Protected(b, id) =>
            Survives(id, b, d) \/ WithView(id, b, s) \/ Promised(scr, id)
       /\ ph[1] <= 9 =>
            \A o \in DOMAIN b \cap DOMAIN d : o[1] = "constraint" => d[o] = b[o]

GateInv ==
  /\ Apart(db) /\ Apart(saved)
  /\ phase = "run" /\ ~case.allow =>
       \E d0, t, all, ph : Held(script, saved, db, open, Source, case.flavor, d0, t, all, ph)

LEMMA ReadBefore ==
  ASSUME NEW d0, IsDatabase(d0), NEW b, Stays(d0, b), NEW k, k[1] # "enum",
         NEW fl, NEW t, t = Introspect(d0, fl), k \in DOMAIN t
  PROVE  /\ k \in DOMAIN b
         /\ k[1] = "constraint" => t[k].kind = b[k].kind
         /\ k[1] = "index" => t[k].unique = b[k].unique
         /\ k[1] = "view" => t[k] = b[k]
<1>1. k \in DOMAIN d0 /\ t[k] = Reading(d0, k, fl)
  BY ReadShape
<1>2. k \in DOMAIN b /\ b[k] = d0[k] /\ IsValue(k, d0[k])
  BY <1>1, InDatabase DEF Stays
<1>3. k[1] = "constraint" => t[k].kind = b[k].kind
  BY <1>1, <1>2 DEF Reading, ReadConstraint
<1>4. k[1] = "index" => t[k].unique = b[k].unique
  BY <1>1, <1>2 DEF Reading, ReadIndex
<1>5. k[1] = "view" => t[k] = b[k]
  <2> SUFFICES ASSUME k[1] = "view" PROVE t[k] = b[k]
    OBVIOUS
  <2>1. t[k] = [mat |-> d0[k].mat, def |-> d0[k].def]
    BY <1>1 DEF Reading, ReadView
  <2>2. d0[k] = [mat |-> d0[k].mat, def |-> d0[k].def]
    BY <1>2 DEF IsValue
  <2> QED
    BY <1>2, <2>1, <2>2
<1> QED
  BY <1>2, <1>3, <1>4, <1>5

(* One statement inside the transaction: what it takes from the database b   *)
(* of BEGIN is not protected, goes with a view that is replaced, or is owed. *)
LEMMA KeptStep ==
  ASSUME NEW d0, IsDatabase(d0), NEW b, NEW d, IsDatabase(d), Apart(d),
         NEW fl, NEW t, t = Introspect(d0, fl), NEW s, NEW all, NEW n \in Nat, n > 1,
         NEW st, Serves(st, n, s, t, fl, NotAllowed, all), Accepts(d, st, fl),
         Stays(d0, b),
         n <= 9 => \A o \in DOMAIN b \cap DOMAIN d : o[1] = "constraint" => d[o] = b[o],
         NEW id \in DOMAIN b, Protected(b, id), Survives(id, b, d)
  PROVE  \/ Survives(id, b, Effect(d, st)) \/ WithView(id, b, s)
         \/ st.do \in Drops /\ n <= 9 /\ id \in DOMAIN s /\ id[1] \in Deparsed /\ Owes(id, s, all)
<1> DEFINE e == Effect(d, st)  k == st.on
<1>1. StmtOK(st) /\ st.do # "add_label"
  BY DEF Serves
<1>2. id \in DOMAIN d
  BY DEF Survives
<1>3. Touched(id, d, e, st)
  BY <1>1, <1>2, EffectTouches DEF AllTouched
<1> HIDE DEF e
<1>4. CASE id \in DOMAIN e /\ e[id] = d[id]
  <2>1. Survives(id, b, e)
    BY <1>4 DEF Survives
  <2> QED
    BY <2>1 DEF e
<1>5. CASE Tight(id, d, e, st) \/ AlteredAs(id, d, e, st)
  <2>1. id \in DOMAIN e /\ id[1] # "enum"
    BY <1>1, <1>5 DEF Tight, AlteredAs
  <2>2. id[1] \in {"table", "column", "sequence"} => e[id].kept = d[id].kept
    BY <1>5 DEF Tight, AlteredAs
  <2>3. Survives(id, b, e)
    BY <2>1, <2>2 DEF Survives
  <2> QED
    BY <2>3 DEF e
<1>6. CASE id[1] = "routine" /\ id \in DOMAIN e
  <2>1. Survives(id, b, e)
    BY <1>6 DEF Survives
  <2> QED
    BY <2>1 DEF e
<1>7. CASE Gone(id, d, e, st)
  <2>1. /\ st.do \in Drops /\ k \in DOMAIN d
        /\ \/ id = k
           \/ id \in Closure(d, k) /\ k[1] \in {"table", "view", "column"}
           \/ st.do = "drop_cascade" /\ id[1] = "constraint" /\ d[id].kind = "foreign"
    BY <1>7 DEF Gone
  <2>2. n <= 9 /\ DropOK(k, s, t, all)
    BY <2>1 DEF Serves, NotAllowed
  <2>3. k \in DOMAIN t /\ k[1] \in Deparsed /\ k[1] # "enum"
    BY <2>2 DEF DropOK, Deparsed
  <2>4. /\ k \in DOMAIN b
        /\ k[1] = "constraint" => t[k].kind = b[k].kind
        /\ k[1] = "index" => t[k].unique = b[k].unique
        /\ k[1] = "view" => t[k] = b[k]
    BY <2>3, ReadBefore
  <2> HIDE DEF k
  <2>5. CASE id = k
    <3>1. ~Spares(k, t)
      BY <2>4, <2>5 DEF Spares, Protected
    <3> QED
      BY <2>1, <2>2, <2>3, <2>5, <3>1 DEF DropOK, Owes
  <2>6. CASE id # k /\ id \in Closure(d, k) /\ k[1] \in {"table", "view", "column"}
    <3>1. k[1] = "view"
      BY <2>3, <2>6 DEF Deparsed
    <3>2. Len(id) = 4 /\ SameRelation(id, k)
      BY <2>1, <2>6, <3>1, ViewClosure
    <3>3. k \in DOMAIN s /\ b[k] # s[k]
      BY <2>2, <2>4, <3>1 DEF DropOK
    <3> QED
      BY <2>4, <3>1, <3>2, <3>3 DEF WithView
  <2>7. CASE id[1] = "constraint" /\ d[id].kind = "foreign"
    <3>1. d[id] = b[id]
      BY <1>2, <2>2, <2>7
    <3> QED
      BY <2>7, <3>1 DEF Protected
  <2> QED
    BY <2>1, <2>5, <2>6, <2>7
<1>8. ~Made(id, d, e, st)
  BY <1>2 DEF Made
<1> QED
  BY <1>3, <1>4, <1>5, <1>6, <1>7, <1>8 DEF Touched

(* Constraints stay as they are until all drops are done. *)
LEMMA ConstraintStep ==
  ASSUME NEW d, IsDatabase(d), NEW fl, NEW s, NEW t, NEW all, NEW allow, NEW n \in Nat, n <= 9,
         NEW st, Serves(st, n, s, t, fl, allow, all), Accepts(d, st, fl),
         NEW o \in DOMAIN Effect(d, st), o[1] = "constraint"
  PROVE  o \in DOMAIN d /\ Effect(d, st)[o] = d[o]
<1> DEFINE e == Effect(d, st)
<1>1. StmtOK(st)
  BY DEF Serves
<1>2. Touched(o, d, e, st)
  BY <1>1, EffectTouches DEF AllTouched
<1> HIDE DEF e
<1>3. ~Made(o, d, e, st)
  <2> SUFFICES ASSUME Made(o, d, e, st) PROVE FALSE
    OBVIOUS
  <2>1. st.do \in Makes /\ o \in DOMAIN st.with
    BY DEF Made
  <2>2. Together(st.on, st.with)
    BY <1>1, <2>1 DEF StmtOK, Makes, IdentityDos
  <2>3. o = st.on \/ st.on[1] = "table"
    BY <2>1, <2>2 DEF Together
  <2>4. ~(st.on[1] \in Deparsed \cup {"table"})
    BY <2>1 DEF Serves
  <2> QED
    BY <2>3, <2>4 DEF Deparsed
<1>4. ~Tight(o, d, e, st) /\ ~AlteredAs(o, d, e, st)
  BY DEF Tight, AlteredAs
<1>5. ~Gone(o, d, e, st)
  BY DEF Gone, e
<1>6. o \in DOMAIN d /\ e[o] = d[o]
  BY <1>2, <1>3, <1>4, <1>5 DEF Touched
<1> QED
  BY <1>6 DEF e

LEMMA HeldAtFirst ==
  ASSUME NEW c \in Cases, ~c.allow, NEW d, IsDatabase(d), NEW b,
         Some(Diff(Introspect(c.source, c.flavor), Introspect(d, c.flavor), c.flavor))
  PROVE  LET s == Introspect(c.source, c.flavor)
             p == Diff(s, Introspect(d, c.flavor), c.flavor)
         IN  \E d0, t, all, ph :
               Held(Emit(p, c.flavor, c.allow), b, d, FALSE, s, c.flavor, d0, t, all, ph)
<1> DEFINE fl == c.flavor
           s == Introspect(c.source, fl)
           t == Introspect(d, fl)
           p == Diff(s, t, fl)
           scr == Emit(p, fl, c.allow)
<1>1. /\ AllOf(scr, p, fl, c.allow)
      /\ \E ph : /\ Phased(scr, ph, s, t, fl, c.allow, ToSet(p))
                 /\ LabelsFirst(scr, ph, InPhase(p, 0, fl, c.allow))
  BY ScriptServes
<1>2. c.allow = FALSE
  BY CaseIs
<1> HIDE DEF s, p, scr, fl
<1>3. PICK ph : /\ Phased(scr, ph, s, t, fl, c.allow, ToSet(p))
                /\ LabelsFirst(scr, ph, InPhase(p, 0, fl, c.allow))
  BY <1>1
<1>4. Phased(scr, ph, s, t, fl, NotAllowed, ToSet(p)) /\ \E i \in DOMAIN scr : ph[i] = 1
  BY <1>2, <1>3 DEF LabelsFirst, NotAllowed
<1>5. \A k \in DOMAIN s : k[1] \in Deparsed /\ Owes(k, s, ToSet(p)) => Promised(scr, k)
  BY <1>1, PromisedAtFirst
<1>6. Stays(d, d)
  BY DEF Stays
<1>7. Held(scr, b, d, FALSE, s, fl, d, t, ToSet(p), ph)
  BY <1>4, <1>5, <1>6 DEF Held
<1>8. \E d0, tt, all, pp : Held(scr, b, d, FALSE, s, fl, d0, tt, all, pp)
  BY <1>7
<1> QED
  BY <1>8 DEF s, p, scr, fl, t

LEMMA SurvivesSame ==
  ASSUME NEW d, NEW id \in DOMAIN d, Protected(d, id)
  PROVE  Survives(id, d, d)
<1>1. id[1] \in {"table", "column", "sequence"} => d[id].kept
  BY DEF Protected
<1>2. \A i \in DOMAIN d[id].labels : HasLabel(d[id].labels, d[id].labels[i])
  BY DEF HasLabel
<1> QED
  BY <1>1, <1>2 DEF Survives

LEMMA HeldBegin ==
  ASSUME NEW scr, Head(scr).do = "begin", NEW b, NEW d, NEW op \in BOOLEAN, NEW s, NEW fl,
         NEW d0, NEW t, NEW all, NEW ph, Held(scr, b, d, op, s, fl, d0, t, all, ph)
  PROVE  Held(Tail(scr), d, d, TRUE, s, fl, d0, t, all, Shift(ph, Len(scr) - 1))
<1> DEFINE n == Len(scr) - 1  sh == Shift(ph, n)  more == Tail(scr)
<1>1. Phased(scr, ph, s, t, fl, NotAllowed, all)
  BY DEF Held
<1>2. /\ IsSeq(scr) /\ Len(scr) > 0 /\ Len(scr) \in Nat /\ 1 \in DOMAIN scr
      /\ ph[1] = 1 /\ Len(scr) > 1
  <2>1. /\ IsSeq(scr) /\ Len(scr) > 0 /\ Len(scr) \in Nat /\ 1 \in DOMAIN scr /\ Head(scr) = scr[1]
        /\ (scr[1].do = "begin" <=> ph[1] = 1) /\ (ph[1] # 28 => Len(scr) > 1)
    BY <1>1, PhasedHead
  <2> QED
    BY <2>1
<1>3. ~op /\ ph[1] <= 9
  BY <1>2 DEF Held
<1>4. /\ Phased(more, sh, s, t, fl, NotAllowed, all)
      /\ n \in Nat /\ DOMAIN more = 1..n
      /\ \A i \in 1..n : sh[i] = ph[i + 1] /\ i + 1 \in DOMAIN scr /\ ph[1] <= ph[i + 1]
  <2>1. ph[1] # 28
    BY <1>2
  <2> QED
    BY <1>1, <2>1, PhasedTail
<1>5. \A i \in 1..n : sh[i] # 1
  <2> SUFFICES ASSUME NEW i \in 1..n PROVE sh[i] # 1
    OBVIOUS
  <2>1. i + 1 \in DOMAIN scr /\ sh[i] = ph[i + 1] /\ i + 1 # 1
    BY <1>4
  <2> HIDE DEF sh
  <2> QED
    BY <1>1, <1>2, <2>1 DEF Phased
<1>6. sh[1] > 1
  <2>1. 1 \in 1..n
    BY <1>2
  <2>2. sh[1] # 1 /\ sh[1] = ph[2] /\ 1 <= ph[2] /\ 2 \in DOMAIN scr
    BY <1>2, <1>4, <1>5, <2>1
  <2>3. ph[2] \in 0..28
    BY <1>1, <2>2 DEF Phased
  <2> HIDE DEF sh
  <2> QED
    BY <2>2, <2>3
<1> HIDE DEF n, sh, more
<1>7. \A k \in DOMAIN s : k[1] \in Deparsed /\ Owes(k, s, all) => Promised(more, k)
  <2> SUFFICES ASSUME NEW k \in DOMAIN s, k[1] \in Deparsed, Owes(k, s, all) PROVE Promised(more, k)
    OBVIOUS
  <2>1. Promised(scr, k)
    BY <1>3 DEF Held
  <2> QED
    BY <1>2, <2>1, PromisedLater DEF more
<1>8. IsDatabase(d0) /\ t = Introspect(d0, fl) /\ Stays(d0, d)
  BY <1>3 DEF Held
<1>9. \A id \in DOMAIN d : Protected(d, id) => Survives(id, d, d)
  BY SurvivesSame
<1>10. Held(more, d, d, TRUE, s, fl, d0, t, all, sh)
  BY <1>4, <1>5, <1>6, <1>7, <1>8, <1>9 DEF Held
<1> QED
  BY <1>10 DEF more, sh, n

LEMMA HeldExecute ==
  ASSUME NEW scr, Head(scr).do \notin {"begin", "commit"}, NEW b, NEW d, IsDatabase(d), Apart(d),
         NEW op \in BOOLEAN, NEW s, NEW fl, NEW d0, NEW t, NEW all, NEW ph,
         Held(scr, b, d, op, s, fl, d0, t, all, ph), Accepts(d, Head(scr), fl),
         ~op => \A id \in DOMAIN d : id[1] # "enum" =>
                   id \in DOMAIN Effect(d, Head(scr)) /\ Effect(d, Head(scr))[id] = d[id]
  PROVE  Held(Tail(scr), b, Effect(d, Head(scr)), op, s, fl, d0, t, all, Shift(ph, Len(scr) - 1))
<1> DEFINE n == Len(scr) - 1  sh == Shift(ph, n)  more == Tail(scr)
           st == Head(scr)  e == Effect(d, st)
<1>1. Phased(scr, ph, s, t, fl, NotAllowed, all)
  BY DEF Held
<1>2. /\ IsSeq(scr) /\ Len(scr) > 0 /\ Len(scr) \in Nat /\ 1 \in DOMAIN scr /\ st = scr[1]
      /\ ph[1] \in 0..28 /\ ph[1] # 1 /\ ph[1] # 28 /\ Len(scr) > 1
      /\ Serves(st, ph[1], s, t, fl, NotAllowed, all) /\ StmtOK(st)
  <2>1. /\ IsSeq(scr) /\ Len(scr) > 0 /\ Len(scr) \in Nat /\ 1 \in DOMAIN scr /\ Head(scr) = scr[1]
        /\ (scr[1].do = "begin" <=> ph[1] = 1) /\ (scr[1].do = "commit" <=> ph[1] = 28)
        /\ (ph[1] # 28 => Len(scr) > 1) /\ ph[1] \in 0..28
        /\ (ph[1] \notin {1, 28} =>
              Serves(scr[1], ph[1], s, t, fl, NotAllowed, all) /\ StmtOK(scr[1]))
    BY <1>1, PhasedHead
  <2> QED
    BY <2>1
<1>3. /\ Phased(more, sh, s, t, fl, NotAllowed, all)
      /\ n \in Nat /\ DOMAIN more = 1..n
      /\ \A i \in 1..n : sh[i] = ph[i + 1] /\ i + 1 \in DOMAIN scr /\ ph[1] <= ph[i + 1]
  BY <1>1, <1>2, PhasedTail
<1>4. ph[1] <= sh[1] /\ sh[1] \in 0..28
  <2>1. 1 \in 1..n
    BY <1>2
  <2>2. sh[1] = ph[2] /\ ph[1] <= ph[2] /\ 2 \in DOMAIN scr
    BY <1>3, <2>1
  <2>3. ph[2] \in 0..28
    BY <1>1, <2>2 DEF Phased
  <2> HIDE DEF sh
  <2> QED
    BY <2>2, <2>3
<1>40. ph[1] \in 0..28
  BY <1>2
<1>41. ph[1] \in Nat /\ (sh[1] <= 9 => ph[1] <= 9)
  <2> HIDE DEF sh
  <2> QED
    BY <1>4, <1>40
<1>5. DOMAIN scr = 1..(n + 1)
  <2>1. DOMAIN scr = 1..Len(scr)
    BY <1>2, SeqDomain
  <2> QED
    BY <1>2, <2>1
<1> HIDE DEF n, sh, more, st, e
<1>6. op <=> \A i \in DOMAIN more : sh[i] # 1
  <2>1. op <=> \A i \in DOMAIN scr : ph[i] # 1
    BY DEF Held
  <2>2. ASSUME NEW i \in DOMAIN scr, ph[i] = 1 PROVE \E j \in 1..n : sh[j] = 1
    <3>1. i # 1 /\ i \in 1..(n + 1)
      BY <1>2, <1>5, <2>2
    <3>2. i - 1 \in 1..n /\ i - 1 + 1 = i
      BY <1>3, <3>1
    <3> QED
      BY <1>3, <2>2, <3>2
  <2> QED
    BY <1>3, <2>1, <2>2
<1>7. IsDatabase(d0) /\ t = Introspect(d0, fl) /\ Stays(d0, IF op THEN b ELSE d)
  BY DEF Held
<1>8. Stays(d0, IF op THEN b ELSE e)
  <2>1. CASE op
    BY <1>7, <2>1
  <2>2. CASE ~op
    <3>1. \A id \in DOMAIN d : id[1] # "enum" => id \in DOMAIN e /\ e[id] = d[id]
      BY <2>2 DEF e, st
    <3> QED
      BY <1>7, <2>2, <3>1 DEF Stays
  <2> QED
    BY <2>1, <2>2
<1>9. sh[1] <= 9 =>
        \A k \in DOMAIN s : k[1] \in Deparsed /\ Owes(k, s, all) => Promised(more, k)
  <2> SUFFICES ASSUME sh[1] <= 9, NEW k \in DOMAIN s, k[1] \in Deparsed, Owes(k, s, all)
               PROVE  Promised(more, k)
    OBVIOUS
  <2>1. ph[1] <= 9
    BY <1>41
  <2>2. Promised(scr, k)
    BY <2>1 DEF Held
  <2>3. st.do = "create" => st.on # k
    <3> SUFFICES ASSUME st.do = "create", st.on = k PROVE FALSE
      OBVIOUS
    <3>1. ph[1] > 9
      BY <1>2 DEF Serves, Makes
    <3> QED
      BY <1>41, <2>1, <3>1
  <2> QED
    BY <1>2, <2>2, <2>3, PromisedLater DEF more, st
<1>10. ASSUME op
       PROVE  /\ sh[1] > 1
              /\ \A id \in DOMAIN b : Protected(b, id) =>
                   Survives(id, b, e) \/ WithView(id, b, s) \/ Promised(more, id)
              /\ sh[1] <= 9 =>
                   \A o \in DOMAIN b \cap DOMAIN e : o[1] = "constraint" => e[o] = b[o]
  <2>0. ph[1] > 1
    BY <1>10 DEF Held
  <2>1. ph[1] > 1 /\ ph[1] \in Nat
    BY <1>41, <2>0
  <2>2. sh[1] > 1
    BY <1>4, <2>1
  <2>3. ph[1] <= 9 => \A o \in DOMAIN b \cap DOMAIN d : o[1] = "constraint" => d[o] = b[o]
    BY <1>10 DEF Held
  <2>4. ASSUME NEW id \in DOMAIN b, Protected(b, id)
        PROVE  Survives(id, b, e) \/ WithView(id, b, s) \/ Promised(more, id)
    <3>1. Survives(id, b, d) \/ WithView(id, b, s) \/ Promised(scr, id)
      BY <1>10, <2>4 DEF Held
    <3>2. CASE Survives(id, b, d)
      <4>1. Stays(d0, b)
        BY <1>7, <1>10
      <4>2. Accepts(d, st, fl)
        BY DEF st
      <4>3. \/ Survives(id, b, e) \/ WithView(id, b, s)
            \/ /\ st.do \in Drops /\ ph[1] <= 9 /\ id \in DOMAIN s /\ id[1] \in Deparsed
               /\ Owes(id, s, all)
        BY <1>2, <1>7, <2>1, <2>3, <2>4, <3>2, <4>1, <4>2, KeptStep DEF e
      <4>4. ASSUME st.do \in Drops, ph[1] <= 9, id \in DOMAIN s, id[1] \in Deparsed, Owes(id, s, all)
            PROVE  Promised(more, id)
        <5>1. Promised(scr, id)
          BY <4>4 DEF Held
        <5>2. st.do # "create"
          BY <4>4 DEF Drops
        <5> QED
          BY <1>2, <5>1, <5>2, PromisedLater DEF more, st
      <4> QED
        BY <4>3, <4>4
    <3>3. CASE Promised(scr, id) /\ (st.do = "create" => st.on # id)
      BY <1>2, <3>3, PromisedLater DEF more, st
    <3>4. CASE Promised(scr, id) /\ st.do = "create" /\ st.on = id
      <4>1. id \in DOMAIN e
        BY <1>2, <3>4, CreateMakes DEF e
      <4>2. id[1] \in Deparsed
        BY <3>4 DEF Promised
      <4> QED
        BY <4>1, <4>2 DEF Survives, Deparsed
    <3> QED
      BY <3>1, <3>2, <3>3, <3>4
  <2>5. ASSUME sh[1] <= 9, NEW o \in DOMAIN b \cap DOMAIN e, o[1] = "constraint"
        PROVE  e[o] = b[o]
    <3>1. ph[1] <= 9 /\ ph[1] \in Nat
      BY <1>41, <2>5
    <3>2. Accepts(d, st, fl) /\ Serves(st, ph[1], s, t, fl, NotAllowed, all)
      BY <1>2 DEF st
    <3>3. o \in DOMAIN Effect(d, st) /\ o \in DOMAIN b
      BY DEF e
    <3>4. o \in DOMAIN d /\ Effect(d, st)[o] = d[o]
      BY <2>5, <3>1, <3>2, <3>3, ConstraintStep
    <3> QED
      BY <2>3, <2>5, <3>1, <3>3, <3>4 DEF e
  <2> QED
    BY <2>2, <2>4, <2>5
<1>11. Held(more, b, e, op, s, fl, d0, t, all, sh)
  BY <1>3, <1>6, <1>7, <1>8, <1>9, <1>10 DEF Held
<1> QED
  BY <1>11 DEF more, e, sh, n, st

LEMMA ApartNext ==
  ASSUME Inv, GateInv, [Next]_vars
  PROVE  Apart(db') /\ Apart(saved')
<1>1. Apart(db) /\ Apart(saved)
  BY DEF GateInv
<1>2. CASE Execute
  <2>1. PICK t, all, ph : Serves(Head(script), ph[1], Source, t, case.flavor, case.allow, all)
    BY <1>2, NextServes
  <2>2. StmtOK(Head(script)) /\ IsDatabase(db)
    BY <2>1 DEF Serves, Inv, TypeOK
  <2>3. /\ Accepts(db, Head(script), case.flavor) /\ db' = Effect(db, Head(script))
        /\ saved' = saved
    BY <1>2 DEF Execute
  <2>4. Apart(Effect(db, Head(script)))
    BY <1>1, <2>2, <2>3, ApartKeeps
  <2> QED
    BY <1>1, <2>3, <2>4
<1>3. CASE Compared \/ BeginTx \/ CommitTx \/ Refuse \/ Lose \/ UNCHANGED vars
  <2>1. db' \in {db, saved} /\ saved' \in {db, saved}
    BY <1>3 DEF Compared, BeginTx, CommitTx, Refuse, Lose, Durable, vars
  <2> QED
    BY <1>1, <2>1
<1> QED
  BY <1>2, <1>3 DEF Next

(* Before BEGIN nothing but enums changes. *)
LEMMA LabelsOnly ==
  ASSUME Inv, LabelInv, Execute, ~open
  PROVE  \A id \in DOMAIN db : id[1] # "enum" => id \in DOMAIN db' /\ db'[id] = db[id]
<1>1. Placed(db, db', Source)
  BY LabelStep
<1> QED
  BY <1>1 DEF Placed

LEMMA GateNext ==
  ASSUME Inv, LabelInv, GateInv, [Next]_vars
  PROVE  GateInv'
<1>1. Apart(db') /\ Apart(saved')
  BY ApartNext
<1>2. ASSUME phase' = "run", ~case'.allow
      PROVE  \E d0, t, all, ph :
               Held(script', saved', db', open', Source', case'.flavor, d0, t, all, ph)
  <2>1. case' = case
    BY DEF Next, Compared, BeginTx, Execute, CommitTx, Refuse, Lose, vars
  <2>2. Source' = Source /\ case'.flavor = case.flavor /\ ~case.allow
    BY <1>2, <2>1 DEF Source
  <2>3. IsDatabase(db) /\ open \in BOOLEAN /\ case \in Cases
    BY DEF Inv, TypeOK
  <2>4. CASE Compared
    <3>1. /\ Some(PlanFrom(db)) /\ open = FALSE /\ open' = open /\ db' = db /\ saved' = saved
          /\ script' = Emit(PlanFrom(db), case.flavor, case.allow)
      BY <1>2, <2>4 DEF Compared, Some, Inv, TypeOK
    <3>2. \E d0, t, all, ph :
            Held(Emit(PlanFrom(db), case.flavor, case.allow), saved, db, FALSE, Source,
                 case.flavor, d0, t, all, ph)
      BY <2>2, <2>3, <3>1, HeldAtFirst DEF PlanFrom, Source
    <3> QED
      BY <2>2, <3>1, <3>2
  <2>5. CASE phase = "run"
    <3>1. PICK d0, t, all, ph :
            Held(script, saved, db, open, Source, case.flavor, d0, t, all, ph)
      BY <2>2, <2>5 DEF GateInv
    <3> DEFINE sh == Shift(ph, Len(script) - 1)
    <3>2. CASE BeginTx
      <4>1. /\ Head(script).do = "begin" /\ open' = TRUE /\ saved' = db /\ db' = db
            /\ script' = Tail(script)
        BY <3>2 DEF BeginTx
      <4>2. Held(Tail(script), db, db, TRUE, Source, case.flavor, d0, t, all, sh)
        BY <2>3, <3>1, <4>1, HeldBegin
      <4> HIDE DEF sh
      <4> QED
        BY <2>2, <4>1, <4>2
    <3>3. CASE Execute
      <4>1. /\ Head(script).do \notin {"begin", "commit"}
            /\ Accepts(db, Head(script), case.flavor) /\ db' = Effect(db, Head(script))
            /\ script' = Tail(script) /\ saved' = saved /\ open' = open
        BY <3>3 DEF Execute
      <4>2. ~open => \A id \in DOMAIN db : id[1] # "enum" => id \in DOMAIN db' /\ db'[id] = db[id]
        BY <3>3, LabelsOnly
      <4>3. ~open => \A id \in DOMAIN db : id[1] # "enum" =>
              /\ id \in DOMAIN Effect(db, Head(script)) /\ Effect(db, Head(script))[id] = db[id]
        BY <4>1, <4>2
      <4>4. Apart(db)
        BY DEF GateInv
      <4>5. Held(Tail(script), saved, Effect(db, Head(script)), open, Source, case.flavor,
                 d0, t, all, sh)
        BY <2>3, <3>1, <4>1, <4>3, <4>4, HeldExecute
      <4> HIDE DEF sh
      <4> QED
        BY <2>2, <4>1, <4>5
    <3>4. CASE UNCHANGED vars
      <4>1. script' = script /\ saved' = saved /\ db' = db /\ open' = open
        BY <3>4 DEF vars
      <4> QED
        BY <2>2, <3>1, <4>1
    <3>5. ~CommitTx /\ ~Refuse /\ ~Lose /\ ~Compared
      BY <1>2, <2>5 DEF CommitTx, Refuse, Lose, Compared
    <3> QED
      BY <3>2, <3>3, <3>4, <3>5 DEF Next
  <2>6. phase = "run" \/ Compared
    BY <1>2 DEF Next, Compared, BeginTx, Execute, CommitTx, Refuse, Lose, vars
  <2> QED
    BY <2>4, <2>5, <2>6
<1>3. Apart(db)' /\ Apart(saved)'
  BY <1>1
<1> QED
  BY <1>2, <1>3 DEF GateInv

(* GatedKeeps: the diff answers a changed constraint, index, policy, view,    *)
(* routine or trigger with a drop that no gate withholds, because a CREATE of *)
(* the same plan makes up for it.  The promise is kept: once a drop of this   *)
(* kind has run, COMMIT is reached only past the CREATE, so that nothing      *)
(* protected is ever missing from what is durable, whatever else becomes of   *)
(* the script; and no drop takes along more than the parts of its view.       *)
THEOREM GateHolds == Spec => GatedKeeps
<1> DEFINE Step ==
      ~case.allow =>
        \A id \in DOMAIN Durable :
          Protected(Durable, id) =>
            Survives(id, Durable, Durable') \/ OfReplacedView(id, Durable)
<1>1. Init => LabelInv /\ GateInv
  <2> SUFFICES ASSUME Init PROVE LabelInv /\ GateInv
    OBVIOUS
  <2>1. phase = "compare" /\ db = case.target /\ saved = case.target /\ case \in Cases
    BY DEF Init
  <2>2. Apart(case.target)
    BY <2>1, CasesAssumption DEF Apart
  <2> QED
    BY <2>1, <2>2 DEF LabelInv, GateInv
<1>2. Inv /\ LabelInv /\ GateInv /\ [Next]_vars => LabelInv' /\ GateInv'
  BY LabelNext, GateNext
<1>3. ASSUME Inv, LabelInv, GateInv, [Next]_vars PROVE Step
  <2> SUFFICES ASSUME ~case.allow, NEW id \in DOMAIN Durable, Protected(Durable, id)
               PROVE  Survives(id, Durable, Durable') \/ OfReplacedView(id, Durable)
    OBVIOUS
  <2>1. CASE Durable' = Durable
    BY <2>1, SurvivesSame
  <2>2. CASE Execute /\ ~open /\ Durable = db /\ Durable' = db'
    <3>1. Placed(db, db', Source)
      BY <1>3, <2>2, LabelStep
    <3>2. Survives(id, db, db)
      BY <2>2, SurvivesSame
    <3>3. id \in DOMAIN db /\ id \in DOMAIN db'
      BY <2>2, <3>1 DEF Placed
    <3>4. CASE db'[id] = db[id]
      <4>1. Survives(id, db, db')
        BY <3>2, <3>3, <3>4 DEF Survives
      <4> QED
        BY <2>2, <4>1
    <3>5. CASE db'[id] # db[id]
      <4>1. id[1] = "enum" /\ IsSubsequence(db[id].labels, db'[id].labels)
        BY <3>1, <3>3, <3>5 DEF Placed
      <4>2. IsDatabase(db) /\ IsDatabase(db')
        BY <1>3, InvNext DEF Inv, TypeOK
      <4>3. db[id].labels \in Seq(STRING) /\ db'[id].labels \in Seq(STRING)
        BY <3>3, <4>1, <4>2, InDatabase DEF IsValue
      <4>4. InOrder(db[id].labels, db'[id].labels)
        BY <4>1, <4>3, SubsequenceInOrder
      <4>5. Survives(id, db, db')
        BY <3>3, <4>1, <4>4 DEF Survives, InOrder
      <4> QED
        BY <2>2, <4>5
    <3> QED
      BY <3>4, <3>5
  <2>3. CASE CommitTx /\ open /\ Durable = saved /\ Durable' = db
    <3>1. phase = "run" /\ Head(script).do = "commit"
      BY <2>3 DEF CommitTx
    <3>2. PICK d0, t, all, ph :
            Held(script, saved, db, open, Source, case.flavor, d0, t, all, ph)
      BY <1>3, <3>1 DEF GateInv
    <3>3. Phased(script, ph, Source, t, case.flavor, NotAllowed, all)
      BY <3>2 DEF Held
    <3>4. Head(script) = script[1] /\ DOMAIN script = {1}
      <4>1. /\ Head(script) = script[1] /\ (script[1].do = "commit" <=> ph[1] = 28)
            /\ (ph[1] = 28 => Len(script) = 1) /\ IsSeq(script)
        BY <3>3, PhasedHead
      <4>2. DOMAIN script = 1..1
        BY <3>1, <4>1, SeqDomain
      <4> QED
        BY <4>1, <4>2
    <3>5. ~Promised(script, id)
      BY <3>1, <3>4 DEF Promised
    <3>6. Survives(id, saved, db) \/ WithView(id, saved, Source)
      BY <2>3, <3>2, <3>5 DEF Held
    <3> QED
      BY <2>3, <3>6 DEF WithView, OfReplacedView
  <2> QED
    BY <1>3, <2>1, <2>2, <2>3, Durability
<1>4. Inv /\ LabelInv /\ GateInv /\ [Next]_vars => [Step]_vars
  BY <1>3
<1> QED
  BY <1>1, <1>2, <1>4, Invariance, PTL DEF Spec, GatedKeeps

-----------------------------------------------------------------------------
(***************************************************************************)
(* What the certificate calls compatible.                                  *)
(***************************************************************************)
Bare == {"schema", "enum", "sequence"}
Calm == {"notnull", "hidden", "rls", "forced", "mode"}

(* A statement that looks at its object and at the place of it. *)
Lone(st) ==
  /\ StmtOK(st) /\ st.on \in Identifiers
  /\ \/ st.do \in Makes /\ st.on[1] \in Bare /\ DOMAIN st.with = {st.on}
     \/ st.do = "drop" /\ st.on[1] \in Bare
     \/ st.do = "set" /\ st.with.facet \in Calm
     \/ st.do \in IdentityDos \cup {"clamp", "resize", "add_label"}

(* Neither is the other, nor the schema it is in. *)
Clear(x, y) ==
  x # y /\ (x[1] = "schema" => x[2] # y[2]) /\ (y[1] = "schema" => x[2] # y[2])

(* The same database but for one object, which depends on the same. *)
Beside(d, e, x) ==
  /\ IsDatabase(d) /\ IsDatabase(e)
  /\ \A o : o # x => /\ o \in DOMAIN d <=> o \in DOMAIN e
                     /\ o \in DOMAIN d => e[o] = d[o]
  /\ x \in Identifiers /\ x[1] \in Bare \cup {"column", "table", "trigger"}
  /\ x[1] \notin Bare =>
       /\ x \in DOMAIN d <=> x \in DOMAIN e
       /\ x \in DOMAIN d => UsesOf(x, e[x]) = UsesOf(x, d[x])

(* The relations of a schema have a name each. *)
Free(d, y) ==
  \A o \in DOMAIN d : ~(Len(o) > 2 /\ IsRelation(o, d[o]) /\ RelationName(o) = RelationName(y))

LEMMA BareCreated ==
  ASSUME NEW d, IsDatabase(d), NEW st, Lone(st), st.do \in Makes
  PROVE  LET y == st.on  e == Created(d, st.with) IN
         /\ y[1] \in Bare
         /\ CanCreate(d, y, st.with) <=>
              y \notin DOMAIN d /\ HasPlace(d, y) /\ (y[1] = "sequence" => Free(d, y))
         /\ DOMAIN e = DOMAIN d \cup {y} /\ e[y] = NewValue(y, st.with[y])
         /\ \A o \in DOMAIN d : o # y => e[o] = d[o]
<1> DEFINE y == st.on  group == st.with  e == Created(d, group)  new == NewSequences(group)
<1>1. y[1] \in Bare /\ DOMAIN group = {y} /\ y \in Identifiers
  BY DEF Lone, Makes, IdentityDos
<1>2. Together(y, group)
  BY DEF Lone, StmtOK, Makes, IdentityDos
<1>3. SerialsOf(group) = {} /\ KeyedUse(group) = {}
  BY <1>1 DEF SerialsOf, KeyedUse, Bare
<1>4. DOMAIN new = {}
  BY <1>2, <1>3, NewSequencesAre
<1> HIDE DEF group, y
<1>5. /\ e = [o \in DOMAIN e |-> e[o]]
      /\ DOMAIN e = DOMAIN d \cup DOMAIN group \cup DOMAIN new
      /\ \A o \in DOMAIN d \ (DOMAIN group \cup DOMAIN new) : e[o] = Tightened(o, d[o], group)
      /\ \A g \in DOMAIN group : e[g] = Tightened(g, NewValue(g, group[g]), group)
      /\ \A q \in DOMAIN new : e[q] = new[q]
  BY ZenonT(60), <1>2, CreatedIs
<1>6. \A o, v : Tightened(o, v, group) = v
  BY <1>3 DEF Tightened
<1> HIDE DEF e, new
<1>7. /\ DOMAIN e = DOMAIN d \cup {y} /\ e[y] = NewValue(y, group[y])
      /\ \A o \in DOMAIN d : o # y => e[o] = d[o]
  BY <1>1, <1>4, <1>5, <1>6
<1>8. HasPlace(e, y) <=> HasPlace(d, y)
  <2>1. y[1] \notin Pieces
    BY <1>1 DEF Bare, Pieces
  <2>2. CASE y[1] = "schema"
    BY <1>1, <2>1, <2>2, PlaceIs DEF Spaces
  <2>3. CASE y[1] # "schema"
    <3>1. y # <<"schema", y[2]>>
      <4>1. <<"schema", y[2]>>[1] = "schema"
        OBVIOUS
      <4> QED
        BY <2>3, <4>1
    <3>2. <<"schema", y[2]>> \in DOMAIN e <=> <<"schema", y[2]>> \in DOMAIN d
      BY <1>7, <3>1
    <3> QED
      BY <1>1, <2>1, <3>2, PlaceIs
  <2> QED
    BY <2>2, <2>3
<1>9. UsesOf(y, e[y]) = {}
  BY <1>1 DEF UsesOf, Bare, Deparsed
<1>10. NameTaken(d, y, e[y]) <=> y[1] = "sequence" /\ ~Free(d, y)
  <2>1. IsRelation(y, e[y]) <=> y[1] = "sequence"
    BY <1>1 DEF IsRelation, Bare
  <2> QED
    BY <2>1 DEF NameTaken, Free
<1>11. CanCreate(d, y, group) <=>
         /\ y \notin DOMAIN d
         /\ \A g \in {y} : /\ ~NameTaken(d, g, e[g]) /\ HasPlace(e, g)
                           /\ UsesOf(g, e[g]) \subseteq DOMAIN e /\ RefersToKeys(e, g)
  <2>1. DOMAIN group \cup DOMAIN new = {y} /\ y[1] # "constraint"
    BY <1>1, <1>4 DEF Bare
  <2> QED
    BY <2>1 DEF CanCreate, e, new
<1>12. RefersToKeys(e, y)
  BY <1>9 DEF RefersToKeys
<1> QED
  BY <1>1, <1>7, <1>8, <1>9, <1>10, <1>11, <1>12 DEF e, y, group

LEMMA BareDropped ==
  ASSUME NEW d, NEW y, y[1] \in Bare
  PROVE  /\ Closure(d, y) = {y}
         /\ Dependents(d, y) = {} <=>
              /\ \A o \in DOMAIN d : o # y => y \notin UsesOf(o, d[o])
              /\ Contents(d, y) = {}
<1>1. Owned(d, y) = {}
  BY DEF Owned, Bare
<1>2. Closure(d, y) = {y}
  BY <1>1 DEF Closure
<1> QED
  BY <1>2 DEF Dependents

(* What changes one object lets the others' places, names and keys be. *)
LEMMA BesideKeeps ==
  ASSUME NEW d, NEW e, NEW x, Beside(d, e, x), NEW y \in Identifiers, Clear(x, y)
  PROVE  /\ y \in DOMAIN d <=> y \in DOMAIN e
         /\ y \in DOMAIN d => e[y] = d[y]
         /\ y[1] \in Bare => (HasPlace(d, y) <=> HasPlace(e, y))
         /\ y[1] = "sequence" /\ Free(d, y) => Free(e, y)
         /\ InPrimaryKey(e, y) <=> InPrimaryKey(d, y)
<1>1. /\ y \in DOMAIN d <=> y \in DOMAIN e
      /\ y \in DOMAIN d => e[y] = d[y]
  BY DEF Beside, Clear
<1>2. ASSUME y[1] \in Bare PROVE HasPlace(d, y) <=> HasPlace(e, y)
  <2>1. y[1] \notin Pieces
    BY <1>2 DEF Bare, Pieces
  <2>2. <<"schema", y[2]>> # x
    <3>1. <<"schema", y[2]>>[1] = "schema" /\ <<"schema", y[2]>>[2] = y[2]
      OBVIOUS
    <3> QED
      BY <3>1 DEF Clear
  <2>3. <<"schema", y[2]>> \in DOMAIN d <=> <<"schema", y[2]>> \in DOMAIN e
    BY <2>2 DEF Beside
  <2> QED
    BY <2>1, <2>3, PlaceIs
<1>3. ASSUME y[1] = "sequence", Free(d, y), NEW o \in DOMAIN e, Len(o) > 2,
             IsRelation(o, e[o]), RelationName(o) = RelationName(y)
      PROVE  FALSE
  <2>1. CASE o # x
    <3>1. o \in DOMAIN d /\ e[o] = d[o]
      BY <2>1 DEF Beside
    <3> QED
      BY <1>3, <3>1 DEF Free
  <2>2. CASE o = x /\ x[1] = "sequence"
    <3>1. /\ Len(x) = 3 /\ x = <<x[1], x[2], x[3]>>
          /\ Len(y) = 3 /\ y = <<y[1], y[2], y[3]>>
      BY <1>3, <2>2, IdShape DEF Things, Beside
    <3>2. x[2] = y[2] /\ x[3] = y[3]
      BY <1>3, <2>2, <3>1 DEF RelationName
    <3>3. x = y
      BY <1>3, <2>2, <3>1, <3>2
    <3> QED
      BY <3>3 DEF Clear
  <2>3. CASE o = x /\ x[1] = "table"
    <3>1. x \in DOMAIN d
      BY <1>3, <2>3 DEF Beside, Bare
    <3>2. IsRelation(x, d[x])
      BY <2>3 DEF IsRelation
    <3> QED
      BY <1>3, <2>3, <3>1, <3>2 DEF Free
  <2>4. CASE o = x /\ x[1] \notin {"sequence", "table"}
    BY <1>3, <2>4 DEF IsRelation, Beside, Bare
  <2> QED
    BY <2>1, <2>2, <2>3, <2>4
<1>4. \A p : p[1] = "constraint" =>
        /\ p \in DOMAIN d <=> p \in DOMAIN e
        /\ p \in DOMAIN d => e[p] = d[p]
  BY DEF Beside, Bare
<1>5. PrimaryKeys(e, y) = PrimaryKeys(d, y)
  BY <1>4 DEF PrimaryKeys, PartsOf
<1>6. InPrimaryKey(e, y) <=> InPrimaryKey(d, y)
  <2>1. \A p \in PrimaryKeys(d, y) : p[1] = "constraint" /\ p \in DOMAIN d
    BY DEF PrimaryKeys, PartsOf
  <2>2. \A p \in PrimaryKeys(d, y) : UsesOf(p, e[p]) = UsesOf(p, d[p])
    BY <1>4, <2>1
  <2> QED
    BY <1>5, <2>2 DEF InPrimaryKey
<1> QED
  BY <1>1, <1>2, <1>3, <1>6 DEF Free

(* What a lone statement needs and does, a change beside it cannot disturb. *)
LEMMA LoneAccepted ==
  ASSUME NEW d, NEW e, NEW x, Beside(d, e, x), NEW st, Lone(st), Clear(x, st.on), NEW fl,
         Accepts(d, st, fl)
  PROVE  Accepts(e, st, fl)
<1> DEFINE y == st.on
<1>1. y \in Identifiers /\ IsDatabase(d) /\ IsDatabase(e)
  BY DEF Lone, Beside
<1>2. /\ y \in DOMAIN d <=> y \in DOMAIN e
      /\ y \in DOMAIN d => e[y] = d[y]
      /\ y[1] \in Bare => (HasPlace(d, y) <=> HasPlace(e, y))
      /\ y[1] = "sequence" /\ Free(d, y) => Free(e, y)
      /\ InPrimaryKey(e, y) <=> InPrimaryKey(d, y)
  BY <1>1, BesideKeeps
<1>3. CASE st.do \in Makes
  <2>1. /\ y[1] \in Bare
        /\ CanCreate(d, y, st.with) <=>
             y \notin DOMAIN d /\ HasPlace(d, y) /\ (y[1] = "sequence" => Free(d, y))
        /\ CanCreate(e, y, st.with) <=>
             y \notin DOMAIN e /\ HasPlace(e, y) /\ (y[1] = "sequence" => Free(e, y))
    BY <1>1, <1>3, BareCreated
  <2>2. CanCreate(d, y, st.with) => CanCreate(e, y, st.with)
    BY <1>2, <2>1
  <2>3. CASE st.do = "ensure"
    BY <1>2, <2>1, <2>2, <2>3 DEF Accepts
  <2>4. CASE st.do = "create"
    BY <2>2, <2>4 DEF Accepts
  <2> QED
    BY <1>3, <2>3, <2>4 DEF Makes
<1>4. CASE st.do = "drop"
  <2>1. y[1] \in Bare
    BY <1>4 DEF Lone, Makes, IdentityDos
  <2>2. Dependents(d, y) = {}
    BY <1>4 DEF Accepts
  <2>3. ASSUME NEW o \in DOMAIN e, o # y, y \in UsesOf(o, e[o]) PROVE FALSE
    <3>1. CASE o # x
      <4>1. o \in DOMAIN d /\ e[o] = d[o]
        BY <3>1 DEF Beside
      <4> QED
        BY <2>1, <2>2, <2>3, <4>1, BareDropped
    <3>2. CASE o = x /\ x[1] \in Bare
      BY <2>3, <3>2 DEF UsesOf, Bare, Deparsed
    <3>3. CASE o = x /\ x[1] \notin Bare
      <4>1. x \in DOMAIN d /\ UsesOf(x, e[x]) = UsesOf(x, d[x])
        BY <3>3 DEF Beside
      <4> QED
        BY <2>1, <2>2, <2>3, <3>3, <4>1, BareDropped
    <3> QED
      BY <3>1, <3>2, <3>3
  <2>4. ASSUME NEW o \in Contents(e, y) PROVE FALSE
    <3>1. Contents(d, y) = {}
      BY <2>1, <2>2, BareDropped
    <3>2. y[1] = "schema" /\ o \in DOMAIN e
      BY <2>4 DEF Contents
    <3>3. CASE o = x
      <4>1. x[1] # "extension" /\ x[2] # y[2]
        BY <3>2 DEF Beside, Clear, Bare
      <4> QED
        BY <2>4, <3>2, <3>3, <4>1 DEF Contents
    <3>4. CASE o # x
      <4>1. o \in DOMAIN d /\ e[o] = d[o]
        BY <3>2, <3>4 DEF Beside
      <4>2. o \in Contents(d, y)
        BY <2>4, <3>2, <4>1 DEF Contents
      <4> QED
        BY <3>1, <4>2
    <3> QED
      BY <3>3, <3>4
  <2>5. Dependents(e, y) = {}
    BY <2>1, <2>3, <2>4, BareDropped
  <2>6. y[1] \notin {"column", "constraint"}
    BY <2>1 DEF Bare
  <2> QED
    BY <1>4, <2>5, <2>6 DEF Accepts
<1>5. CASE st.do = "set"
  <2>1. st.with.facet \in Calm
    BY <1>5 DEF Lone, Makes, IdentityDos
  <2>2. CanSet(d, y, st.with.facet, st.with.value)
    BY <1>5 DEF Accepts
  <2>3. CanSet(e, y, st.with.facet, st.with.value)
    BY <1>2, <2>1, <2>2 DEF CanSet, Calm
  <2> QED
    BY <1>5, <2>3 DEF Accepts
<1>6. CASE st.do \in IdentityDos \cup {"clamp", "resize", "add_label"}
  <2>1. CASE st.do = "add_identity"
    BY <1>2, <2>1 DEF Accepts, CanAddIdentity
  <2>2. CASE st.do = "set_identity"
    BY <1>2, <2>2 DEF Accepts
  <2>3. CASE st.do = "drop_identity"
    BY <1>2, <2>3 DEF Accepts
  <2>4. CASE st.do = "clamp"
    BY <1>2, <2>4 DEF Accepts
  <2>5. CASE st.do = "resize"
    BY <1>2, <2>5 DEF Accepts
  <2>6. CASE st.do = "add_label"
    BY <1>2, <2>6 DEF Accepts
  <2> QED
    BY <1>6, <2>1, <2>2, <2>3, <2>4, <2>5, <2>6 DEF IdentityDos
<1> QED
  BY <1>3, <1>4, <1>5, <1>6 DEF Lone

(* It changes nothing but its object, ... *)
LEMMA LoneEffect ==
  ASSUME NEW d, IsDatabase(d), NEW st, Lone(st), NEW fl, Accepts(d, st, fl)
  PROVE  Beside(d, Effect(d, st), st.on)
<1> DEFINE e == Effect(d, st)  y == st.on
<1>1. StmtOK(st) /\ y \in Identifiers
  BY DEF Lone
<1>2. AllTouched(d, e, st) /\ IsDatabase(e)
  BY <1>1, EffectTouches, EffectKeeps
<1>3. y[1] \in Bare \cup {"column", "table", "trigger"}
  <2>1. CASE st.do \in Makes \/ st.do = "drop"
    BY <2>1 DEF Lone, Makes, IdentityDos
  <2>2. CASE st.do = "set"
    <3>1. SetOK(y, st.with) /\ st.with.facet \in Calm
      BY <2>2 DEF Lone, StmtOK, Makes, IdentityDos
    <3> QED
      BY <3>1 DEF SetOK, Calm
  <2>3. CASE st.do \in IdentityDos \cup {"clamp", "resize", "add_label"}
    BY <1>1, <2>3 DEF StmtOK, IdentityDos, Bare
  <2> QED
    BY <2>1, <2>2, <2>3 DEF Lone
<1>4. ASSUME NEW o \in DOMAIN d \cup DOMAIN e, o # y
      PROVE  o \in DOMAIN d /\ o \in DOMAIN e /\ e[o] = d[o]
  <2>1. Touched(o, d, e, st)
    BY <1>2 DEF AllTouched
  <2>2. st.do \in Makes \cup Drops => y[1] \in Bare
    BY DEF Lone, Makes, Drops, IdentityDos
  <2>3. st.do \in Makes => ~Kin(o, y)
    BY <1>4, <2>2 DEF Kin, Bare
  <2>4. ~Made(o, d, e, st) /\ ~Tight(o, d, e, st)
    BY <2>3 DEF Made, Tight
  <2>5. ~Gone(o, d, e, st)
    <3>1. st.do # "drop_cascade"
      BY DEF Lone, Makes, IdentityDos
    <3> QED
      BY <1>4, <2>2, <3>1 DEF Gone, Bare
  <2> HIDE DEF e, y
  <2>6. ~AlteredAs(o, d, e, st)
    BY <1>4 DEF AlteredAs, y
  <2> QED
    BY <1>4, <2>1, <2>4, <2>5, <2>6 DEF Touched, y
<1>5. ASSUME y[1] \notin Bare
      PROVE  /\ y \in DOMAIN d <=> y \in DOMAIN e
             /\ y \in DOMAIN d => UsesOf(y, e[y]) = UsesOf(y, d[y])
  <2>1. st.do \in {"set"} \cup IdentityDos
    <3>1. st.do \in {"clamp", "resize", "add_label"} => y[1] \in Bare
      BY <1>1 DEF StmtOK, IdentityDos, Bare
    <3> QED
      BY <1>5, <3>1 DEF Lone
  <2>2. y \in DOMAIN d
    <3>1. CASE st.do = "set"
      BY <3>1 DEF Accepts, CanSet
    <3>2. CASE st.do = "add_identity"
      BY <3>2 DEF Accepts, CanAddIdentity
    <3>3. CASE st.do = "set_identity"
      BY <3>3 DEF Accepts
    <3>4. CASE st.do = "drop_identity"
      BY <3>4 DEF Accepts
    <3> QED
      BY <2>1, <3>1, <3>2, <3>3, <3>4 DEF IdentityDos
  <2>3. IsValue(y, d[y]) /\ d = [o \in DOMAIN d |-> d[o]]
    BY <2>2, InDatabase DEF IsDatabase
  <2>4. CASE st.do = "set"
    <3> DEFINE f == st.with.facet  w == st.with.value
    <3>1. e = SetFacet(d, y, f, w)
      BY <2>4 DEF Effect
    <3>2. f \in Calm /\ SetOK(y, st.with)
      BY <2>4 DEF Lone, StmtOK, Makes, IdentityDos
    <3> HIDE DEF e, y, f, w
    <3>3. DOMAIN e = DOMAIN d /\ e[y] = [g \in DOMAIN d[y] |-> IF g = f THEN w ELSE d[y][g]]
      BY <2>2, <3>1 DEF SetFacet
    <3>4. CASE y[1] = "column"
      <4>1. {"type", "default", "generated"} \subseteq DOMAIN d[y]
        BY <2>3, <3>4 DEF IsValue, IsColumn
      <4>2. e[y].type = d[y].type /\ e[y].default = d[y].default
            /\ e[y].generated = d[y].generated
        BY <3>2, <3>3, <4>1 DEF Calm
      <4>3. UsesOf(y, e[y]) = UsesOf(y, d[y])
        BY <3>4, <4>2 DEF UsesOf
      <4> QED
        BY <3>3, <4>3
    <3>5. CASE y[1] = "trigger"
      <4>1. "def" \in DOMAIN d[y]
        BY <2>3, <3>5 DEF IsValue
      <4>2. e[y].def = d[y].def
        BY <3>2, <3>3, <4>1 DEF Calm
      <4> QED
        BY <3>3, <3>5, <4>2 DEF UsesOf, Deparsed
    <3>6. CASE y[1] = "table"
      BY <3>3, <3>6 DEF UsesOf, Deparsed
    <3> QED
      BY <1>3, <1>5, <3>4, <3>5, <3>6
  <2>5. CASE st.do \in IdentityDos
    <3>1. y[1] = "column"
      BY <2>5, <1>1 DEF StmtOK, IdentityDos
    <3>2. \E w : e = [d EXCEPT ![y].identity = w]
      BY <2>5 DEF Effect, IdentityDos
    <3> HIDE DEF e, y
    <3>3. PICK w : e = [d EXCEPT ![y].identity = w]
      BY <3>2
    <3>4. DOMAIN e = DOMAIN d /\ e[y] = [d[y] EXCEPT !.identity = w]
      BY <2>2, <3>3
    <3>5. {"type", "default", "generated"} \subseteq DOMAIN d[y]
      BY <2>3, <3>1 DEF IsValue, IsColumn
    <3>6. e[y].type = d[y].type /\ e[y].default = d[y].default
          /\ e[y].generated = d[y].generated
      BY <3>4, <3>5
    <3> QED
      BY <3>1, <3>4, <3>6 DEF UsesOf
  <2> QED
    BY <2>1, <2>4, <2>5
<1> HIDE DEF e, y
<1>6. Beside(d, e, y)
  <2>1. \A o : o # y => /\ o \in DOMAIN d <=> o \in DOMAIN e
                        /\ o \in DOMAIN d => e[o] = d[o]
    BY <1>4
  <2> QED
    BY <1>1, <1>2, <1>3, <1>5, <2>1 DEF Beside
<1> QED
  BY <1>6 DEF e, y

(* ... and that alike. *)
LEMMA LoneSame ==
  ASSUME NEW d, NEW e, NEW x, Beside(d, e, x), NEW st, Lone(st), Clear(x, st.on), NEW fl,
         Accepts(d, st, fl), Accepts(e, st, fl)
  PROVE  LET y == st.on IN
         /\ y \in DOMAIN Effect(d, st) <=> y \in DOMAIN Effect(e, st)
         /\ y \in DOMAIN Effect(d, st) => Effect(e, st)[y] = Effect(d, st)[y]
<1> DEFINE y == st.on
<1>1. y \in Identifiers /\ IsDatabase(d) /\ IsDatabase(e)
  BY DEF Lone, Beside
<1>2. /\ y \in DOMAIN d <=> y \in DOMAIN e
      /\ y \in DOMAIN d => e[y] = d[y]
  BY <1>1, BesideKeeps
<1>3. CASE st.do \in Makes
  <2>1. \A c : c \in {d, e} =>
          /\ DOMAIN Created(c, st.with) = DOMAIN c \cup {y}
          /\ Created(c, st.with)[y] = NewValue(y, st.with[y])
    BY <1>1, <1>3, BareCreated
  <2>2. CASE st.do = "ensure" /\ y \in DOMAIN d
    BY <1>2, <2>2 DEF Effect
  <2>3. CASE ~(st.do = "ensure" /\ y \in DOMAIN d)
    <3>1. Effect(d, st) = Created(d, st.with) /\ Effect(e, st) = Created(e, st.with)
      BY <1>2, <1>3, <2>3 DEF Effect, Makes
    <3> QED
      BY <2>1, <3>1
  <2> QED
    BY <2>2, <2>3
<1>4. CASE st.do = "drop"
  <2>1. y[1] \in Bare
    BY <1>4 DEF Lone, Makes, IdentityDos
  <2>2. Closure(d, y) = {y} /\ Closure(e, y) = {y}
    BY <2>1, BareDropped
  <2>3. ASSUME NEW c, Closure(c, y) = {y} PROVE y \notin DOMAIN Effect(c, st)
    BY <1>4, <2>3 DEF Effect, Without
  <2> QED
    BY <2>2, <2>3
<1>5. CASE st.do \in {"set"} \cup IdentityDos \cup {"clamp", "resize", "add_label"}
  <2>1. y \in DOMAIN d
    <3>1. CASE st.do = "set"
      BY <3>1 DEF Accepts, CanSet
    <3>2. CASE st.do = "add_identity"
      BY <3>2 DEF Accepts, CanAddIdentity
    <3>3. CASE st.do \in {"set_identity", "drop_identity", "clamp", "resize", "add_label"}
      BY <3>3 DEF Accepts
    <3> QED
      BY <1>5, <3>1, <3>2, <3>3 DEF IdentityDos
  <2>2. y \in DOMAIN e /\ e[y] = d[y]
    BY <1>2, <2>1
  <2>3. CASE st.do = "set"
    BY <2>1, <2>2, <2>3 DEF Effect, SetFacet
  <2>4. CASE st.do = "add_identity" \/ st.do = "set_identity"
    BY <2>1, <2>2, <2>4 DEF Effect
  <2>5. CASE st.do = "drop_identity"
    BY <2>1, <2>2, <2>5 DEF Effect
  <2>6. CASE st.do = "clamp"
    BY <2>1, <2>2, <2>6 DEF Effect
  <2>7. CASE st.do = "resize"
    BY <2>1, <2>2, <2>7 DEF Effect
  <2>8. CASE st.do = "add_label"
    BY <2>1, <2>2, <2>8 DEF Effect
  <2> QED
    BY <1>5, <2>3, <2>4, <2>5, <2>6, <2>7, <2>8 DEF IdentityDos
<1> QED
  BY <1>3, <1>4, <1>5 DEF Lone

LEMMA BesideSteps ==
  ASSUME NEW d, NEW e, NEW x, Beside(d, e, x), NEW st, Lone(st), Clear(x, st.on), NEW fl,
         Accepts(d, st, fl)
  PROVE  Accepts(e, st, fl) /\ Beside(Effect(d, st), Effect(e, st), x)
<1> DEFINE y == st.on  u == Effect(d, st)  v == Effect(e, st)
<1>1. Accepts(e, st, fl) /\ IsDatabase(d) /\ IsDatabase(e) /\ x # y
  BY LoneAccepted DEF Beside, Clear
<1>2. Beside(d, u, y) /\ Beside(e, v, y)
  BY <1>1, LoneEffect
<1>3. /\ y \in DOMAIN u <=> y \in DOMAIN v
      /\ y \in DOMAIN u => v[y] = u[y]
  BY <1>1, LoneSame
<1> HIDE DEF u, v, y
<1>4. IsDatabase(u) /\ IsDatabase(v)
  BY <1>2 DEF Beside
<1>5. \A o : o # x => /\ o \in DOMAIN u <=> o \in DOMAIN v
                      /\ o \in DOMAIN u => v[o] = u[o]
  <2> SUFFICES ASSUME NEW o, o # x
               PROVE  /\ o \in DOMAIN u <=> o \in DOMAIN v
                      /\ o \in DOMAIN u => v[o] = u[o]
    OBVIOUS
  <2>1. CASE o = y
    BY <1>3, <2>1
  <2>2. CASE o # y
    <3>1. /\ o \in DOMAIN d <=> o \in DOMAIN u
          /\ o \in DOMAIN d => u[o] = d[o]
          /\ o \in DOMAIN e <=> o \in DOMAIN v
          /\ o \in DOMAIN e => v[o] = e[o]
      BY <1>2, <2>2 DEF Beside
    <3>2. /\ o \in DOMAIN d <=> o \in DOMAIN e
          /\ o \in DOMAIN d => e[o] = d[o]
      BY DEF Beside
    <3> QED
      BY <3>1, <3>2
  <2> QED
    BY <2>1, <2>2
<1>6. ASSUME x[1] \notin Bare
      PROVE  /\ x \in DOMAIN u <=> x \in DOMAIN v
             /\ x \in DOMAIN u => UsesOf(x, v[x]) = UsesOf(x, u[x])
  <2>1. /\ x \in DOMAIN d <=> x \in DOMAIN u
        /\ x \in DOMAIN d => u[x] = d[x]
        /\ x \in DOMAIN e <=> x \in DOMAIN v
        /\ x \in DOMAIN e => v[x] = e[x]
    BY <1>1, <1>2 DEF Beside
  <2>2. /\ x \in DOMAIN d <=> x \in DOMAIN e
        /\ x \in DOMAIN d => UsesOf(x, e[x]) = UsesOf(x, d[x])
    BY <1>6 DEF Beside
  <2> QED
    BY <2>1, <2>2
<1>7. x \in Identifiers /\ x[1] \in Bare \cup {"column", "table", "trigger"}
  BY DEF Beside
<1>8. Beside(u, v, x)
  BY <1>4, <1>5, <1>6, <1>7 DEF Beside
<1> QED
  BY <1>1, <1>8 DEF u, v

LEMMA BesideJoins ==
  ASSUME NEW d, NEW e, NEW f, NEW x, Beside(d, e, x), Beside(e, f, x)
  PROVE  Beside(d, f, x)
BY DEF Beside

LEMMA BesideTurns ==
  ASSUME NEW d, NEW e, NEW x, Beside(d, e, x)
  PROVE  Beside(e, d, x)
BY DEF Beside

LEMMA ClearTurns ==
  ASSUME NEW x, NEW y, Clear(x, y)
  PROVE  Clear(y, x)
BY DEF Clear

(* A list of statements, one after the other. *)
Started(d) == [ok |-> TRUE, db |-> d]
Stopped == [ok |-> FALSE, db |-> <<>>]
RunStep(r, st, fl) ==
  IF r.ok /\ Accepts(r.db, st, fl) THEN [r EXCEPT !.db = Effect(r.db, st)] ELSE Stopped

Runs(d, list, fl, g) ==
  g[0] = Started(d) /\ \A k \in 1..Len(list) : g[k] = RunStep(g[k - 1], list[k], fl)

LEMMA MaxIs ==
  ASSUME NEW S \in SUBSET Int, NEW m \in S, \A y \in S : m >= y
  PROVE  Max(S) = m
<1>1. \A x \in S : (\A y \in S : x >= y) => x = m
  OBVIOUS
<1> QED
  BY <1>1 DEF Max

RunFold(d, p, fl, g, s) ==
  IF s = {} THEN Started(d) ELSE RunStep(g[s \ {Max(s)}], p[Max(s)], fl)

LEMMA RunFoldExists ==
  ASSUME NEW d, NEW p, NEW fl
  PROVE  \A n \in Nat : \E g : g = [s \in SUBSET (1..n) |-> RunFold(d, p, fl, g, s)]
<1> DEFINE T == {n \in Nat : \E g : g = [s \in SUBSET (1..n) |-> RunFold(d, p, fl, g, s)]}
<1>1. 0 \in T
  <2> DEFINE g == [s \in SUBSET (1..0) |-> Started(d)]
  <2>1. 1..0 = {}
    OBVIOUS
  <2>2. \A s \in SUBSET (1..0) : RunFold(d, p, fl, g, s) = Started(d)
    BY <2>1 DEF RunFold
  <2>3. g = [s \in SUBSET (1..0) |-> RunFold(d, p, fl, g, s)]
    BY <2>2
  <2> QED
    BY <2>3
<1>2. ASSUME NEW n \in T PROVE n + 1 \in T
  <2>1. PICK g : g = [s \in SUBSET (1..n) |-> RunFold(d, p, fl, g, s)]
    OBVIOUS
  <2>2. n \in Nat
    OBVIOUS
  <2> DEFINE h == [s \in SUBSET (1..(n + 1)) |->
                     IF n + 1 \in s THEN RunStep(g[s \ {n + 1}], p[n + 1], fl) ELSE g[s]]
  <2>3. ASSUME NEW s \in SUBSET (1..(n + 1)) PROVE h[s] = RunFold(d, p, fl, h, s)
    <3>1. CASE n + 1 \in s
      <4>1. s # {} /\ s \ {n + 1} \in SUBSET (1..n) /\ s \ {n + 1} \in SUBSET (1..(n + 1))
        BY <2>2, <3>1
      <4>2. Max(s) = n + 1
        <5>1. s \in SUBSET Int /\ \A y \in s : n + 1 >= y
          BY <2>2
        <5> QED
          BY <3>1, <5>1, MaxIs
      <4>3. h[s \ {n + 1}] = g[s \ {n + 1}]
        BY <4>1
      <4>4. h[s] = RunStep(g[s \ {n + 1}], p[n + 1], fl)
        BY <3>1
      <4> HIDE DEF h
      <4> QED
        BY <4>1, <4>2, <4>3, <4>4 DEF RunFold
    <3>2. CASE n + 1 \notin s
      <4>1. s \in SUBSET (1..n)
        BY <2>2, <3>2
      <4>2. h[s] = g[s] /\ g[s] = RunFold(d, p, fl, g, s)
        BY <2>1, <3>2, <4>1
      <4>3. ASSUME s # {} PROVE h[s \ {Max(s)}] = g[s \ {Max(s)}]
        <5>1. s \ {Max(s)} \in SUBSET (1..n) /\ s \ {Max(s)} \in SUBSET (1..(n + 1))
          BY <4>1
        <5>2. n + 1 \notin s \ {Max(s)}
          BY <3>2
        <5> QED
          BY <5>1, <5>2
      <4> HIDE DEF h
      <4> QED
        BY <4>2, <4>3 DEF RunFold
    <3> QED
      BY <3>1, <3>2
  <2>4. h = [s \in SUBSET (1..(n + 1)) |-> RunFold(d, p, fl, h, s)]
    BY <2>3
  <2> HIDE DEF h
  <2>5. \E f : f = [s \in SUBSET (1..(n + 1)) |-> RunFold(d, p, fl, f, s)]
    BY <2>4
  <2>6. n + 1 \in Nat
    BY <2>2
  <2> QED
    BY <2>5, <2>6
<1> HIDE DEF T
<1>3. \A n \in Nat : n \in T
  BY <1>1, <1>2, Induct DEF T
<1> QED
  BY <1>3 DEF T

LEMMA RunAllIs ==
  ASSUME NEW d, NEW p, IsSeq(p)
  PROVE  \E g : Runs(d, p, case.flavor, g) /\ RunAll(d, p) = g[Len(p)]
<1> DEFINE n == Len(p)  fl == case.flavor
<1>1. n \in Nat /\ DOMAIN p = 1..n
  BY DEF IsSeq
<1> DEFINE iter == CHOOSE g : g = [s \in SUBSET (1..n) |-> RunFold(d, p, fl, g, s)]
<1>2. iter = [s \in SUBSET (1..n) |-> RunFold(d, p, fl, iter, s)]
  BY <1>1, RunFoldExists
<1>3. RunAll(d, p) = iter[1..n]
  BY <1>1 DEF RunAll, FoldLeft, MapThenFoldSet, RunFold, RunStep, Started, Stopped
<1> DEFINE g == [k \in 0..n |-> iter[1..k]]
<1>4. \A k \in 0..n : 1..k \in SUBSET (1..n)
  BY <1>1
<1> HIDE DEF iter, fl
<1>5. g[0] = Started(d)
  <2>1. 1..0 = {} /\ 0 \in 0..n
    BY <1>1
  <2>2. iter[{}] = RunFold(d, p, fl, iter, {})
    BY <1>2
  <2> QED
    BY <2>1, <2>2 DEF RunFold
<1>6. ASSUME NEW k \in 1..n PROVE g[k] = RunStep(g[k - 1], p[k], fl)
  <2>1. /\ k \in 0..n /\ k - 1 \in 0..n /\ 1..k # {} /\ Max(1..k) = k
        /\ (1..k) \ {k} = 1..(k - 1)
    <3>1. /\ k \in 1..k /\ 1..k \in SUBSET Int /\ \A y \in 1..k : k >= y
          /\ k \in 0..n /\ k - 1 \in 0..n /\ (1..k) \ {k} = 1..(k - 1)
      BY <1>1
    <3> QED
      BY <3>1, MaxIs
  <2>2. iter[1..k] = RunFold(d, p, fl, iter, 1..k)
    BY <1>2, <1>4, <2>1
  <2>3. iter[1..k] = RunStep(iter[1..(k - 1)], p[k], fl)
    BY <2>1, <2>2 DEF RunFold
  <2> QED
    BY <2>1, <2>3
<1>7. g[n] = iter[1..n]
  BY <1>1
<1> HIDE DEF g
<1>8. Runs(d, p, fl, g) /\ RunAll(d, p) = g[n]
  BY <1>3, <1>5, <1>6, <1>7 DEF Runs
<1> QED
  BY <1>8 DEF fl

LEMMA StepIs ==
  ASSUME NEW d, NEW st, NEW fl
  PROVE  /\ Accepts(d, st, fl) => RunStep(Started(d), st, fl) = Started(Effect(d, st))
         /\ ~Accepts(d, st, fl) => RunStep(Started(d), st, fl) = Stopped
         /\ RunStep(Stopped, st, fl) = Stopped
         /\ Started(d).ok /\ Started(d).db = d /\ ~Stopped.ok
BY DEF RunStep, Started, Stopped

(* The two lists of two changes are run as one. *)
LEMMA RunJoined ==
  ASSUME NEW d, NEW a, NEW b, IsSeq(a), IsSeq(b)
  PROVE  /\ RunAll(d, a) = Stopped \/ \E e : RunAll(d, a) = Started(e)
         /\ RunAll(d, a) = Stopped => RunAll(d, a \o b) = Stopped
         /\ \A e : RunAll(d, a) = Started(e) => RunAll(d, a \o b) = RunAll(e, b)
<1> DEFINE fl == case.flavor  m == Len(a)  n == Len(b)  p == a \o b
<1>1. /\ m \in Nat /\ n \in Nat /\ IsSeq(p) /\ Len(p) = m + n
      /\ \A i \in 1..m : p[i] = a[i]
      /\ \A i \in 1..n : p[m + i] = b[i]
  <2>1. PICK S : a \in Seq(S)
    BY DEF IsSeq
  <2>2. PICK U : b \in Seq(U)
    BY DEF IsSeq
  <2>3. a \in Seq(S \cup U) /\ b \in Seq(S \cup U)
    BY <2>1, <2>2
  <2>4. p \in Seq(S \cup U) /\ m \in Nat /\ n \in Nat /\ Len(p) = m + n
    BY <2>3
  <2>5. \A i \in 1..m : p[i] = a[i]
    BY <2>3
  <2>6. \A i \in 1..n : p[m + i] = b[i]
    BY <2>3
  <2> QED
    BY <2>4, <2>5, <2>6 DEF IsSeq
<1>2. PICK g : Runs(d, p, fl, g) /\ RunAll(d, p) = g[Len(p)]
  BY <1>1, RunAllIs
<1>3. PICK h : Runs(d, a, fl, h) /\ RunAll(d, a) = h[m]
  BY RunAllIs
<1> HIDE DEF p, m, n, fl
<1>4. /\ g[0] = Started(d) /\ \A k \in 1..(m + n) : g[k] = RunStep(g[k - 1], p[k], fl)
      /\ h[0] = Started(d) /\ \A k \in 1..m : h[k] = RunStep(h[k - 1], a[k], fl)
  BY <1>1, <1>2, <1>3 DEF Runs, m
<1>5. g[m] = h[m] /\ (h[m] = Stopped \/ \E e : h[m] = Started(e))
  <2> DEFINE T == {i \in Nat : i <= m =>
                     g[i] = h[i] /\ (h[i] = Stopped \/ \E e : h[i] = Started(e))}
  <2>1. 0 \in T
    BY <1>4
  <2>2. ASSUME NEW i \in T PROVE i + 1 \in T
    <3> SUFFICES ASSUME i + 1 <= m
                 PROVE  /\ g[i + 1] = h[i + 1]
                        /\ h[i + 1] = Stopped \/ \E e : h[i + 1] = Started(e)
      OBVIOUS
    <3>1. /\ i \in Nat /\ i <= m /\ i + 1 \in 1..m /\ i + 1 \in 1..(m + n) /\ (i + 1) - 1 = i
      BY <1>1
    <3>2. g[i] = h[i] /\ (h[i] = Stopped \/ \E e : h[i] = Started(e))
      BY <3>1
    <3>3. g[i + 1] = RunStep(g[i], p[i + 1], fl) /\ h[i + 1] = RunStep(h[i], a[i + 1], fl)
      BY <1>4, <3>1
    <3>4. p[i + 1] = a[i + 1]
      BY <1>1, <3>1
    <3> HIDE DEF T
    <3>5. h[i + 1] = Stopped \/ \E e : h[i + 1] = Started(e)
      <4>1. CASE h[i] = Stopped
        BY <3>3, <4>1, StepIs
      <4>2. CASE \E e : h[i] = Started(e)
        <5>1. PICK e : h[i] = Started(e)
          BY <4>2
        <5> QED
          BY <3>3, <5>1, StepIs
      <4> QED
        BY <3>2, <4>1, <4>2
    <3> QED
      BY <3>2, <3>3, <3>4, <3>5
  <2> HIDE DEF T
  <2>3. m \in T
    BY <1>1, <2>1, <2>2, Induct DEF T
  <2> QED
    BY <1>1, <2>3 DEF T
<1>6. ASSUME NEW r, r = Stopped \/ \E e : r = Started(e), NEW f,
             g[m] = r, f[0] = r, \A k \in 1..n : f[k] = RunStep(f[k - 1], b[k], fl)
      PROVE  g[m + n] = f[n]
  <2> DEFINE T == {i \in Nat : i <= n => g[m + i] = f[i]}
  <2>1. 0 \in T
    BY <1>1, <1>6
  <2>2. ASSUME NEW i \in T PROVE i + 1 \in T
    <3> SUFFICES ASSUME i + 1 <= n PROVE g[m + (i + 1)] = f[i + 1]
      OBVIOUS
    <3>1. /\ i \in Nat /\ i <= n /\ i + 1 \in 1..n /\ m + (i + 1) \in 1..(m + n)
          /\ (m + (i + 1)) - 1 = m + i /\ (i + 1) - 1 = i
      BY <1>1
    <3>2. g[m + i] = f[i]
      BY <3>1
    <3>3. g[m + (i + 1)] = RunStep(g[m + i], p[m + (i + 1)], fl)
      BY <1>4, <3>1
    <3>4. f[i + 1] = RunStep(f[i], b[i + 1], fl) /\ p[m + (i + 1)] = b[i + 1]
      BY <1>1, <1>6, <3>1
    <3> QED
      BY <3>2, <3>3, <3>4
  <2> HIDE DEF T
  <2>3. n \in T
    BY <1>1, <2>1, <2>2, Induct DEF T
  <2> QED
    BY <1>1, <2>3 DEF T
<1>7. ASSUME RunAll(d, a) = Stopped PROVE RunAll(d, p) = Stopped
  <2> DEFINE f == [k \in 0..n |-> Stopped]
  <2>1. f[0] = Stopped /\ f[n] = Stopped
    BY <1>1
  <2>2. \A k \in 1..n : f[k] = RunStep(f[k - 1], b[k], fl)
    <3>1. \A k \in 1..n : k \in 0..n /\ k - 1 \in 0..n
      BY <1>1
    <3> QED
      BY <3>1, StepIs
  <2> HIDE DEF f
  <2>3. g[m + n] = f[n]
    BY <1>3, <1>5, <1>6, <1>7, <2>1, <2>2
  <2> QED
    BY <1>1, <1>2, <2>1, <2>3
<1>8. ASSUME NEW e, RunAll(d, a) = Started(e) PROVE RunAll(d, p) = RunAll(e, b)
  <2>1. PICK f : Runs(e, b, case.flavor, f) /\ RunAll(e, b) = f[Len(b)]
    BY RunAllIs
  <2>2. f[0] = Started(e) /\ (\A k \in 1..n : f[k] = RunStep(f[k - 1], b[k], fl))
        /\ RunAll(e, b) = f[n]
    BY <2>1 DEF Runs, n, fl
  <2>3. g[m + n] = f[n]
    BY <1>3, <1>5, <1>6, <1>8, <2>2
  <2> QED
    BY <1>1, <1>2, <2>2, <2>3
<1> QED
  BY <1>3, <1>5, <1>7, <1>8 DEF p

IsLone(x) == x \in Identifiers /\ x[1] \in Bare \cup {"column", "table", "trigger"}

(* Statements about one object: how they run does not depend on another. *)
LoneList(list, y) ==
  IsSeq(list) /\ \A k \in 1..Len(list) : Lone(list[k]) /\ list[k].on = y

LEMMA BesideSelf ==
  ASSUME NEW d, IsDatabase(d), NEW x, IsLone(x)
  PROVE  Beside(d, d, x)
BY DEF Beside, IsLone

RunAlike(r, q, d, e, x, y) ==
  \/ r = Stopped /\ q = Stopped
  \/ \E u, v : /\ r = Started(u) /\ q = Started(v)
               /\ Beside(u, v, x) /\ Beside(d, u, y) /\ Beside(e, v, y)

LEMMA StepAlike ==
  ASSUME NEW d, NEW e, NEW x, NEW y, Clear(x, y), NEW r, NEW q, RunAlike(r, q, d, e, x, y),
         NEW st, Lone(st), st.on = y, NEW fl
  PROVE  RunAlike(RunStep(r, st, fl), RunStep(q, st, fl), d, e, x, y)
<1>1. CASE r = Stopped /\ q = Stopped
  BY <1>1, StepIs DEF RunAlike
<1>2. CASE \E u, v : /\ r = Started(u) /\ q = Started(v)
                     /\ Beside(u, v, x) /\ Beside(d, u, y) /\ Beside(e, v, y)
  <2>1. PICK u, v : /\ r = Started(u) /\ q = Started(v)
                    /\ Beside(u, v, x) /\ Beside(d, u, y) /\ Beside(e, v, y)
    BY <1>2
  <2>2. IsDatabase(u) /\ IsDatabase(v) /\ Beside(v, u, x)
    BY <2>1, BesideTurns DEF Beside
  <2>3. CASE Accepts(u, st, fl)
    <3>1. Accepts(v, st, fl) /\ Beside(Effect(u, st), Effect(v, st), x)
      BY <2>1, <2>3, BesideSteps
    <3>2. Beside(u, Effect(u, st), y) /\ Beside(v, Effect(v, st), y)
      BY <2>2, <2>3, <3>1, LoneEffect
    <3>3. Beside(d, Effect(u, st), y) /\ Beside(e, Effect(v, st), y)
      BY <2>1, <3>2, BesideJoins
    <3>4. RunStep(r, st, fl) = Started(Effect(u, st)) /\ RunStep(q, st, fl) = Started(Effect(v, st))
      BY <2>1, <2>3, <3>1, StepIs
    <3> QED
      BY <3>1, <3>3, <3>4 DEF RunAlike
  <2>4. CASE ~Accepts(u, st, fl)
    <3>1. ~Accepts(v, st, fl)
      BY <2>2, <2>4, LoneAccepted
    <3>2. RunStep(r, st, fl) = Stopped /\ RunStep(q, st, fl) = Stopped
      BY <2>1, <2>4, <3>1, StepIs
    <3> QED
      BY <3>2 DEF RunAlike
  <2> QED
    BY <2>3, <2>4
<1> QED
  BY <1>1, <1>2 DEF RunAlike

LEMMA RunsAlike ==
  ASSUME NEW d, NEW e, NEW x, Beside(d, e, x), NEW y, IsLone(y), Clear(x, y),
         NEW list, LoneList(list, y)
  PROVE  RunAlike(RunAll(d, list), RunAll(e, list), d, e, x, y)
<1> DEFINE fl == case.flavor  n == Len(list)
<1>1. IsSeq(list) /\ n \in Nat
  BY DEF LoneList, IsSeq
<1>2. PICK g : Runs(d, list, fl, g) /\ RunAll(d, list) = g[n]
  BY <1>1, RunAllIs
<1>3. PICK h : Runs(e, list, fl, h) /\ RunAll(e, list) = h[n]
  BY <1>1, RunAllIs
<1>4. \A k \in 1..n : Lone(list[k]) /\ list[k].on = y
  BY DEF LoneList
<1>5. /\ g[0] = Started(d) /\ \A k \in 1..n : g[k] = RunStep(g[k - 1], list[k], fl)
      /\ h[0] = Started(e) /\ \A k \in 1..n : h[k] = RunStep(h[k - 1], list[k], fl)
  BY <1>2, <1>3 DEF Runs
<1> HIDE DEF fl, n
<1> DEFINE T == {i \in Nat : i <= n => RunAlike(g[i], h[i], d, e, x, y)}
<1>6. 0 \in T
  <2>1. Beside(d, d, y) /\ Beside(e, e, y)
    BY BesideSelf DEF Beside
  <2>2. RunAlike(g[0], h[0], d, e, x, y)
    BY <1>5, <2>1 DEF RunAlike
  <2> QED
    BY <2>2
<1>7. ASSUME NEW i \in T PROVE i + 1 \in T
  <2> SUFFICES ASSUME i + 1 <= n PROVE RunAlike(g[i + 1], h[i + 1], d, e, x, y)
    OBVIOUS
  <2>1. i \in Nat /\ i <= n /\ i + 1 \in 1..n /\ (i + 1) - 1 = i
    BY <1>1
  <2>2. RunAlike(g[i], h[i], d, e, x, y)
    BY <2>1
  <2>3. /\ g[i + 1] = RunStep(g[i], list[i + 1], fl) /\ h[i + 1] = RunStep(h[i], list[i + 1], fl)
        /\ Lone(list[i + 1]) /\ list[i + 1].on = y
    BY <1>4, <1>5, <2>1
  <2> QED
    BY <2>2, <2>3, StepAlike
<1> HIDE DEF T
<1>8. n \in T
  BY <1>1, <1>6, <1>7, Induct DEF T
<1>9. RunAlike(g[n], h[n], d, e, x, y)
  BY <1>1, <1>8 DEF T
<1> QED
  BY <1>2, <1>3, <1>9

(* Two such lists commute. *)
LEMMA LonesCommute ==
  ASSUME NEW d, IsDatabase(d), NEW x, IsLone(x), NEW y, IsLone(y), Clear(x, y),
         NEW a, LoneList(a, x), NEW b, LoneList(b, y)
  PROVE  LET first == RunAll(d, a \o b)  last == RunAll(d, b \o a) IN
         first.ok = last.ok /\ (first.ok => first.db = last.db)
<1>1. IsSeq(a) /\ IsSeq(b) /\ Clear(y, x)
  BY ClearTurns DEF LoneList
<1>2. Beside(d, d, x) /\ Beside(d, d, y)
  BY BesideSelf
<1>3. RunAlike(RunAll(d, a), RunAll(d, a), d, d, y, x)
  BY <1>1, <1>2, RunsAlike
<1>4. RunAlike(RunAll(d, b), RunAll(d, b), d, d, x, y)
  BY <1>2, RunsAlike
<1>5. ASSUME NEW e, RunAll(d, b) = Started(e)
      PROVE  Beside(d, e, y) /\ RunAlike(RunAll(d, a), RunAll(e, a), d, e, y, x)
  <2>1. Beside(d, e, y)
    BY <1>4, <1>5, StepIs DEF RunAlike
  <2> QED
    BY <1>1, <2>1, RunsAlike
<1>6. ASSUME NEW e, RunAll(d, a) = Started(e)
      PROVE  Beside(d, e, x) /\ RunAlike(RunAll(d, b), RunAll(e, b), d, e, x, y)
  <2>1. Beside(d, e, x)
    BY <1>3, <1>6, StepIs DEF RunAlike
  <2> QED
    BY <2>1, RunsAlike
<1>7. CASE RunAll(d, a) = Stopped
  <2>1. RunAll(d, a \o b) = Stopped
    BY <1>1, <1>7, RunJoined
  <2>2. CASE RunAll(d, b) = Stopped
    BY <1>1, <2>1, <2>2, RunJoined, StepIs
  <2>3. ASSUME NEW e, RunAll(d, b) = Started(e) PROVE RunAll(d, b \o a) = Stopped
    <3>1. RunAll(d, b \o a) = RunAll(e, a)
      BY <1>1, <2>3, RunJoined
    <3>2. RunAll(e, a) = Stopped
      BY <1>5, <1>7, <2>3, StepIs DEF RunAlike
    <3> QED
      BY <3>1, <3>2
  <2> QED
    BY <1>1, <2>1, <2>2, <2>3, RunJoined, StepIs
<1>8. ASSUME NEW u, RunAll(d, a) = Started(u)
      PROVE  LET first == RunAll(d, a \o b)  last == RunAll(d, b \o a) IN
             first.ok = last.ok /\ (first.ok => first.db = last.db)
  <2>1. RunAll(d, a \o b) = RunAll(u, b) /\ RunAlike(RunAll(d, b), RunAll(u, b), d, u, x, y)
    BY <1>1, <1>6, <1>8, RunJoined
  <2>2. CASE RunAll(d, b) = Stopped
    <3>1. RunAll(d, b \o a) = Stopped
      BY <1>1, <2>2, RunJoined
    <3>2. RunAll(u, b) = Stopped
      BY <2>1, <2>2, StepIs DEF RunAlike
    <3> QED
      BY <2>1, <3>1, <3>2, StepIs
  <2>3. ASSUME NEW v, RunAll(d, b) = Started(v)
        PROVE  \E p, q : /\ RunAll(d, a \o b) = Started(p) /\ RunAll(d, b \o a) = Started(q)
                         /\ p = q
    <3>1. RunAll(d, b \o a) = RunAll(v, a) /\ RunAlike(RunAll(d, a), RunAll(v, a), d, v, y, x)
      BY <1>1, <1>5, <2>3, RunJoined
    <3>2. PICK p : RunAll(u, b) = Started(p) /\ Beside(v, p, x) /\ Beside(u, p, y)
      BY <2>1, <2>3, StepIs DEF RunAlike
    <3>3. PICK q : RunAll(v, a) = Started(q) /\ Beside(u, q, y) /\ Beside(v, q, x)
      BY <1>8, <3>1, StepIs DEF RunAlike
    <3>4. Beside(p, q, x) /\ Beside(p, q, y) /\ x # y
      BY <3>2, <3>3, BesideTurns, BesideJoins DEF Clear
    <3>5. \A o : /\ o \in DOMAIN p <=> o \in DOMAIN q
                 /\ o \in DOMAIN p => q[o] = p[o]
      BY <3>4 DEF Beside
    <3>6. p = [o \in DOMAIN p |-> p[o]] /\ q = [o \in DOMAIN q |-> q[o]]
      BY <3>4 DEF Beside, IsDatabase
    <3>7. p = q
      <4>1. DOMAIN p = DOMAIN q
        BY <3>5
      <4> QED
        BY <3>5, <3>6, <4>1
    <3> QED
      BY <2>1, <3>1, <3>2, <3>3, <3>7
  <2>4. RunAll(d, b) = Stopped \/ \E v : RunAll(d, b) = Started(v)
    BY <1>1, RunJoined
  <2> QED
    BY <2>2, <2>3, <2>4, StepIs
<1> QED
  BY <1>1, <1>7, <1>8, RunJoined

(* The changes that borrow the whole database, and those that borrow no more *)
(* than the place of their object.                                           *)
Wide(c) ==
  HasOpaqueDependencies(c.op) \/ c.op \in {"create_extension", "move_extension", "drop_extension"}

EnumOps == {"create_enum", "add_enum_value", "enum_needs_rebuild", "drop_enum"}
SequenceOps == {"create_sequence", "alter_sequence", "drop_sequence"}
RlsOps == {"enable_rls", "disable_rls", "force_rls", "unforce_rls"}
NarrowOps == {"set_not_null", "drop_not_null", "set_column_visibility", "add_identity",
              "drop_identity", "set_identity_kind"}
Narrow(c) ==
  /\ c.on \in Identifiers
  /\ \/ c.op \in {"create_schema", "drop_schema"} /\ c.on[1] = "schema"
     \/ c.op \in EnumOps /\ c.on[1] = "enum"
     \/ c.op \in SequenceOps /\ c.on[1] = "sequence"
     \/ c.op \in RlsOps /\ c.on[1] = "table"
     \/ c.op \in NarrowOps /\ c.on[1] = "column"
     \/ c.op = "set_trigger_mode" /\ c.on[1] = "trigger"

LEMMA WideOrNarrow ==
  ASSUME NEW s, Offered(s), NEW t, Within(t), NEW all, NEW c, Wants(c, s, t, all)
  PROVE  Wide(c) \/ Narrow(c)
<1> DEFINE k == c.on
<1>0. \A o : o \in DOMAIN s \/ o \in DOMAIN t => o \in Identifiers
  BY DEF Offered, IsReading, IsCatalog, Within
<1>1. CASE SchemaChange(c, s, t)
  BY <1>0, <1>1 DEF SchemaChange, Plain, Change, Narrow
<1>2. CASE ExtensionChange(c, s, t)
  BY <1>2 DEF ExtensionChange, Plain, Change, Wide
<1>3. CASE EnumChange(c, s, t, all)
  BY <1>0, <1>3 DEF EnumChange, LabelChange, Plain, Change, Narrow, EnumOps
<1>4. CASE SequenceChange(c, s, t, all)
  BY <1>0, <1>4 DEF SequenceChange, Plain, Change, Narrow, SequenceOps
<1>5. CASE TableChange(c, s, t, all)
  <2>1. CASE c = CreateTable(s, k) \/ c = Plain("drop_table", k)
    BY <2>1 DEF CreateTable, Plain, Change, Wide, HasOpaqueDependencies
  <2>2. CASE RlsChange(c, k) /\ k \in DOMAIN s \cap DOMAIN t /\ k[1] = "table"
    <3>1. c.op \in RlsOps
      BY <2>2 DEF RlsChange, Plain, Change, RlsOps
    <3> QED
      BY <1>0, <2>2, <3>1 DEF Narrow
  <2>3. CASE ColumnChange(c, s, t, all)
    <3>1. CASE c = Change("add_column", k, s[k], FALSE) \/ c = Plain("drop_column", k)
      BY <3>1 DEF Plain, Change, Wide, HasOpaqueDependencies
    <3>2. CASE k \in DOMAIN s \cap DOMAIN t /\ OneColumnChange(c, k, s[k], t[k])
      <4>1. c.op \in NarrowOps
              \cup {"regenerate_column", "alter_column_type", "set_default", "drop_default",
                    "make_serial", "drop_serial"}
        BY <3>2 DEF OneColumnChange, SetDefault, Plain, Change, NarrowOps
      <4>2. k \in Identifiers /\ k[1] = "column"
        BY <1>0, <2>3, <3>2 DEF ColumnChange
      <4>3. CASE c.op \in NarrowOps
        BY <4>2, <4>3 DEF Narrow
      <4>4. CASE c.op \notin NarrowOps
        BY <4>1, <4>4 DEF Wide, HasOpaqueDependencies
      <4> QED
        BY <4>3, <4>4
    <3> QED
      BY <2>3, <3>1, <3>2 DEF ColumnChange
  <2>4. CASE ConstraintChange(c, s, t, all)
    BY <2>4 DEF ConstraintChange, Change, Wide, HasOpaqueDependencies
  <2>5. CASE IndexChange(c, s, t, all)
    BY <2>5 DEF IndexChange, Change, Wide, HasOpaqueDependencies
  <2>6. CASE PolicyChange(c, s, t, all)
    BY <2>6 DEF PolicyChange, Change, Wide, HasOpaqueDependencies
  <2> QED
    BY <1>5, <2>1, <2>2, <2>3, <2>4, <2>5, <2>6 DEF TableChange
<1>6. CASE ViewChange(c, s, t, all)
  BY <1>6 DEF ViewChange, Change, Wide, HasOpaqueDependencies
<1>7. CASE RoutineChange(c, s, t, all)
  BY <1>7 DEF RoutineChange, Change, Wide, HasOpaqueDependencies
<1>8. CASE TriggerChange(c, s, t, all)
  BY <1>0, <1>8 DEF TriggerChange, Change, Wide, Narrow, HasOpaqueDependencies
<1> QED
  BY <1>1, <1>2, <1>3, <1>4, <1>5, <1>6, <1>7, <1>8 DEF Wants

(* What a narrow change says of its object. *)
Small(st, k) ==
  /\ st.on = k
  /\ \/ st.do \in Makes /\ st.on[1] \in Bare /\ DOMAIN st.with = {st.on}
     \/ st.do = "drop" /\ st.on[1] \in Bare
     \/ st.do = "set" /\ st.with.facet \in Calm
     \/ st.do \in IdentityDos \cup {"clamp", "resize", "add_label"}
AllSmall(p, k) == \A st \in ToSet(p) : Small(st, k)

LEMMA SmallLists ==
  ASSUME NEW k
  PROVE  /\ AllSmall(<<>>, k)
         /\ \A a : Small(a, k) => AllSmall(<<a>>, k)
         /\ \A a, b : Small(a, k) /\ Small(b, k) => AllSmall(<<a, b>>, k)
<1>1. ToSet(<<>>) = {} /\ \A a, b : ToSet(<<a>>) = {a} /\ ToSet(<<a, b>>) = {a, b}
  BY Listed
<1> QED
  BY <1>1 DEF AllSmall

(* What is narrow is one object's. *)
LEMMA NarrowIsLone ==
  ASSUME NEW s, NEW t, NEW fl, NEW all, NEW c, Narrow(c), RendersOK(c, s, t, fl, TRUE, all)
  PROVE  LoneList(Statements(c, fl), c.on)
<1> DEFINE k == c.on  p == Statements(c, fl)
<1>1. Rendered(c, fl, TRUE) = p
  BY DEF Rendered, Gated
<1>2. IsSeq(p) /\ \A st \in ToSet(p) : StmtOK(st)
  BY <1>1 DEF RendersOK, Serves
<1>3. k \in Identifiers
  BY DEF Narrow
<1>4. SUFFICES ASSUME AllSmall(p, k) PROVE LoneList(p, k)
  <2>1. SUFFICES AllSmall(p, k)
    BY <1>4
  <2>2. ASSUME NEW do \in Makes, NEW v, k[1] \in Bare PROVE Small(Stmt(do, k, One(k, v)), k)
    <3>1. DOMAIN One(k, v) = {k}
      BY OneIs
    <3> QED
      BY <2>2, <3>1 DEF Stmt, Small
  <2>3. ASSUME k[1] \in Bare PROVE Small(DropStmt(k), k)
    BY <2>3 DEF DropStmt, Stmt, Small
  <2>4. ASSUME NEW f \in Calm, NEW v PROVE Small(Set(k, f, v), k)
    BY <2>4 DEF Set, Stmt, Small
  <2>5. ASSUME NEW do \in IdentityDos \cup {"clamp", "resize", "add_label"}, NEW v
        PROVE  Small(Stmt(do, k, v), k)
    BY <2>5 DEF Stmt, Small
  <2> HIDE DEF p
  <2>6. CASE c.op \in {"create_schema", "drop_schema"} /\ k[1] = "schema"
    <3>1. "ensure" \in Makes /\ k[1] \in Bare
      BY <2>6 DEF Makes, Bare
    <3>2. CASE c.op = "create_schema"
      <4>1. p = <<Stmt("ensure", k, One(k, "none"))>>
        BY <3>2, TypePhases DEF p
      <4> QED
        BY <2>2, <3>1, <4>1, SmallLists
    <3>3. CASE c.op = "drop_schema"
      <4>1. p = <<DropStmt(k)>>
        BY <3>3, LatePhases DEF p
      <4> QED
        BY <2>3, <3>1, <4>1, SmallLists
    <3> QED
      BY <2>6, <3>2, <3>3
  <2>7. CASE c.op \in EnumOps /\ k[1] = "enum"
    <3>1. "create" \in Makes /\ k[1] \in Bare
      BY <2>7 DEF Makes, Bare
    <3>2. CASE c.op = "create_enum"
      <4>1. p = <<Stmt("create", k, One(k, c.to))>>
        BY <3>2, TypePhases DEF p, CreateSql
      <4> QED
        BY <2>2, <3>1, <4>1, SmallLists
    <3>3. CASE c.op = "add_enum_value"
      <4>1. p = <<Stmt("add_label", k, c.to)>>
        BY <3>3, TypePhases DEF p
      <4> QED
        BY <2>5, <4>1, SmallLists
    <3>4. CASE c.op = "enum_needs_rebuild"
      <4>1. p = <<>>
        BY <3>4, TypePhases DEF p
      <4> QED
        BY <4>1, SmallLists
    <3>5. CASE c.op = "drop_enum"
      <4>1. p = <<DropStmt(k)>>
        BY <3>5, LatePhases DEF p
      <4> QED
        BY <2>3, <3>1, <4>1, SmallLists
    <3> QED
      BY <2>7, <3>2, <3>3, <3>4, <3>5 DEF EnumOps
  <2>8. CASE c.op \in SequenceOps /\ k[1] = "sequence"
    <3>1. "ensure" \in Makes /\ k[1] \in Bare
      BY <2>8 DEF Makes, Bare
    <3>2. CASE c.op = "create_sequence"
      <4>1. p = <<Stmt("ensure", k, One(k, c.to))>>
        BY <3>2, DropPhases DEF p, EnsureSql
      <4> QED
        BY <2>2, <3>1, <4>1, SmallLists
    <3>3. CASE c.op = "alter_sequence"
      <4>1. p = <<Stmt("clamp", k, c.to), Stmt("resize", k, c.to)>>
        BY <3>3, DropPhases DEF p, AlterSequenceSql
      <4> QED
        BY <2>5, <4>1, SmallLists
    <3>4. CASE c.op = "drop_sequence"
      <4>1. p = <<DropStmt(k)>>
        BY <3>4, LatePhases DEF p
      <4> QED
        BY <2>3, <3>1, <4>1, SmallLists
    <3> QED
      BY <2>8, <3>2, <3>3, <3>4 DEF SequenceOps
  <2>9. CASE c.op \in RlsOps
    <3>1. p \in {<<Set(k, "rls", TRUE)>>, <<Set(k, "rls", FALSE)>>, <<Set(k, "forced", TRUE)>>,
                 <<Set(k, "forced", FALSE)>>}
      BY <2>9, LatePhases DEF p, RlsOps
    <3>2. "rls" \in Calm /\ "forced" \in Calm
      BY DEF Calm
    <3> QED
      BY <2>4, <3>1, <3>2, SmallLists
  <2>10. CASE c.op \in {"set_not_null", "drop_not_null", "set_column_visibility",
                        "set_trigger_mode"}
    <3>1. p \in {<<Set(k, "notnull", TRUE)>>, <<Set(k, "notnull", FALSE)>>,
                 <<Set(k, "hidden", c.to)>>, <<Set(k, "mode", c.to)>>}
      BY <2>10, FacetPhases, AddPhases DEF p
    <3>2. {"notnull", "hidden", "mode"} \subseteq Calm
      BY DEF Calm
    <3> QED
      BY <2>4, <3>1, <3>2, SmallLists
  <2>11. CASE c.op \in {"add_identity", "drop_identity", "set_identity_kind"}
    <3>1. p \in {<<Stmt("add_identity", k, c.to)>>, <<Stmt("drop_identity", k, "none")>>,
                 <<Stmt("set_identity", k, c.to)>>}
      BY <2>11, OriginPhases DEF p
    <3>2. {"add_identity", "drop_identity", "set_identity"} \subseteq IdentityDos
      BY DEF IdentityDos
    <3> QED
      BY <2>5, <3>1, <3>2, SmallLists
  <2> QED
    BY <2>6, <2>7, <2>8, <2>9, <2>10, <2>11 DEF Narrow, NarrowOps
<1>5. \A i \in 1..Len(p) : p[i] \in ToSet(p)
  BY <1>2, SeqDomain DEF ToSet
<1>6. \A st \in ToSet(p) : Lone(st) /\ st.on = k
  BY <1>2, <1>3, <1>4 DEF Lone, AllSmall, Small
<1> QED
  BY <1>2, <1>5, <1>6 DEF LoneList

(* The place a narrow change borrows. *)
Site(x) ==
  IF x[1] = "schema" THEN <<x[2]>>
  ELSE IF x[1] \in {"enum", "sequence"} THEN <<x[2], x[1], x[3]>>
  ELSE <<x[2], "table", x[3]>>

LEMMA NarrowBorrows ==
  ASSUME NEW c, Narrow(c)
  PROVE  LET b == DirectBorrow(c.op, c.on) IN
         /\ IsLone(c.on) /\ b.resource = Site(c.on)
         /\ c.on[1] = "schema" => b.scope = "subtree"
<1>1. IsLone(c.on)
  BY DEF Narrow, IsLone, Bare
<1>2. CASE c.op \in {"create_schema", "drop_schema"} /\ c.on[1] = "schema"
  BY <1>1, <1>2 DEF DirectBorrow, ExclusiveSubtree, Borrow, Site
<1>3. CASE c.op \in EnumOps \cup SequenceOps /\ c.on[1] \in {"enum", "sequence"}
  <2>1. DirectBorrow(c.op, c.on) = Exclusive(<<c.on[2], c.on[1], c.on[3]>>)
    BY <1>3 DEF DirectBorrow, EnumOps, SequenceOps
  <2> QED
    BY <1>1, <1>3, <2>1 DEF Exclusive, Borrow, Site
<1>4. CASE /\ c.op \in RlsOps \cup NarrowOps \cup {"set_trigger_mode"}
           /\ c.on[1] \in {"table", "column", "trigger"}
  <2>1. DirectBorrow(c.op, c.on) = ExclusiveSubtree(<<c.on[2], "table", c.on[3]>>)
    BY <1>4 DEF DirectBorrow, RlsOps, NarrowOps
  <2> QED
    BY <1>1, <1>4, <2>1 DEF ExclusiveSubtree, Borrow, Site
<1> QED
  BY <1>2, <1>3, <1>4 DEF Narrow

(* Whatever a change borrows of its object it borrows for itself. *)
LEMMA DirectIsExclusive ==
  ASSUME NEW op, NEW on
  PROVE  LET b == DirectBorrow(op, on) IN
         b.mode = "exclusive" /\ Len(b.resource) \in Nat
<1> DEFINE r == DirectBorrow(op, on)
<1>1. \/ r = ExclusiveSubtree(<<on[2]>>) \/ r = ExclusiveSubtree(<<>>)
      \/ r = Exclusive(<<on[2], on[1], on[3]>>) \/ r = ExclusiveSubtree(<<on[2], "table", on[3]>>)
  BY DEF DirectBorrow
<1> HIDE DEF r
<1>2. Len(<<on[2]>>) = 1 /\ Len(<<>>) = 0 /\ Len(<<on[2], on[1], on[3]>>) = 3
      /\ Len(<<on[2], "table", on[3]>>) = 3
  OBVIOUS
<1>3. r.mode = "exclusive" /\ Len(r.resource) \in Nat
  BY <1>1, <1>2 DEF ExclusiveSubtree, Exclusive, Borrow
<1> QED
  BY <1>3 DEF r

(* A borrow of the whole database conflicts with every change. *)
LEMMA WideConflicts ==
  ASSUME NEW c, Wide(c), NEW op, NEW on
  PROVE  /\ Conflict(ChangeBorrows(c.op, c.on), ChangeBorrows(op, on))
         /\ Conflict(ChangeBorrows(op, on), ChangeBorrows(c.op, c.on))
<1> DEFINE d == DirectBorrow(op, on)
<1>1. d.mode = "exclusive" /\ Len(d.resource) \in Nat /\ d \in ChangeBorrows(op, on)
  BY DirectIsExclusive DEF ChangeBorrows
<1> HIDE DEF d
<1>2. PICK b \in ChangeBorrows(c.op, c.on) : b.resource = <<>> /\ b.scope = "subtree"
  <2>1. CASE HasOpaqueDependencies(c.op)
    <3>1. SharedSubtree(<<>>) \in ChangeBorrows(c.op, c.on)
      BY <2>1 DEF ChangeBorrows
    <3> QED
      BY <3>1 DEF SharedSubtree, Borrow
  <2>2. CASE c.op \in {"create_extension", "move_extension", "drop_extension"}
    <3>1. ExclusiveSubtree(<<>>) \in ChangeBorrows(c.op, c.on)
      BY <2>2 DEF ChangeBorrows, DirectBorrow
    <3> QED
      BY <3>1 DEF ExclusiveSubtree, Borrow
  <2> QED
    BY <2>1, <2>2 DEF Wide
<1>3. IsPrefixOf(<<>>, d.resource)
  BY <1>1 DEF IsPrefixOf
<1>4. ConflictsWith(b, d) /\ ConflictsWith(d, b)
  BY <1>1, <1>2, <1>3 DEF ConflictsWith
<1> QED
  BY <1>1, <1>2, <1>4 DEF Conflict

(* Narrow changes that do not conflict are clear of each other. *)
LEMMA NarrowIsClear ==
  ASSUME NEW b, Narrow(b), NEW c, Narrow(c),
         ~Conflict(ChangeBorrows(b.op, b.on), ChangeBorrows(c.op, c.on))
  PROVE  Clear(b.on, c.on)
<1> DEFINE x == b.on  y == c.on  lent == DirectBorrow(b.op, x)  other == DirectBorrow(c.op, y)
<1>1. lent.mode = "exclusive" /\ other.mode = "exclusive"
  BY DirectIsExclusive
<1>2. /\ lent.resource = Site(x) /\ other.resource = Site(y)
      /\ x[1] = "schema" => lent.scope = "subtree"
      /\ y[1] = "schema" => other.scope = "subtree"
  BY NarrowBorrows
<1>3. ~ConflictsWith(lent, other)
  BY DEF Conflict, ChangeBorrows
<1> HIDE DEF lent, other
<1>4. x # y
  BY <1>1, <1>2, <1>3 DEF ConflictsWith
<1>5. \A o, q : o[1] = "schema" /\ o[2] = q[2] => IsPrefixOf(Site(o), Site(q))
  <2>1. SUFFICES ASSUME NEW o, NEW q, o[1] = "schema", o[2] = q[2]
                 PROVE  IsPrefixOf(Site(o), Site(q))
    OBVIOUS
  <2>2. Site(o) = <<q[2]>>
    BY <2>1 DEF Site
  <2>3. Len(Site(q)) >= 1 /\ Site(q)[1] = q[2]
    BY DEF Site
  <2>4. Len(<<q[2]>>) = 1 /\ <<q[2]>>[1] = q[2]
    OBVIOUS
  <2> QED
    BY <2>2, <2>3, <2>4 DEF IsPrefixOf
<1>6. (x[1] = "schema" => x[2] # y[2]) /\ (y[1] = "schema" => x[2] # y[2])
  BY <1>1, <1>2, <1>3, <1>5 DEF ConflictsWith
<1> QED
  BY <1>4, <1>6 DEF Clear

(* CompatibleCommute: changes whose borrows (resource.rs) do not conflict    *)
(* may run in either order.  A change whose text may name anything borrows   *)
(* the whole database and so conflicts with every other; what is left        *)
(* speaks of one object each.  Its statements are accepted by, and change,   *)
(* nothing but that object and its place, which the other's let be: run in   *)
(* either order, both lists are refused or both end in the same database.    *)
THEOREM CompatibleIsSound == Spec => []CompatibleCommute
<1>1. ASSUME Inv PROVE CompatibleCommute
  <2> DEFINE fl == case.flavor
             s == Source
             t == Introspect(db, fl)
             plan == PlanFrom(db)
             Sql(i) == Statements(plan[i], fl)
             Lent(i) == ChangeBorrows(plan[i].op, plan[i].on)
  <2>1. SUFFICES ASSUME NEW i \in DOMAIN plan, NEW j \in DOMAIN plan,
                        ~Conflict(Lent(i), Lent(j))
                 PROVE  LET first == RunAll(db, Sql(i) \o Sql(j))
                            last == RunAll(db, Sql(j) \o Sql(i))
                        IN  first.ok = last.ok /\ (first.ok => first.db = last.db)
    BY DEF CompatibleCommute
  <2>2. case \in Cases /\ IsDatabase(db)
    BY <1>1 DEF Inv, TypeOK
  <2>3. /\ Offered(s) /\ Within(t) /\ IsSeq(plan)
        /\ \A c \in ToSet(plan) : Wants(c, s, t, ToSet(plan))
    BY <2>2, ScriptServes DEF Source, PlanFrom
  <2> HIDE DEF s, t, plan, fl
  <2>4. plan[i] \in ToSet(plan) /\ plan[j] \in ToSet(plan)
    BY DEF ToSet
  <2>5. \A c \in ToSet(plan) : Wide(c) \/ Narrow(c)
    BY <2>3, WideOrNarrow
  <2>6. Narrow(plan[i]) /\ Narrow(plan[j])
    <3>1. ~Wide(plan[i]) /\ ~Wide(plan[j])
      BY <2>1, WideConflicts
    <3> QED
      BY <2>4, <2>5, <3>1
  <2>7. Clear(plan[i].on, plan[j].on)
    BY <2>1, <2>6, NarrowIsClear
  <2>8. \A c \in ToSet(plan) : RendersOK(c, s, t, fl, TRUE, ToSet(plan))
    BY <2>3, WantsServe
  <2>9. LoneList(Sql(i), plan[i].on) /\ LoneList(Sql(j), plan[j].on)
    BY <2>4, <2>6, <2>8, NarrowIsLone
  <2>10. IsLone(plan[i].on) /\ IsLone(plan[j].on)
    BY <2>6, NarrowBorrows
  <2> QED
    BY <2>2, <2>7, <2>9, <2>10, LonesCommute
<1> QED
  BY <1>1, Invariance, PTL

-----------------------------------------------------------------------------
(***************************************************************************)
(* Counters: a sequence is moved, then bounded.                            *)
(***************************************************************************)
(* Every change of bounds comes right after the move of the same counter. *)
SameBounds(a, b) == a.do = "clamp" /\ a.on = b.on /\ a.with = b.with
Paired(z) ==
  /\ IsSeq(z)
  /\ \A i \in DOMAIN z : z[i].do = "resize" => i - 1 \in DOMAIN z /\ SameBounds(z[i - 1], z[i])

LEMMA PairedJoin ==
  ASSUME NEW a, Paired(a), NEW b, Paired(b)
  PROVE  Paired(a \o b)
<1> DEFINE ab == a \o b  x == Len(a)  y == Len(b)
<1>1. /\ IsSeq(a) /\ IsSeq(b) /\ x \in Nat /\ y \in Nat /\ DOMAIN a = 1..x /\ DOMAIN b = 1..y
  BY SeqDomain DEF Paired
<1>2. /\ IsSeq(ab) /\ Len(ab) = x + y
      /\ \A i \in 1..x : ab[i] = a[i]
      /\ \A i \in 1..y : ab[x + i] = b[i]
  BY <1>1, Concat
<1>3. DOMAIN ab = 1..(x + y)
  BY <1>2, SeqDomain
<1> HIDE DEF ab, x, y
<1>4. ASSUME NEW i \in DOMAIN ab, ab[i].do = "resize"
      PROVE  i - 1 \in DOMAIN ab /\ SameBounds(ab[i - 1], ab[i])
  <2>1. CASE i <= x
    <3>1. i \in 1..x
      BY <1>1, <1>3, <2>1
    <3>2. ab[i] = a[i]
      BY <1>2, <3>1
    <3>3. i - 1 \in 1..x /\ SameBounds(a[i - 1], a[i])
      BY <1>1, <1>4, <3>1, <3>2 DEF Paired
    <3>4. ab[i - 1] = a[i - 1] /\ i - 1 \in DOMAIN ab
      BY <1>1, <1>2, <1>3, <3>3
    <3> QED
      BY <3>2, <3>3, <3>4
  <2>2. CASE ~(i <= x)
    <3>1. i - x \in 1..y /\ x + (i - x) = i /\ x + (i - x - 1) = i - 1
      BY <1>1, <1>3, <2>2
    <3>2. ab[i] = b[i - x]
      BY <1>2, <3>1
    <3>3. (i - x) - 1 \in 1..y /\ SameBounds(b[(i - x) - 1], b[i - x])
      BY <1>1, <1>4, <3>1, <3>2 DEF Paired
    <3>4. ab[i - 1] = b[(i - x) - 1]
      BY <1>2, <3>1, <3>3
    <3>5. i - 1 \in DOMAIN ab
      BY <1>1, <1>3, <3>1, <3>3
    <3> QED
      BY <3>2, <3>3, <3>4, <3>5
  <2> QED
    BY <2>1, <2>2
<1> QED
  BY <1>2, <1>4 DEF Paired, ab

LEMMA PairedFlatten ==
  ASSUME NEW m, IsSeq(m), \A i \in DOMAIN m : Paired(m[i])
  PROVE  Paired(FlattenSeq(m))
<1>1. \A i \in DOMAIN m : IsSeq(m[i])
  BY DEF Paired
<1>2. PICK f : /\ f[0] = <<>> /\ \A i \in DOMAIN m : f[i] = f[i - 1] \o m[i]
               /\ FlattenSeq(m) = f[Len(m)]
  BY <1>1, FlattenBy
<1>3. Len(m) \in Nat /\ DOMAIN m = 1..Len(m)
  BY SeqDomain
<1> DEFINE Good == {k \in Nat : k <= Len(m) => Paired(f[k])}
<1>4. 0 \in Good
  <2>1. DOMAIN <<>> = {}
    OBVIOUS
  <2>2. IsSeq(<<>>)
    BY Listed
  <2> QED
    BY <1>2, <2>1, <2>2 DEF Paired
<1>5. ASSUME NEW k \in Good PROVE k + 1 \in Good
  <2> SUFFICES ASSUME k + 1 <= Len(m) PROVE Paired(f[k + 1])
    OBVIOUS
  <2>1. k \in Nat /\ k <= Len(m) /\ k + 1 \in DOMAIN m /\ (k + 1) - 1 = k
    BY <1>3
  <2>2. f[k + 1] = f[k] \o m[k + 1] /\ Paired(f[k])
    BY <1>2, <2>1
  <2> QED
    BY <2>1, <2>2, PairedJoin
<1> HIDE DEF Good
<1>6. \A k \in Nat : k \in Good
  <2>1. Good \in SUBSET Nat
    BY DEF Good
  <2> QED
    BY <1>4, <1>5, <2>1, Induct
<1> QED
  BY <1>2, <1>3, <1>6 DEF Good

(* Only sequences are made and altered in phase 10. *)
LEMMA SequencePhase ==
  ASSUME NEW c, Wide(c) \/ Narrow(c), PhaseOf(c) = 10
  PROVE  c.op \in {"create_sequence", "alter_sequence"}
<1> DEFINE fl == "postgres"
<1>1. c.op \notin {"create_schema", "create_extension", "move_extension", "create_enum",
                  "add_enum_value", "enum_needs_rebuild"}
  <2>1. /\ c.op = "add_enum_value" => PhaseOf(c) = 0
        /\ c.op = "create_schema" => PhaseOf(c) = 2
        /\ c.op = "create_extension" => PhaseOf(c) = 2
        /\ c.op = "move_extension" => PhaseOf(c) = 2
        /\ c.op = "create_enum" => PhaseOf(c) = 2
        /\ c.op = "enum_needs_rebuild" => PhaseOf(c) = 2
    BY TypePhases
  <2> QED
    BY <2>1
<1>2. c.op \notin {"drop_trigger", "drop_policy", "drop_view", "drop_constraint", "drop_index"}
  <2>1. /\ c.op = "drop_trigger" => PhaseOf(c) = 3
        /\ c.op = "drop_policy" => PhaseOf(c) = 5
        /\ c.op = "drop_view" => PhaseOf(c) = 6
        /\ c.op = "drop_constraint" => PhaseOf(c) \in {7, 8}
        /\ c.op = "drop_index" => PhaseOf(c) = 9
    BY DropPhases
  <2> QED
    BY <2>1
<1>3. c.op \notin {"create_table", "drop_table", "drop_column", "regenerate_column",
                  "make_serial", "drop_serial", "add_identity", "drop_identity",
                  "set_identity_kind"}
  <2>1. c.op = "create_table" => PhaseOf(c) = 11
    BY DropPhases
  <2>2. /\ c.op = "make_serial" => PhaseOf(c) = 12
        /\ c.op = "drop_serial" => PhaseOf(c) = 12
        /\ c.op = "add_identity" => PhaseOf(c) = 12
        /\ c.op = "drop_identity" => PhaseOf(c) = 12
        /\ c.op = "set_identity_kind" => PhaseOf(c) = 12
        /\ c.op = "regenerate_column" => PhaseOf(c) = 12
        /\ c.op = "drop_column" => PhaseOf(c) = 13
        /\ c.op = "drop_table" => PhaseOf(c) = 14
    BY OriginPhases
  <2> QED
    BY <2>1, <2>2
<1>4. c.op \notin {"add_column", "alter_column_type", "set_not_null", "drop_not_null",
                  "set_column_visibility", "set_default", "drop_default"}
  <2>1. /\ c.op = "add_column" => PhaseOf(c) = 12
        /\ c.op = "alter_column_type" => PhaseOf(c) = 12
        /\ c.op = "set_not_null" => PhaseOf(c) = 12
        /\ c.op = "drop_not_null" => PhaseOf(c) = 12
        /\ c.op = "set_column_visibility" => PhaseOf(c) = 12
        /\ c.op = "set_default" => PhaseOf(c) = 12
        /\ c.op = "drop_default" => PhaseOf(c) = 12
    BY FacetPhases
  <2> QED
    BY <2>1
<1>5. c.op \notin {"add_constraint", "create_index", "create_view", "create_function",
                  "create_trigger", "set_trigger_mode"}
  <2>1. /\ c.op = "add_constraint" => PhaseOf(c) \in {15, 17}
        /\ c.op = "create_index" => PhaseOf(c) = 16
        /\ c.op = "create_view" => PhaseOf(c) \in {19, 20}
        /\ c.op = "create_function" => PhaseOf(c) = 21
        /\ c.op = "create_trigger" => PhaseOf(c) = 22
        /\ c.op = "set_trigger_mode" => PhaseOf(c) = 23
    BY AddPhases
  <2> QED
    BY <2>1
<1>6. c.op \notin RlsOps \cup {"create_policy", "drop_function", "drop_sequence", "drop_enum",
                               "drop_extension", "drop_schema"}
  <2>1. /\ c.op = "enable_rls" => PhaseOf(c) = 25
        /\ c.op = "disable_rls" => PhaseOf(c) = 25
        /\ c.op = "force_rls" => PhaseOf(c) = 25
        /\ c.op = "unforce_rls" => PhaseOf(c) = 25
        /\ c.op = "create_policy" => PhaseOf(c) = 25
        /\ c.op = "drop_function" => PhaseOf(c) \in {4, 26}
        /\ c.op = "drop_sequence" => PhaseOf(c) = 26
        /\ c.op = "drop_enum" => PhaseOf(c) = 26
        /\ c.op = "drop_extension" => PhaseOf(c) = 26
        /\ c.op = "drop_schema" => PhaseOf(c) = 27
    BY LatePhases
  <2> QED
    BY <2>1 DEF RlsOps
<1>7. ~Wide(c)
  BY <1>1, <1>2, <1>3, <1>4, <1>5, <1>6 DEF Wide, HasOpaqueDependencies
<1>8. c.op \in SequenceOps
  BY <1>1, <1>2, <1>3, <1>4, <1>5, <1>6, <1>7 DEF Narrow, EnumOps, NarrowOps
<1> QED
  BY <1>6, <1>8 DEF SequenceOps

LEMMA PairedChange ==
  ASSUME NEW s, Offered(s), NEW t, Within(t), NEW all, NEW fl, NEW allow \in BOOLEAN,
         NEW c, Wants(c, s, t, all), NEW n
  PROVE  Paired(OfPhase(c, n, fl, allow))
<1> DEFINE p == OfPhase(c, n, fl, allow)
<1>1. IsSeq(p) /\ \A st \in ToSet(p) : Serves(st, n, s, t, fl, allow, all)
  BY OfPhaseServes
<1>2. p = <<>> => Paired(p)
  <2>1. DOMAIN <<>> = {}
    OBVIOUS
  <2> HIDE DEF p
  <2> QED
    BY <1>1, <2>1 DEF Paired
<1>3. n = 10 => p = <<>> \/ (PhaseOf(c) = 10 /\ p = Statements(c, fl))
  BY DEF OfPhase, Rendered, NewTableFks, NewTableRls
<1>4. Wide(c) \/ Narrow(c)
  BY WideOrNarrow
<1> SUFFICES Paired(p)
  OBVIOUS
<1> HIDE DEF p
<1>5. CASE n # 10
  <2>1. \A st \in ToSet(p) : st.do # "resize"
    BY <1>1, <1>5 DEF Serves
  <2>2. \A i \in DOMAIN p : p[i].do # "resize"
    BY <2>1 DEF ToSet
  <2> QED
    BY <1>1, <2>2 DEF Paired
<1>6. CASE PhaseOf(c) = 10 /\ p = Statements(c, fl)
  <2>1. c.op \in {"create_sequence", "alter_sequence"}
    BY <1>4, <1>6, SequencePhase
  <2>2. CASE c.op = "create_sequence"
    <3>1. Statements(c, fl) = EnsureSql(c)
      BY <2>2, DropPhases
    <3>2. p = <<Stmt("ensure", c.on, One(c.on, c.to))>>
      BY <1>6, <3>1 DEF EnsureSql
    <3>3. DOMAIN p = {1} /\ p[1] = Stmt("ensure", c.on, One(c.on, c.to))
      BY <3>2
    <3>4. p[1].do = "ensure"
      BY <3>3 DEF Stmt
    <3> QED
      BY <1>1, <3>3, <3>4 DEF Paired
  <2>3. CASE c.op = "alter_sequence"
    <3>1. Statements(c, fl) = AlterSequenceSql(c)
      BY <2>3, DropPhases
    <3>2. p = <<Stmt("clamp", c.on, c.to), Stmt("resize", c.on, c.to)>>
      BY <1>6, <3>1 DEF AlterSequenceSql
    <3>3. DOMAIN p = {1, 2} /\ p[1] = Stmt("clamp", c.on, c.to) /\ p[2] = Stmt("resize", c.on, c.to)
      BY <3>2
    <3>4. p[1].do = "clamp" /\ SameBounds(p[1], p[2])
      BY <3>3 DEF Stmt, SameBounds
    <3> QED
      BY <1>1, <3>3, <3>4 DEF Paired
  <2> QED
    BY <2>1, <2>2, <2>3
<1> QED
  BY <1>2, <1>3, <1>5, <1>6

LEMMA PairedPhase ==
  ASSUME NEW s, Offered(s), NEW t, Within(t), NEW all, NEW fl, NEW allow \in BOOLEAN,
         NEW plan, IsSeq(plan), \A c \in ToSet(plan) : Wants(c, s, t, all), NEW n
  PROVE  Paired(InPhase(plan, n, fl, allow))
<1> DEFINE m == InPhaseOf(plan, n, fl, allow)
<1>1. InPhase(plan, n, fl, allow) = FlattenSeq(m)
  BY DEF InPhase, Each, InPhaseOf, OfPhase
<1>2. Len(plan) \in Nat /\ DOMAIN plan = 1..Len(plan)
  BY SeqDomain
<1>3. DOMAIN m = DOMAIN plan /\ \A i \in DOMAIN plan : m[i] = OfPhase(plan[i], n, fl, allow)
  BY DEF InPhaseOf
<1>4. IsSeq(m)
  <2>1. m \in Seq({m[i] : i \in 1..Len(plan)})
    BY <1>2, <1>3 DEF InPhaseOf
  <2> HIDE DEF m
  <2> QED
    BY <2>1 DEF IsSeq
<1>5. \A i \in DOMAIN plan : plan[i] \in ToSet(plan)
  BY DEF ToSet
<1>6. \A i \in DOMAIN plan : Paired(OfPhase(plan[i], n, fl, allow))
  BY <1>5, PairedChange
<1> HIDE DEF m
<1> QED
  BY <1>1, <1>3, <1>4, <1>6, PairedFlatten

LEMMA PairedEmit ==
  ASSUME NEW s, Offered(s), NEW t, Within(t), NEW all, NEW fl, NEW allow \in BOOLEAN,
         NEW plan, IsSeq(plan), Some(plan), \A c \in ToSet(plan) : Wants(c, s, t, all)
  PROVE  Paired(Emit(plan, fl, allow))
<1> DEFINE u == InPhase(plan, 0, fl, allow)
           m == [n \in 1..26 |-> InPhase(plan, 2 + n - 1, fl, allow)]
           v == Phases(plan, 2, 27, fl, allow)
<1>1. Paired(u) /\ \A n \in 1..26 : Paired(InPhase(plan, 2 + n - 1, fl, allow))
  BY PairedPhase
<1>2. v = FlattenSeq(m)
  <2>1. 27 - 2 + 1 = 26
    OBVIOUS
  <2> QED
    BY <2>1 DEF Phases
<1>3. IsSeq(m) /\ DOMAIN m = 1..26
  <2>1. m \in Seq({m[n] : n \in 1..26}) /\ DOMAIN m = 1..26
    OBVIOUS
  <2> HIDE DEF m
  <2> QED
    BY <2>1 DEF IsSeq
<1>4. \A n \in DOMAIN m : Paired(m[n])
  BY <1>1
<1> HIDE DEF m
<1>5. Paired(v)
  BY <1>2, <1>3, <1>4, PairedFlatten
<1>6. Paired(<<Begin>>) /\ Paired(<<Commit>>)
  <2>1. \A a : a.do # "resize" => Paired(<<a>>)
    <3> SUFFICES ASSUME NEW a, a.do # "resize" PROVE Paired(<<a>>)
      OBVIOUS
    <3>1. DOMAIN <<a>> = {1} /\ <<a>>[1] = a
      OBVIOUS
    <3>2. IsSeq(<<a>>)
      BY Listed
    <3> QED
      BY <3>1, <3>2 DEF Paired
  <2> QED
    BY <2>1 DEF Begin, Commit, Stmt
<1>7. Emit(plan, fl, allow) = ((u \o <<Begin>>) \o v) \o <<Commit>>
  BY DEF Emit, LastPhase, Some
<1> HIDE DEF u, v
<1> QED
  BY <1>1, <1>5, <1>6, <1>7, PairedJoin

(* What is left of a script finds the counters it moves, and those it bounds *)
(* within the new bounds: just moved, or about to be.                        *)
Counts == {"clamp", "resize"}
Paced(scr, d) ==
  \A i \in DOMAIN scr :
    /\ scr[i].do \in Counts => scr[i].on \in DOMAIN d
    /\ scr[i].do = "resize" /\ i = 1 =>
         d[scr[1].on].last \in scr[1].with.min..scr[1].with.max
    /\ scr[i].do = "resize" /\ i # 1 => i - 1 \in DOMAIN scr /\ SameBounds(scr[i - 1], scr[i])

ClampInv == phase = "run" => Paced(script, db)

LEMMA PacedAtFirst ==
  ASSUME NEW c \in Cases, NEW d, IsDatabase(d)
  PROVE  LET s == Introspect(c.source, c.flavor)
             p == Diff(s, Introspect(d, c.flavor), c.flavor)
         IN  Some(p) => Paced(Emit(p, c.flavor, c.allow), d)
<1> DEFINE fl == c.flavor  allow == c.allow
           s == Introspect(c.source, fl)
           t == Introspect(d, fl)
           p == Diff(s, t, fl)
           scr == Emit(p, fl, allow)
           all == ToSet(p)
<1> SUFFICES ASSUME Some(p) PROVE Paced(scr, d)
  OBVIOUS
<1>1. /\ Offered(s) /\ Within(t) /\ IsSeq(p)
      /\ \A x \in ToSet(p) : Wants(x, s, t, all)
      /\ \E ph : Phased(scr, ph, s, t, fl, allow, all)
  BY ScriptServes
<1>2. allow \in BOOLEAN
  BY CaseIs
<1>3. DOMAIN t \subseteq DOMAIN d
  BY ReadShape
<1> HIDE DEF s, t, fl, allow, p, all
<1>4. Paired(scr)
  BY <1>1, <1>2, PairedEmit
<1>5. PICK ph : Phased(scr, ph, s, t, fl, allow, all)
  BY <1>1
<1> HIDE DEF scr
<1>6. DOMAIN scr = 1..Len(scr) /\ Len(scr) \in Nat
  BY <1>4, SeqDomain DEF Paired
<1>7. ASSUME NEW i \in DOMAIN scr, scr[i].do \in Counts PROVE scr[i].on \in DOMAIN d
  <2>1. scr[i] # Begin /\ scr[i] # Commit
    BY <1>7 DEF Counts, Begin, Commit, Stmt
  <2>2. Serves(scr[i], ph[i], s, t, fl, allow, all)
    BY <1>5, <2>1 DEF Phased
  <2> QED
    BY <1>3, <1>7, <2>2 DEF Serves, Counts
<1>8. ASSUME NEW i \in DOMAIN scr, scr[i].do = "resize"
      PROVE  i # 1 /\ i - 1 \in DOMAIN scr /\ SameBounds(scr[i - 1], scr[i])
  <2>1. i - 1 \in DOMAIN scr /\ SameBounds(scr[i - 1], scr[i])
    BY <1>4, <1>8 DEF Paired
  <2>2. i # 1
    BY <1>6, <2>1
  <2> QED
    BY <2>1, <2>2
<1> QED
  BY <1>7, <1>8 DEF Paced

(* Until their own phase no statement drops a sequence. *)
LEMMA SequenceStays ==
  ASSUME NEW d, IsDatabase(d), Apart(d), NEW st, NEW n \in Nat, n <= 10,
         NEW s, NEW t, NEW fl, NEW allow, NEW all, Serves(st, n, s, t, fl, allow, all),
         NEW flv, Accepts(d, st, flv), NEW o \in DOMAIN d, o[1] = "sequence"
  PROVE  o \in DOMAIN Effect(d, st)
<1> DEFINE e == Effect(d, st)
<1>1. StmtOK(st) /\ (st.do \in Drops => n > 10 \/ st.on[1] \in Deparsed)
  BY DEF Serves
<1>2. AllTouched(d, e, st)
  BY <1>1, EffectTouches
<1> HIDE DEF e
<1>3. Touched(o, d, e, st)
  BY <1>2 DEF AllTouched
<1>4. ASSUME Gone(o, d, e, st) PROVE FALSE
  <2>1. st.on[1] \in Deparsed /\ st.on \in DOMAIN d
    BY <1>1, <1>4 DEF Gone
  <2>2. CASE o = st.on
    BY <2>1, <2>2 DEF Deparsed
  <2>3. CASE o \in Closure(d, st.on) /\ o # st.on /\ st.on[1] \in {"table", "view", "column"}
    <3>1. st.on[1] = "view"
      BY <2>1, <2>3 DEF Deparsed
    <3>2. Len(o) = 4
      BY <2>1, <2>3, <3>1, ViewClosure
    <3>3. o \in Identifiers
      BY InDatabase
    <3>4. Len(o) = 3
      BY <3>3, IdShape DEF Things
    <3> QED
      BY <3>2, <3>4
  <2>4. CASE o[1] = "constraint"
    BY <2>4
  <2> QED
    BY <1>4, <2>2, <2>3, <2>4 DEF Gone
<1>5. o \in DOMAIN e
  BY <1>3, <1>4 DEF Touched, Made, Tight, AlteredAs
<1> QED
  BY <1>5 DEF e

(* A counter moved into new bounds is within them. *)
LEMMA MovedWithin ==
  ASSUME NEW d, NEW st, StmtOK(st), st.do = "clamp", IsDatabase(d), st.on \in DOMAIN d
  PROVE  /\ st.on \in DOMAIN Effect(d, st)
         /\ Effect(d, st)[st.on].last \in st.with.min..st.with.max
<1> DEFINE k == st.on  v == d[k]  w == st.with
<1>1. k[1] = "sequence" /\ IsRange(w)
  BY DEF StmtOK, IdentityDos
<1>2. IsSequence(k, v)
  BY <1>1, InDatabase DEF IsValue
<1>3. v.last \in Int /\ w.min \in Int /\ w.max \in Int /\ w.min <= w.max
  BY <1>1, <1>2 DEF IsSequence, InBounds, IsRange
<1>4. Clamped(v, w) \in w.min..w.max
  BY <1>3 DEF Clamped
<1>5. Effect(d, st) = [d EXCEPT ![k].last = Clamped(v, w)]
  BY DEF Effect
<1>6. v = [min |-> v.min, max |-> v.max, owner |-> v.owner, last |-> v.last, kept |-> v.kept]
  BY <1>2 DEF IsSequence
<1>7. d = [o \in DOMAIN d |-> d[o]]
  BY DEF IsDatabase
<1>8. Effect(d, st)[k] = [v EXCEPT !.last = Clamped(v, w)] /\ k \in DOMAIN Effect(d, st)
  BY <1>5, <1>7
<1>9. [v EXCEPT !.last = Clamped(v, w)].last = Clamped(v, w)
  BY <1>6
<1> QED
  BY <1>4, <1>8, <1>9

LEMMA PacedTail ==
  ASSUME NEW scr, NEW ph, NEW s, NEW t, NEW fl, NEW allow, NEW all,
         Phased(scr, ph, s, t, fl, allow, all), ph[1] # 28, NEW d, Paced(scr, d),
         NEW e,
         \A o : (/\ \E i \in DOMAIN scr : scr[i].do \in Counts /\ scr[i].on = o
                 /\ ph[1] <= 10) => o \in DOMAIN e,
         scr[1].do = "clamp" => e[scr[1].on].last \in scr[1].with.min..scr[1].with.max
  PROVE  Paced(Tail(scr), e)
<1> DEFINE more == Tail(scr)  n == Len(scr) - 1
<1>1. /\ n \in Nat /\ DOMAIN more = 1..n
      /\ \A i \in 1..n : more[i] = scr[i + 1] /\ i + 1 \in DOMAIN scr /\ ph[1] <= ph[i + 1]
  BY PhasedTail
<1> HIDE DEF more, n
<1> SUFFICES ASSUME NEW i \in 1..n
             PROVE  /\ more[i].do \in Counts => more[i].on \in DOMAIN e
                    /\ more[i].do = "resize" /\ i = 1 =>
                         e[more[1].on].last \in more[1].with.min..more[1].with.max
                    /\ more[i].do = "resize" /\ i # 1 =>
                         i - 1 \in DOMAIN more /\ SameBounds(more[i - 1], more[i])
  BY <1>1 DEF Paced, more
<1>2. more[i] = scr[i + 1] /\ i + 1 \in DOMAIN scr /\ ph[1] <= ph[i + 1] /\ (i + 1) - 1 = i /\ i + 1 # 1
  BY <1>1
<1>3. scr[i + 1].do = "resize" => i \in DOMAIN scr /\ SameBounds(scr[i], scr[i + 1])
  BY <1>2 DEF Paced
<1>4. ASSUME more[i].do \in Counts PROVE more[i].on \in DOMAIN e
  <2>1. scr[i + 1] # Begin /\ scr[i + 1] # Commit
    BY <1>2, <1>4 DEF Counts, Begin, Commit, Stmt
  <2>2. Serves(scr[i + 1], ph[i + 1], s, t, fl, allow, all)
    BY <1>2, <2>1 DEF Phased
  <2>3. ph[i + 1] = 10
    BY <1>2, <1>4, <2>2 DEF Serves, Counts
  <2> QED
    BY <1>2, <1>4, <2>3
<1>5. ASSUME more[i].do = "resize", i = 1
      PROVE  e[more[1].on].last \in more[1].with.min..more[1].with.max
  <2>1. SameBounds(scr[1], more[1])
    BY <1>2, <1>3, <1>5
  <2> QED
    BY <2>1 DEF SameBounds
<1>6. ASSUME more[i].do = "resize", i # 1
      PROVE  i - 1 \in DOMAIN more /\ SameBounds(more[i - 1], more[i])
  <2>1. i - 1 \in 1..n /\ (i - 1) + 1 = i
    BY <1>1, <1>6
  <2>2. more[i - 1] = scr[i]
    BY <1>1, <2>1
  <2> QED
    BY <1>1, <1>2, <1>3, <1>6, <2>1, <2>2
<1> QED
  BY <1>4, <1>5, <1>6

LEMMA ClampNext ==
  ASSUME Inv, GateInv, ClampInv, [Next]_vars
  PROVE  ClampInv'
<1> SUFFICES ASSUME phase' = "run" PROVE Paced(script', db')
  BY DEF ClampInv
<1>1. CASE Compared
  <2>1. /\ db' = db /\ case \in Cases /\ IsDatabase(db)
        /\ Some(PlanFrom(db)) /\ script' = Emit(PlanFrom(db), case.flavor, case.allow)
    BY <1>1 DEF Compared, Some, Inv, TypeOK
  <2>2. Paced(Emit(PlanFrom(db), case.flavor, case.allow), db)
    BY <2>1, PacedAtFirst DEF PlanFrom, Source
  <2> QED
    BY <2>1, <2>2
<1>2. ASSUME phase = "run"
      PROVE  \E t, all, ph : Phased(script, ph, Source, t, case.flavor, case.allow, all)
  BY <1>2 DEF Inv, Running
<1>3. IsDatabase(db) /\ Apart(db)
  BY DEF Inv, TypeOK, GateInv
<1>4. CASE BeginTx
  <2>1. /\ phase = "run" /\ Head(script).do = "begin" /\ db' = db /\ script' = Tail(script)
    BY <1>4 DEF BeginTx
  <2>2. Paced(script, db)
    BY <2>1 DEF ClampInv
  <2>3. PICK t, all, ph : Phased(script, ph, Source, t, case.flavor, case.allow, all)
    BY <1>2, <2>1
  <2>4. ph[1] # 28 /\ script[1].do # "clamp"
    <3>1. Head(script) = script[1] /\ (script[1].do = "commit" <=> ph[1] = 28)
      BY <2>3, PhasedHead
    <3> QED
      BY <2>1, <3>1
  <2>5. Paced(Tail(script), db)
    <3>1. \A o : (\E i \in DOMAIN script : script[i].do \in Counts /\ script[i].on = o)
                   => o \in DOMAIN db
      BY <2>2 DEF Paced
    <3> QED
      BY <2>2, <2>3, <2>4, <3>1, PacedTail
  <2> QED
    BY <2>1, <2>5
<1>5. CASE Execute
  <2> DEFINE st == script[1]  e == Effect(db, st)
  <2>1. /\ phase = "run" /\ Head(script).do \notin {"begin", "commit"}
        /\ Accepts(db, Head(script), case.flavor) /\ db' = Effect(db, Head(script))
        /\ script' = Tail(script)
    BY <1>5 DEF Execute
  <2>2. Paced(script, db)
    BY <2>1 DEF ClampInv
  <2>3. PICK t, all, ph : Phased(script, ph, Source, t, case.flavor, case.allow, all)
    BY <1>2, <2>1
  <2>4. /\ Head(script) = st /\ 1 \in DOMAIN script /\ ph[1] \in 0..28 /\ ph[1] \notin {1, 28}
        /\ Serves(st, ph[1], Source, t, case.flavor, case.allow, all) /\ StmtOK(st)
    <3>1. /\ Head(script) = st /\ 1 \in DOMAIN script /\ ph[1] \in 0..28
          /\ (st.do = "begin" <=> ph[1] = 1) /\ (st.do = "commit" <=> ph[1] = 28)
          /\ ph[1] \notin {1, 28} =>
               Serves(st, ph[1], Source, t, case.flavor, case.allow, all) /\ StmtOK(st)
      BY <2>3, PhasedHead
    <3> QED
      BY <2>1, <3>1
  <2>5. Accepts(db, st, case.flavor) /\ db' = e
    BY <2>1, <2>4
  <2>6. ASSUME NEW i \in DOMAIN script, script[i].do \in Counts, ph[1] <= 10
        PROVE  script[i].on \in DOMAIN e
    <3>1. script[i].on \in DOMAIN db
      BY <2>2, <2>6 DEF Paced
    <3>2. script[i].on[1] = "sequence"
      <4>1. script[i] # Begin /\ script[i] # Commit
        BY <2>6 DEF Counts, Begin, Commit, Stmt
      <4>2. StmtOK(script[i])
        BY <2>3, <2>6, <4>1 DEF Phased, Serves
      <4> QED
        BY <2>6, <4>2 DEF StmtOK, Counts, IdentityDos
    <3>3. ph[1] \in Nat
      BY <2>4
    <3> HIDE DEF st
    <3> QED
      BY <1>3, <2>4, <2>5, <2>6, <3>1, <3>2, <3>3, SequenceStays
  <2>7. ASSUME st.do = "clamp"
        PROVE  e[st.on].last \in st.with.min..st.with.max
    <3>1. st.on \in DOMAIN db
      BY <2>2, <2>4, <2>7 DEF Paced, Counts
    <3> HIDE DEF st
    <3> QED
      BY <1>3, <2>4, <2>7, <3>1, MovedWithin
  <2> HIDE DEF e
  <2>8. Paced(Tail(script), e)
    <3>1. \A o : (/\ \E i \in DOMAIN script : script[i].do \in Counts /\ script[i].on = o
                  /\ ph[1] <= 10) => o \in DOMAIN e
      BY <2>6
    <3> QED
      BY <2>2, <2>3, <2>4, <2>7, <3>1, PacedTail
  <2> QED
    BY <2>1, <2>5, <2>8
<1>6. CASE CommitTx \/ Refuse \/ Lose
  BY <1>6 DEF CommitTx, Refuse, Lose
<1>7. CASE UNCHANGED vars
  BY <1>7 DEF vars, ClampInv
<1> QED
  BY <1>1, <1>4, <1>5, <1>6, <1>7 DEF Next

(* ClampStrandsNothing: sequence_alter_sql moves the counter and then the    *)
(* bounds.  No earlier phase drops the sequence, the move comes right before *)
(* the bounds whatever else the plan holds, and new bounds that overlap the  *)
(* old ones have room for the counter: only disjoint ones are refused.       *)
THEOREM BoundsFollow == Spec => []ClampStrandsNothing
<1>1. Init => LabelInv /\ GateInv /\ ClampInv
  <2> SUFFICES ASSUME Init PROVE LabelInv /\ GateInv /\ ClampInv
    OBVIOUS
  <2>1. phase = "compare" /\ db = case.target /\ saved = case.target /\ case \in Cases
    BY DEF Init
  <2>2. Apart(case.target)
    BY <2>1, CasesAssumption DEF Apart
  <2> QED
    BY <2>1, <2>2 DEF LabelInv, GateInv, ClampInv
<1>2. Inv /\ LabelInv /\ GateInv /\ ClampInv /\ [Next]_vars => LabelInv' /\ GateInv' /\ ClampInv'
  BY LabelNext, GateNext, ClampNext
<1>3. ASSUME Inv, ClampInv PROVE ClampStrandsNothing
  <2> DEFINE st == Head(script)  k == st.on  seq == db[k]  new == st.with
  <2> SUFFICES ASSUME Resisted, st.do \in {"clamp", "resize"}
               PROVE  /\ st.do = "clamp" /\ k \in DOMAIN db
                      /\ seq.max < new.min \/ new.max < seq.min
    BY DEF ClampStrandsNothing
  <2>1. phase = "run" /\ ~Accepts(db, st, case.flavor) /\ Paced(script, db) /\ IsDatabase(db)
    BY <1>3 DEF Resisted, ClampInv, Inv, TypeOK
  <2>2. PICK t, all, ph : Phased(script, ph, Source, t, case.flavor, case.allow, all)
    BY <1>3, <2>1 DEF Inv, Running
  <2>3. st = script[1] /\ 1 \in DOMAIN script /\ StmtOK(st)
    <3>1. /\ st = script[1] /\ 1 \in DOMAIN script
          /\ (script[1].do = "begin" <=> ph[1] = 1) /\ (script[1].do = "commit" <=> ph[1] = 28)
          /\ ph[1] \notin {1, 28} => StmtOK(script[1])
      BY <2>2, PhasedHead
    <3> QED
      BY <3>1
  <2>4. /\ k \in DOMAIN db
        /\ st.do = "resize" => seq.last \in new.min..new.max
    BY <2>1, <2>3 DEF Paced, Counts
  <2>5. st.do = "clamp"
    BY <2>1, <2>4 DEF Accepts
  <2>6. Clamped(seq, new) \notin seq.min..seq.max
    BY <2>1, <2>4, <2>5 DEF Accepts
  <2>7. k[1] = "sequence" /\ IsRange(new)
    BY <2>3, <2>5 DEF StmtOK, IdentityDos
  <2>8. IsSequence(k, seq)
    BY <2>1, <2>4, <2>7, InDatabase DEF IsValue
  <2>9. /\ {seq.min, seq.max, seq.last, new.min, new.max} \subseteq Int
        /\ seq.min <= seq.last /\ seq.last <= seq.max /\ new.min <= new.max
    BY <2>7, <2>8 DEF IsSequence, InBounds, IsRange
  <2>10. seq.max < new.min \/ new.max < seq.min
    BY <2>6, <2>9 DEF Clamped
  <2> QED
    BY <2>4, <2>5, <2>10
<1> QED
  BY <1>1, <1>2, <1>3, Invariance, PTL DEF Spec

=============================================================================
