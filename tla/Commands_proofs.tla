-------------------------- MODULE Commands_proofs ---------------------------
(***************************************************************************)
(* Proofs about Commands: whatever the sides, the flags, the tools and the *)
(* answers are, a strict command fails closed, exit 0 means what the       *)
(* checkers were asked, every database is in one procedure's hands, and    *)
(* the checkers look at what they are to judge.                            *)
(*                                                                         *)
(* A frame is counted from the command at the bottom of the stack: a step  *)
(* touches the topmost frame or two, and nothing below them moves.         *)
(***************************************************************************)
EXTENDS Commands, FiniteSetTheorems, SequenceTheorems, WellFoundedInduction, TLAPS

Places ==
  {"start", "target", "compare", "loaded", "filled", "scratched", "bootstrap",
   "sane", "replica", "created", "dispose", "rediff", "comparable", "checked",
   "flyable", "flying", "external", "outside", "finish", "waits", "calling",
   "reviewed", "verified", "scanned", "asked", "confirmed", "refreshed", "execute",
   "residual", "release"}

Abouts == Roles \cup {"all", "sides", "review", "scan"}

Frames == [proc : Procedures, about : Abouts, at : Places,
           owns : SUBSET Roles, tries : Nat]

(* The frame k places above the command. *)
Up(k) == stack[Len(stack) - k]

(* Where caller waits, at place, for callee, which is about something. *)
CallSite(caller, place, callee, about) ==
  \/ /\ callee = "load" /\ about = "sides" /\ caller \in Commands
     /\ place = "loaded" \/ (caller = "cmd_apply" /\ place = "refreshed")
  \/ /\ callee = "ai" /\ caller \in Commands
     /\ \/ about = "review" /\ place = "reviewed"
        \/ /\ about = "scan" /\ place = "scanned"
           /\ caller \in {"cmd_verify", "cmd_apply"}
  \/ /\ callee = "verify" /\ about = "sides"
     /\ caller = "cmd_verify" /\ place = "verified"
  \/ /\ callee = "resolve" /\ caller = "load"
     /\ \/ about = "source" /\ place = "target"
        \/ about = "target" /\ place = "compare"
  \/ /\ callee = "canonicalize" /\ about \in Abouts
     /\ \/ caller = "load" /\ place = "loaded"
        \/ caller = "verify" /\ place = "replica"
        \/ caller = "rehearse" /\ place \in {"sane", "rediff"}
        \/ caller = "materialize" /\ place = "sane"
        \/ caller = "cmd_apply" /\ place = "residual"
  \/ /\ callee = "rehearse" /\ about = "replica"
     /\ caller = "verify" /\ place = "dispose"
  \/ /\ callee = "materialize" /\ about = "source_replica"
     /\ \/ caller = "rehearse" /\ place = "comparable"
        \/ caller = "cmd_apply" /\ place = "compare"
  \/ /\ callee = "materialize" /\ about = "flyway_replica"
     /\ caller = "rehearse" /\ place = "flyable"
  \/ /\ callee = "checks" /\ about \in Abouts
     /\ caller \in {"rehearse", "cmd_apply"} /\ place = "checked"

CallsNow(f, g) == CallSite(f.proc, f.at, g.proc, g.about)

(* The stack is one of the call chains of the code. *)
Shape ==
  /\ call \in Calls
  /\ stack \in Seq(Frames)
  /\ stack # <<>> => Up(0).proc = call.command
  /\ \A k \in 1..(Len(stack) - 1) : CallsNow(Up(k - 1), Up(k))
  /\ (stack = <<>>) <=> (exit # "running")
  /\ result \in Results /\ exit \in Exits
  /\ converged \in BOOLEAN /\ lease \in BOOLEAN

-----------------------------------------------------------------------------
(* What was asked of the reviewer, and what came of it. *)

Committed == {"refreshed", "execute", "residual", "compare", "checked",
              "scanned", "release"}

(* From the review on. *)
Approved == Committed \cup {"asked", "confirmed"}

ReviewsGenuine ==
  /\ DOMAIN reviews \subseteq {"review", "scan"}
  /\ \A a \in DOMAIN reviews : reviews[a].approved => ApprovedIn(a)

Asked ==
  stack # <<>> =>
    /\ (Len(stack) = 1 /\ Up(0).at = "reviewed" /\ result = "ok"
          /\ (call.review \/ call.command = "cmd_review")) =>
         "review" \in DOMAIN reviews
    /\ (Len(stack) = 1 /\ Up(0).at = "scanned" /\ result = "ok" /\ call.scan) =>
         "scan" \in DOMAIN reviews
    /\ (call.command = "cmd_verify" /\ Up(0).at = "reviewed" /\ call.scan) =>
         "scan" \in DOMAIN reviews
    /\ "scan" \in DOMAIN reviews =>
         \/ call.command = "cmd_verify" /\ Up(0).at \in {"scanned", "reviewed"}
         \/ call.command = "cmd_apply" /\ Up(0).at \in {"scanned", "release"}
    /\ (call.command = "cmd_apply" /\ Up(0).at \in Approved) =>
         (call.strict /\ call.review => ApprovedIn("review"))
    /\ (call.command = "cmd_apply" /\ Up(0).at \in Committed) =>
         (call.flavors["source"] = "postgres" => lease)

(* What an exit with 0 owes to the reviewer. *)
ExitClosed ==
  (call.strict /\ exit = "0") =>
    /\ call.review /\ call.command \in {"cmd_diff", "cmd_verify"} =>
         ApprovedIn("review")
    /\ call.command = "cmd_review" => ApprovedIn("review")
    /\ call.scan /\ call.command = "cmd_verify" => ApprovedIn("scan")
    /\ "scan" \in DOMAIN reviews => ApprovedIn("scan")

AskInv == ReviewsGenuine /\ Asked /\ ExitClosed

-----------------------------------------------------------------------------
(* What the checkers were asked, and what they reported. *)

DiffsDone == \A t \in ToSet(DiffTools) : Wanted(t) => t \in DOMAIN reports
FlywayDone == Wanted("flyway") => "flyway" \in DOMAIN reports
ExternalDone == call.external => "external" \in DOMAIN reports
NoSource == "source-replica" \in DOMAIN reports /\ ~reports["source-replica"].agreed
Complete == NoSource \/ (DiffsDone /\ FlywayDone /\ ExternalDone)

ReportsHonest ==
  /\ DOMAIN reports \subseteq Tools \cup {"external", "source-replica"}
  /\ \A t \in DOMAIN reports : reports[t].agreed => reports[t].success
  /\ "source-replica" \in DOMAIN reports => ~reports["source-replica"].agreed

(* How far a rehearsal has come. *)
DoneBy(place) ==
  /\ place \in {"flyable", "flying", "external", "outside", "finish"} => DiffsDone
  /\ place \in {"external", "outside", "finish"} => FlywayDone
  /\ place = "finish" => ExternalDone

RehearsedSoFar(f) == f.proc = "rehearse" => DoneBy(f.at)

CheckedSoFar ==
  stack # <<>> =>
    /\ (stack[1].at = "checked" /\ stack[1].proc \in {"rehearse", "cmd_apply"}) =>
         DiffsDone
    /\ (stack[1].at = "waits" /\ stack[1].proc = "checks") => Pending # {}
    /\ (result = "ok" /\ stack[1].proc = "verify" /\ stack[1].at = "dispose") =>
         Complete
    /\ (result = "ok" /\ stack[1].proc = "cmd_verify" /\ stack[1].at = "verified") =>
         Complete
    /\ (call.command = "cmd_verify" /\ Up(0).at \in {"scanned", "reviewed"}) =>
         Complete
    /\ call.command = "cmd_apply" =>
         /\ Up(0).at = "scanned" => DiffsDone
         /\ Up(0).at = "release" =>
              DiffsDone \/ (call.sides["source"] # "url" /\ ~call.shadow)
         /\ Up(0).at \in {"start", "loaded", "reviewed", "asked", "confirmed",
                          "refreshed", "execute", "residual"} => ~converged

CheckInv ==
  /\ ReportsHonest
  /\ \A k \in 0..(Len(stack) - 1) : RehearsedSoFar(Up(k))
  /\ CheckedSoFar
  /\ ExitZeroMeans

-----------------------------------------------------------------------------
(* Who owns which database. *)

(* The roles a procedure may come to own. *)
Claims(proc, about) ==
  {role \in Roles :
    \/ role = about /\ proc \in {"resolve", "materialize"}
    \/ role = "scratch" /\ proc = "canonicalize"
    \/ role = "replica" /\ proc = "verify"
    \/ role = "source_replica" /\ proc \in {"rehearse", "cmd_apply"}
    \/ role = "flyway_replica" /\ proc = "rehearse"}

(* Those it owns, by where it stands; received says that what it called    *)
(* last has returned, and handed its database over.                        *)
Due(proc, about, at, received) ==
  {role \in Roles :
    \/ role = about /\ proc = "resolve" /\ at = "filled"
    \/ role = about /\ proc = "materialize" /\ at \in {"bootstrap", "sane"}
    \/ role = "scratch" /\ proc = "canonicalize" /\ at = "scratched"
    \/ role = "replica" /\ proc = "verify" /\ at \in {"created", "dispose"}
    \/ /\ role = "source_replica" /\ proc \in {"rehearse", "cmd_apply"}
       /\ call.sides["source"] # "url"
       /\ \/ at \in {"comparable", "compare"} /\ received
          \/ at \in {"checked", "scanned"}
          \/ /\ proc = "rehearse"
             /\ at \in {"flyable", "flying", "external", "outside", "finish"}
    \/ /\ role = "flyway_replica" /\ proc = "rehearse"
       /\ at = "flying" \/ (at = "flyable" /\ received)}

(* No procedure makes a replica of a source that is a database itself. *)
AwaitsReplica(proc, at) ==
  proc \in {"rehearse", "cmd_apply"} /\ at \in {"comparable", "compare"}

FrameOK(f, received) ==
  /\ f.owns = Due(f.proc, f.about, f.at, received)
  /\ AwaitsReplica(f.proc, f.at) => call.sides["source"] # "url"

Received(k) == k = Len(stack) - 1 /\ result = "ok"

Owners == \A k \in 0..(Len(stack) - 1) : FrameOK(Up(k), Received(k))

OpenRoles == {role \in Roles : \E s \in shadows : s.role = role /\ s.fate = "open"}

HeldRoles == {role \in Roles : \E k \in 0..(Len(stack) - 1) : role \in Up(k).owns}

HeldBelow == {role \in Roles : \E k \in 0..(Len(stack) - 2) : role \in Up(k).owns}

Databases ==
  [role : Roles, holds : {"nothing", "source", "target", "other", "partial"},
   fate : {"open", "kept", "undropped"}]

DatabasesOK ==
  /\ shadows \subseteq Databases
  /\ \A s, t \in shadows : (s.role = t.role /\ s.fate = "open" /\ t.fate = "open") => s = t
  /\ \A s \in shadows : s.fate = "kept" =>
       call.keep /\ s.role \notin {"scratch", "flyway_replica"}
  /\ \A s \in shadows : s.role = "orphan" => s = Open("orphan")

(* Every open database is held, but for the strays and what `create` lost. *)
Tight(strays) ==
  /\ HeldRoles \subseteq OpenRoles
  /\ OpenRoles \subseteq HeldRoles \cup strays \cup {"orphan"}

(* How the checks and the scan of `apply` have come back. *)
Returned ==
  (stack # <<>> /\ stack[1].proc = "cmd_apply") =>
    /\ stack[1].at = "checked" => result = "ok"
    /\ stack[1].at = "scanned" => result \in {"ok", "ai"}

Accounted(strays) == DatabasesOK /\ Owners /\ Returned /\ Tight(strays)

(* The two ways to forget a source replica, and how the command ends then. *)
Strays ==
  {role \in {"source_replica"} :
     \/ /\ call.command = "cmd_verify" /\ result = "external"
        /\ stack # <<>> =>
             \/ stack[1].proc = "verify" /\ stack[1].at = "dispose"
             \/ stack[1].proc = "cmd_verify" /\ stack[1].at = "verified"
     \/ call.command = "cmd_apply" /\ result = "ai" /\ stack = <<>>}

HoldInv == Accounted(Strays)

-----------------------------------------------------------------------------
(* What the databases hold. *)

SeesTheSides(f) ==
  /\ (f.proc \in {"rehearse", "cmd_apply"} /\ "source_replica" \in f.owns) =>
       Exists("source_replica", {"source"})
  /\ (f.proc = "rehearse" /\ "flyway_replica" \in f.owns) =>
       Exists("flyway_replica", {"target"})
  /\ ((f.proc = "verify" /\ f.at = "created") \/ (f.proc = "rehearse" /\ f.at = "start")) =>
       Exists("replica", {"nothing"})
  /\ (f.proc = "rehearse" /\ f.at = "rediff") => Exists("replica", {"source", "other"})
  /\ (f.proc = "rehearse" /\ f.at \in {"comparable", "checked", "flyable", "flying",
                                       "external", "outside", "finish"}) =>
       Exists("replica", IF converged THEN {"source"} ELSE {"other"})
  /\ (f.proc = "materialize" /\ f.at = "bootstrap") => Exists(f.about, {"nothing"})

SightInv == \A k \in 0..(Len(stack) - 1) : SeesTheSides(Up(k))

-----------------------------------------------------------------------------
(* What a step does to the stack, frame by frame. *)

(* The frames below the topmost are what they were. *)
Below == \A k \in 0..(Len(stack) - 2) : Up(k)' = Up(k)

(* The topmost procedure goes on at place, owning the given databases. *)
Moved(place, owned) ==
  /\ stack' \in Seq(Frames) /\ Len(stack') = Len(stack)
  /\ stack'[1].proc = stack[1].proc /\ stack'[1].about = stack[1].about
  /\ stack'[1].at = place /\ stack'[1].owns = owned
  /\ Below

Pushed(proc, about, place) ==
  /\ stack' \in Seq(Frames) /\ Len(stack') = Len(stack) + 1
  /\ stack'[1] = Frame(proc, about)
  /\ stack'[2].proc = stack[1].proc /\ stack'[2].about = stack[1].about
  /\ stack'[2].at = place /\ stack'[2].owns = stack[1].owns
  /\ Below

Popped ==
  /\ stack' \in Seq(Frames) /\ Len(stack') = Len(stack) - 1
  /\ Below

(* The procedure that is left has handed over what it owned. *)
Handed ==
  /\ stack' \in Seq(Frames) /\ Len(stack') = Len(stack) - 1
  /\ stack'[1].proc = stack[2].proc /\ stack'[1].about = stack[2].about
  /\ stack'[1].at = stack[2].at /\ stack'[1].owns = stack[2].owns \cup stack[1].owns
  /\ \A k \in 0..(Len(stack) - 3) : Up(k)' = Up(k)

(* The five fields of a frame. *)
LEMMA FrameFields ==
  ASSUME NEW f \in Frames
  PROVE  /\ f.proc \in Procedures /\ f.about \in Abouts /\ f.at \in Places
         /\ f.owns \in SUBSET Roles /\ f.tries \in Nat
BY DEF Frames

Puts(top) == stack' = [stack EXCEPT ![1] = top]

(* A new topmost frame, and nothing else. *)
LEMMA Replaces ==
  ASSUME stack \in Seq(Frames), stack # <<>>, NEW top \in Frames, Puts(top)
  PROVE  /\ stack' \in Seq(Frames) /\ Len(stack') = Len(stack) /\ stack'[1] = top
         /\ Below
<1>1. Len(stack) \in Nat /\ Len(stack) > 0 /\ 1 \in 1..Len(stack)
  BY EmptySeq
<1>2. /\ stack' \in Seq(Frames) /\ Len(stack') = Len(stack) /\ stack'[1] = top
      /\ \A i \in 2..Len(stack) : stack'[i] = stack[i]
  BY <1>1, ExceptSeq DEF Puts
<1>3. Below
  <2> SUFFICES ASSUME NEW k \in 0..(Len(stack) - 2) PROVE Up(k)' = Up(k)
    BY DEF Below
  <2>1. Len(stack) - k \in 2..Len(stack)
    BY <1>1
  <2>2. stack'[Len(stack) - k] = stack[Len(stack) - k]
    BY <2>1, <1>2
  <2>3. QED
    BY <2>2, <1>2 DEF Up
<1>4. QED
  BY <1>2, <1>3

LEMMA TopFrame ==
  ASSUME stack \in Seq(Frames), stack # <<>>
  PROVE  /\ stack[1] \in Frames /\ 1 \in DOMAIN stack /\ Head(stack) = stack[1]
         /\ stack[1].proc \in Procedures /\ stack[1].about \in Abouts
         /\ stack[1].at \in Places /\ stack[1].owns \in SUBSET Roles
         /\ stack[1].tries \in Nat
<1>1. Len(stack) \in Nat /\ Len(stack) > 0 /\ 1 \in 1..Len(stack)
  BY EmptySeq
<1>2. stack[1] \in Frames /\ DOMAIN stack = 1..Len(stack)
  BY <1>1, ElementOfSeq, LenProperties
<1>3. QED
  BY <1>1, <1>2, FrameFields

(* Goto. *)
LEMMA Goes ==
  ASSUME stack \in Seq(Frames), stack # <<>>, NEW place \in Places, Goto(place)
  PROVE  Moved(place, stack[1].owns)
<1> DEFINE top == [stack[1] EXCEPT !.at = place]
<1>1. stack' = [stack EXCEPT ![1] = top]
  BY TopFrame DEF Goto
<1>2. /\ top \in Frames /\ top.proc = stack[1].proc /\ top.about = stack[1].about
      /\ top.at = place /\ top.owns = stack[1].owns
  BY TopFrame DEF Frames
<1> HIDE DEF top
<1>3. QED
  BY <1>1, <1>2, Replaces DEF Moved, Puts

LEMMA Invokes ==
  ASSUME stack \in Seq(Frames), stack # <<>>, NEW place \in Places,
         NEW proc \in Procedures, NEW about \in Abouts, Invoke(proc, about, place)
  PROVE  Pushed(proc, about, place) /\ result' = "none"
<1> DEFINE top == [stack[1] EXCEPT !.at = place]
           went == [stack EXCEPT ![1] = top]
<1>1. stack' = <<Frame(proc, about)>> \o went /\ result' = "none"
  BY DEF Invoke
<1>2. Len(stack) \in Nat /\ Len(stack) > 0 /\ 1 \in 1..Len(stack)
  BY EmptySeq
<1>3. stack[1] \in Frames
  BY <1>2
<1>4. /\ top \in Frames /\ top.proc = stack[1].proc /\ top.about = stack[1].about
      /\ top.at = place /\ top.owns = stack[1].owns
  BY <1>3 DEF Frames
<1>5. Frame(proc, about) \in Frames
  BY DEF Frame, Frames, Places
<1> HIDE DEF top
<1>6. /\ went \in Seq(Frames) /\ Len(went) = Len(stack) /\ went[1] = top
      /\ \A i \in 2..Len(stack) : went[i] = stack[i]
  BY <1>1, <1>2, <1>4
<1> HIDE DEF went
<1>7. /\ stack' \in Seq(Frames) /\ Len(stack') = Len(stack) + 1
      /\ stack'[1] = Frame(proc, about)
      /\ \A i \in 1..Len(stack) : stack'[i + 1] = went[i]
  BY <1>1, <1>6, <1>5
<1>8. stack'[2] = top
  <2>1. stack'[1 + 1] = went[1]
    BY <1>7, <1>2
  <2>2. QED
    BY <2>1, <1>6
<1>9. Below
  <2> SUFFICES ASSUME NEW k \in 0..(Len(stack) - 2) PROVE Up(k)' = Up(k)
    BY DEF Below
  <2>1. Len(stack) - k \in 2..Len(stack)
    BY <1>2
  <2>2. stack'[(Len(stack) - k) + 1] = stack[Len(stack) - k]
    BY <2>1, <1>2, <1>6, <1>7
  <2>3. Len(stack') - k = (Len(stack) - k) + 1
    BY <1>7, <1>2
  <2>4. QED
    BY <2>2, <2>3 DEF Up
<1>10. QED
  BY <1>1, <1>4, <1>7, <1>8, <1>9 DEF Pushed

LEMMA Returns ==
  ASSUME stack \in Seq(Frames), stack # <<>>, NEW r, Return(r)
  PROVE  Popped /\ result' = r
<1>1. Len(stack) \in Nat /\ Len(stack) > 0
  BY EmptySeq
<1>2. /\ stack' \in Seq(Frames) /\ Len(stack') = Len(stack) - 1
      /\ \A i \in 1..(Len(stack) - 1) : stack'[i] = stack[i + 1]
  BY <1>1, HeadTailProperties DEF Return
<1>3. Below
  <2> SUFFICES ASSUME NEW k \in 0..(Len(stack) - 2) PROVE Up(k)' = Up(k)
    BY DEF Below
  <2>1. (Len(stack) - 1) - k \in 1..(Len(stack) - 1)
    BY <1>1
  <2>2. stack'[(Len(stack) - 1) - k] = stack[((Len(stack) - 1) - k) + 1]
    BY <2>1, <1>2
  <2>3. ((Len(stack) - 1) - k) + 1 = Len(stack) - k
    BY <1>1
  <2>4. QED
    BY <2>2, <2>3, <1>2 DEF Up
<1>4. QED
  BY <1>2, <1>3 DEF Return, Popped

LEMMA HandsOver ==
  ASSUME stack \in Seq(Frames), Len(stack) > 1, ReturnOwned
  PROVE  Handed /\ result' = "ok"
<1> DEFINE rest == Tail(stack)
           top == [rest[1] EXCEPT !.owns = @ \cup Head(stack).owns]
<1>1. Len(stack) \in Nat /\ stack # <<>> /\ Head(stack) = stack[1]
  BY EmptySeq
<1>2. /\ rest \in Seq(Frames) /\ Len(rest) = Len(stack) - 1
      /\ \A i \in 1..(Len(stack) - 1) : rest[i] = stack[i + 1]
  BY <1>1, HeadTailProperties
<1>3. stack' = [rest EXCEPT ![1] = top]
  BY DEF ReturnOwned
<1>4. rest[1] = stack[2] /\ rest[1] \in Frames /\ stack[1] \in Frames
  <2>1. 1 \in 1..(Len(stack) - 1) /\ 1 \in 1..Len(rest) /\ 1 \in 1..Len(stack)
    BY <1>1, <1>2
  <2>2. rest[1] = stack[1 + 1]
    BY <2>1, <1>2
  <2>3. QED
    BY <2>1, <2>2, <1>2, ElementOfSeq
<1>5. /\ top \in Frames /\ top.proc = stack[2].proc /\ top.about = stack[2].about
      /\ top.at = stack[2].at /\ top.owns = stack[2].owns \cup stack[1].owns
  BY <1>1, <1>4 DEF Frames
<1> HIDE DEF top
<1> HIDE DEF rest
<1>6. /\ stack' \in Seq(Frames) /\ Len(stack') = Len(stack) - 1 /\ stack'[1] = top
      /\ \A i \in 2..(Len(stack) - 1) : stack'[i] = rest[i]
  <2>1. 1 \in 1..Len(rest)
    BY <1>1, <1>2
  <2>2. QED
    BY <2>1, <1>1, <1>2, <1>3, <1>5, ExceptSeq
<1>7. \A k \in 0..(Len(stack) - 3) : Up(k)' = Up(k)
  <2> SUFFICES ASSUME NEW k \in 0..(Len(stack) - 3) PROVE Up(k)' = Up(k)
    OBVIOUS
  <2>1. (Len(stack) - 1) - k \in 2..(Len(stack) - 1)
    BY <1>1
  <2>2. stack'[(Len(stack) - 1) - k] = stack[((Len(stack) - 1) - k) + 1]
    BY <2>1, <1>1, <1>2, <1>6
  <2>3. ((Len(stack) - 1) - k) + 1 = Len(stack) - k
    BY <1>1
  <2>4. QED
    BY <2>2, <2>3, <1>6 DEF Up
<1>8. QED
  BY <1>5, <1>6, <1>7 DEF Handed, ReturnOwned

(* The stack of a Create that succeeds. *)
LEMMA Takes ==
  ASSUME stack \in Seq(Frames), stack # <<>>, NEW place \in Places, NEW role \in Roles,
         stack' = [stack EXCEPT ![1].at = place, ![1].owns = @ \cup {role}]
  PROVE  Moved(place, stack[1].owns \cup {role})
<1> DEFINE top == [stack[1] EXCEPT !.at = place, !.owns = stack[1].owns \cup {role}]
<1>1. stack' = [stack EXCEPT ![1] = top]
  BY TopFrame
<1>2. /\ top \in Frames /\ top.proc = stack[1].proc /\ top.about = stack[1].about
      /\ top.at = place /\ top.owns = stack[1].owns \cup {role}
  BY TopFrame DEF Frames
<1> HIDE DEF top
<1>3. QED
  BY <1>1, <1>2, Replaces DEF Moved, Puts

LEMMA Disowns ==
  ASSUME stack \in Seq(Frames), stack # <<>>, NEW place \in Places, NEW role \in Roles,
         Disown(role, place)
  PROVE  Moved(place, stack[1].owns \ {role})
<1> DEFINE top == [stack[1] EXCEPT !.at = place, !.owns = stack[1].owns \ {role}]
<1>1. stack' = [stack EXCEPT ![1] = top]
  BY TopFrame DEF Disown
<1>2. /\ top \in Frames /\ top.proc = stack[1].proc /\ top.about = stack[1].about
      /\ top.at = place /\ top.owns = stack[1].owns \ {role}
  BY TopFrame DEF Frames
<1> HIDE DEF top
<1>3. QED
  BY <1>1, <1>2, Replaces DEF Moved, Puts

(* One more attempt. *)
LEMMA Retries ==
  ASSUME stack \in Seq(Frames), stack # <<>>,
         stack' = [stack EXCEPT ![1].tries = @ + 1]
  PROVE  Moved(stack[1].at, stack[1].owns)
<1> DEFINE top == [stack[1] EXCEPT !.tries = stack[1].tries + 1]
<1>1. stack' = [stack EXCEPT ![1] = top]
  BY TopFrame
<1>2. /\ top \in Frames /\ top.proc = stack[1].proc /\ top.about = stack[1].about
      /\ top.at = stack[1].at /\ top.owns = stack[1].owns
  BY TopFrame DEF Frames
<1> HIDE DEF top
<1>3. QED
  BY <1>1, <1>2, Replaces DEF Moved, Puts

-----------------------------------------------------------------------------
(* The call chains are kept. *)

LEMMA SiteTyped ==
  ASSUME NEW caller, NEW place, NEW callee, NEW about,
         CallSite(caller, place, callee, about)
  PROVE  /\ caller \in Procedures /\ place \in Places
         /\ callee \in Procedures \ Commands /\ about \in Abouts
<1>1. caller \in Procedures /\ callee \in Procedures \ Commands
  BY DEF CallSite, Procedures, Commands
<1>2. place \in Places
  BY DEF CallSite, Places
<1>3. about \in Abouts
  BY DEF CallSite, Abouts, Roles, Sides, Replicas
<1>4. QED
  BY <1>1, <1>2, <1>3

(* The frames of a call chain. *)
LEMMA Chain ==
  ASSUME Shape, stack # <<>>
  PROVE  /\ Len(stack) \in Nat \ {0}
         /\ Up(Len(stack) - 1) = stack[1]
         /\ \A k \in 0..(Len(stack) - 1) : Up(k) \in Frames
         /\ \A k \in 0..(Len(stack) - 1) : Up(k).proc \in Commands <=> k = 0
         /\ Len(stack) = 1 => stack[1] = Up(0)
         /\ Len(stack) > 1 => stack[2] = Up(Len(stack) - 2)
         /\ Len(stack) > 1 => CallsNow(stack[2], stack[1])
         /\ stack[1].proc \notin Commands => Len(stack) > 1
<1>1. stack \in Seq(Frames) /\ Len(stack) \in Nat \ {0}
  BY EmptySeq DEF Shape
<1>2. \A k \in 0..(Len(stack) - 1) : Len(stack) - k \in 1..Len(stack)
  BY <1>1
<1>3. \A k \in 0..(Len(stack) - 1) : Up(k) \in Frames
  BY <1>1, <1>2, ElementOfSeq DEF Up
<1>4. /\ Up(Len(stack) - 1) = stack[1]
      /\ Len(stack) = 1 => stack[1] = Up(0)
      /\ Len(stack) > 1 => stack[2] = Up(Len(stack) - 2)
  <2>1. /\ Len(stack) - (Len(stack) - 1) = 1 /\ Len(stack) = 1 => Len(stack) - 0 = 1
        /\ Len(stack) - (Len(stack) - 2) = 2
    BY <1>1
  <2>2. QED
    BY <2>1 DEF Up
<1>5. Len(stack) > 1 => CallsNow(stack[2], stack[1])
  <2> SUFFICES ASSUME Len(stack) > 1 PROVE CallsNow(stack[2], stack[1])
    OBVIOUS
  <2>1. Len(stack) - 1 \in 1..(Len(stack) - 1) /\ (Len(stack) - 1) - 1 = Len(stack) - 2
    BY <1>1
  <2>2. CallsNow(Up((Len(stack) - 1) - 1), Up(Len(stack) - 1))
    BY <2>1 DEF Shape
  <2>3. QED
    BY <2>1, <2>2, <1>4
<1>6. \A k \in 0..(Len(stack) - 1) : Up(k).proc \in Commands <=> k = 0
  <2>1. Up(0).proc \in Commands
    BY CallsAssumption DEF Shape, CallOK
  <2>2. ASSUME NEW k \in 0..(Len(stack) - 1), k # 0 PROVE Up(k).proc \notin Commands
    <3>1. k \in 1..(Len(stack) - 1)
      BY <2>2
    <3>2. CallsNow(Up(k - 1), Up(k))
      BY <3>1 DEF Shape
    <3>3. QED
      BY <3>2, SiteTyped DEF CallsNow
  <2>3. QED
    BY <2>1, <2>2
<1>7. stack[1].proc \notin Commands => Len(stack) > 1
  BY <1>1, <1>4, <1>6
<1>8. QED
  BY <1>1, <1>3, <1>4, <1>5, <1>6, <1>7

(* What any step of a procedure does to the stack. *)
SameFrame(f, g) == f.proc = g.proc /\ f.about = g.about /\ f.at = g.at

Walks ==
  /\ stack' \in Seq(Frames) /\ Len(stack') = Len(stack)
  /\ stack'[1].proc = stack[1].proc /\ stack'[1].about = stack[1].about

Calling ==
  /\ stack' \in Seq(Frames) /\ Len(stack') = Len(stack) + 1
  /\ stack'[2].proc = stack[1].proc /\ stack'[2].about = stack[1].about
  /\ stack'[1].at = "start" /\ stack'[1].owns = {}
  /\ CallsNow(stack'[2], stack'[1])

Leaving == stack' \in Seq(Frames) /\ Len(stack') = Len(stack) - 1

BelowSame == \A k \in 0..(Len(stack) - 2) : SameFrame(Up(k)', Up(k))

Proceeds == (Walks \/ Calling \/ Leaving) /\ BelowSame

LEMMA BelowIsSame == ASSUME Below PROVE BelowSame
BY DEF Below, BelowSame, SameFrame

LEMMA GotoProceeds ==
  ASSUME Shape, stack # <<>>, NEW place \in Places, Goto(place)
  PROVE  Proceeds /\ Walks
<1>1. Moved(place, stack[1].owns)
  BY Goes DEF Shape
<1>2. QED
  BY <1>1, BelowIsSame DEF Moved, Proceeds, Walks

LEMMA RetryProceeds ==
  ASSUME Shape, stack # <<>>, stack' = [stack EXCEPT ![1].tries = @ + 1]
  PROVE  Proceeds /\ Walks
<1>1. Moved(stack[1].at, stack[1].owns)
  BY Retries DEF Shape
<1> QED
  BY <1>1, BelowIsSame DEF Moved, Proceeds, Walks

LEMMA InvokeProceeds ==
  ASSUME Shape, stack # <<>>, NEW proc, NEW about, NEW place,
         CallSite(stack[1].proc, place, proc, about), Invoke(proc, about, place)
  PROVE  Proceeds /\ Calling /\ result' = "none"
<1>1. proc \in Procedures /\ about \in Abouts /\ place \in Places
  BY SiteTyped
<1>2. Pushed(proc, about, place) /\ result' = "none"
  BY <1>1, Invokes DEF Shape
<1>3. Calling
  BY <1>2 DEF Pushed, Calling, CallsNow, Frame
<1>4. QED
  BY <1>2, <1>3, BelowIsSame DEF Pushed, Proceeds

LEMMA ReturnProceeds ==
  ASSUME Shape, stack # <<>>, NEW r, Return(r)
  PROVE  Proceeds /\ Leaving /\ result' = r
<1>1. Popped /\ result' = r
  BY Returns DEF Shape
<1>2. QED
  BY <1>1, BelowIsSame DEF Popped, Proceeds, Leaving

LEMMA HandOverProceeds ==
  ASSUME Shape, Len(stack) > 1, ReturnOwned
  PROVE  Proceeds /\ Leaving /\ result' = "ok"
<1>1. Handed /\ result' = "ok"
  BY HandsOver DEF Shape
<1>2. stack # <<>> /\ Len(stack) \in Nat
  BY EmptySeq DEF Shape
<1>3. BelowSame
  <2> SUFFICES ASSUME NEW k \in 0..(Len(stack) - 2) PROVE SameFrame(Up(k)', Up(k))
    BY DEF BelowSame
  <2>1. CASE k = Len(stack) - 2
    <3>1. Len(stack') - k = 1 /\ Len(stack) - k = 2
      BY <1>1, <1>2, <2>1 DEF Handed
    <3>2. Up(k)' = stack'[1] /\ Up(k) = stack[2]
      BY <3>1 DEF Up
    <3>3. QED
      BY <3>2, <1>1 DEF Handed, SameFrame
  <2>2. CASE k # Len(stack) - 2
    <3>1. k \in 0..(Len(stack) - 3)
      BY <2>2, <1>2
    <3>2. Up(k)' = Up(k)
      BY <3>1, <1>1 DEF Handed
    <3>3. QED
      BY <3>2 DEF SameFrame
  <2>3. QED
    BY <2>1, <2>2
<1>4. QED
  BY <1>1, <1>3 DEF Handed, Proceeds, Leaving

(* A database and its owner, or neither. *)
LEMMA CreateProceeds ==
  ASSUME Shape, stack # <<>>, NEW role \in Roles, NEW place \in Places,
         Create(role, place)
  PROVE  /\ Proceeds /\ (Walks \/ Leaving)
         /\ result' \in {"failed", result} /\ result' \in Results
<1>1. result \in Results
  BY DEF Shape
<1>2. CASE Return("failed")
  BY <1>2, ReturnProceeds DEF Results
<1>3. CASE stack' = [stack EXCEPT ![1].at = place, ![1].owns = @ \cup {role}]
           /\ result' = result
  <2>1. Moved(place, stack[1].owns \cup {role})
    BY <1>3, Takes DEF Shape
  <2>2. QED
    BY <1>1, <1>3, <2>1, BelowIsSame DEF Moved, Proceeds, Walks
<1>4. QED
  BY <1>2, <1>3 DEF Create

LEMMA DisownProceeds ==
  ASSUME Shape, stack # <<>>, NEW role \in Roles, NEW place \in Places,
         Disown(role, place)
  PROVE  Proceeds /\ Walks
<1>1. Moved(place, stack[1].owns \ {role})
  BY Disowns DEF Shape
<1>2. QED
  BY <1>1, BelowIsSame DEF Moved, Proceeds, Walks

(* Where a step leaves the frames of the chain. *)
LEMMA Positions ==
  ASSUME Shape, stack # <<>>, Proceeds, Len(stack) > 1 \/ ~Leaving
  PROVE  /\ stack' # <<>> /\ stack' \in Seq(Frames) /\ Len(stack') \in Nat \ {0}
         /\ Up(0)'.proc = Up(0).proc
         /\ Len(stack) > 1 => Up(0)'.at = Up(0).at
         /\ \A k \in 0..(Len(stack') - 1) :
              \/ k \in 0..(Len(stack) - 2) /\ SameFrame(Up(k)', Up(k))
              \/ Walks /\ k = Len(stack) - 1 /\ Up(k)' = stack'[1] /\ Up(k) = stack[1]
              \/ Calling /\ k = Len(stack) - 1 /\ Up(k)' = stack'[2] /\ Up(k) = stack[1]
              \/ Calling /\ k = Len(stack) /\ Up(k)' = stack'[1]
<1>1. stack \in Seq(Frames) /\ Len(stack) \in Nat \ {0}
  BY EmptySeq DEF Shape
<1>2. stack' \in Seq(Frames) /\ Len(stack') \in Nat \ {0}
  BY <1>1, LenProperties DEF Proceeds, Walks, Calling, Leaving
<1>3. ASSUME NEW k \in 0..(Len(stack') - 1)
      PROVE  \/ k \in 0..(Len(stack) - 2) /\ SameFrame(Up(k)', Up(k))
             \/ Walks /\ k = Len(stack) - 1 /\ Up(k)' = stack'[1] /\ Up(k) = stack[1]
             \/ Calling /\ k = Len(stack) - 1 /\ Up(k)' = stack'[2] /\ Up(k) = stack[1]
             \/ Calling /\ k = Len(stack) /\ Up(k)' = stack'[1]
  <2>1. CASE k \in 0..(Len(stack) - 2)
    BY <2>1 DEF Proceeds, BelowSame
  <2>2. CASE k = Len(stack) - 1
    <3>1. Len(stack) - k = 1 /\ ~Leaving
      BY <1>1, <1>2, <1>3, <2>2 DEF Leaving
    <3>2. Up(k) = stack[1]
      BY <3>1 DEF Up
    <3>3. CASE Walks
      <4>1. Len(stack') - k = 1
        BY <3>1, <3>3 DEF Walks
      <4>2. Up(k)' = stack'[1]
        BY <4>1 DEF Up
      <4>3. QED
        BY <3>2, <3>3, <4>2, <2>2
    <3>4. CASE Calling
      <4>1. Len(stack') - k = 2
        BY <1>1, <2>2, <3>4 DEF Calling
      <4>2. Up(k)' = stack'[2]
        BY <4>1 DEF Up
      <4>3. QED
        BY <3>2, <3>4, <4>2, <2>2
    <3>5. QED
      BY <3>1, <3>3, <3>4 DEF Proceeds
  <2>3. CASE k > Len(stack) - 1
    <3>1. /\ Walks \/ Calling \/ Leaving
          /\ Walks => Len(stack') = Len(stack)
          /\ Calling => Len(stack') = Len(stack) + 1
          /\ Leaving => Len(stack') = Len(stack) - 1
      BY DEF Proceeds, Walks, Calling, Leaving
    <3>2. Calling /\ k = Len(stack)
      BY <3>1, <1>1, <2>3
    <3>3. Len(stack') - k = 1
      BY <1>1, <3>2 DEF Calling
    <3>4. Up(k)' = stack'[1]
      BY <3>3 DEF Up
    <3>5. QED
      BY <3>2, <3>4
  <2>4. QED
    BY <1>1, <1>2, <1>3, <2>1, <2>2, <2>3
<1>4. stack' # <<>>
  BY <1>2
<1>5. /\ Up(0)'.proc = Up(0).proc
      /\ Len(stack) > 1 => Up(0)'.at = Up(0).at
  <2>1. 0 \in 0..(Len(stack') - 1)
    BY <1>2
  <2>2. \A n \in Nat \ {0} : n = 1 \/ (n > 1 /\ 0 \in 0..(n - 2))
    OBVIOUS
  <2>3. Len(stack) = 1 \/ (Len(stack) > 1 /\ 0 \in 0..(Len(stack) - 2))
    BY <1>1, <2>2
  <2>4. CASE Len(stack) > 1
    BY <2>3, <2>4, <1>1 DEF Proceeds, BelowSame, SameFrame
  <2>5. CASE Len(stack) = 1
    BY <2>1, <2>5, <1>1, <1>3 DEF Walks, Calling, SameFrame
  <2>6. QED
    BY <2>3, <2>4, <2>5
<1>6. QED
  BY <1>2, <1>3, <1>4, <1>5

LEMMA ShapeKept ==
  ASSUME Shape, stack # <<>>, Proceeds, Len(stack) > 1 \/ ~Leaving,
         call' = call, exit' = exit,
         result' \in Results, converged' \in BOOLEAN, lease' \in BOOLEAN
  PROVE  Shape'
<1>1. /\ stack' # <<>> /\ stack' \in Seq(Frames) /\ Len(stack') \in Nat \ {0}
      /\ Up(0)'.proc = Up(0).proc /\ Len(stack) \in Nat \ {0}
  BY Positions, Chain
<1>2. ASSUME NEW k \in 1..(Len(stack') - 1)
      PROVE  CallSite(Up(k - 1)'.proc, Up(k - 1)'.at, Up(k)'.proc, Up(k)'.about)
  <2>1. k \in 0..(Len(stack') - 1) /\ k - 1 \in 0..(Len(stack') - 1) /\ k # 0
    BY <1>1
  <2>2. CASE k \in 0..(Len(stack) - 2)
    <3>1. k - 1 \in 0..(Len(stack) - 2) /\ k \in 1..(Len(stack) - 1)
      BY <2>1, <2>2, <1>1
    <3>2. CallSite(Up(k - 1).proc, Up(k - 1).at, Up(k).proc, Up(k).about)
      BY <3>1 DEF Shape, CallsNow
    <3>3. SameFrame(Up(k)', Up(k)) /\ SameFrame(Up(k - 1)', Up(k - 1))
      BY <2>2, <3>1 DEF Proceeds, BelowSame
    <3>4. QED
      BY <3>2, <3>3 DEF SameFrame
  <2>3. CASE k = Len(stack) - 1
    <3>1. k - 1 \in 0..(Len(stack) - 2) /\ k \in 1..(Len(stack) - 1)
      BY <2>1, <2>3, <1>1
    <3>2. CallSite(Up(k - 1).proc, Up(k - 1).at, Up(k).proc, Up(k).about)
      BY <3>1 DEF Shape, CallsNow
    <3>3. SameFrame(Up(k - 1)', Up(k - 1))
      BY <3>1 DEF Proceeds, BelowSame
    <3>4. Up(k)'.proc = Up(k).proc /\ Up(k)'.about = Up(k).about
      BY <2>1, <2>3, <1>1, Positions DEF Walks, Calling
    <3>5. QED
      BY <3>2, <3>3, <3>4 DEF SameFrame
  <2>4. CASE k = Len(stack)
    <3>1. Calling /\ Up(k)' = stack'[1]
      BY <2>1, <2>4, <1>1, Positions
    <3>2. Up(k - 1)' = stack'[2]
      <4>1. Len(stack') - (k - 1) = 2
        BY <3>1, <2>4, <1>1 DEF Calling
      <4>2. QED
        BY <4>1 DEF Up
    <3>3. QED
      BY <3>1, <3>2 DEF Calling, CallsNow
  <2>5. QED
    <3>1. Len(stack') \in {Len(stack) - 1, Len(stack), Len(stack) + 1}
      BY DEF Proceeds, Walks, Calling, Leaving
    <3>2. QED
      BY <2>1, <2>2, <2>3, <2>4, <3>1, <1>1
<1>3. \A k \in 1..(Len(stack') - 1) : CallsNow(Up(k - 1), Up(k))'
  BY <1>2 DEF CallsNow
<1>4. QED
  BY <1>1, <1>3 DEF Shape

-----------------------------------------------------------------------------
(* Every step of a procedure keeps to the call chains. *)

LEMMA AtTop ==
  ASSUME Shape, NEW proc, NEW place, At(proc, place)
  PROVE  /\ stack # <<>> /\ Head(stack) = stack[1]
         /\ stack[1].proc = proc /\ stack[1].at = place
BY TopFrame DEF Shape, At

LEMMA SubjectOfAChild ==
  ASSUME Shape, stack # <<>>
  PROVE  /\ stack[1].proc = "resolve" => stack[1].about \in Sides
         /\ stack[1].proc = "materialize" =>
              stack[1].about \in {"source_replica", "flyway_replica"}
         /\ stack[1].proc = "ai" => stack[1].about \in {"review", "scan"}
<1>1. stack[1].proc \in {"resolve", "materialize", "ai"} => CallsNow(stack[2], stack[1])
  BY Chain DEF Commands
<1>2. QED
  BY <1>1 DEF CallsNow, CallSite, Sides

(* A step of a procedure: it stays within the call chains. *)
Inside ==
  /\ stack # <<>> /\ stack[1].proc \notin Commands
  /\ Proceeds
  /\ result' \in Results

LEMMA LoadInside ==
  ASSUME Shape, Resolve \/ Resolved \/ LoadSource \/ LoadTarget \/ Compare \/ Loaded
  PROVE  Inside
<1>1. CASE Resolve
  <2>1. stack # <<>> /\ Head(stack) = stack[1] /\ stack[1].proc = "resolve"
    BY <1>1, AtTop DEF Resolve
  <2>2. stack[1].about \in Roles /\ "filled" \in Places
    BY <2>1, SubjectOfAChild DEF Roles, Places
  <2>3. CASE Create(stack[1].about, "filled")
    BY <2>1, <2>2, <2>3, CreateProceeds DEF Inside, Commands
  <2>4. CASE \E r \in {"ok", "failed"} : Return(r)
    BY <2>1, <2>4, ReturnProceeds DEF Inside, Commands, Results
  <2>5. QED
    BY <1>1, <2>1, <2>3, <2>4 DEF Resolve
<1>2. CASE Resolved
  BY <1>2, AtTop, ReturnProceeds DEF Resolved, Inside, Commands, Results
<1>3. CASE LoadSource
  <2>1. CallSite("load", "target", "resolve", "source")
    BY DEF CallSite
  <2>2. QED
    BY <1>3, <2>1, AtTop, InvokeProceeds DEF LoadSource, Inside, Commands, Results
<1>4. CASE LoadTarget
  <2>1. CallSite("load", "compare", "resolve", "target") /\ "compare" \in Places
    BY DEF CallSite, Places
  <2>2. stack # <<>> /\ stack[1].proc = "load" /\ stack[1].proc \notin Commands
    BY <1>4, AtTop DEF LoadTarget, Commands
  <2>3. CASE Return(result)
    BY <2>2, <2>3, ReturnProceeds DEF Inside, Shape
  <2>4. CASE Goto("compare") /\ result' = result
    BY <2>1, <2>2, <2>4, GotoProceeds DEF Inside, Shape
  <2>5. CASE Invoke("resolve", "target", "compare")
    BY <2>1, <2>2, <2>5, InvokeProceeds DEF Inside, Results
  <2>6. QED
    BY <1>4, <2>3, <2>4, <2>5 DEF LoadTarget
<1>5. CASE Compare
  <2>1. CallSite("load", "loaded", "canonicalize", "sides")
    BY DEF CallSite, Abouts
  <2>2. stack # <<>> /\ stack[1].proc = "load" /\ stack[1].proc \notin Commands
    BY <1>5, AtTop DEF Compare, Commands
  <2>3. CASE \E r \in Results : Return(r)
    BY <2>2, <2>3, ReturnProceeds DEF Inside
  <2>4. CASE Invoke("canonicalize", "sides", "loaded")
    BY <2>1, <2>2, <2>4, InvokeProceeds DEF Inside, Results
  <2>5. QED
    BY <1>5, <2>3, <2>4 DEF Compare, Shape, Results
<1>6. CASE Loaded
  BY <1>6, AtTop, ReturnProceeds DEF Loaded, Inside, Commands, Shape
<1>7. QED
  BY <1>1, <1>2, <1>3, <1>4, <1>5, <1>6

LEMMA CanonicalizeInside ==
  ASSUME Shape, Canonicalize \/ Canonicalized
  PROVE  Inside
<1>1. CASE Canonicalize
  <2>1. /\ stack # <<>> /\ stack[1].proc = "canonicalize"
        /\ "scratch" \in Roles /\ "scratched" \in Places
    BY <1>1, AtTop DEF Canonicalize, Roles, Places
  <2>2. CASE Create("scratch", "scratched")
    BY <2>1, <2>2, CreateProceeds DEF Inside, Commands
  <2>3. CASE Return("ok")
    BY <2>1, <2>3, ReturnProceeds DEF Inside, Commands, Results
  <2>4. QED
    BY <1>1, <2>2, <2>3 DEF Canonicalize
<1>2. CASE Canonicalized
  BY <1>2, AtTop, ReturnProceeds DEF Canonicalized, Inside, Commands, Results
<1>3. QED
  BY <1>1, <1>2

LEMMA MaterializeInside ==
  ASSUME Shape, Materialize \/ Bootstrap \/ Materialized
  PROVE  Inside
<1>1. stack # <<>> /\ Head(stack) = stack[1] /\ stack[1].proc = "materialize"
  BY AtTop DEF Materialize, Bootstrap, Materialized
<1>2. stack[1].proc \notin Commands /\ Len(stack) > 1
  BY <1>1, Chain DEF Commands
<1>3. stack[1].about \in Roles /\ stack[1].about \in Abouts
  BY <1>1, SubjectOfAChild DEF Roles, Replicas, Abouts
<1>4. CASE Materialize
  <2>1. Create(stack[1].about, "bootstrap") /\ "bootstrap" \in Places
    BY <1>1, <1>4 DEF Materialize, Places
  <2>2. QED
    BY <1>1, <1>2, <1>3, <2>1, CreateProceeds DEF Inside
<1>5. CASE Bootstrap
  <2>1. CallSite("materialize", "sane", "canonicalize", stack[1].about)
    BY <1>3 DEF CallSite
  <2>2. CASE Return("failed")
    BY <1>1, <1>2, <2>2, ReturnProceeds DEF Inside, Results
  <2>3. CASE Invoke("canonicalize", stack[1].about, "sane")
    BY <1>1, <1>2, <2>1, <2>3, InvokeProceeds DEF Inside, Results
  <2>4. QED
    BY <1>1, <1>5, <2>2, <2>3 DEF Bootstrap
<1>6. CASE Materialized
  <2>1. CASE ReturnOwned
    BY <1>1, <1>2, <2>1, HandOverProceeds DEF Inside, Results
  <2>2. CASE Return("failed")
    BY <1>1, <1>2, <2>2, ReturnProceeds DEF Inside, Results
  <2>3. QED
    BY <1>6, <2>1, <2>2 DEF Materialized
<1>7. QED
  BY <1>4, <1>5, <1>6

LEMMA VerifyInside ==
  ASSUME Shape, VerifyStart \/ VerifyCreate \/ VerifyRun \/ VerifyEnd
  PROVE  Inside
<1>1. stack # <<>> /\ stack[1].proc = "verify"
  BY AtTop DEF VerifyStart, VerifyCreate, VerifyRun, VerifyEnd
<1>2. stack[1].proc \notin Commands /\ result \in Results /\ "failed" \in Results
  BY <1>1 DEF Commands, Shape, Results
<1>3. ASSUME NEW r \in Results, Return(r) PROVE Inside
  BY <1>1, <1>2, <1>3, ReturnProceeds DEF Inside
<1>4. CASE VerifyStart
  <2>1. CallSite("verify", "replica", "canonicalize", "sides")
    BY DEF CallSite, Abouts
  <2>2. CASE Invoke("canonicalize", "sides", "replica")
    BY <1>1, <1>2, <2>1, <2>2, InvokeProceeds DEF Inside, Results
  <2>3. QED
    BY <1>2, <1>3, <1>4, <2>2 DEF VerifyStart
<1>5. CASE VerifyCreate
  <2>1. "replica" \in Roles /\ "created" \in Places
    BY DEF Roles, Replicas, Places
  <2>2. CASE Create("replica", "created")
    BY <1>1, <1>2, <2>1, <2>2, CreateProceeds DEF Inside
  <2>3. QED
    BY <1>2, <1>3, <1>5, <2>2 DEF VerifyCreate
<1>6. CASE VerifyRun
  <2>1. CallSite("verify", "dispose", "rehearse", "replica")
    BY DEF CallSite
  <2>2. CASE Invoke("rehearse", "replica", "dispose")
    BY <1>1, <1>2, <2>1, <2>2, InvokeProceeds DEF Inside, Results
  <2>3. QED
    BY <1>2, <1>3, <1>6, <2>2 DEF VerifyRun
<1>7. CASE VerifyEnd
  BY <1>2, <1>3, <1>7 DEF VerifyEnd
<1>8. QED
  BY <1>4, <1>5, <1>6, <1>7

LEMMA RehearseInside ==
  ASSUME Shape,
         \/ RehearseBootstrap \/ RehearseMigrate \/ Rediff \/ Comparable
         \/ FlywayReplica \/ FlywayStart \/ FlywayExits
         \/ ExternalStart \/ ExternalExits \/ RehearseEnd
  PROVE  Inside
<1>1. stack # <<>> /\ stack[1].proc = "rehearse"
  BY AtTop DEF RehearseBootstrap, RehearseMigrate, Rediff, Comparable, FlywayReplica,
     FlywayStart, FlywayExits, ExternalStart, ExternalExits, RehearseEnd
<1>2. stack[1].proc \notin Commands /\ result \in Results
  BY <1>1 DEF Commands, Shape
<1>3. ASSUME NEW r \in Results, Return(r) PROVE Inside
  BY <1>1, <1>2, <1>3, ReturnProceeds DEF Inside
<1>4. ASSUME NEW place \in Places, Goto(place), result' = result PROVE Inside
  BY <1>1, <1>2, <1>4, GotoProceeds DEF Inside
<1>5. ASSUME NEW proc, NEW about, NEW place, CallSite("rehearse", place, proc, about),
             Invoke(proc, about, place)
      PROVE  Inside
  BY <1>1, <1>2, <1>5, InvokeProceeds DEF Inside, Results
<1>6. /\ {"ok", "failed", "external"} \subseteq Results
      /\ {"external", "flying", "outside", "finish"} \subseteq Places
      /\ "flyway_replica" \in Roles
  BY DEF Results, Places, Roles, Replicas
<1>7. /\ CallSite("rehearse", "sane", "canonicalize", "replica")
      /\ CallSite("rehearse", "rediff", "canonicalize", "replica")
      /\ CallSite("rehearse", "checked", "checks", "replica")
      /\ CallSite("rehearse", "comparable", "materialize", "source_replica")
      /\ CallSite("rehearse", "flyable", "materialize", "flyway_replica")
  BY DEF CallSite, Abouts, Roles, Replicas
<1>8. CASE RehearseBootstrap
  BY <1>3, <1>5, <1>6, <1>7, <1>8 DEF RehearseBootstrap
<1>9. CASE RehearseMigrate
  BY <1>3, <1>5, <1>6, <1>7, <1>9 DEF RehearseMigrate
<1>10. CASE Rediff
  BY <1>2, <1>3, <1>5, <1>6, <1>7, <1>10 DEF Rediff
<1>11. CASE Comparable
  BY <1>3, <1>5, <1>6, <1>7, <1>11 DEF Comparable
<1>12. CASE FlywayReplica
  BY <1>4, <1>5, <1>6, <1>7, <1>12 DEF FlywayReplica
<1>13. ASSUME Disown("flyway_replica", "external"), result' = result PROVE Inside
  BY <1>1, <1>2, <1>6, <1>13, DisownProceeds DEF Inside
<1>14. CASE FlywayStart
  BY <1>4, <1>6, <1>13, <1>14 DEF FlywayStart
<1>15. CASE FlywayExits
  BY <1>13, <1>15 DEF FlywayExits
<1>16. CASE ExternalStart
  BY <1>3, <1>4, <1>6, <1>16 DEF ExternalStart
<1>17. CASE ExternalExits
  BY <1>4, <1>6, <1>17 DEF ExternalExits
<1>18. CASE RehearseEnd
  BY <1>3, <1>6, <1>18 DEF RehearseEnd
<1>19. QED
  BY <1>8, <1>9, <1>10, <1>11, <1>12, <1>14, <1>15, <1>16, <1>17, <1>18

LEMMA ToolsInside ==
  ASSUME Shape, StartTool \/ ToolExits \/ Ask \/ CallProvider \/ ReviewerExits
  PROVE  Inside
<1>1. /\ stack # <<>> /\ Head(stack) = stack[1] /\ stack[1].proc \in {"checks", "ai"}
      /\ stack \in Seq(Frames) /\ result \in Results
  BY AtTop DEF StartTool, ToolExits, Ask, CallProvider, ReviewerExits, Shape
<1>2. stack[1].proc \notin Commands
  BY <1>1 DEF Commands
<1>3. ASSUME NEW r \in {"ok", "ai"}, Return(r) PROVE Inside
  BY <1>1, <1>2, <1>3, ReturnProceeds DEF Inside, Results
<1>4. ASSUME NEW place \in Places, Goto(place), result' = result PROVE Inside
  BY <1>1, <1>2, <1>4, GotoProceeds DEF Inside
<1>5. ASSUME NEW well, NEW said, Answered(well, said) PROVE Inside
  BY <1>3, <1>5 DEF Answered
<1>6. {"waits", "start", "calling"} \subseteq Places
  BY DEF Places
<1>7. CASE StartTool
  <2>1. ASSUME stack' = stack, result' = result PROVE Inside
    <3>1. Proceeds
      BY <2>1, <1>1 DEF Proceeds, Walks, BelowSame, SameFrame, Up
    <3>2. QED
      BY <3>1, <2>1, <1>1, <1>2 DEF Inside
  <2>2. QED
    BY <1>3, <1>4, <1>6, <1>7, <2>1 DEF StartTool
<1>8. CASE ToolExits
  BY <1>4, <1>6, <1>8 DEF ToolExits
<1>9. CASE Ask
  BY <1>3, <1>4, <1>6, <1>9 DEF Ask
<1>10. CASE CallProvider
  <2>1. ASSUME stack' = [stack EXCEPT ![1].tries = @ + 1], result' = result PROVE Inside
    BY <1>1, <1>2, <2>1, RetryProceeds DEF Inside
  <2>2. QED
    BY <1>3, <1>5, <1>10, <2>1 DEF CallProvider
<1>11. CASE ReviewerExits
  BY <1>5, <1>11 DEF ReviewerExits
<1>12. QED
  BY <1>7, <1>8, <1>9, <1>10, <1>11

-----------------------------------------------------------------------------
(* The steps of the commands themselves. *)

CommandStep ==
  \/ Start \/ Fail \/ Rendered \/ Reviewed
  \/ Verify \/ Verified \/ VerifyScanned \/ VerifyReviewed
  \/ Plan \/ Confirm \/ Answer \/ AcquireLease \/ Refreshed \/ Execute
  \/ Residual \/ Compared \/ Checked \/ Scanned \/ Release

LEMMA AtCommand ==
  ASSUME Shape, NEW c \in Commands, NEW place, At(c, place)
  PROVE  /\ stack # <<>> /\ Len(stack) = 1 /\ stack[1] = Up(0)
         /\ call.command = c /\ Up(0).proc = c /\ Up(0).at = place
         /\ Head(stack) = Up(0) /\ exit = "running"
<1>1. stack # <<>> /\ stack[1].proc = c /\ stack[1].at = place /\ Head(stack) = stack[1]
  BY AtTop
<1>2. Len(stack) \in Nat \ {0} /\ Len(stack) - 1 = 0 => Len(stack) = 1
  BY <1>1, Chain
<1>3. Len(stack) - 1 = 0
  <2> DEFINE k == Len(stack) - 1
  <2>1. k \in 0..(Len(stack) - 1) /\ Up(k) = stack[1]
    BY <1>1, Chain
  <2> HIDE DEF k
  <2>2. k = 0
    BY <2>1, <1>1, Chain
  <2>3. QED
    BY <2>2 DEF k
<1>4. QED
  BY <1>1, <1>2, <1>3, Chain DEF Shape

LEMMA NonEmpty == ASSUME NEW s, Len(s) > 0 PROVE s # <<>>
<1>1. Len(<< >>) = 0
  OBVIOUS
<1>2. QED
  BY <1>1

(* A command is alone on the stack when it moves. *)
LEMMA GoesAlone ==
  ASSUME Shape, Len(stack) = 1, NEW place \in Places, Goto(place)
  PROVE  /\ Proceeds /\ ~Leaving /\ Len(stack') = 1 /\ stack' # <<>>
         /\ Up(0)' = stack'[1] /\ Up(0)'.proc = Up(0).proc /\ Up(0)'.at = place
         /\ stack'[1].owns = stack[1].owns
<1>1. stack # <<>>
  BY NonEmpty
<1>2. Moved(place, stack[1].owns) /\ Proceeds
  BY <1>1, Goes, GotoProceeds DEF Shape
<1>3. Len(stack') - 0 = 1 /\ Len(stack) - 0 = 1
  BY <1>2 DEF Moved
<1>4. Up(0)' = stack'[1] /\ Up(0) = stack[1]
  BY <1>3 DEF Up
<1>5. Len(stack') = 1 /\ stack' # <<>> /\ ~Leaving
  <2>1. Len(stack') = 1
    BY <1>3
  <2>2. QED
    BY <2>1, NonEmpty DEF Leaving
<1>6. QED
  BY <1>2, <1>4, <1>5 DEF Moved

LEMMA InvokesAlone ==
  ASSUME Shape, Len(stack) = 1, NEW proc, NEW about, NEW place,
         CallSite(stack[1].proc, place, proc, about), Invoke(proc, about, place)
  PROVE  /\ Proceeds /\ ~Leaving /\ Len(stack') = 2 /\ stack' # <<>>
         /\ Up(0)' = stack'[2] /\ Up(0)'.proc = Up(0).proc /\ Up(0)'.at = place
         /\ Up(0)'.owns = stack[1].owns
         /\ stack'[1] = Frame(proc, about) /\ result' = "none"
<1>1. stack # <<>>
  BY NonEmpty
<1>2. proc \in Procedures /\ about \in Abouts /\ place \in Places
  BY SiteTyped
<1>3. Pushed(proc, about, place) /\ Proceeds /\ result' = "none"
  BY <1>1, <1>2, Invokes, InvokeProceeds DEF Shape
<1>4. Len(stack') - 0 = 2 /\ Len(stack) - 0 = 1
  BY <1>3 DEF Pushed
<1>5. Up(0)' = stack'[2] /\ Up(0) = stack[1]
  BY <1>4 DEF Up
<1>6. Len(stack') = 2 /\ stack' # <<>> /\ ~Leaving
  <2>1. Len(stack') = 2
    BY <1>3 DEF Pushed
  <2>2. QED
    BY <2>1, NonEmpty DEF Leaving
<1>7. QED
  BY <1>3, <1>5, <1>6 DEF Pushed

LEMMA ExitShape ==
  ASSUME Shape, NEW code \in Exits \ {"running"}, Exit(code),
         call' = call, result' = result, converged' = converged
  PROVE  Shape'
<1>1. stack' \in Seq(Frames) /\ stack' = <<>> /\ Len(stack') = 0
  BY EmptySeq DEF Exit
<1>2. (\A k \in 1..(Len(stack) - 1) : CallsNow(Up(k - 1), Up(k)))'
  <2>1. 1..(Len(stack') - 1) = {}
    BY <1>1
  <2>2. QED
    BY <2>1
<1>3. QED
  BY <1>1, <1>2 DEF Exit, Shape

(* What a command does not get wrong: its call chains. *)
LEMMA CommandShape ==
  ASSUME Shape, CommandStep
  PROVE  Shape'
<1>1. result \in Results /\ converged \in BOOLEAN /\ lease \in BOOLEAN
  BY DEF Shape
<1>2. ASSUME NEW code \in {"0", "1", "2", "3", "4", "error"}, Decide(code)
      PROVE  Shape'
  BY <1>2, ExitShape DEF Decide, Exits
<1>3. ASSUME NEW c \in Commands, NEW at, At(c, at), NEW proc, NEW about, NEW place,
             CallSite(c, place, proc, about), Invoke(proc, about, place),
             call' = call, exit' = exit, converged' \in BOOLEAN, lease' \in BOOLEAN
      PROVE  Shape'
  <2>1. stack # <<>> /\ Len(stack) = 1 /\ stack[1].proc = c
    BY <1>3, AtCommand
  <2>2. Proceeds /\ ~Leaving /\ result' = "none"
    BY <1>3, <2>1, InvokesAlone
  <2>3. QED
    BY <1>3, <2>1, <2>2, ShapeKept DEF Results
<1>4. ASSUME NEW c \in Commands, NEW at, At(c, at), NEW place \in Places, Goto(place),
             call' = call, exit' = exit, result' = result, converged' \in BOOLEAN,
             lease' \in BOOLEAN
      PROVE  Shape'
  <2>1. stack # <<>> /\ Len(stack) = 1
    BY <1>4, AtCommand
  <2>2. Proceeds /\ ~Leaving
    BY <1>4, <2>1, GoesAlone
  <2>3. QED
    BY <1>1, <1>4, <2>1, <2>2, ShapeKept
<1>5. ASSUME NEW c \in Commands, Reached(c, "loaded") \/ Reached(c, "scanned"),
             AskReviewer("review", "reviewed")
      PROVE  Shape'
  <2>1. CallSite(c, "reviewed", "ai", "review")
    BY DEF CallSite
  <2>2. QED
    BY <1>1, <1>3, <1>5, <2>1 DEF AskReviewer, Reached, found
<1>6. ASSUME NEW c \in {"cmd_verify", "cmd_apply"},
             Reached(c, "verified") \/ Reached(c, "checked"),
             AskReviewer("scan", "scanned")
      PROVE  Shape'
  <2>1. CallSite(c, "scanned", "ai", "scan") /\ c \in Commands
    BY DEF CallSite, Commands
  <2>2. QED
    BY <1>1, <1>3, <1>6, <2>1 DEF AskReviewer, Reached, found
<1>7. {"reviewed", "asked", "confirmed", "scanned", "execute", "residual", "release"}
       \subseteq Places
  BY DEF Places
<1>8. {"cmd_diff", "cmd_review", "cmd_verify", "cmd_apply"} \subseteq Commands
  BY DEF Commands
<1>9. CASE Start
  <2>1. \A c \in Commands : CallSite(c, "loaded", "load", "sides")
    BY DEF CallSite
  <2>2. CASE Exit("error") /\ result' = result
    BY <1>9, <2>2, ExitShape DEF Start, Exits
  <2>3. CASE Invoke("load", "sides", "loaded") /\ UNCHANGED <<lease, exit>>
    BY <1>1, <1>3, <1>9, <2>1, <2>3 DEF Start
  <2>4. QED
    BY <1>9, <2>2, <2>3 DEF Start
<1>10. CASE Fail
  BY <1>10, ExitShape DEF Fail, Exits
<1>11. CASE Rendered
  BY <1>2, <1>5, <1>8, <1>11 DEF Rendered
<1>12. CASE Reviewed
  BY <1>2, <1>12 DEF Reviewed
<1>13. CASE Verify
  <2>1. CallSite("cmd_verify", "verified", "verify", "sides")
    BY DEF CallSite
  <2>2. QED
    BY <1>1, <1>2, <1>3, <1>8, <1>13, <2>1 DEF Verify, Reached, found
<1>14. CASE Verified
  BY <1>1, <1>2, <1>4, <1>6, <1>7, <1>8, <1>14 DEF Verified, Reached, found
<1>15. CASE VerifyScanned
  BY <1>1, <1>4, <1>5, <1>7, <1>8, <1>15 DEF VerifyScanned, Reached, found
<1>16. CASE VerifyReviewed
  BY <1>2, <1>16 DEF VerifyReviewed, Verdict
<1>17. CASE Plan
  BY <1>1, <1>2, <1>4, <1>5, <1>7, <1>8, <1>17 DEF Plan, Reached, found
<1>18. CASE Confirm
  <2>1. CASE Decide("4")
    BY <1>2, <2>1
  <2>2. CASE \E place \in {"asked", "confirmed"} :
               Goto(place) /\ UNCHANGED <<call, result, shadows, found, exit>>
    BY <1>1, <1>4, <1>7, <1>8, <1>18, <2>2 DEF Confirm, Reached, found
  <2>3. QED
    BY <1>18, <2>1, <2>2 DEF Confirm
<1>18a. CASE Answer
  BY <1>1, <1>2, <1>4, <1>7, <1>8, <1>18a DEF Answer, Reached, found
<1>18b. CASE AcquireLease
  <2>1. CallSite("cmd_apply", "refreshed", "load", "sides")
    BY DEF CallSite, Commands
  <2>2. CASE Decide("error")
    BY <1>2, <2>2
  <2>3. CASE /\ lease' = (call.flavors["source"] = "postgres")
             /\ IF lease' THEN Invoke("load", "sides", "refreshed")
                ELSE Goto("execute") /\ UNCHANGED result
             /\ UNCHANGED <<call, shadows, converged, reports, reviews, exit>>
    BY <1>1, <1>3, <1>4, <1>7, <1>8, <1>18b, <2>1, <2>3 DEF AcquireLease, Reached
  <2>4. QED
    BY <1>18b, <2>2, <2>3 DEF AcquireLease
<1>19. CASE Refreshed
  BY <1>1, <1>2, <1>4, <1>7, <1>8, <1>19 DEF Refreshed, Reached, found
<1>20. CASE Execute
  <2>1. CallSite("cmd_apply", "residual", "canonicalize", "target")
    BY DEF CallSite, Abouts, Roles, Sides
  <2>2. QED
    BY <1>1, <1>2, <1>3, <1>4, <1>7, <1>8, <1>20, <2>1 DEF Execute, Reached, found
<1>21. CASE Residual
  <2>1. /\ CallSite("cmd_apply", "checked", "checks", "target")
        /\ CallSite("cmd_apply", "compare", "materialize", "source_replica")
    BY DEF CallSite, Abouts, Roles, Sides
  <2>2. QED
    BY <1>1, <1>3, <1>4, <1>7, <1>8, <1>21, <2>1 DEF Residual, Reached
<1>22. CASE Compared
  <2>1. CallSite("cmd_apply", "checked", "checks", "target")
    BY DEF CallSite, Abouts, Roles, Sides
  <2>2. QED
    BY <1>1, <1>3, <1>8, <1>22, <2>1 DEF Compared, Reached, found
<1>23. CASE Checked
  BY <1>1, <1>4, <1>6, <1>7, <1>8, <1>23 DEF Checked, Reached, found
<1>24. CASE Scanned
  <2>1. stack # <<>> /\ Len(stack) = 1
    BY <1>8, <1>24, AtCommand DEF Scanned, Reached
  <2>2. CASE Disown("source_replica", "release")
    <3>1. "source_replica" \in Roles
      BY DEF Roles, Replicas
    <3>2. Proceeds /\ Walks
      BY <1>7, <2>1, <2>2, <3>1, DisownProceeds
    <3>3. ~Leaving
      BY <2>1, <3>2 DEF Walks, Leaving
    <3>4. QED
      BY <1>1, <1>24, <2>1, <3>2, <3>3, ShapeKept DEF Scanned, found
  <2>3. CASE Goto("release")
    BY <1>1, <1>4, <1>7, <1>8, <1>24, <2>3 DEF Scanned, Reached, found
  <2>4. QED
    BY <1>24, <2>2, <2>3 DEF Scanned
<1>25. CASE Release
  BY <1>2, <1>25 DEF Release, Verdict
<1>26. QED
  BY <1>9, <1>10, <1>11, <1>12, <1>13, <1>14, <1>15, <1>16, <1>17, <1>18, <1>18a,
     <1>18b, <1>19,
     <1>20, <1>21, <1>22, <1>23, <1>24, <1>25 DEF CommandStep

-----------------------------------------------------------------------------
(* Lemmas about the operators: the last verdict, and what is added to a    *)
(* table of reports or reviews.                                            *)

LEMMA LessIsWellFounded == IsWellFoundedOn({p \in Nat \X Nat : p[1] < p[2]}, Nat)
BY NatLessThanWellFounded DEF OpToRel

LEMMA LastExists ==
  ASSUME NEW n \in Nat, NEW I \in SUBSET (1..n), I # {}
  PROVE  \E i \in I : \A j \in I : i >= j
<1> DEFINE R == {p \in Nat \X Nat : p[1] < p[2]}
           T == {t \in Nat : n - t \in I}
<1>1. IsWellFoundedOn(R, Nat)
  BY LessIsWellFounded
<1>2. T \subseteq Nat /\ T # {}
  <2>1. PICK i \in I : TRUE
    OBVIOUS
  <2>2. n - i \in Nat /\ n - (n - i) = i
    BY <2>1
  <2>3. n - i \in T
    BY <2>1, <2>2
  <2>4. QED
    BY <2>3
<1>3. PICK x \in T : \A y \in T : ~(<<y, x>> \in R)
  <2> HIDE DEF R, T
  <2> QED
    BY <1>1, <1>2, WFMin
<1>4. \A y \in T : ~(y < x)
  <2>1. ASSUME NEW y \in T, y < x PROVE FALSE
    <3>1. <<y, x>> \in Nat \X Nat /\ <<y, x>>[1] = y /\ <<y, x>>[2] = x
      OBVIOUS
    <3>2. <<y, x>> \in R
      BY <3>1, <2>1
    <3>3. QED
      BY <1>3, <3>2
  <2>2. QED
    BY <2>1
<1>5. n - x \in I /\ \A j \in I : n - x >= j
  <2>1. x \in Nat /\ n - x \in I
    OBVIOUS
  <2>2. ASSUME NEW j \in I PROVE n - x >= j
    <3>1. n - j \in Nat /\ n - (n - j) = j
      OBVIOUS
    <3>2. ~(n - j < x)
      BY <3>1, <1>4
    <3>3. QED
      BY <3>1, <3>2, <2>1
  <2>3. QED
    BY <2>1, <2>2
<1>6. QED
  BY <1>5

LEMMA VerdictIsLast ==
  ASSUME NEW said \in Seq({"approve", "reject", "chatter"}),
         ParseVerdict(said) = "approve"
  PROVE  \E i \in DOMAIN said :
           /\ said[i] = "approve"
           /\ \A j \in DOMAIN said : j > i => said[j] = "chatter"
<1> DEFINE I == {i \in 1..Len(said) : said[i] # "chatter"}
<1>1. Len(said) \in Nat /\ DOMAIN said = 1..Len(said)
  BY LenProperties
<1>2. ParseVerdict(said) =
        LET at == IF I # {} THEN Max(I) ELSE 0
        IN  IF at = 0 THEN "none" ELSE said[at]
  BY DEF ParseVerdict, SelectLastInSeq
<1>3. I # {}
  BY <1>2
<1>4. Max(I) \in I /\ \A j \in I : Max(I) >= j
  <2>1. \E i \in I : \A j \in I : i >= j
    BY <1>1, <1>3, LastExists
  <2>2. QED
    BY <2>1 DEF Max
<1>5. said[Max(I)] = "approve"
  BY <1>1, <1>2, <1>3, <1>4
<1>6. ASSUME NEW j \in DOMAIN said, j > Max(I) PROVE said[j] = "chatter"
  BY <1>1, <1>4, <1>6
<1>7. QED
  BY <1>1, <1>4, <1>5, <1>6

LEMMA Added ==
  ASSUME NEW f, NEW d, NEW e, NEW g, g = Adding(f, d, e)
  PROVE  /\ DOMAIN g = DOMAIN f \cup {d}
         /\ \A x \in DOMAIN f : g[x] = f[x]
         /\ d \notin DOMAIN f => g[d] = e
BY DEF Adding

-----------------------------------------------------------------------------
(* A strict command fails closed. *)

LEMMA InsideShape ==
  ASSUME Shape, Inside, call' = call, exit' = exit, lease' = lease,
         converged' \in BOOLEAN
  PROVE  Shape'
<1>1. Len(stack) > 1
  BY Chain DEF Inside
<1>2. QED
  BY <1>1, ShapeKept DEF Inside, Shape

(* Where a step inside leaves the command. *)
LEMMA InsideBase ==
  ASSUME Shape, Inside
  PROVE  /\ stack # <<>> /\ stack' # <<>> /\ Len(stack) > 1 /\ exit = "running"
         /\ Len(stack) \in Nat /\ Len(stack') \in Nat \ {0}
         /\ Up(0)'.proc = Up(0).proc /\ Up(0)'.at = Up(0).at
         /\ Len(stack') = 1 => CallsNow(Up(0), stack[1])
<1>1. stack # <<>> /\ Len(stack) > 1 /\ Len(stack) \in Nat /\ exit = "running"
  BY Chain DEF Inside, Shape
<1>2. /\ stack' # <<>> /\ Len(stack') \in Nat \ {0}
      /\ Up(0)'.proc = Up(0).proc /\ Up(0)'.at = Up(0).at
  BY <1>1, Positions DEF Inside
<1>3. ASSUME Len(stack') = 1 PROVE CallsNow(Up(0), stack[1])
  <2>1. \/ Len(stack') = Len(stack) - 1
        \/ Len(stack') = Len(stack)
        \/ Len(stack') = Len(stack) + 1
    BY DEF Inside, Proceeds, Walks, Calling, Leaving
  <2>2. \A m, n \in Nat :
          (m = 1 /\ n > 1 /\ (m = n - 1 \/ m = n \/ m = n + 1)) => n = 2
    OBVIOUS
  <2>3. Len(stack) = 2
    BY <1>1, <1>2, <1>3, <2>1, <2>2
  <2>4. Len(stack) - 2 = 0 /\ Len(stack) - 0 = 2
    BY <2>3
  <2>5. Up(0) = stack[2]
    BY <2>4 DEF Up
  <2>6. QED
    BY <1>1, <2>5, Chain
<1>4. QED
  BY <1>1, <1>2, <1>3

(* A step that has nothing to do with a reviewer. *)
LEMMA AskStill ==
  ASSUME Shape, AskInv, Inside, stack[1].proc # "ai",
         UNCHANGED <<call, exit, reviews, lease>>
  PROVE  AskInv'
<1>1. /\ stack # <<>> /\ stack' # <<>> /\ exit = "running"
      /\ Up(0)'.at = Up(0).at
      /\ Len(stack') = 1 => CallsNow(Up(0), stack[1])
  BY InsideBase
<1>2. Len(stack') = 1 => ~(Up(0).at = "reviewed") /\ ~(Up(0).at = "scanned")
  BY <1>1 DEF CallsNow, CallSite
<1>3. ReviewsGenuine'
  BY DEF AskInv, ReviewsGenuine, ApprovedIn
<1>4. Asked'
  BY <1>1, <1>2 DEF AskInv, Asked, ApprovedIn
<1>5. ExitClosed'
  BY <1>1 DEF ExitClosed
<1>6. QED
  BY <1>3, <1>4, <1>5 DEF AskInv

(* The answer of a reviewer. *)
LEMMA AskAnswered ==
  ASSUME Shape, AskInv, stack # <<>>, stack[1].proc = "ai",
         NEW about, about = stack[1].about,
         NEW well \in BOOLEAN, NEW said \in Transcripts \cup {<<>>},
         Answered(well, said), UNCHANGED <<call, exit, lease>>
  PROVE  AskInv'
<1>1. Inside
  BY ReturnProceeds DEF Answered, Inside, Commands, Results
<1>2. /\ stack' # <<>> /\ exit = "running" /\ Up(0)'.at = Up(0).at
      /\ Len(stack') = 1 => CallsNow(Up(0), stack[1])
  BY <1>1, InsideBase
<1>3. Head(stack) = stack[1] /\ about \in {"review", "scan"}
  BY TopFrame, SubjectOfAChild DEF Shape
<1>4. /\ DOMAIN reviews' = DOMAIN reviews \cup {about}
      /\ \A a \in DOMAIN reviews : reviews'[a] = reviews[a]
      /\ about \notin DOMAIN reviews => reviews'[about] = Outcome(well, said)
  BY <1>3, Added DEF Answered, Adding
<1>5. \A a \in DOMAIN reviews : ApprovedIn(a) => ApprovedIn(a)'
  BY <1>4 DEF ApprovedIn
<1>6. ASSUME about \notin DOMAIN reviews, Outcome(well, said).approved
      PROVE  ApprovedIn(about)'
  <2>1. well /\ ParseVerdict(said) = "approve"
    BY <1>6 DEF Outcome
  <2>2. said \in Seq({"approve", "reject", "chatter"})
    BY TranscriptsAssumption, EmptySeq
  <2>3. \E i \in DOMAIN said :
           /\ said[i] = "approve"
           /\ \A j \in DOMAIN said : j > i => said[j] = "chatter"
    BY <2>1, <2>2, VerdictIsLast
  <2>4. reviews'[about].well = well /\ reviews'[about].said = said
    BY <1>4, <1>6 DEF Outcome
  <2>5. about \in DOMAIN reviews'
    BY <1>4
  <2>6. QED
    BY <2>1, <2>3, <2>4, <2>5 DEF ApprovedIn
<1>7. ReviewsGenuine'
  <2>1. DOMAIN reviews' \subseteq {"review", "scan"}
    BY <1>3, <1>4 DEF AskInv, ReviewsGenuine
  <2>2. ASSUME NEW a \in DOMAIN reviews', reviews'[a].approved PROVE ApprovedIn(a)'
    <3>1. CASE a \in DOMAIN reviews
      BY <1>4, <1>5, <2>2, <3>1 DEF AskInv, ReviewsGenuine
    <3>2. CASE a \notin DOMAIN reviews
      BY <1>4, <1>6, <2>2, <3>2
    <3>3. QED
      BY <3>1, <3>2
  <2>3. QED
    BY <2>1, <2>2 DEF ReviewsGenuine
<1>8. CallsNow(Up(0), stack[1])
  <2>1. stack[1].proc \notin Commands /\ Len(stack) > 1 /\ Len(stack) \in Nat
    BY Chain DEF Commands
  <2>2. CallsNow(stack[2], stack[1]) /\ stack[2] = Up(Len(stack) - 2)
    BY <2>1, Chain
  <2>3. stack[2].proc \in Commands
    BY <2>2 DEF CallsNow, CallSite
  <2> DEFINE k == Len(stack) - 2
  <2>4. k \in 0..(Len(stack) - 1) /\ Up(k) = stack[2]
    BY <2>1, <2>2
  <2> HIDE DEF k
  <2>5. k = 0
    BY <2>3, <2>4, Chain
  <2>6. QED
    BY <2>2, <2>4, <2>5
<1>9. Asked'
  <2>1. \/ about = "review" /\ Up(0).at = "reviewed"
        \/ /\ about = "scan" /\ Up(0).at = "scanned"
           /\ Up(0).proc \in {"cmd_verify", "cmd_apply"}
    BY <1>3, <1>8 DEF CallsNow, CallSite
  <2>2. Up(0).proc = call.command
    BY DEF Shape
  <2>3. \A a \in DOMAIN reviews : a \in DOMAIN reviews'
    BY <1>4
  <2>4. ApprovedIn("review") => ApprovedIn("review")'
    BY <1>5 DEF ApprovedIn
  <2>5. "scan" \in DOMAIN reviews' => "scan" \in DOMAIN reviews \/ about = "scan"
    BY <1>4
  <2>6. about \in DOMAIN reviews'
    BY <1>4
  <2>7. QED
    BY <1>2, <2>1, <2>2, <2>3, <2>4, <2>5, <2>6 DEF AskInv, Asked
<1>10. ExitClosed'
  BY <1>2 DEF ExitClosed
<1>11. QED
  BY <1>7, <1>9, <1>10 DEF AskInv

(* An exit keeps what the reviews say, and answers for an exit with 0. *)
LEMMA AskExits ==
  ASSUME AskInv, NEW code, Exit(code), UNCHANGED <<call, reviews>>,
         (call.strict /\ code = "0") =>
           /\ call.review /\ call.command \in {"cmd_diff", "cmd_verify"} =>
                ApprovedIn("review")
           /\ call.command = "cmd_review" => ApprovedIn("review")
           /\ call.scan /\ call.command = "cmd_verify" => ApprovedIn("scan")
           /\ "scan" \in DOMAIN reviews => ApprovedIn("scan")
  PROVE  AskInv'
<1>1. ReviewsGenuine'
  BY DEF AskInv, ReviewsGenuine, ApprovedIn
<1>2. Asked'
  BY DEF Asked, Exit
<1>3. ExitClosed'
  BY DEF ExitClosed, ApprovedIn, Exit
<1>4. QED
  BY <1>1, <1>2, <1>3 DEF AskInv

(* The command moves on to place, having asked, or calling a procedure. *)
LEMMA AskMoves ==
  ASSUME Shape, AskInv, stack # <<>>, NEW place, Up(0)'.at = place,
         UNCHANGED <<call, exit, reviews>>,
         \/ Len(stack') # 1
         \/ /\ place = "reviewed" =>
                 ~call.review /\ call.command # "cmd_review"
            /\ place = "scanned" => ~call.scan,
         (call.command = "cmd_verify" /\ place = "reviewed" /\ call.scan) =>
           "scan" \in DOMAIN reviews,
         "scan" \in DOMAIN reviews =>
           \/ call.command = "cmd_verify" /\ place \in {"scanned", "reviewed"}
           \/ call.command = "cmd_apply" /\ place \in {"scanned", "release"},
         (call.command = "cmd_apply" /\ place \in Approved) =>
           (call.strict /\ call.review => ApprovedIn("review")),
         (call.command = "cmd_apply" /\ place \in Committed) =>
           (call.flavors["source"] = "postgres" => lease')
  PROVE  AskInv'
<1>1. ReviewsGenuine'
  BY DEF AskInv, ReviewsGenuine, ApprovedIn
<1>2. Asked'
  BY DEF Asked, ApprovedIn
<1>3. ExitClosed'
  BY DEF ExitClosed, Shape
<1>4. QED
  BY <1>1, <1>2, <1>3 DEF AskInv

(* What is approved has been approved by the reviewer. *)
LEMMA NotRejected ==
  ASSUME AskInv, NEW about, call.strict, ~Rejected(about), about \in DOMAIN reviews
  PROVE  ApprovedIn(about)
BY DEF AskInv, ReviewsGenuine, Rejected

LEMMA AskCommand ==
  ASSUME Shape, AskInv, CommandStep
  PROVE  AskInv'
<1>1. ASSUME NEW code, code # "0", Decide(code) PROVE AskInv'
  BY <1>1, AskExits DEF Decide
<1>2. ASSUME NEW c \in Commands, NEW at, Reached(c, at),
             NEW proc, NEW about, NEW place, CallSite(c, place, proc, about),
             Invoke(proc, about, place)
      PROVE  /\ stack # <<>> /\ Up(0)'.at = place /\ Len(stack') = 2
             /\ call.command = c /\ Up(0).at = at /\ Len(stack) = 1 /\ result = "ok"
  BY <1>2, AtCommand, InvokesAlone DEF Reached
<1>3. ASSUME NEW c \in Commands, NEW at, Reached(c, at), NEW place \in Places, Goto(place)
      PROVE  /\ stack # <<>> /\ Up(0)'.at = place /\ Len(stack') = 1
             /\ call.command = c /\ Up(0).at = at /\ Len(stack) = 1 /\ result = "ok"
  BY <1>3, AtCommand, GoesAlone DEF Reached
<1>4. ASSUME NEW c \in Commands, NEW at, Reached(c, at)
      PROVE  /\ stack # <<>> /\ call.command = c /\ Up(0).at = at /\ Len(stack) = 1
             /\ result = "ok"
  BY <1>4, AtCommand DEF Reached
<1>5. {"cmd_diff", "cmd_review", "cmd_verify", "cmd_apply"} = Commands
  BY DEF Commands
<1>6. {"reviewed", "asked", "confirmed", "scanned", "execute", "residual", "release"}
       \subseteq Places
  BY DEF Places
<1>7. \A c \in Commands : CallSite(c, "reviewed", "ai", "review")
  BY DEF CallSite
<1>8. CallSite("cmd_verify", "scanned", "ai", "scan")
      /\ CallSite("cmd_apply", "scanned", "ai", "scan")
  BY DEF CallSite, Commands
<1>9. CASE Start
  <2>1. CASE Exit("error")
    BY <1>9, <2>1, AskExits DEF Start
  <2>2. CASE Invoke("load", "sides", "loaded") /\ UNCHANGED <<lease, exit>>
    <3>1. PICK c \in Commands : At(c, "start")
      BY <1>9 DEF Start
    <3>2. CallSite(c, "loaded", "load", "sides")
      BY DEF CallSite
    <3>3. /\ stack # <<>> /\ Up(0)'.at = "loaded" /\ Len(stack') = 2
          /\ Up(0).at = "start"
      BY <2>2, <3>1, <3>2, AtCommand, InvokesAlone
    <3>4. "scan" \notin DOMAIN reviews
      BY <3>3 DEF AskInv, Asked
    <3>5. QED
      BY <1>9, <2>2, <3>3, <3>4, AskMoves DEF Start, Committed, Approved
  <2>3. QED
    BY <1>9, <2>1, <2>2 DEF Start
<1>10. CASE Fail
  BY <1>10, AskExits DEF Fail
<1>11. CASE Rendered
  <2>1. PICK c \in {"cmd_diff", "cmd_review"} :
          /\ Reached(c, "loaded")
          /\ \/ Decide("error")
             \/ IF call.review \/ c = "cmd_review" THEN AskReviewer("review", "reviewed")
                ELSE \E code \in {"0", "2"} : Decide(code)
    BY <1>11 DEF Rendered
  <2>2. call.command = c /\ stack # <<>> /\ Up(0).at = "loaded" /\ c \in Commands
    BY <1>4, <1>5, <2>1
  <2>3. "scan" \notin DOMAIN reviews
    BY <2>2 DEF AskInv, Asked
  <2>4. CASE AskReviewer("review", "reviewed")
    <3>1. Up(0)'.at = "reviewed" /\ Len(stack') = 2
      BY <1>2, <1>7, <2>1, <2>2, <2>4 DEF AskReviewer
    <3>2. QED
      BY <2>1, <2>2, <2>3, <2>4, <3>1, AskMoves DEF AskReviewer, found
  <2>5. CASE ~(call.review \/ c = "cmd_review") /\ Decide("0")
    BY <2>1, <2>2, <2>3, <2>5, AskExits DEF Decide
  <2>6. QED
    BY <1>1, <2>1, <2>4, <2>5
<1>12. CASE Reviewed
  <2>1. PICK c \in {"cmd_diff", "cmd_review"} :
          /\ Reached(c, "reviewed")
          /\ IF Rejected("review") THEN Decide("4")
             ELSE \E code \in {"0", "2"} : (c = "cmd_review" => code = "0") /\ Decide(code)
    BY <1>12 DEF Reviewed
  <2>2. /\ call.command = c /\ stack # <<>> /\ Up(0).at = "reviewed" /\ c \in Commands
        /\ Len(stack) = 1 /\ result = "ok"
    BY <1>4, <1>5, <2>1
  <2>3. /\ "scan" \notin DOMAIN reviews
        /\ (call.review \/ c = "cmd_review") => "review" \in DOMAIN reviews
    BY <2>1, <2>2 DEF AskInv, Asked
  <2>4. CASE ~Rejected("review") /\ Decide("0")
    BY <2>1, <2>2, <2>3, <2>4, AskExits, NotRejected DEF Decide
  <2>5. QED
    BY <1>1, <2>1, <2>4
<1>13. CASE Verify
  <2>1. CASE Invoke("verify", "sides", "verified") /\ UNCHANGED <<call, shadows, found, exit>>
    <3>1. CallSite("cmd_verify", "verified", "verify", "sides")
      BY DEF CallSite
    <3>2. /\ stack # <<>> /\ Up(0)'.at = "verified" /\ Len(stack') = 2
          /\ call.command = "cmd_verify" /\ Up(0).at = "loaded"
      BY <1>2, <1>5, <1>13, <2>1, <3>1 DEF Verify
    <3>3. "scan" \notin DOMAIN reviews
      BY <3>2 DEF AskInv, Asked
    <3>4. QED
      BY <2>1, <3>2, <3>3, AskMoves DEF found, Committed, Approved
  <2>2. QED
    BY <1>1, <1>13, <2>1 DEF Verify
<1>14. CASE Verified
  <2>1. /\ call.command = "cmd_verify" /\ stack # <<>> /\ Up(0).at = "verified"
    BY <1>4, <1>5, <1>14 DEF Verified
  <2>2. "scan" \notin DOMAIN reviews
    BY <2>1 DEF AskInv, Asked
  <2>3. CASE AskReviewer("scan", "scanned")
    <3>1. Up(0)'.at = "scanned" /\ Len(stack') = 2
      BY <1>2, <1>5, <1>8, <1>14, <2>3 DEF AskReviewer, Verified
    <3>2. QED
      BY <2>1, <2>2, <2>3, <3>1, AskMoves DEF AskReviewer, found
  <2>4. CASE ~call.scan /\ Goto("scanned") /\ UNCHANGED <<call, result, shadows, found, exit>>
    <3>1. Up(0)'.at = "scanned"
      BY <1>3, <1>5, <1>6, <1>14, <2>4 DEF Verified
    <3>2. QED
      BY <2>1, <2>2, <2>4, <3>1, AskMoves DEF found
  <2>5. QED
    BY <1>1, <1>14, <2>3, <2>4 DEF Verified
<1>15. CASE VerifyScanned
  <2>1. /\ call.command = "cmd_verify" /\ stack # <<>> /\ Up(0).at = "scanned"
        /\ Len(stack) = 1 /\ result = "ok"
    BY <1>4, <1>5, <1>15 DEF VerifyScanned
  <2>2. call.scan => "scan" \in DOMAIN reviews
    BY <2>1 DEF AskInv, Asked
  <2>3. CASE AskReviewer("review", "reviewed")
    <3>1. Up(0)'.at = "reviewed" /\ Len(stack') = 2
      BY <1>2, <1>5, <1>7, <1>15, <2>3 DEF AskReviewer, VerifyScanned
    <3>2. QED
      BY <2>1, <2>2, <2>3, <3>1, AskMoves DEF AskReviewer, found
  <2>4. CASE ~call.review /\ Goto("reviewed") /\ UNCHANGED <<call, result, shadows, found, exit>>
    <3>1. Up(0)'.at = "reviewed"
      BY <1>3, <1>5, <1>6, <1>15, <2>4 DEF VerifyScanned
    <3>2. QED
      BY <2>1, <2>2, <2>4, <3>1, AskMoves DEF found
  <2>5. QED
    BY <1>15, <2>3, <2>4 DEF VerifyScanned
<1>16. CASE VerifyReviewed
  <2>1. /\ call.command = "cmd_verify" /\ stack # <<>> /\ Up(0).at = "reviewed"
        /\ Len(stack) = 1 /\ result = "ok"
    BY <1>4, <1>5, <1>16 DEF VerifyReviewed
  <2>2. /\ call.scan => "scan" \in DOMAIN reviews
        /\ call.review => "review" \in DOMAIN reviews
    BY <2>1 DEF AskInv, Asked
  <2>3. CASE Rejected("scan") \/ Rejected("review")
    BY <1>1, <1>16, <2>3 DEF VerifyReviewed
  <2>4. CASE ~Rejected("scan") /\ ~Rejected("review") /\ Decide(Verdict)
    <3>1. call.strict =>
            /\ call.review => ApprovedIn("review")
            /\ "scan" \in DOMAIN reviews => ApprovedIn("scan")
      BY <2>2, <2>4, NotRejected
    <3>2. QED
      BY <2>1, <2>2, <2>4, <3>1, AskExits DEF Decide
  <2>5. QED
    BY <1>16, <2>3, <2>4 DEF VerifyReviewed
<1>17. CASE Plan
  <2>1. call.command = "cmd_apply" /\ stack # <<>> /\ Up(0).at = "loaded"
    BY <1>4, <1>5, <1>17 DEF Plan
  <2>2. "scan" \notin DOMAIN reviews
    BY <2>1 DEF AskInv, Asked
  <2>3. CASE AskReviewer("review", "reviewed")
    <3>1. Up(0)'.at = "reviewed" /\ Len(stack') = 2
      BY <1>2, <1>5, <1>7, <1>17, <2>3 DEF AskReviewer, Plan
    <3>2. QED
      BY <2>1, <2>2, <2>3, <3>1, AskMoves DEF AskReviewer, found, Committed, Approved
  <2>4. CASE ~call.review /\ Goto("reviewed") /\ UNCHANGED <<call, result, shadows, found, exit>>
    <3>1. Up(0)'.at = "reviewed"
      BY <1>3, <1>5, <1>6, <1>17, <2>4 DEF Plan
    <3>2. QED
      BY <2>1, <2>2, <2>4, <3>1, AskMoves DEF found, Committed, Approved
  <2>5. CASE Decide("0")
    BY <2>1, <2>2, <2>5, AskExits DEF Decide
  <2>6. QED
    BY <1>1, <1>17, <2>3, <2>4, <2>5 DEF Plan
<1>18. CASE Confirm
  <2>1. /\ call.command = "cmd_apply" /\ stack # <<>> /\ Up(0).at = "reviewed"
        /\ Len(stack) = 1 /\ result = "ok"
    BY <1>4, <1>5, <1>18 DEF Confirm
  <2>2. "scan" \notin DOMAIN reviews /\ (call.review => "review" \in DOMAIN reviews)
    BY <2>1 DEF AskInv, Asked
  <2>3. CASE /\ ~Rejected("review")
             /\ \E place \in {"asked", "confirmed"} : Goto(place)
             /\ UNCHANGED <<call, result, shadows, found, exit>>
    <3>1. call.strict /\ call.review => ApprovedIn("review")
      BY <2>2, <2>3, NotRejected
    <3>2. PICK place \in {"asked", "confirmed"} : Goto(place)
      BY <2>3
    <3>3. Up(0)'.at = place
      BY <1>3, <1>5, <1>6, <1>18, <3>2 DEF Confirm
    <3>4. QED
      BY <2>1, <2>2, <2>3, <3>1, <3>3, AskMoves DEF found, Committed, Approved
  <2>4. QED
    BY <1>1, <1>18, <2>3 DEF Confirm
<1>18a. CASE Answer
  <2>1. /\ call.command = "cmd_apply" /\ stack # <<>> /\ Up(0).at = "asked"
        /\ Len(stack) = 1 /\ result = "ok"
    BY <1>4, <1>5, <1>18a DEF Answer
  <2>2. /\ "scan" \notin DOMAIN reviews
        /\ call.strict /\ call.review => ApprovedIn("review")
    BY <2>1 DEF AskInv, Asked, Approved
  <2>3. CASE Goto("confirmed") /\ UNCHANGED <<call, result, shadows, found, exit>>
    <3>1. Up(0)'.at = "confirmed"
      BY <1>3, <1>5, <1>6, <1>18a, <2>3 DEF Answer
    <3>2. QED
      BY <2>1, <2>2, <2>3, <3>1, AskMoves DEF found, Committed, Approved
  <2>4. QED
    BY <1>1, <1>18a, <2>3 DEF Answer
<1>18b. CASE AcquireLease
  <2>1. /\ call.command = "cmd_apply" /\ stack # <<>> /\ Up(0).at = "confirmed"
        /\ Len(stack) = 1 /\ result = "ok"
    BY <1>4, <1>5, <1>18b DEF AcquireLease
  <2>2. /\ "scan" \notin DOMAIN reviews
        /\ call.strict /\ call.review => ApprovedIn("review")
    BY <2>1 DEF AskInv, Asked, Approved
  <2>3. CASE /\ lease' = (call.flavors["source"] = "postgres")
             /\ IF lease' THEN Invoke("load", "sides", "refreshed")
                ELSE Goto("execute") /\ UNCHANGED result
             /\ UNCHANGED <<call, shadows, converged, reports, reviews, exit>>
    <3>1. CallSite("cmd_apply", "refreshed", "load", "sides")
      BY DEF CallSite, Commands
    <3>2. CASE Invoke("load", "sides", "refreshed")
      <4>1. Up(0)'.at = "refreshed" /\ Len(stack') = 2
        BY <1>2, <1>5, <1>18b, <3>1, <3>2 DEF AcquireLease
      <4>2. QED
        BY <2>1, <2>2, <2>3, <4>1, AskMoves
    <3>3. CASE Goto("execute")
      <4>1. Up(0)'.at = "execute"
        BY <1>3, <1>5, <1>6, <1>18b, <3>3 DEF AcquireLease
      <4>2. QED
        BY <2>1, <2>2, <2>3, <4>1, AskMoves
    <3>4. QED
      BY <2>3, <3>2, <3>3
  <2>4. QED
    BY <1>1, <1>18b, <2>3 DEF AcquireLease
<1>19. ASSUME NEW at \in Committed, Reached("cmd_apply", at)
       PROVE  /\ call.command = "cmd_apply" /\ stack # <<>> /\ Up(0).at = at
              /\ Len(stack) = 1 /\ result = "ok"
              /\ call.strict /\ call.review => ApprovedIn("review")
              /\ call.flavors["source"] = "postgres" => lease
              /\ at \notin {"scanned", "release"} => "scan" \notin DOMAIN reviews
              /\ at = "scanned" => (call.scan => "scan" \in DOMAIN reviews)
  <2>1. /\ call.command = "cmd_apply" /\ stack # <<>> /\ Up(0).at = at
        /\ Len(stack) = 1 /\ result = "ok"
    BY <1>4, <1>5, <1>19
  <2>2. QED
    BY <1>19, <2>1 DEF AskInv, Asked, Approved
<1>20. ASSUME NEW at \in Committed, Reached("cmd_apply", at),
              NEW place \in {"execute", "residual", "compare", "checked", "scanned", "release"},
              Up(0)'.at = place,
              Len(stack') # 1 \/ (place = "scanned" => ~call.scan),
              UNCHANGED <<call, exit, reviews, lease>>,
              at \in {"scanned", "release"} => place = "release"
       PROVE  AskInv'
  BY <1>19, <1>20, AskMoves
<1>21. {"refreshed", "execute", "residual", "compare", "checked", "scanned", "release"} = Committed
  BY DEF Committed
<1>22. CASE Refreshed
  <2>1. CASE Goto("execute") /\ UNCHANGED <<call, result, shadows, found, exit>>
    <3>1. Up(0)'.at = "execute"
      BY <1>3, <1>5, <1>6, <1>22, <2>1 DEF Refreshed
    <3>2. QED
      BY <1>20, <1>21, <1>22, <2>1, <3>1 DEF Refreshed, found
  <2>2. CASE Decide("0")
    BY <1>19, <1>21, <1>22, <2>2, AskExits DEF Refreshed, Decide
  <2>3. QED
    BY <1>1, <1>22, <2>1, <2>2 DEF Refreshed
<1>23. CASE Execute
  <2>1. CASE Invoke("canonicalize", "target", "residual") /\ UNCHANGED <<call, shadows, found, exit>>
    <3>1. CallSite("cmd_apply", "residual", "canonicalize", "target")
      BY DEF CallSite, Abouts, Roles, Sides
    <3>2. Up(0)'.at = "residual"
      BY <1>2, <1>5, <1>23, <2>1, <3>1 DEF Execute
    <3>3. QED
      BY <1>20, <1>21, <1>23, <2>1, <3>2 DEF Execute, found
  <2>2. CASE Goto("residual") /\ UNCHANGED <<call, shadows, found, exit>>
    <3>1. Up(0)'.at = "residual"
      BY <1>3, <1>5, <1>6, <1>23, <2>2 DEF Execute
    <3>2. QED
      BY <1>20, <1>21, <1>23, <2>2, <3>1 DEF Execute, found
  <2>3. QED
    BY <1>1, <1>23, <2>1, <2>2 DEF Execute
<1>24. CASE Residual
  <2>1. CallSite("cmd_apply", "checked", "checks", "target")
        /\ CallSite("cmd_apply", "compare", "materialize", "source_replica")
    BY DEF CallSite, Abouts, Roles, Sides
  <2>2. CASE Goto("release")
    <3>1. Up(0)'.at = "release"
      BY <1>3, <1>5, <1>6, <1>24, <2>2 DEF Residual
    <3>2. QED
      BY <1>20, <1>21, <1>24, <3>1 DEF Residual
  <2>3. CASE Invoke("checks", "target", "checked")
    <3>1. Up(0)'.at = "checked"
      BY <1>2, <1>5, <1>24, <2>1, <2>3 DEF Residual
    <3>2. QED
      BY <1>20, <1>21, <1>24, <3>1 DEF Residual
  <2>4. CASE Invoke("materialize", "source_replica", "compare")
    <3>1. Up(0)'.at = "compare"
      BY <1>2, <1>5, <1>24, <2>1, <2>4 DEF Residual
    <3>2. QED
      BY <1>20, <1>21, <1>24, <3>1 DEF Residual
  <2>5. QED
    BY <1>24, <2>2, <2>3, <2>4 DEF Residual
<1>25. CASE Compared
  <2>1. CallSite("cmd_apply", "checked", "checks", "target")
    BY DEF CallSite, Abouts, Roles, Sides
  <2>2. Up(0)'.at = "checked"
    BY <1>2, <1>5, <1>25, <2>1 DEF Compared
  <2>3. QED
    BY <1>20, <1>21, <1>25, <2>2 DEF Compared, found
<1>26. CASE Checked
  <2>1. CASE AskReviewer("scan", "scanned")
    <3>1. Up(0)'.at = "scanned" /\ Len(stack') = 2
      BY <1>2, <1>5, <1>8, <1>26, <2>1 DEF AskReviewer, Checked
    <3>2. QED
      BY <1>20, <1>21, <1>26, <2>1, <3>1 DEF AskReviewer, Checked, found
  <2>2. CASE ~call.scan /\ Goto("scanned") /\ UNCHANGED <<call, result, shadows, found, exit>>
    <3>1. Up(0)'.at = "scanned"
      BY <1>3, <1>5, <1>6, <1>26, <2>2 DEF Checked
    <3>2. QED
      BY <1>20, <1>21, <1>26, <2>2, <3>1 DEF Checked, found
  <2>3. QED
    BY <1>26, <2>1, <2>2 DEF Checked
<1>27. CASE Scanned
  <2>1. Up(0)'.at = "release"
    <3>1. CASE Goto("release")
      BY <1>3, <1>5, <1>6, <1>27, <3>1 DEF Scanned
    <3>2. CASE Disown("source_replica", "release")
      <4>1. Len(stack) = 1 /\ stack # <<>> /\ "source_replica" \in Roles
        BY <1>19, <1>21, <1>27 DEF Scanned, Roles, Replicas
      <4>2. Moved("release", stack[1].owns \ {"source_replica"})
        BY <1>6, <3>2, <4>1, Disowns DEF Shape
      <4>3. Len(stack') - 0 = 1 /\ stack'[1].at = "release"
        BY <4>1, <4>2 DEF Moved
      <4>4. QED
        BY <4>3 DEF Up
    <3>3. QED
      BY <1>27, <3>1, <3>2 DEF Scanned
  <2>2. QED
    BY <1>20, <1>21, <1>27, <2>1 DEF Scanned, found
<1>28. CASE Release
  <2>1. CASE Rejected("scan")
    BY <1>1, <1>28, <2>1 DEF Release
  <2>2. CASE ~Rejected("scan") /\ Decide(Verdict)
    <3>1. call.command = "cmd_apply"
      BY <1>19, <1>21, <1>28 DEF Release
    <3>2. call.strict => ("scan" \in DOMAIN reviews => ApprovedIn("scan"))
      BY <2>2, NotRejected
    <3>3. QED
      BY <2>2, <3>1, <3>2, AskExits DEF Decide
  <2>3. QED
    BY <1>1, <1>28, <2>1, <2>2 DEF Release
<1>29. QED
  BY <1>9, <1>10, <1>11, <1>12, <1>13, <1>14, <1>15, <1>16, <1>17, <1>18, <1>18a,
     <1>18b, <1>22,
     <1>23, <1>24, <1>25, <1>26, <1>27, <1>28 DEF CommandStep

(* The steps of the procedures. *)
InsideStep ==
  \/ Resolve \/ Resolved \/ LoadSource \/ LoadTarget \/ Compare \/ Loaded
  \/ Canonicalize \/ Canonicalized
  \/ Materialize \/ Bootstrap \/ Materialized
  \/ VerifyStart \/ VerifyCreate \/ VerifyRun \/ VerifyEnd
  \/ RehearseBootstrap \/ RehearseMigrate \/ Rediff \/ Comparable
  \/ FlywayReplica \/ FlywayStart \/ FlywayExits
  \/ ExternalStart \/ ExternalExits \/ RehearseEnd
  \/ StartTool \/ ToolExits \/ Ask \/ CallProvider \/ ReviewerExits

LEMMA NextSplits == ASSUME Next PROVE CommandStep \/ InsideStep
BY DEF Next, Own, Spawned, CommandStep, InsideStep

(* What the procedures leave alone, each of them. *)
LEMMA Effects ==
  ASSUME Shape, InsideStep
  PROVE  /\ Inside
         /\ UNCHANGED <<call, exit, lease>> /\ converged' \in BOOLEAN
         /\ stack[1].proc # "rehearse" => converged' = converged
         /\ stack[1].proc \notin {"rehearse", "checks"} => reports' = reports
         /\ stack[1].proc # "ai" => reviews' = reviews
<1> DEFINE Leaves ==
      /\ UNCHANGED <<call, exit, lease>> /\ converged' \in BOOLEAN
      /\ stack[1].proc # "rehearse" => converged' = converged
      /\ stack[1].proc \notin {"rehearse", "checks"} => reports' = reports
      /\ stack[1].proc # "ai" => reviews' = reviews
<1>1. Inside
  BY LoadInside, CanonicalizeInside, MaterializeInside, VerifyInside, RehearseInside,
     ToolsInside DEF InsideStep
<1>2. converged \in BOOLEAN
  BY DEF Shape
<1>3. ASSUME Resolve PROVE Leaves
  BY <1>2, <1>3, AtTop DEF Resolve, found
<1>4. ASSUME Resolved PROVE Leaves
  BY <1>2, <1>4, AtTop DEF Resolved, found
<1>5. ASSUME LoadSource PROVE Leaves
  BY <1>2, <1>5, AtTop DEF LoadSource, found
<1>6. ASSUME LoadTarget PROVE Leaves
  BY <1>2, <1>6, AtTop DEF LoadTarget, found
<1>7. ASSUME Compare PROVE Leaves
  BY <1>2, <1>7, AtTop DEF Compare, found
<1>8. ASSUME Loaded PROVE Leaves
  BY <1>2, <1>8, AtTop DEF Loaded, found
<1>9. ASSUME Canonicalize PROVE Leaves
  BY <1>2, <1>9, AtTop DEF Canonicalize, found
<1>10. ASSUME Canonicalized PROVE Leaves
  BY <1>2, <1>10, AtTop DEF Canonicalized, found
<1>11. ASSUME Materialize PROVE Leaves
  BY <1>2, <1>11, AtTop DEF Materialize, found
<1>12. ASSUME Bootstrap PROVE Leaves
  BY <1>2, <1>12, AtTop DEF Bootstrap, found
<1>13. ASSUME Materialized PROVE Leaves
  BY <1>2, <1>13, AtTop DEF Materialized, found
<1>14. ASSUME VerifyStart PROVE Leaves
  BY <1>2, <1>14, AtTop DEF VerifyStart, found
<1>15. ASSUME VerifyCreate PROVE Leaves
  BY <1>2, <1>15, AtTop DEF VerifyCreate, found
<1>16. ASSUME VerifyRun PROVE Leaves
  BY <1>2, <1>16, AtTop DEF VerifyRun, found
<1>17. ASSUME VerifyEnd PROVE Leaves
  BY <1>2, <1>17, AtTop DEF VerifyEnd, found
<1>18. ASSUME RehearseBootstrap PROVE Leaves
  BY <1>2, <1>18, AtTop DEF RehearseBootstrap, found
<1>19. ASSUME RehearseMigrate PROVE Leaves
  BY <1>2, <1>19, AtTop DEF RehearseMigrate, found
<1>20. ASSUME Rediff PROVE Leaves
  BY <1>2, <1>20, AtTop DEF Rediff, found
<1>21. ASSUME Comparable PROVE Leaves
  BY <1>2, <1>21, AtTop DEF Comparable, found
<1>22. ASSUME FlywayReplica PROVE Leaves
  BY <1>2, <1>22, AtTop DEF FlywayReplica, found
<1>23. ASSUME FlywayStart PROVE Leaves
  BY <1>2, <1>23, AtTop DEF FlywayStart, found
<1>24. ASSUME FlywayExits PROVE Leaves
  BY <1>2, <1>24, AtTop DEF FlywayExits, found
<1>25. ASSUME ExternalStart PROVE Leaves
  BY <1>2, <1>25, AtTop DEF ExternalStart, found
<1>26. ASSUME ExternalExits PROVE Leaves
  BY <1>2, <1>26, AtTop DEF ExternalExits, found
<1>27. ASSUME RehearseEnd PROVE Leaves
  BY <1>2, <1>27, AtTop DEF RehearseEnd, found
<1>28. ASSUME StartTool PROVE Leaves
  BY <1>2, <1>28, AtTop DEF StartTool, found
<1>29. ASSUME ToolExits PROVE Leaves
  BY <1>2, <1>29, AtTop DEF ToolExits, found
<1>30. ASSUME Ask PROVE Leaves
  BY <1>2, <1>30, AtTop DEF Ask, found
<1>31. ASSUME CallProvider PROVE Leaves
  BY <1>2, <1>31, AtTop DEF CallProvider, found
<1>32. ASSUME ReviewerExits PROVE Leaves
  BY <1>2, <1>32, AtTop DEF ReviewerExits, found
<1>33. Leaves
  BY <1>3, <1>4, <1>5, <1>6, <1>7, <1>8, <1>9, <1>10, <1>11, <1>12, <1>13, <1>14, <1>15, <1>16, <1>17, <1>18, <1>19, <1>20, <1>21, <1>22, <1>23, <1>24, <1>25, <1>26, <1>27, <1>28, <1>29, <1>30, <1>31, <1>32 DEF InsideStep
<1>34. QED
  BY <1>1, <1>33

LEMMA ShapeInit == ASSUME Init PROVE Shape
<1>1. call \in Calls /\ call.command \in Commands
  BY CallsAssumption DEF Init, CallOK
<1>2. Frame(call.command, "all") \in Frames
  BY <1>1 DEF Frame, Frames, Procedures, Abouts, Places
<1>3. stack \in Seq(Frames) /\ Len(stack) = 1 /\ stack # <<>>
      /\ stack[1] = Frame(call.command, "all")
  BY <1>2 DEF Init
<1>4. Up(0).proc = call.command
  <2>1. Len(stack) - 0 = 1
    BY <1>3
  <2>2. QED
    BY <2>1, <1>3 DEF Up, Frame
<1>5. 1..(Len(stack) - 1) = {}
  BY <1>3
<1>6. QED
  BY <1>1, <1>3, <1>4, <1>5 DEF Shape, Init, Results, Exits

LEMMA ShapeStep == ASSUME Shape, [Next]_vars PROVE Shape'
<1>1. CASE CommandStep
  BY <1>1, CommandShape
<1>2. CASE InsideStep
  BY <1>2, Effects, InsideShape
<1>3. CASE UNCHANGED vars
  BY <1>3 DEF vars, Shape, Up, CallsNow
<1>4. QED
  BY <1>1, <1>2, <1>3, NextSplits

(* Whatever the calls are, the stack is one of the call chains of the      *)
(* code: every procedure is called from where it is called in the source,  *)
(* about what it is called about there, and the command is at the bottom.  *)
THEOREM ShapeInvariant == Spec => []Shape
<1>1. QED
  BY ShapeInit, ShapeStep, PTL DEF Spec

(* What the review lemmas say, of every step. *)
LEMMA AskInit == ASSUME Init PROVE AskInv
<1>1. stack # <<>> /\ reviews = <<>> /\ DOMAIN reviews = {} /\ exit = "running"
  BY DEF Init
<1>2. Len(stack) - 0 = 1 /\ stack[1].at = "start"
  BY DEF Init, Frame
<1>3. Up(0).at = "start"
  BY <1>2 DEF Up
<1>4. QED
  BY <1>1, <1>3 DEF AskInv, ReviewsGenuine, Asked, ExitClosed, Committed, Approved

(* No answer yet, or no answer at all. *)
LEMMA AskWaits ==
  ASSUME Shape, AskInv, Inside, stack[1].proc = "ai", Len(stack') # 1 \/ result' # "ok",
         UNCHANGED <<call, exit, reviews, lease>>
  PROVE  AskInv'
<1>1. stack # <<>> /\ stack' # <<>> /\ exit = "running" /\ Up(0)'.at = Up(0).at
  BY InsideBase
<1>2. ReviewsGenuine'
  BY DEF AskInv, ReviewsGenuine, ApprovedIn
<1>3. Asked'
  BY <1>1 DEF AskInv, Asked, ApprovedIn
<1>4. ExitClosed'
  BY <1>1 DEF ExitClosed
<1>5. QED
  BY <1>2, <1>3, <1>4 DEF AskInv

LEMMA AskInside ==
  ASSUME Shape, AskInv, InsideStep
  PROVE  AskInv'
<1>1. Inside /\ UNCHANGED <<call, exit, lease>>
  BY Effects
<1>2. stack # <<>> /\ Len(stack) > 1 /\ Len(stack) \in Nat
  BY <1>1, InsideBase
<1>3. CASE Ask \/ CallProvider \/ ReviewerExits
  <2>1. stack[1].proc = "ai" /\ Head(stack) = stack[1]
    BY <1>3, AtTop DEF Ask, CallProvider, ReviewerExits
  <2>2. ASSUME Return("ai"), reviews' = reviews PROVE AskInv'
    BY <1>1, <2>1, <2>2, AskWaits DEF Return
  <2>3. ASSUME Walks, reviews' = reviews PROVE AskInv'
    <3>1. Len(stack') # 1
      BY <1>2, <2>3 DEF Walks
    <3>2. QED
      BY <1>1, <2>1, <2>3, <3>1, AskWaits
  <2>4. ASSUME NEW well \in BOOLEAN, NEW said \in Transcripts \cup {<<>>},
               Answered(well, said)
        PROVE  AskInv'
    <3>1. stack[1].about = stack[1].about
      OBVIOUS
    <3>2. QED
      BY <1>1, <1>2, <2>1, <2>4, AskAnswered
  <2>5. CASE Ask
    <3>1. reviews' = reviews
      BY <2>5 DEF Ask, found
    <3>2. ASSUME NEW place \in Places, Goto(place) PROVE AskInv'
      BY <1>2, <2>3, <3>1, <3>2, GotoProceeds
    <3>3. {"calling", "waits"} \subseteq Places
      BY DEF Places
    <3>4. QED
      BY <2>2, <2>5, <3>1, <3>2, <3>3 DEF Ask
  <2>6. CASE CallProvider
    <3>1. ASSUME stack' = [stack EXCEPT ![1].tries = @ + 1], reviews' = reviews
          PROVE  AskInv'
      BY <1>2, <2>3, <3>1, RetryProceeds
    <3>2. QED
      BY <2>2, <2>4, <2>6, <3>1 DEF CallProvider
  <2>7. CASE ReviewerExits
    BY <2>4, <2>7 DEF ReviewerExits
  <2>8. QED
    BY <1>3, <2>5, <2>6, <2>7
<1>4. CASE stack[1].proc # "ai"
  BY <1>1, <1>4, Effects, AskStill
<1>5. CASE stack[1].proc = "ai"
  <2>1. ASSUME NEW proc, NEW place, At(proc, place), proc # "ai" PROVE FALSE
    BY <1>5, <2>1, AtTop
  <2>2. Ask \/ CallProvider \/ ReviewerExits
    BY <2>1 DEF InsideStep, Resolve, Resolved, LoadSource, LoadTarget, Compare, Loaded,
       Canonicalize, Canonicalized, Materialize, Bootstrap, Materialized,
       VerifyStart, VerifyCreate, VerifyRun, VerifyEnd,
       RehearseBootstrap, RehearseMigrate, Rediff, Comparable,
       FlywayReplica, FlywayStart, FlywayExits, ExternalStart, ExternalExits,
       RehearseEnd, StartTool, ToolExits
  <2>3. QED
    BY <1>3, <2>2
<1>6. QED
  BY <1>4, <1>5

LEMMA AskStep == ASSUME Shape, AskInv, [Next]_vars PROVE AskInv'
<1>1. CASE CommandStep
  BY <1>1, AskCommand
<1>2. CASE InsideStep
  BY <1>2, AskInside
<1>3. CASE UNCHANGED vars
  <2>1. ReviewsGenuine'
    BY <1>3 DEF vars, AskInv, ReviewsGenuine, ApprovedIn
  <2>2. Asked'
    BY <1>3 DEF vars, AskInv, Asked, ApprovedIn, Up
  <2>3. ExitClosed'
    BY <1>3 DEF vars, AskInv, ExitClosed, ApprovedIn
  <2>4. QED
    BY <2>1, <2>2, <2>3 DEF AskInv
<1>4. QED
  BY <1>1, <1>2, <1>3, NextSplits

LEMMA WritingPlaces ==
  ASSUME Shape, Writing
  PROVE  /\ stack # <<>> /\ call.command = "cmd_apply"
         /\ Up(0).at \in {"execute", "residual", "compare", "checked", "scanned", "release"}
<1>1. stack # <<>> /\ Last(stack) = stack[Len(stack)] /\ Len(stack) \in Nat
  BY Chain DEF Writing, Last
<1>2. Len(stack) - 0 = Len(stack)
  BY <1>1
<1>3. Last(stack) = Up(0)
  BY <1>1, <1>2 DEF Up
<1>4. QED
  BY <1>1, <1>3 DEF Writing, Shape

(* With --ai-strict, whatever the reviewer and the tools do, a command     *)
(* that asked a reviewer exits with 0, and `apply` writes to the target,   *)
(* only after a reviewer that ended well has approved in its last verdict. *)
THEOREM StrictFailsClosed == Spec => []FailsClosed
<1>1. Shape /\ AskInv => FailsClosed
  <2> SUFFICES ASSUME Shape, AskInv PROVE FailsClosed
    OBVIOUS
  <2>1. (call.strict /\ call.review /\ Writing) => ApprovedIn("review")
    BY WritingPlaces DEF AskInv, Asked, Committed, Approved
  <2>2. QED
    BY <2>1 DEF AskInv, ExitClosed, FailsClosed
<1>2. Init => Shape /\ AskInv
  BY ShapeInit, AskInit
<1>3. Shape /\ AskInv /\ [Next]_vars => (Shape /\ AskInv)'
  BY ShapeStep, AskStep
<1>4. QED
  BY <1>1, <1>2, <1>3, PTL DEF Spec

(* What is executed on a PostgreSQL target, and every check of it, is done *)
(* under the migration lease: released last.                               *)
THEOREM LeaseHeldThroughout == Spec => []LeaseCoversEvidence
<1>1. Shape /\ AskInv => LeaseCoversEvidence
  BY WritingPlaces DEF AskInv, Asked, Committed, LeaseCoversEvidence
<1>2. Init => Shape /\ AskInv
  BY ShapeInit, AskInit
<1>3. Shape /\ AskInv /\ [Next]_vars => (Shape /\ AskInv)'
  BY ShapeStep, AskStep
<1>4. QED
  BY <1>1, <1>2, <1>3, PTL DEF Spec

-----------------------------------------------------------------------------
(* Exit 0 means what the checkers were asked. *)

(* Reports stay. *)
Grows == \A t \in DOMAIN reports : t \in DOMAIN reports' /\ reports'[t] = reports[t]

LEMMA GrowsKeeps ==
  ASSUME Grows, call' = call
  PROVE  /\ DiffsDone => DiffsDone'
         /\ FlywayDone => FlywayDone'
         /\ ExternalDone => ExternalDone'
         /\ Complete => Complete'
<1>1. \A t : Wanted(t)' = Wanted(t)
  BY DEF Wanted
<1>2. DiffsDone => DiffsDone'
  BY <1>1 DEF DiffsDone, Grows
<1>3. FlywayDone => FlywayDone'
  BY <1>1 DEF FlywayDone, Grows
<1>4. ExternalDone => ExternalDone'
  BY DEF ExternalDone, Grows
<1>5. NoSource => NoSource'
  BY DEF NoSource, Grows
<1>6. QED
  BY <1>2, <1>3, <1>4, <1>5 DEF Complete

LEMMA ToolsAre ==
  /\ DOMAIN DiffTools = 1..6
  /\ ToSet(DiffTools) =
       {"migra", "pgdiff", "atlas", "pg_schema_diff", "liquibase", "apgdiff"}
<1>1. DOMAIN DiffTools = 1..6
  BY DEF DiffTools
<1>2. /\ DiffTools[1] = "migra" /\ DiffTools[2] = "pgdiff" /\ DiffTools[3] = "atlas"
      /\ DiffTools[4] = "pg_schema_diff" /\ DiffTools[5] = "liquibase"
      /\ DiffTools[6] = "apgdiff"
  BY DEF DiffTools
<1>3. ToSet(DiffTools) = {DiffTools[i] : i \in 1..6}
  BY <1>1 DEF ToSet
<1>4. 1..6 = {1, 2, 3, 4, 5, 6}
  OBVIOUS
<1>5. QED
  BY <1>1, <1>2, <1>3, <1>4

(* What agrees has ended well. *)
LEMMA AgreementIsSuccess ==
  ASSUME NEW tool \in ToSet(DiffTools) \cup {"flyway", "external"},
         NEW success \in BOOLEAN, NEW printed
  PROVE  Report(tool, success, printed).agreed => Report(tool, success, printed).success
<1>1. Agrees(tool, success, printed) => success
  BY ToolsAre DEF Agrees, MigraAgrees, PgdiffAgrees, AtlasAgrees, PgSchemaDiffAgrees,
     LiquibaseAgrees, ApgdiffAgrees, FlywayAgrees, ExternalAgrees
<1>2. QED
  BY <1>1 DEF Report

LEMMA FirstExists ==
  ASSUME NEW I \in SUBSET Nat, I # {}
  PROVE  \E i \in I : \A j \in I : i <= j
<1> DEFINE R == {p \in Nat \X Nat : p[1] < p[2]}
<1>1. IsWellFoundedOn(R, Nat)
  BY LessIsWellFounded
<1>2. PICK i \in I : \A j \in I : ~(<<j, i>> \in R)
  <2> HIDE DEF R
  <2> QED
    BY <1>1, WFMin
<1>3. ASSUME NEW j \in I PROVE i <= j
  <2>1. <<j, i>> \in Nat \X Nat /\ <<j, i>>[1] = j /\ <<j, i>>[2] = i
    OBVIOUS
  <2>2. ~(j < i)
    BY <2>1, <1>2
  <2>3. QED
    BY <2>2
<1>4. QED
  BY <1>3

(* The next tool is one of the tools. *)
LEMMA NextIsATool == ASSUME Pending # {} PROVE NextTool \in ToSet(DiffTools)
<1>1. Pending \in SUBSET (1..6) /\ Pending \in SUBSET Nat
  BY ToolsAre DEF Pending
<1>2. Min(Pending) \in Pending
  <2>1. \E i \in Pending : \A j \in Pending : i <= j
    BY <1>1, FirstExists
  <2>2. QED
    BY <2>1 DEF Min
<1>3. QED
  BY <1>1, <1>2, ToolsAre DEF NextTool, ToSet

LEMMA NothingPending == ASSUME Pending = {} PROVE DiffsDone
BY DEF Pending, DiffsDone, ToSet

LEMMA NothingWanted == ASSUME ~AnyCheck PROVE DiffsDone /\ FlywayDone
BY DEF AnyCheck, Wanted, DiffsDone, FlywayDone

LEMMA ReportAdded ==
  ASSUME ReportsHonest, NEW tool \in Tools \cup {"external", "source-replica"},
         NEW entry, entry.agreed => entry.success /\ tool # "source-replica",
         reports' = Adding(reports, tool, entry)
  PROVE  Grows /\ ReportsHonest' /\ tool \in DOMAIN reports'
<1>1. /\ DOMAIN reports' = DOMAIN reports \cup {tool}
      /\ \A t \in DOMAIN reports : reports'[t] = reports[t]
      /\ tool \notin DOMAIN reports => reports'[tool] = entry
  BY DEF Adding
<1>2. ASSUME NEW t \in DOMAIN reports', reports'[t].agreed PROVE reports'[t].success
  BY <1>1, <1>2 DEF ReportsHonest
<1>3. "source-replica" \in DOMAIN reports' => ~reports'["source-replica"].agreed
  BY <1>1 DEF ReportsHonest
<1>4. QED
  BY <1>1, <1>2, <1>3 DEF ReportsHonest, Grows

(* Where a procedure returns to. *)
LEMMA ReturnsTo ==
  ASSUME Shape, Inside, Leaving
  PROVE  /\ stack'[1].proc = stack[2].proc /\ stack'[1].at = stack[2].at
         /\ CallSite(stack[2].proc, stack[2].at, stack[1].proc, stack[1].about)
<1>1. Len(stack) > 1 /\ Len(stack) \in Nat
  BY InsideBase
<1>2. CallsNow(stack[2], stack[1]) /\ stack[2] = Up(Len(stack) - 2)
  BY <1>1, Chain DEF Inside
<1>3. PICK k \in Nat : k = Len(stack) - 2
  BY <1>1
<1>4. k \in 0..(Len(stack) - 2) /\ Len(stack') - k = 1
  BY <1>3, <1>1 DEF Leaving
<1>5. Up(k)' = stack'[1] /\ Up(k) = stack[2]
  BY <1>3, <1>2, <1>4 DEF Up
<1>6. SameFrame(Up(k)', Up(k))
  BY <1>4 DEF Inside, Proceeds, BelowSame
<1>7. QED
  BY <1>2, <1>5, <1>6 DEF SameFrame, CallsNow

(* A step of a procedure that leaves to the checks what it owes them. *)
LEMMA CheckStill ==
  ASSUME Shape, CheckInv, Inside, Grows, ReportsHonest', UNCHANGED <<call, exit>>,
         call.command = "cmd_apply" => converged' = converged,
         Walks =>
           /\ ~(stack'[1].proc = "verify" /\ stack'[1].at = "dispose")
           /\ ~(stack'[1].proc = "rehearse" /\ stack'[1].at = "checked")
           /\ (stack'[1].proc = "checks" /\ stack'[1].at = "waits") => (Pending # {})',
         (Leaving /\ stack[1].proc = "checks") => DiffsDone',
         (Leaving /\ stack[1].proc \in {"rehearse", "verify"} /\ result' = "ok") =>
           Complete',
         stack[1].proc = "rehearse" =>
           \A place : (\/ Walks /\ place = stack'[1].at
                       \/ Calling /\ place = stack'[2].at) => DoneBy(place)'
  PROVE  CheckInv'
<1>1. /\ stack # <<>> /\ stack' # <<>> /\ Len(stack) > 1 /\ exit = "running"
      /\ Up(0)'.proc = Up(0).proc /\ Up(0)'.at = Up(0).at
      /\ stack[1].proc \notin Commands
  BY InsideBase DEF Inside
<1>2. /\ DiffsDone => DiffsDone'
      /\ FlywayDone => FlywayDone'
      /\ ExternalDone => ExternalDone'
      /\ Complete => Complete'
  BY GrowsKeeps
<1>3. ASSUME NEW k \in 0..(Len(stack') - 1) PROVE RehearsedSoFar(Up(k))'
  <2>1. \/ k \in 0..(Len(stack) - 2) /\ SameFrame(Up(k)', Up(k))
        \/ Walks /\ k = Len(stack) - 1 /\ Up(k)' = stack'[1] /\ Up(k) = stack[1]
        \/ Calling /\ k = Len(stack) - 1 /\ Up(k)' = stack'[2] /\ Up(k) = stack[1]
        \/ Calling /\ k = Len(stack) /\ Up(k)' = stack'[1]
    BY <1>1, Positions DEF Inside
  <2>2. CASE k \in 0..(Len(stack) - 2) /\ SameFrame(Up(k)', Up(k))
    <3>1. k \in 0..(Len(stack) - 1)
      BY <2>2, <1>1, InsideBase
    <3>2. RehearsedSoFar(Up(k))
      BY <3>1 DEF CheckInv
    <3>3. QED
      BY <3>2, <2>2, <1>2 DEF RehearsedSoFar, DoneBy, SameFrame
  <2>3. CASE Walks /\ Up(k)' = stack'[1]
    BY <2>3 DEF RehearsedSoFar, Walks
  <2>4. CASE Calling /\ Up(k)' = stack'[2]
    BY <2>4 DEF RehearsedSoFar, Calling
  <2>5. CASE Calling /\ Up(k)' = stack'[1]
    BY <2>5 DEF RehearsedSoFar, Calling, DoneBy
  <2>6. QED
    BY <2>1, <2>2, <2>3, <2>4, <2>5
<1>4. \/ Walks /\ stack'[1].proc = stack[1].proc
      \/ Calling /\ stack'[1].at = "start"
      \/ /\ Leaving
         /\ CallSite(stack'[1].proc, stack'[1].at, stack[1].proc, stack[1].about)
  BY ReturnsTo DEF Inside, Proceeds, Walks, Calling
<1>5. CheckedSoFar'
  <2>1. (stack'[1].at = "checked" /\ stack'[1].proc \in {"rehearse", "cmd_apply"}) =>
          DiffsDone'
    BY <1>1, <1>4 DEF CallSite, Commands
  <2>2. (stack'[1].at = "waits" /\ stack'[1].proc = "checks") => (Pending # {})'
    BY <1>4 DEF CallSite, Commands
  <2>3. (result' = "ok" /\ stack'[1].proc = "verify" /\ stack'[1].at = "dispose") =>
          Complete'
    BY <1>4 DEF CallSite, Commands
  <2>4. (result' = "ok" /\ stack'[1].proc = "cmd_verify" /\ stack'[1].at = "verified") =>
          Complete'
    BY <1>1, <1>4 DEF CallSite, Commands
  <2>5. (call'.command = "cmd_verify" /\ Up(0)'.at \in {"scanned", "reviewed"}) =>
          Complete'
    BY <1>1, <1>2 DEF CheckInv, CheckedSoFar
  <2>6. call'.command = "cmd_apply" =>
          /\ Up(0)'.at = "scanned" => DiffsDone'
          /\ Up(0)'.at = "release" =>
               DiffsDone' \/ (call'.sides["source"] # "url" /\ ~call'.shadow)
          /\ Up(0)'.at \in {"start", "loaded", "reviewed", "asked", "confirmed",
                            "refreshed", "execute", "residual"} => ~converged'
    BY <1>1, <1>2 DEF CheckInv, CheckedSoFar
  <2>7. QED
    BY <2>1, <2>2, <2>3, <2>4, <2>5, <2>6 DEF CheckedSoFar
<1>6. ExitZeroMeans'
  BY <1>1 DEF ExitZeroMeans, VerifiedMeans, ChecksAreSkippedKnowingly
<1>7. QED
  BY <1>3, <1>5, <1>6 DEF CheckInv

(* A rehearsal is a part of verify. *)
LEMMA RehearsalIsVerify ==
  ASSUME Shape, stack # <<>>, stack[1].proc = "rehearse"
  PROVE  call.command = "cmd_verify" /\ Len(stack) = 3
<1>1. Len(stack) > 1 /\ Len(stack) \in Nat
  BY Chain DEF Commands
<1>2. CallsNow(stack[2], stack[1]) /\ stack[2] = Up(Len(stack) - 2)
  BY <1>1, Chain
<1>3. stack[2].proc = "verify"
  BY <1>2 DEF CallsNow, CallSite
<1> DEFINE k == Len(stack) - 2
<1>4. k \in 0..(Len(stack) - 1) /\ Up(k).proc = "verify"
  BY <1>1, <1>2, <1>3
<1>5. k # 0
  <2> HIDE DEF k
  <2> QED
    BY <1>4, Chain DEF Commands
<1>6. k \in 1..(Len(stack) - 1) /\ k - 1 \in 0..(Len(stack) - 1)
  <2>1. \A n \in Nat : (n > 1 /\ n - 2 # 0) =>
          (n - 2 \in 1..(n - 1) /\ (n - 2) - 1 \in 0..(n - 1))
    OBVIOUS
  <2>2. QED
    BY <2>1, <1>1, <1>5
<1>7. CallsNow(Up(k - 1), Up(k))
  BY <1>6 DEF Shape
<1>8. Up(k - 1).proc = "cmd_verify"
  BY <1>4, <1>7 DEF CallsNow, CallSite
<1>9. k - 1 = 0
  <2> DEFINE j == k - 1
  <2>1. j \in 0..(Len(stack) - 1) /\ Up(j).proc \in Commands
    BY <1>6, <1>8 DEF Commands
  <2> HIDE DEF j
  <2>2. j = 0
    BY <2>1, Chain
  <2>3. QED
    BY <2>2 DEF j
<1>10. Up(0).proc = "cmd_verify"
  BY <1>8, <1>9
<1>11. QED
  BY <1>1, <1>9, <1>10 DEF Shape

(* The kinds of step exclude each other. *)
LEMMA OneKind ==
  ASSUME Shape, stack # <<>>
  PROVE  /\ Walks => ~Calling /\ ~Leaving
         /\ Calling => ~Walks /\ ~Leaving
         /\ Leaving => ~Walks /\ ~Calling
<1>1. Len(stack) \in Nat
  BY Chain
<1>2. QED
  BY <1>1 DEF Walks, Calling, Leaving

LEMMA GotoAt ==
  ASSUME Shape, stack # <<>>, NEW place \in Places, Goto(place)
  PROVE  Walks /\ ~Calling /\ ~Leaving /\ stack'[1].at = place
BY Goes, GotoProceeds, OneKind DEF Moved, Shape

LEMMA InvokeAt ==
  ASSUME Shape, stack # <<>>, NEW proc, NEW about, NEW place,
         CallSite(stack[1].proc, place, proc, about), Invoke(proc, about, place)
  PROVE  /\ Calling /\ ~Walks /\ ~Leaving
         /\ stack'[2].at = place /\ result' = "none"
BY SiteTyped, Invokes, InvokeProceeds, OneKind DEF Pushed, Shape

LEMMA ReturnAt ==
  ASSUME Shape, stack # <<>>, NEW r, Return(r)
  PROVE  Leaving /\ ~Walks /\ ~Calling /\ result' = r
BY ReturnProceeds, OneKind

LEMMA CreateAt ==
  ASSUME Shape, stack # <<>>, NEW role \in Roles, NEW place \in Places,
         Create(role, place)
  PROVE  \/ Leaving /\ ~Walks /\ ~Calling /\ result' = "failed"
         \/ Walks /\ ~Calling /\ ~Leaving /\ stack'[1].at = place /\ result' = result
<1>1. CASE Return("failed")
  BY <1>1, ReturnAt
<1>2. CASE stack' = [stack EXCEPT ![1].at = place, ![1].owns = @ \cup {role}]
           /\ result' = result
  <2>1. Moved(place, stack[1].owns \cup {role})
    BY <1>2, Takes DEF Shape
  <2>2. QED
    BY <1>2, <2>1, OneKind DEF Moved, Walks
<1>3. QED
  BY <1>1, <1>2 DEF Create

LEMMA DisownAt ==
  ASSUME Shape, stack # <<>>, NEW role \in Roles, NEW place \in Places,
         Disown(role, place)
  PROVE  Walks /\ ~Calling /\ ~Leaving /\ stack'[1].at = place
<1>1. Moved(place, stack[1].owns \ {role})
  BY Disowns DEF Shape
<1>2. QED
  BY <1>1, OneKind DEF Moved, Walks

(* Procedures that neither check nor rehearse. *)
LEMMA CheckQuiet ==
  ASSUME Shape, CheckInv, InsideStep, stack[1].proc \notin {"rehearse", "checks", "verify"}
  PROVE  CheckInv'
<1>1. Inside /\ UNCHANGED <<call, exit, converged, reports>>
  BY Effects
<1>2. Grows /\ ReportsHonest'
  BY <1>1 DEF Grows, CheckInv, ReportsHonest
<1>3. Walks => stack'[1].proc = stack[1].proc
  BY DEF Walks
<1>4. QED
  BY <1>1, <1>2, <1>3, CheckStill

LEMMA CheckVerify ==
  ASSUME Shape, CheckInv, InsideStep, stack[1].proc = "verify"
  PROVE  CheckInv'
<1>1. Inside /\ stack # <<>> /\ UNCHANGED <<call, exit, converged, reports>>
  BY Effects DEF Inside
<1>2. Grows /\ ReportsHonest'
  BY <1>1 DEF Grows, CheckInv, ReportsHonest
<1>3. Walks => stack'[1].proc = stack[1].proc
  BY DEF Walks
<1>4. /\ Walks => stack'[1].at # "dispose"
      /\ (Leaving /\ result' = "ok") => Complete'
  <2>1. /\ CallSite("verify", "replica", "canonicalize", "sides")
        /\ CallSite("verify", "dispose", "rehearse", "replica")
        /\ "replica" \in Roles /\ "created" \in Places
    BY DEF CallSite, Abouts, Roles, Replicas, Places
  <2>2. CASE VerifyStart
    BY <1>1, <2>1, <2>2, InvokeAt, ReturnAt, AtTop DEF VerifyStart
  <2>3. CASE VerifyCreate
    BY <1>1, <2>1, <2>3, CreateAt, ReturnAt DEF VerifyCreate
  <2>4. CASE VerifyRun
    <3>1. CASE Return("failed")
      BY <1>1, <3>1, ReturnAt
    <3>2. CASE Invoke("rehearse", "replica", "dispose")
      BY <1>1, <2>1, <3>2, InvokeAt
    <3>3. QED
      BY <2>4, <3>1, <3>2 DEF VerifyRun
  <2>5. CASE VerifyEnd
    <3>1. Leaving /\ ~Walks /\ result' = result
      BY <1>1, <2>5, ReturnAt DEF VerifyEnd
    <3>2. stack[1].at = "dispose"
      BY <2>5, AtTop DEF VerifyEnd
    <3>3. result = "ok" => Complete
      BY <1>1, <3>2 DEF CheckInv, CheckedSoFar
    <3>4. QED
      BY <1>1, <1>2, <3>1, <3>3, GrowsKeeps
  <2>6. \A proc, place : At(proc, place) => proc = "verify"
    BY AtTop
  <2>7. VerifyStart \/ VerifyCreate \/ VerifyRun \/ VerifyEnd
    BY <2>6 DEF InsideStep, Resolve, Resolved, LoadSource, LoadTarget, Compare, Loaded,
       Canonicalize, Canonicalized, Materialize, Bootstrap, Materialized,
       RehearseBootstrap, RehearseMigrate, Rediff, Comparable,
       FlywayReplica, FlywayStart, FlywayExits, ExternalStart, ExternalExits,
       RehearseEnd, StartTool, ToolExits, Ask, CallProvider, ReviewerExits
  <2>8. QED
    BY <2>2, <2>3, <2>4, <2>5, <2>7
<1>5. QED
  BY <1>1, <1>2, <1>3, <1>4, CheckStill

(* The tools, one after the other. *)
LEMMA CheckTools ==
  ASSUME Shape, CheckInv, InsideStep, stack[1].proc = "checks"
  PROVE  CheckInv'
<1>1. Inside /\ stack # <<>> /\ UNCHANGED <<call, exit, converged>>
  BY Effects DEF Inside
<1>2. ReportsHonest /\ (stack[1].at = "waits" => Pending # {})
  BY <1>1 DEF CheckInv, CheckedSoFar
<1>3. Walks => stack'[1].proc = stack[1].proc
  BY DEF Walks
<1>4. ASSUME Grows, ReportsHonest',
             (Walks /\ stack'[1].at = "waits") => (Pending # {})',
             Leaving => DiffsDone'
      PROVE  CheckInv'
  BY <1>1, <1>3, <1>4, CheckStill
<1>5. ASSUME NEW entry, entry.agreed => entry.success, Pending # {},
             reports' = Adding(reports, NextTool, entry)
      PROVE  Grows /\ ReportsHonest'
  <2>1. NextTool \in Tools \cup {"external", "source-replica"} /\ NextTool # "source-replica"
    BY <1>5, NextIsATool, ToolsAre DEF Tools
  <2>2. QED
    BY <1>2, <1>5, <2>1, ReportAdded
<1>6. CASE StartTool
  <2>1. CASE Pending = {}
    <3>1. Leaving /\ ~Walks
      BY <1>1, <1>6, <2>1, ReturnAt DEF StartTool
    <3>2. reports' = reports
      BY <1>6, <2>1 DEF StartTool
    <3>3. Grows /\ ReportsHonest'
      BY <1>2, <3>2 DEF Grows, ReportsHonest
    <3>4. DiffsDone'
      BY <1>1, <2>1, <3>3, NothingPending, GrowsKeeps
    <3>5. QED
      BY <1>4, <3>1, <3>3, <3>4
  <2>2. CASE Pending # {} /\ reports' = Adding(reports, NextTool, Failed)
             /\ UNCHANGED <<stack, result>>
    <3>1. Grows /\ ReportsHonest'
      BY <1>5, <2>2 DEF Failed
    <3>2. stack'[1].at = "start"
      BY <1>6, <2>2, AtTop DEF StartTool
    <3>3. Walks
      BY <2>2 DEF Walks, Shape
    <3>4. QED
      BY <1>1, <1>4, <3>1, <3>2, <3>3, OneKind
  <2>3. CASE Pending # {} /\ Goto("waits") /\ UNCHANGED <<result, reports>>
    <3>1. Walks /\ ~Leaving
      BY <1>1, <2>3, GotoAt DEF Places
    <3>2. Grows /\ ReportsHonest'
      BY <1>2, <2>3 DEF Grows, ReportsHonest
    <3>3. Pending' = Pending
      BY <1>1, <2>3 DEF Pending, Wanted
    <3>4. QED
      BY <1>4, <2>3, <3>1, <3>2, <3>3
  <2>4. QED
    BY <1>6, <2>1, <2>2, <2>3 DEF StartTool
<1>7. CASE ToolExits
  <2>1. PICK success \in BOOLEAN, printed \in Printed(NextTool) :
          reports' = Adding(reports, NextTool, Report(NextTool, success, printed))
    BY <1>7 DEF ToolExits
  <2>2. Pending # {}
    BY <1>2, <1>7, AtTop DEF ToolExits
  <2>3. NextTool \in ToSet(DiffTools) \cup {"flyway", "external"}
    BY <2>2, NextIsATool
  <2> DEFINE entry == Report(NextTool, success, printed)
  <2>4. entry.agreed => entry.success
    BY <2>3, AgreementIsSuccess
  <2>5. Grows /\ ReportsHonest'
    BY <1>5, <2>1, <2>2, <2>4
  <2>6. Walks /\ ~Leaving /\ stack'[1].at = "start"
    BY <1>1, <1>7, GotoAt DEF ToolExits, Places
  <2>7. QED
    BY <1>4, <2>5, <2>6
<1>8. \A proc, place : At(proc, place) => proc = "checks"
  BY AtTop
<1>9. StartTool \/ ToolExits
  BY <1>8 DEF InsideStep, Resolve, Resolved, LoadSource, LoadTarget, Compare, Loaded,
     Canonicalize, Canonicalized, Materialize, Bootstrap, Materialized,
     VerifyStart, VerifyCreate, VerifyRun, VerifyEnd,
     RehearseBootstrap, RehearseMigrate, Rediff, Comparable,
     FlywayReplica, FlywayStart, FlywayExits, ExternalStart, ExternalExits,
     RehearseEnd, Ask, CallProvider, ReviewerExits
<1>10. QED
  BY <1>6, <1>7, <1>9

(* The rehearsal: a report for whatever was asked, or none to be had. *)
LEMMA CheckRehearse ==
  ASSUME Shape, CheckInv, InsideStep, stack[1].proc = "rehearse"
  PROVE  CheckInv'
<1>1. /\ Inside /\ stack # <<>> /\ UNCHANGED <<call, exit>> /\ Head(stack) = stack[1]
      /\ call.command = "cmd_verify"
  BY Effects, TopFrame, RehearsalIsVerify DEF Inside, Shape
<1>2. /\ ReportsHonest /\ DoneBy(stack[1].at)
      /\ stack[1].at = "checked" => DiffsDone
  <2> DEFINE k == Len(stack) - 1
  <2>1. k \in 0..(Len(stack) - 1) /\ Up(k) = stack[1]
    BY <1>1, Chain
  <2> HIDE DEF k
  <2>2. RehearsedSoFar(Up(k))
    BY <2>1 DEF CheckInv
  <2>3. QED
    BY <1>1, <2>1, <2>2 DEF CheckInv, CheckedSoFar, RehearsedSoFar
<1>3. Walks => stack'[1].proc = stack[1].proc
  BY DEF Walks
<1>4. ASSUME Grows, ReportsHonest', Walks => stack'[1].at # "checked",
             (Leaving /\ result' = "ok") => Complete',
             \A place : (\/ Walks /\ place = stack'[1].at
                         \/ Calling /\ place = stack'[2].at) => DoneBy(place)'
      PROVE  CheckInv'
  BY <1>1, <1>3, <1>4, CheckStill
<1>5. ASSUME reports' = reports PROVE Grows /\ ReportsHonest'
  BY <1>2, <1>5 DEF Grows, ReportsHonest
<1>6. ASSUME NEW r, r # "ok", Return(r), reports' = reports PROVE CheckInv'
  <2>1. Leaving /\ ~Walks /\ ~Calling /\ result' # "ok"
    BY <1>1, <1>6, ReturnAt
  <2>2. QED
    BY <1>4, <1>5, <1>6, <2>1
<1>7. ASSUME Return("ok"), Grows, ReportsHonest', Complete' PROVE CheckInv'
  <2>1. Leaving /\ ~Walks /\ ~Calling
    BY <1>1, <1>7, ReturnAt
  <2>2. QED
    BY <1>4, <1>7, <2>1
<1>8. ASSUME NEW place \in Places, place # "checked", Goto(place), Grows, ReportsHonest',
             DoneBy(place)'
      PROVE  CheckInv'
  <2>1. Walks /\ ~Calling /\ ~Leaving /\ stack'[1].at = place
    BY <1>1, <1>8, GotoAt
  <2>2. QED
    BY <1>4, <1>8, <2>1
<1>9. ASSUME Disown("flyway_replica", "external"), Grows, ReportsHonest',
             DoneBy("external")'
      PROVE  CheckInv'
  <2>1. Walks /\ ~Calling /\ ~Leaving /\ stack'[1].at = "external"
    BY <1>1, <1>9, DisownAt DEF Places, Roles, Replicas
  <2>2. QED
    BY <1>4, <1>9, <2>1
<1>10. ASSUME NEW proc, NEW about, NEW place, CallSite("rehearse", place, proc, about),
              Invoke(proc, about, place), reports' = reports, DoneBy(place)
       PROVE  CheckInv'
  <2>1. Calling /\ ~Walks /\ ~Leaving /\ stack'[2].at = place
    BY <1>1, <1>10, InvokeAt
  <2>2. Grows /\ ReportsHonest'
    BY <1>5, <1>10
  <2>3. DoneBy(place)'
    BY <1>1, <1>10, <2>2, GrowsKeeps DEF DoneBy
  <2>4. QED
    BY <1>4, <2>1, <2>2, <2>3
<1>11. /\ CallSite("rehearse", "sane", "canonicalize", "replica")
       /\ CallSite("rehearse", "rediff", "canonicalize", "replica")
       /\ CallSite("rehearse", "checked", "checks", "replica")
       /\ CallSite("rehearse", "comparable", "materialize", "source_replica")
       /\ CallSite("rehearse", "flyable", "materialize", "flyway_replica")
  BY DEF CallSite, Abouts, Roles, Replicas
<1>12. DoneBy("sane") /\ DoneBy("rediff") /\ DoneBy("checked") /\ DoneBy("comparable")
  BY DEF DoneBy
<1>13. {"external", "flying", "outside", "finish"} \subseteq Places
  BY DEF Places
<1>14. CASE RehearseBootstrap
  BY <1>6, <1>10, <1>11, <1>12, <1>14 DEF RehearseBootstrap, found
<1>15. CASE RehearseMigrate
  BY <1>6, <1>10, <1>11, <1>12, <1>15 DEF RehearseMigrate, found
<1>16. CASE Rediff
  <2>1. reports' = reports
    BY <1>16 DEF Rediff
  <2>2. CASE result # "ok" /\ Return(result)
    BY <1>6, <2>1, <2>2
  <2>3. CASE ~AnyCheck /\ ~call.external /\ Return("ok")
    <3>1. Complete
      BY <2>3, NothingWanted DEF Complete, ExternalDone
    <3>2. Complete'
      BY <1>1, <1>5, <2>1, <3>1, GrowsKeeps
    <3>3. QED
      BY <1>5, <1>7, <2>1, <2>3, <3>2
  <2>4. CASE Invoke("checks", "replica", "checked")
    BY <1>10, <1>11, <1>12, <2>1, <2>4
  <2>5. CASE Invoke("materialize", "source_replica", "comparable")
    BY <1>10, <1>11, <1>12, <2>1, <2>5
  <2>6. QED
    BY <1>16, <2>2, <2>3, <2>4, <2>5 DEF Rediff
<1>17. CASE Comparable
  <2>1. CASE Invoke("checks", "replica", "checked") /\ reports' = reports
    BY <1>10, <1>11, <1>12, <2>1
  <2>2. CASE reports' = Adding(reports, "source-replica", Failed) /\ Return("ok")
    <3>1. Grows /\ ReportsHonest' /\ "source-replica" \in DOMAIN reports'
      BY <1>2, <2>2, ReportAdded DEF Failed
    <3>2. Complete'
      BY <3>1 DEF Complete, NoSource, ReportsHonest
    <3>3. QED
      BY <1>7, <2>2, <3>1, <3>2
  <2>3. QED
    BY <1>17, <2>1, <2>2 DEF Comparable
<1>18. CASE FlywayReplica
  <2>1. DiffsDone /\ reports' = reports
    BY <1>2, <1>18, AtTop DEF FlywayReplica, found
  <2>2. CASE Invoke("materialize", "flyway_replica", "flyable")
    BY <1>10, <1>11, <2>1, <2>2 DEF DoneBy
  <2>3. CASE ~Wanted("flyway") /\ Goto("external")
    <3>1. DoneBy("external")
      BY <2>1, <2>3 DEF DoneBy, FlywayDone
    <3>2. DoneBy("external")'
      BY <1>1, <1>5, <2>1, <3>1, GrowsKeeps DEF DoneBy
    <3>3. QED
      BY <1>5, <1>8, <1>13, <2>1, <2>3, <3>2
  <2>4. QED
    BY <1>18, <2>2, <2>3 DEF FlywayReplica
<1>19. ASSUME NEW entry, entry.agreed => entry.success,
              reports' = Adding(reports, "flyway", entry),
              stack[1].at \in {"flyable", "flying"}
       PROVE  Grows /\ ReportsHonest' /\ DoneBy("external")'
  <2>1. Grows /\ ReportsHonest' /\ "flyway" \in DOMAIN reports'
    BY <1>2, <1>19, ReportAdded DEF Tools
  <2>2. DiffsDone'
    BY <1>1, <1>2, <1>19, <2>1, GrowsKeeps DEF DoneBy
  <2>3. FlywayDone'
    BY <2>1 DEF FlywayDone
  <2>4. QED
    BY <2>1, <2>2, <2>3 DEF DoneBy
<1>20. CASE FlywayStart
  <2>1. stack[1].at = "flyable"
    BY <1>20, AtTop DEF FlywayStart
  <2>2. CASE reports' = Adding(reports, "flyway", Failed)
    <3>1. Grows /\ ReportsHonest' /\ DoneBy("external")'
      BY <1>19, <2>1, <2>2 DEF Failed
    <3>2. Goto("external") \/ Disown("flyway_replica", "external")
          \/ (Goto("flying") /\ reports' = reports)
      BY <1>20 DEF FlywayStart
    <3>3. DoneBy("flying")'
      BY <3>1 DEF DoneBy
    <3>4. QED
      BY <1>8, <1>9, <1>13, <3>1, <3>2, <3>3
  <2>3. CASE Goto("flying") /\ reports' = reports
    <3>1. DoneBy("flying")'
      BY <1>1, <1>2, <1>5, <2>1, <2>3, GrowsKeeps DEF DoneBy
    <3>2. QED
      BY <1>5, <1>8, <1>13, <2>3, <3>1
  <2>4. QED
    BY <1>20, <2>2, <2>3 DEF FlywayStart
<1>21. CASE FlywayExits
  <2>1. stack[1].at = "flying" /\ Disown("flyway_replica", "external")
    BY <1>21, AtTop DEF FlywayExits
  <2>2. PICK success \in BOOLEAN :
          reports' = Adding(reports, "flyway", Report("flyway", success, <<>>))
    BY <1>21 DEF FlywayExits
  <2> DEFINE entry == Report("flyway", success, <<>>)
  <2>3. entry.agreed => entry.success
    BY AgreementIsSuccess
  <2>4. QED
    BY <1>9, <1>19, <2>1, <2>2, <2>3
<1>22. CASE ExternalStart
  <2>1. stack[1].at = "external" /\ reports' = reports
    BY <1>22, AtTop DEF ExternalStart, found
  <2>2. CASE Return("external")
    BY <1>6, <2>1, <2>2
  <2>3. CASE ~call.external /\ Goto("finish")
    <3>1. DoneBy("finish")
      BY <1>2, <2>1, <2>3 DEF DoneBy, ExternalDone
    <3>2. DoneBy("finish")'
      BY <1>1, <1>5, <2>1, <3>1, GrowsKeeps DEF DoneBy
    <3>3. QED
      BY <1>5, <1>8, <1>13, <2>1, <2>3, <3>2
  <2>4. CASE Goto("outside")
    <3>1. DoneBy("outside")'
      BY <1>1, <1>2, <1>5, <2>1, GrowsKeeps DEF DoneBy
    <3>2. QED
      BY <1>5, <1>8, <1>13, <2>1, <2>4, <3>1
  <2>5. QED
    BY <1>22, <2>2, <2>3, <2>4 DEF ExternalStart
<1>23. CASE ExternalExits
  <2>1. stack[1].at = "outside" /\ Goto("finish")
    BY <1>23, AtTop DEF ExternalExits
  <2>2. PICK success \in BOOLEAN, printed \in Printed("external") :
          reports' = Adding(reports, "external", Report("external", success, printed))
    BY <1>23 DEF ExternalExits
  <2> DEFINE entry == Report("external", success, printed)
  <2>3. entry.agreed => entry.success
    BY AgreementIsSuccess
  <2>4. Grows /\ ReportsHonest' /\ "external" \in DOMAIN reports'
    <3> HIDE DEF entry
    <3> QED
      BY <1>2, <2>2, <2>3, ReportAdded DEF entry
  <2>5. DoneBy("finish")'
    <3>1. ExternalDone'
      BY <2>4 DEF ExternalDone
    <3>2. QED
      BY <1>1, <1>2, <2>1, <2>4, <3>1, GrowsKeeps DEF DoneBy
  <2>6. QED
    BY <1>8, <1>13, <2>1, <2>4, <2>5
<1>24. CASE RehearseEnd
  <2>1. stack[1].at = "finish" /\ reports' = reports /\ Return("ok")
    BY <1>24, AtTop DEF RehearseEnd, found
  <2>2. Complete
    BY <1>2, <2>1 DEF DoneBy, Complete
  <2>3. Complete'
    BY <1>1, <1>5, <2>1, <2>2, GrowsKeeps
  <2>4. QED
    BY <1>5, <1>7, <2>1, <2>3
<1>25. \A proc, place : At(proc, place) => proc = "rehearse"
  BY AtTop
<1>26. \/ RehearseBootstrap \/ RehearseMigrate \/ Rediff \/ Comparable
       \/ FlywayReplica \/ FlywayStart \/ FlywayExits
       \/ ExternalStart \/ ExternalExits \/ RehearseEnd
  BY <1>25 DEF InsideStep, Resolve, Resolved, LoadSource, LoadTarget, Compare, Loaded,
     Canonicalize, Canonicalized, Materialize, Bootstrap, Materialized,
     VerifyStart, VerifyCreate, VerifyRun, VerifyEnd,
     StartTool, ToolExits, Ask, CallProvider, ReviewerExits
<1>27. QED
  BY <1>14, <1>15, <1>16, <1>17, <1>18, <1>20, <1>21, <1>22, <1>23, <1>24, <1>26

LEMMA CheckInside ==
  ASSUME Shape, CheckInv, InsideStep
  PROVE  CheckInv'
BY CheckQuiet, CheckVerify, CheckTools, CheckRehearse

(* An exit, and what it is to mean if it is with 0. *)
LEMMA CheckExits ==
  ASSUME Shape, CheckInv, NEW code, Exit(code), UNCHANGED <<call, converged, reports>>,
         (code = "0" /\ call.command = "cmd_verify") =>
           converged /\ AllAgreed /\ Complete,
         (code = "0" /\ call.command = "cmd_apply" /\ converged) =>
           AllAgreed /\ (DiffsDone \/ (call.sides["source"] # "url" /\ ~call.shadow))
  PROVE  CheckInv'
<1>1. stack' = <<>> /\ Len(stack') = 0 /\ exit' = code
  BY DEF Exit
<1>2. (\A k \in 0..(Len(stack) - 1) : RehearsedSoFar(Up(k)))'
  <2>1. 0..(Len(stack') - 1) = {}
    BY <1>1
  <2>2. QED
    BY <2>1
<1>3. CheckedSoFar'
  BY <1>1 DEF CheckedSoFar
<1>4. ReportsHonest /\ ReportsHonest'
  BY DEF CheckInv, ReportsHonest
<1>5. \A t : Wanted(t)' = Wanted(t)
  BY DEF Wanted
<1>6. VerifiedMeans'
  <2> SUFFICES ASSUME call.command = "cmd_verify", code = "0" PROVE VerifiedMeans'
    BY <1>1 DEF VerifiedMeans
  <2>1. converged /\ AllAgreed /\ DiffsDone /\ FlywayDone /\ ExternalDone
    BY DEF Complete, NoSource, AllAgreed
  <2>2. \A t \in Tools : Wanted(t) => (t \in DOMAIN reports /\ reports[t].success)
    BY <2>1, <1>4 DEF Tools, DiffsDone, FlywayDone, ReportsHonest, AllAgreed
  <2>3. QED
    BY <2>1, <2>2, <1>5 DEF VerifiedMeans, AllAgreed, ExternalDone
<1>7. ChecksAreSkippedKnowingly'
  <2> SUFFICES ASSUME call.command = "cmd_apply", code = "0", converged
               PROVE  ChecksAreSkippedKnowingly'
    BY <1>1 DEF ChecksAreSkippedKnowingly
  <2>1. call.checks \subseteq Tools
    BY CallsAssumption DEF Shape, CallOK
  <2>2. \A t \in call.checks \ {"flyway"} : t \in ToSet(DiffTools) /\ Wanted(t)
    BY <2>1 DEF Tools, Wanted
  <2>3. \A t \in call.checks \ {"flyway"} :
          \/ t \in DOMAIN reports /\ reports[t].agreed
          \/ call.sides["source"] # "url" /\ ~call.shadow
    BY <2>2 DEF DiffsDone, AllAgreed
  <2>4. QED
    BY <2>3 DEF ChecksAreSkippedKnowingly
<1>8. QED
  BY <1>2, <1>3, <1>4, <1>6, <1>7 DEF CheckInv, ExitZeroMeans

(* The command, alone on the stack, goes on to place or calls from there.  *)
Alone(place) ==
  /\ stack # <<>> /\ Len(stack) = 1 /\ stack' # <<>> /\ call.command = Up(0).proc
  /\ Up(0)'.proc = Up(0).proc /\ Up(0)'.at = place
  /\ \/ /\ Len(stack') = 1 /\ Up(0)' = stack'[1]
        /\ place \notin {"checked", "verified", "dispose"}
     \/ /\ Len(stack') = 2 /\ stack'[1].at = "start"
        /\ stack'[1].proc \notin Commands

LEMMA AloneGoes ==
  ASSUME Shape, NEW c \in Commands, NEW at, At(c, at),
         NEW place \in Places, place \notin {"checked", "verified", "dispose"}, Goto(place)
  PROVE  Alone(place)
BY AtCommand, GoesAlone DEF Alone

LEMMA AloneInvokes ==
  ASSUME Shape, NEW c \in Commands, NEW at, At(c, at), NEW proc, NEW about, NEW place,
         CallSite(c, place, proc, about), Invoke(proc, about, place)
  PROVE  Alone(place) /\ result' = "none"
<1>1. /\ stack # <<>> /\ Len(stack) = 1 /\ stack[1] = Up(0) /\ Up(0).proc = c
      /\ call.command = c
  BY AtCommand
<1>2. /\ Len(stack') = 2 /\ stack' # <<>> /\ result' = "none"
      /\ Up(0)'.proc = Up(0).proc /\ Up(0)'.at = place
      /\ stack'[1] = Frame(proc, about)
  BY <1>1, InvokesAlone
<1>3. stack'[1].at = "start" /\ stack'[1].proc \notin Commands
  BY <1>2, SiteTyped DEF Frame
<1>4. QED
  BY <1>1, <1>2, <1>3 DEF Alone

LEMMA AloneDisowns ==
  ASSUME Shape, NEW c \in Commands, NEW at, At(c, at), NEW role \in Roles,
         NEW place \in Places, place \notin {"checked", "verified", "dispose"},
         Disown(role, place)
  PROVE  Alone(place)
<1>1. /\ stack # <<>> /\ Len(stack) = 1 /\ stack[1] = Up(0) /\ Up(0).proc = c
      /\ call.command = c
  BY AtCommand
<1>2. Moved(place, stack[1].owns \ {role})
  BY <1>1, Disowns DEF Shape
<1>3. Len(stack') = 1 /\ Len(stack') - 0 = 1
  BY <1>1, <1>2 DEF Moved
<1>4. Up(0)' = stack'[1] /\ stack' # <<>>
  BY <1>3, NonEmpty DEF Up
<1>5. QED
  BY <1>1, <1>2, <1>3, <1>4 DEF Alone, Moved

LEMMA CheckMoves ==
  ASSUME Shape, CheckInv, NEW place, Alone(place), UNCHANGED <<call, exit, reports>>,
         (call.command = "cmd_verify" /\ place \in {"scanned", "reviewed"}) => Complete,
         call.command = "cmd_apply" =>
           /\ place = "scanned" => DiffsDone
           /\ place = "release" =>
                DiffsDone \/ (call.sides["source"] # "url" /\ ~call.shadow)
           /\ place \in {"start", "loaded", "reviewed", "asked", "confirmed",
                         "refreshed", "execute", "residual"} => ~converged'
  PROVE  CheckInv'
<1>1. Grows /\ ReportsHonest'
  BY DEF Grows, CheckInv, ReportsHonest
<1>2. (DiffsDone => DiffsDone') /\ (Complete => Complete')
  BY <1>1, GrowsKeeps
<1>3. Up(0).proc \in Commands
  BY Chain DEF Alone
<1>4. (\A k \in 0..(Len(stack) - 1) : RehearsedSoFar(Up(k)))'
  <2> SUFFICES ASSUME NEW k \in 0..(Len(stack') - 1) PROVE RehearsedSoFar(Up(k))'
    OBVIOUS
  <2>1. CASE k = 0
    BY <2>1, <1>3 DEF Alone, RehearsedSoFar, Commands
  <2>2. CASE k # 0
    <3>1. Len(stack') = 2 /\ stack'[1].at = "start"
      <4>1. ASSUME Len(stack') = 1 PROVE FALSE
        <5>1. k \in 0..(1 - 1)
          BY <4>1
        <5>2. QED
          BY <2>2, <5>1
      <4>2. QED
        BY <4>1 DEF Alone
    <3>2. Len(stack') - k = 1
      BY <3>1, <2>2
    <3>3. Up(k)' = stack'[1]
      BY <3>2 DEF Up
    <3>4. QED
      BY <3>1, <3>3 DEF RehearsedSoFar, DoneBy
  <2>3. QED
    BY <2>1, <2>2
<1>5. CheckedSoFar'
  <2>1. \/ stack'[1].at = "start" /\ stack'[1].proc \notin Commands
        \/ stack'[1].at \notin {"checked", "verified", "dispose"}
           /\ stack'[1].proc \in Commands
    BY <1>3 DEF Alone
  <2>2. \A p : p \in {"verify", "checks", "rehearse"} => p \notin Commands
    BY DEF Commands
  <2>3. QED
    BY <1>2, <2>1, <2>2 DEF CheckedSoFar, Alone
<1>6. ExitZeroMeans'
  <2>1. exit' # "0"
    BY DEF Shape, Alone
  <2>2. QED
    BY <2>1 DEF ExitZeroMeans, VerifiedMeans, ChecksAreSkippedKnowingly
<1>7. QED
  BY <1>1, <1>4, <1>5, <1>6 DEF CheckInv

LEMMA CheckCommand ==
  ASSUME Shape, CheckInv, CommandStep
  PROVE  CheckInv'
<1>1. ASSUME NEW code, code # "0", Decide(code) PROVE CheckInv'
  BY <1>1, CheckExits DEF Decide
<1>2. {"cmd_diff", "cmd_review", "cmd_verify", "cmd_apply"} = Commands
  BY DEF Commands
<1>3. {"reviewed", "asked", "confirmed", "scanned", "execute", "residual", "release"}
       \subseteq Places
  BY DEF Places
<1>4. ASSUME NEW c \in Commands, NEW at, Reached(c, at)
      PROVE  /\ stack # <<>> /\ call.command = c /\ Up(0).at = at /\ Len(stack) = 1
             /\ Up(0).proc = c /\ stack[1] = Up(0) /\ result = "ok" /\ At(c, at)
  BY <1>4, AtCommand DEF Reached
<1>5. \A c \in Commands : CallSite(c, "reviewed", "ai", "review")
                          /\ CallSite(c, "loaded", "load", "sides")
  BY DEF CallSite
<1>6. /\ CallSite("cmd_verify", "scanned", "ai", "scan")
      /\ CallSite("cmd_apply", "scanned", "ai", "scan")
      /\ CallSite("cmd_verify", "verified", "verify", "sides")
      /\ CallSite("cmd_apply", "refreshed", "load", "sides")
      /\ CallSite("cmd_apply", "residual", "canonicalize", "target")
      /\ CallSite("cmd_apply", "checked", "checks", "target")
      /\ CallSite("cmd_apply", "compare", "materialize", "source_replica")
  BY DEF CallSite, Commands, Abouts, Roles, Sides
<1>7. ASSUME NEW c \in {"cmd_diff", "cmd_review"}, NEW at, Reached(c, at),
             NEW code, Decide(code)
      PROVE  CheckInv'
  BY <1>2, <1>4, <1>7, CheckExits DEF Decide
<1>8. CASE Start
  <2>1. PICK c \in Commands : At(c, "start")
    BY <1>8 DEF Start
  <2>2. Up(0).at = "start" /\ stack # <<>>
    BY <2>1, AtCommand
  <2>3. CASE Exit("error")
    BY <1>8, <2>3, CheckExits DEF Start
  <2>4. CASE Invoke("load", "sides", "loaded") /\ UNCHANGED <<lease, exit>>
    <3>1. Alone("loaded")
      BY <1>5, <2>1, <2>4, AloneInvokes
    <3>2. call.command = "cmd_apply" => ~converged
      BY <2>2 DEF CheckInv, CheckedSoFar
    <3>3. QED
      BY <1>8, <2>4, <3>1, <3>2, CheckMoves DEF Start
  <2>5. QED
    BY <1>8, <2>3, <2>4 DEF Start
<1>9. CASE Fail
  BY <1>9, CheckExits DEF Fail
<1>10. CASE Rendered
  <2>1. PICK c \in {"cmd_diff", "cmd_review"} :
          /\ Reached(c, "loaded")
          /\ \/ Decide("error")
             \/ IF call.review \/ c = "cmd_review" THEN AskReviewer("review", "reviewed")
                ELSE \E code \in {"0", "2"} : Decide(code)
    BY <1>10 DEF Rendered
  <2>2. CASE AskReviewer("review", "reviewed")
    <3>1. Alone("reviewed") /\ call.command = c
      BY <1>2, <1>4, <1>5, <2>1, <2>2, AloneInvokes DEF AskReviewer
    <3>2. QED
      BY <2>1, <2>2, <3>1, CheckMoves DEF AskReviewer, found
  <2>3. QED
    BY <1>7, <2>1, <2>2
<1>11. CASE Reviewed
  BY <1>7, <1>11 DEF Reviewed
<1>12. CASE Verify
  <2>1. CASE Invoke("verify", "sides", "verified") /\ UNCHANGED <<call, shadows, found, exit>>
    <3>1. Alone("verified") /\ call.command = "cmd_verify"
      BY <1>2, <1>4, <1>6, <1>12, <2>1, AloneInvokes DEF Verify
    <3>2. QED
      BY <2>1, <3>1, CheckMoves DEF found
  <2>2. QED
    BY <1>1, <1>12, <2>1 DEF Verify
<1>13. CASE Verified
  <2>1. call.command = "cmd_verify" /\ At("cmd_verify", "verified") /\ Complete
    BY <1>2, <1>4, <1>13 DEF Verified, CheckInv, CheckedSoFar
  <2>2. CASE AskReviewer("scan", "scanned")
    <3>1. Alone("scanned")
      BY <1>2, <1>6, <2>1, <2>2, AloneInvokes DEF AskReviewer
    <3>2. QED
      BY <2>1, <2>2, <3>1, CheckMoves DEF AskReviewer, found
  <2>3. CASE Goto("scanned") /\ UNCHANGED <<call, result, shadows, found, exit>>
    <3>1. Alone("scanned")
      BY <1>2, <1>3, <2>1, <2>3, AloneGoes
    <3>2. QED
      BY <2>1, <2>3, <3>1, CheckMoves DEF found
  <2>4. QED
    BY <1>1, <1>13, <2>2, <2>3 DEF Verified
<1>14. CASE VerifyScanned
  <2>1. call.command = "cmd_verify" /\ At("cmd_verify", "scanned") /\ Complete
    BY <1>2, <1>4, <1>14 DEF VerifyScanned, CheckInv, CheckedSoFar
  <2>2. CASE AskReviewer("review", "reviewed")
    <3>1. Alone("reviewed")
      BY <1>2, <1>5, <2>1, <2>2, AloneInvokes DEF AskReviewer
    <3>2. QED
      BY <2>1, <2>2, <3>1, CheckMoves DEF AskReviewer, found
  <2>3. CASE Goto("reviewed") /\ UNCHANGED <<call, result, shadows, found, exit>>
    <3>1. Alone("reviewed")
      BY <1>2, <1>3, <2>1, <2>3, AloneGoes
    <3>2. QED
      BY <2>1, <2>3, <3>1, CheckMoves DEF found
  <2>4. QED
    BY <1>14, <2>2, <2>3 DEF VerifyScanned
<1>15. CASE VerifyReviewed
  <2>1. call.command = "cmd_verify" /\ Complete
    BY <1>2, <1>4, <1>15 DEF VerifyReviewed, CheckInv, CheckedSoFar
  <2>2. CASE Rejected("scan") \/ Rejected("review")
    BY <1>1, <1>15, <2>2 DEF VerifyReviewed
  <2>3. CASE Decide(Verdict)
    BY <2>1, <2>3, CheckExits DEF Decide, Verdict
  <2>4. QED
    BY <1>15, <2>2, <2>3 DEF VerifyReviewed
<1>16. ASSUME NEW at, Reached("cmd_apply", at)
       PROVE  /\ call.command = "cmd_apply" /\ At("cmd_apply", at)
              /\ at = "checked" => DiffsDone
              /\ at = "scanned" => DiffsDone
              /\ at = "release" =>
                   DiffsDone \/ (call.sides["source"] # "url" /\ ~call.shadow)
              /\ at \in {"loaded", "reviewed", "asked", "confirmed", "refreshed",
                         "execute", "residual"} => ~converged
  <2>1. /\ stack # <<>> /\ call.command = "cmd_apply" /\ Up(0).at = at
        /\ stack[1] = Up(0) /\ Up(0).proc = "cmd_apply" /\ At("cmd_apply", at)
    BY <1>2, <1>4, <1>16
  <2>2. QED
    BY <2>1 DEF CheckInv, CheckedSoFar
<1>17. ASSUME NEW at, Reached("cmd_apply", at), NEW place \in Places,
              place \notin {"checked", "verified", "dispose"}, Goto(place)
       PROVE  Alone(place)
  BY <1>2, <1>16, <1>17, AloneGoes
<1>18. ASSUME NEW at, Reached("cmd_apply", at), NEW proc, NEW about, NEW place,
              CallSite("cmd_apply", place, proc, about), Invoke(proc, about, place)
       PROVE  Alone(place)
  BY <1>2, <1>16, <1>18, AloneInvokes
<1>19. CASE Plan
  <2>1. call.command = "cmd_apply" /\ ~converged
    BY <1>16, <1>19 DEF Plan
  <2>2. CASE \E code \in {"0", "error"} : Decide(code)
    BY <2>1, <2>2, CheckExits DEF Decide
  <2>3. CASE AskReviewer("review", "reviewed")
    <3>1. Alone("reviewed")
      BY <1>2, <1>5, <1>18, <1>19, <2>3 DEF AskReviewer, Plan
    <3>2. QED
      BY <2>1, <2>3, <3>1, CheckMoves DEF AskReviewer, found
  <2>4. CASE Goto("reviewed") /\ UNCHANGED <<call, result, shadows, found, exit>>
    <3>1. Alone("reviewed")
      BY <1>3, <1>17, <1>19, <2>4 DEF Plan
    <3>2. QED
      BY <2>1, <2>4, <3>1, CheckMoves DEF found
  <2>5. QED
    BY <1>1, <1>19, <2>2, <2>3, <2>4 DEF Plan
<1>20. CASE Confirm
  <2>1. call.command = "cmd_apply" /\ ~converged
    BY <1>16, <1>20 DEF Confirm
  <2>2. CASE \E place \in {"asked", "confirmed"} :
               Goto(place) /\ UNCHANGED <<call, result, shadows, found, exit>>
    <3>1. PICK place \in {"asked", "confirmed"} : Goto(place)
      BY <2>2
    <3>2. Alone(place)
      BY <1>3, <1>17, <1>20, <3>1 DEF Confirm
    <3>3. QED
      BY <2>1, <2>2, <3>2, CheckMoves DEF found
  <2>3. QED
    BY <1>1, <1>20, <2>2 DEF Confirm
<1>20a. CASE Answer
  <2>1. call.command = "cmd_apply" /\ ~converged
    BY <1>16, <1>20a DEF Answer
  <2>2. CASE Goto("confirmed") /\ UNCHANGED <<call, result, shadows, found, exit>>
    <3>1. Alone("confirmed")
      BY <1>3, <1>17, <1>20a, <2>2 DEF Answer
    <3>2. QED
      BY <2>1, <2>2, <3>1, CheckMoves DEF found
  <2>3. QED
    BY <1>1, <1>20a, <2>2 DEF Answer
<1>20b. CASE AcquireLease
  <2>1. call.command = "cmd_apply" /\ ~converged
    BY <1>16, <1>20b DEF AcquireLease
  <2>2. CASE Invoke("load", "sides", "refreshed")
             /\ UNCHANGED <<call, shadows, converged, reports, reviews, exit>>
    <3>1. Alone("refreshed")
      BY <1>6, <1>18, <1>20b, <2>2 DEF AcquireLease
    <3>2. QED
      BY <2>1, <2>2, <3>1, CheckMoves
  <2>3. CASE Goto("execute")
             /\ UNCHANGED <<call, shadows, converged, reports, reviews, exit>>
    <3>1. Alone("execute")
      BY <1>3, <1>17, <1>20b, <2>3 DEF AcquireLease
    <3>2. QED
      BY <2>1, <2>3, <3>1, CheckMoves
  <2>4. QED
    BY <1>1, <1>20b, <2>2, <2>3 DEF AcquireLease
<1>21. CASE Refreshed
  <2>1. call.command = "cmd_apply" /\ ~converged
    BY <1>16, <1>21 DEF Refreshed
  <2>2. CASE \E code \in {"0", "error"} : Decide(code)
    BY <2>1, <2>2, CheckExits DEF Decide
  <2>3. CASE Goto("execute") /\ UNCHANGED <<call, result, shadows, found, exit>>
    <3>1. Alone("execute")
      BY <1>3, <1>17, <1>21, <2>3 DEF Refreshed
    <3>2. QED
      BY <2>1, <2>3, <3>1, CheckMoves DEF found
  <2>4. QED
    BY <1>21, <2>2, <2>3 DEF Refreshed
<1>22. CASE Execute
  <2>1. call.command = "cmd_apply" /\ ~converged
    BY <1>16, <1>22 DEF Execute
  <2>2. ASSUME UNCHANGED <<call, shadows, found, exit>>,
               \/ Invoke("canonicalize", "target", "residual") \/ Goto("residual")
        PROVE  CheckInv'
    <3>1. Alone("residual")
      BY <1>3, <1>6, <1>17, <1>18, <1>22, <2>2 DEF Execute
    <3>2. QED
      BY <2>1, <2>2, <3>1, CheckMoves DEF found
  <2>3. QED
    BY <1>1, <1>22, <2>2 DEF Execute
<1>23. CASE Residual
  <2>1. call.command = "cmd_apply" /\ UNCHANGED <<call, exit, reports>>
    BY <1>16, <1>23 DEF Residual
  <2>2. ASSUME Goto("release"),
               ~AnyCheck \/ (call.sides["source"] # "url" /\ ~call.shadow)
        PROVE  CheckInv'
    <3>1. Alone("release")
      BY <1>3, <1>17, <1>23, <2>2 DEF Residual
    <3>2. QED
      BY <2>1, <2>2, <3>1, NothingWanted, CheckMoves
  <2>3. CASE Invoke("checks", "target", "checked")
    <3>1. Alone("checked")
      BY <1>6, <1>18, <1>23, <2>3 DEF Residual
    <3>2. QED
      BY <2>1, <3>1, CheckMoves
  <2>4. CASE Invoke("materialize", "source_replica", "compare")
    <3>1. Alone("compare")
      BY <1>6, <1>18, <1>23, <2>4 DEF Residual
    <3>2. QED
      BY <2>1, <3>1, CheckMoves
  <2>5. QED
    BY <1>23, <2>2, <2>3, <2>4 DEF Residual
<1>24. CASE Compared
  <2>1. Alone("checked") /\ call.command = "cmd_apply"
    BY <1>6, <1>16, <1>18, <1>24 DEF Compared
  <2>2. QED
    BY <1>24, <2>1, CheckMoves DEF Compared, found
<1>25. CASE Checked
  <2>1. call.command = "cmd_apply" /\ DiffsDone
    BY <1>16, <1>25 DEF Checked
  <2>2. CASE AskReviewer("scan", "scanned")
    <3>1. Alone("scanned")
      BY <1>6, <1>18, <1>25, <2>2 DEF AskReviewer, Checked
    <3>2. QED
      BY <2>1, <2>2, <3>1, CheckMoves DEF AskReviewer, found
  <2>3. CASE Goto("scanned") /\ UNCHANGED <<call, result, shadows, found, exit>>
    <3>1. Alone("scanned")
      BY <1>3, <1>17, <1>25, <2>3 DEF Checked
    <3>2. QED
      BY <2>1, <2>3, <3>1, CheckMoves DEF found
  <2>4. QED
    BY <1>25, <2>2, <2>3 DEF Checked
<1>26. CASE Scanned
  <2>1. call.command = "cmd_apply" /\ DiffsDone /\ At("cmd_apply", "scanned")
    BY <1>16, <1>26 DEF Scanned
  <2>2. Alone("release")
    <3>1. CASE Goto("release")
      BY <1>3, <1>17, <1>26, <3>1 DEF Scanned
    <3>2. CASE Disown("source_replica", "release")
      BY <1>2, <1>3, <2>1, <3>2, AloneDisowns DEF Roles, Replicas
    <3>3. QED
      BY <1>26, <3>1, <3>2 DEF Scanned
  <2>3. QED
    BY <1>26, <2>1, <2>2, CheckMoves DEF Scanned, found
<1>27. CASE Release
  <2>1. /\ call.command = "cmd_apply"
        /\ DiffsDone \/ (call.sides["source"] # "url" /\ ~call.shadow)
    BY <1>16, <1>27 DEF Release
  <2>2. CASE Decide(Verdict)
    BY <2>1, <2>2, CheckExits DEF Decide, Verdict
  <2>3. QED
    BY <1>1, <1>27, <2>2 DEF Release
<1>28. QED
  BY <1>8, <1>9, <1>10, <1>11, <1>12, <1>13, <1>14, <1>15, <1>19, <1>20, <1>20a,
     <1>20b, <1>21,
     <1>22, <1>23, <1>24, <1>25, <1>26, <1>27 DEF CommandStep

LEMMA CheckInit == ASSUME Init PROVE CheckInv
<1>1. /\ stack # <<>> /\ Len(stack) = 1 /\ exit = "running" /\ ~converged
      /\ DOMAIN reports = {} /\ stack[1] = Frame(call.command, "all")
  BY DEF Init
<1>2. Len(stack) - 0 = 1 /\ 0..(Len(stack) - 1) = {0}
  BY <1>1
<1>3. Up(0) = stack[1] /\ stack[1].at = "start"
  BY <1>1, <1>2 DEF Up, Frame
<1>4. RehearsedSoFar(Up(0))
  BY <1>3 DEF RehearsedSoFar, DoneBy
<1>5. CheckedSoFar /\ ReportsHonest /\ ExitZeroMeans
  BY <1>1, <1>3 DEF CheckedSoFar, ReportsHonest, ExitZeroMeans, VerifiedMeans,
     ChecksAreSkippedKnowingly
<1>6. QED
  BY <1>2, <1>4, <1>5 DEF CheckInv

LEMMA CheckStep == ASSUME Shape, CheckInv, [Next]_vars PROVE CheckInv'
<1>1. CASE CommandStep
  BY <1>1, CheckCommand
<1>2. CASE InsideStep
  BY <1>2, CheckInside
<1>3. CASE UNCHANGED vars
  <2>1. \A t : Wanted(t)' = Wanted(t)
    BY <1>3 DEF vars, Wanted
  <2>2. DiffsDone' = DiffsDone /\ FlywayDone' = FlywayDone /\ ExternalDone' = ExternalDone
        /\ Complete' = Complete /\ Pending' = Pending
    BY <1>3, <2>1 DEF vars, DiffsDone, FlywayDone, ExternalDone, Complete, NoSource, Pending
  <2>3. ReportsHonest'
    BY <1>3 DEF vars, CheckInv, ReportsHonest
  <2>4. (\A k \in 0..(Len(stack) - 1) : RehearsedSoFar(Up(k)))'
    BY <1>3, <2>2 DEF vars, CheckInv, RehearsedSoFar, DoneBy, Up
  <2>5. CheckedSoFar'
    BY <1>3, <2>2 DEF vars, CheckInv, CheckedSoFar, Up
  <2>6. ExitZeroMeans'
    BY <1>3, <2>1 DEF vars, CheckInv, ExitZeroMeans, VerifiedMeans, ChecksAreSkippedKnowingly
  <2>7. QED
    BY <2>3, <2>4, <2>5, <2>6 DEF CheckInv
<1>4. QED
  BY <1>1, <1>2, <1>3, NextSplits

(* `verify` exits with 0 only if the migration converged on a faithful     *)
(* replica and every checker that was asked for has reported a successful  *)
(* agreement; `apply`, if it has converged, only if every diff tool asked  *)
(* for by name agrees, or there is nothing to compare with.                *)
THEOREM ExitZeroIsEarned == Spec => []ExitZeroMeans
<1>1. Shape /\ CheckInv => ExitZeroMeans
  BY DEF CheckInv
<1>2. Init => Shape /\ CheckInv
  BY ShapeInit, CheckInit
<1>3. Shape /\ CheckInv /\ [Next]_vars => (Shape /\ CheckInv)'
  BY ShapeStep, CheckStep
<1>4. QED
  BY <1>1, <1>2, <1>3, PTL DEF Spec

-----------------------------------------------------------------------------
(* Every database is in one procedure's hands. *)

(* How deep in a chain a procedure is, and which of them call others. *)
LEMMA Levels ==
  ASSUME Shape, NEW k \in 0..(Len(stack) - 1)
  PROVE  /\ Up(k).proc = "cmd_apply" => k = 0
         /\ Up(k).proc = "verify" => k = 1
         /\ Up(k).proc = "rehearse" => k = 2 /\ call.command = "cmd_verify"
         /\ Up(k).proc = "materialize" =>
              /\ k > 0 /\ Up(k).about \in {"source_replica", "flyway_replica"}
              /\ CallsNow(Up(k - 1), Up(k)) /\ k - 1 \in 0..(Len(stack) - 1)
              /\ \/ k = 1 /\ Up(k - 1).proc = "cmd_apply"
                 \/ k = 3 /\ Up(k - 1).proc = "rehearse"
         /\ Up(k).proc = "resolve" => Up(k).about \in Sides
         /\ k < Len(stack) - 1 =>
              Up(k).proc \notin {"resolve", "canonicalize", "checks", "ai"}
<1>1. stack # <<>> /\ Len(stack) \in Nat \ {0}
  <2>1. Len(stack) \in Nat
    BY LenProperties DEF Shape
  <2>2. QED
    BY <2>1, NonEmpty
<1>2. ASSUME NEW j \in 0..(Len(stack) - 1) PROVE (Up(j).proc \in Commands) <=> (j = 0)
  BY <1>1, Chain
<1>3. ASSUME NEW j \in 0..(Len(stack) - 1), Up(j).proc \notin Commands
      PROVE  /\ j > 0 /\ j - 1 \in 0..(Len(stack) - 1)
             /\ CallSite(Up(j - 1).proc, Up(j - 1).at, Up(j).proc, Up(j).about)
             /\ CallsNow(Up(j - 1), Up(j))
  <2>1. j # 0
    BY <1>2, <1>3
  <2>2. j \in 1..(Len(stack) - 1) /\ j - 1 \in 0..(Len(stack) - 1)
    BY <1>1, <2>1
  <2>3. CallsNow(Up(j - 1), Up(j))
    BY <2>2 DEF Shape
  <2>4. QED
    BY <2>1, <2>2, <2>3 DEF CallsNow
<1>4. ASSUME NEW j \in 0..(Len(stack) - 1), Up(j).proc = "verify"
      PROVE  j = 1 /\ call.command = "cmd_verify"
  <2>1. /\ j > 0 /\ j - 1 \in 0..(Len(stack) - 1)
        /\ CallSite(Up(j - 1).proc, Up(j - 1).at, "verify", Up(j).about)
    BY <1>3, <1>4 DEF Commands
  <2>2. Up(j - 1).proc = "cmd_verify"
    BY <2>1 DEF CallSite
  <2>3. j - 1 = 0
    BY <1>2, <2>1, <2>2 DEF Commands
  <2>4. Up(0).proc = "cmd_verify" /\ Up(0).proc = call.command
    BY <1>1, <2>2, <2>3 DEF Shape
  <2>5. QED
    BY <2>1, <2>3, <2>4
<1>5. ASSUME NEW j \in 0..(Len(stack) - 1), Up(j).proc = "rehearse"
      PROVE  j = 2 /\ call.command = "cmd_verify"
  <2>1. /\ j > 0 /\ j - 1 \in 0..(Len(stack) - 1)
        /\ CallSite(Up(j - 1).proc, Up(j - 1).at, "rehearse", Up(j).about)
    BY <1>3, <1>5 DEF Commands
  <2>2. Up(j - 1).proc = "verify"
    BY <2>1 DEF CallSite
  <2>3. j - 1 = 1 /\ call.command = "cmd_verify"
    BY <1>4, <2>1, <2>2
  <2>4. QED
    BY <2>1, <2>3
<1>6. Up(k).proc = "cmd_apply" => k = 0
  BY <1>2 DEF Commands
<1>7. ASSUME Up(k).proc = "materialize"
      PROVE  /\ k > 0 /\ Up(k).about \in {"source_replica", "flyway_replica"}
             /\ CallsNow(Up(k - 1), Up(k)) /\ k - 1 \in 0..(Len(stack) - 1)
             /\ \/ k = 1 /\ Up(k - 1).proc = "cmd_apply"
                \/ k = 3 /\ Up(k - 1).proc = "rehearse"
  <2>1. /\ k > 0 /\ k - 1 \in 0..(Len(stack) - 1)
        /\ CallSite(Up(k - 1).proc, Up(k - 1).at, "materialize", Up(k).about)
        /\ CallsNow(Up(k - 1), Up(k))
    BY <1>3, <1>7 DEF Commands
  <2>2. /\ Up(k - 1).proc \in {"cmd_apply", "rehearse"}
        /\ Up(k).about \in {"source_replica", "flyway_replica"}
    BY <2>1 DEF CallSite
  <2>3. Up(k - 1).proc = "cmd_apply" => k - 1 = 0
    BY <1>2, <2>1 DEF Commands
  <2>4. Up(k - 1).proc = "rehearse" => k - 1 = 2
    BY <1>5, <2>1
  <2>5. QED
    BY <2>1, <2>2, <2>3, <2>4
<1>8. Up(k).proc = "resolve" => Up(k).about \in Sides
  BY <1>3 DEF CallSite, Sides, Commands
<1>9. ASSUME k < Len(stack) - 1
      PROVE  Up(k).proc \notin {"resolve", "canonicalize", "checks", "ai"}
  <2>1. PICK j \in Nat : j = k + 1
    OBVIOUS
  <2>2. j \in 1..(Len(stack) - 1) /\ j - 1 = k
    BY <1>1, <1>9, <2>1
  <2>3. CallsNow(Up(j - 1), Up(j))
    BY <2>2 DEF Shape
  <2>4. CallSite(Up(k).proc, Up(k).at, Up(j).proc, Up(j).about)
    BY <2>2, <2>3 DEF CallsNow
  <2>5. QED
    BY <2>4 DEF CallSite, Commands
<1>10. QED
  BY <1>4, <1>5, <1>6, <1>7, <1>8, <1>9

(* The caller at place k and the callee above it. *)
LEMMA CallerOf ==
  ASSUME Shape, NEW k \in 0..(Len(stack) - 2)
  PROVE  /\ k \in 0..(Len(stack) - 1) /\ k + 1 \in 0..(Len(stack) - 1)
         /\ CallSite(Up(k).proc, Up(k).at, Up(k + 1).proc, Up(k + 1).about)
<1>1. Len(stack) \in Nat
  BY LenProperties DEF Shape
<1>2. PICK j \in Nat : j = k + 1
  OBVIOUS
<1>3. j \in 1..(Len(stack) - 1) /\ j - 1 = k
  BY <1>2, <1>1
<1>4. CallsNow(Up(j - 1), Up(j))
  BY <1>3 DEF Shape
<1>5. QED
  BY <1>2, <1>1, <1>3, <1>4 DEF CallsNow

LEMMA DueIsClaimed ==
  ASSUME NEW proc, NEW about, NEW at, NEW received
  PROVE  Due(proc, about, at, received) \subseteq Claims(proc, about)
BY DEF Due, Claims

(* No two frames may own the same role. *)
LEMMA OneClaim ==
  ASSUME Shape, Owners, NEW j \in 0..(Len(stack) - 1), NEW k \in 0..(j - 1),
         NEW role \in Up(k).owns
  PROVE  role \notin Claims(Up(j).proc, Up(j).about)
<1>1. Len(stack) \in Nat
  BY LenProperties DEF Shape
<1>2. /\ k \in 0..(Len(stack) - 2) /\ k \in 0..(Len(stack) - 1)
      /\ k < Len(stack) - 1 /\ k < j
  BY <1>1
<1>3. role \in Due(Up(k).proc, Up(k).about, Up(k).at, FALSE)
  <2>1. FrameOK(Up(k), Received(k))
    BY <1>2 DEF Owners
  <2>2. Received(k) = FALSE
    BY <1>2 DEF Received
  <2>3. QED
    BY <2>1, <2>2 DEF FrameOK
<1>4. CallSite(Up(k).proc, Up(k).at, Up(k + 1).proc, Up(k + 1).about)
  BY <1>2, CallerOf
<1>5. Up(k).proc \notin {"resolve", "canonicalize", "checks", "ai"}
  BY <1>2, Levels
<1>6. k + 1 = j \/ k + 1 < Len(stack) - 1
  BY <1>1
<1>7. CASE Up(k).proc = "materialize"
  <2>1. Up(k + 1).proc = "canonicalize" /\ role = Up(k).about
    BY <1>3, <1>4, <1>7 DEF Due, CallSite, Commands
  <2>2. k + 1 = j
    <3>1. k + 1 \in 0..(Len(stack) - 1)
      BY <1>2, CallerOf
    <3>2. ~(k + 1 < Len(stack) - 1)
      <4> DEFINE i == k + 1
      <4>1. i \in 0..(Len(stack) - 1) /\ Up(i).proc = "canonicalize"
        BY <2>1, <3>1
      <4> HIDE DEF i
      <4>2. ~(i < Len(stack) - 1)
        BY <4>1, Levels
      <4>3. QED
        BY <4>2 DEF i
    <3>3. QED
      BY <1>6, <3>2
  <2>3. role \in {"source_replica", "flyway_replica"}
    BY <1>2, <1>7, <2>1, Levels
  <2>4. QED
    BY <2>1, <2>2, <2>3 DEF Claims
<1>8. CASE Up(k).proc = "verify"
  <2>1. role = "replica" /\ k = 1
    BY <1>2, <1>3, <1>8, Levels DEF Due, Commands
  <2>2. Up(j).proc # "verify"
    BY <1>2, <2>1, Levels
  <2>3. QED
    BY <2>1, <2>2, Levels DEF Claims, Sides
<1>9. CASE Up(k).proc = "rehearse"
  <2>1. /\ role = "source_replica" /\ k = 2 /\ call.command = "cmd_verify"
        /\ Up(k).at \in {"flyable", "checked"}
    BY <1>2, <1>3, <1>4, <1>9, Levels DEF Due, CallSite, Commands
  <2>2. Up(j).proc \notin {"rehearse", "cmd_apply"}
    BY <1>2, <2>1, Levels
  <2>3. CASE Up(j).proc = "materialize"
    <3>1. j = 3
      BY <1>2, <2>1, <2>3, Levels
    <3>2. Up(j).about = "flyway_replica"
      BY <1>4, <1>9, <2>1, <2>3, <3>1 DEF CallSite, Commands
    <3>3. QED
      BY <2>1, <2>3, <3>2 DEF Claims
  <2>4. QED
    BY <2>1, <2>2, <2>3, Levels DEF Claims, Sides
<1>10. CASE Up(k).proc = "cmd_apply"
  <2>1. /\ role = "source_replica" /\ k = 0
        /\ Up(k).at \in {"scanned", "checked"}
    BY <1>2, <1>3, <1>4, <1>10, Levels DEF Due, CallSite, Commands
  <2>2. Up(1).proc \in {"ai", "checks"} /\ 1 \in 0..(Len(stack) - 1)
    <3>1. k + 1 = 1 /\ k + 1 \in 0..(Len(stack) - 1)
      BY <1>2, <2>1, CallerOf
    <3>2. QED
      BY <1>4, <1>10, <2>1, <3>1 DEF CallSite, Commands
  <2>3. j = 1
    <3>1. ~(1 < Len(stack) - 1)
      BY <2>2, Levels
    <3>2. QED
      BY <1>1, <1>2, <3>1, <2>2
  <2>4. QED
    BY <2>2, <2>3 DEF Claims
<1>11. Up(k).proc \in {"materialize", "verify", "rehearse", "cmd_apply"}
  BY <1>3, <1>5 DEF Due
<1>12. QED
  BY <1>7, <1>8, <1>9, <1>10, <1>11

(* What a step does to the databases that are open: those of the roles in  *)
(* gone are dropped or kept, those in come are new.                        *)
Settles(gone, come) ==
  /\ DatabasesOK'
  /\ (OpenRoles \ gone) \cup come \subseteq OpenRoles'
  /\ OpenRoles' \subseteq (OpenRoles \ gone) \cup come \cup {"orphan"}

(* No other role's databases are touched. *)
Spares(role) == \A s : s.role # role => (s \in shadows' <=> s \in shadows)

LEMMA Untouched ==
  ASSUME DatabasesOK, UNCHANGED <<call, shadows>>
  PROVE  Settles({}, {}) /\ Spares("orphan")
<1>1. DatabasesOK' /\ OpenRoles' = OpenRoles
  BY DEF DatabasesOK, OpenRoles
<1>2. QED
  BY <1>1 DEF Settles, Spares

LEMMA LiveIs ==
  ASSUME DatabasesOK, NEW role \in OpenRoles
  PROVE  /\ Live(role) \in shadows /\ Live(role).role = role /\ Live(role).fate = "open"
         /\ Live(role) \in Databases /\ role \in Roles
         /\ \A s \in shadows : s.role = role /\ s.fate = "open" => s = Live(role)
<1>1. \E s \in shadows : s.role = role /\ s.fate = "open"
  BY DEF OpenRoles
<1>2. Live(role) \in shadows /\ Live(role).role = role /\ Live(role).fate = "open"
  BY <1>1 DEF Live
<1>3. QED
  BY <1>2 DEF DatabasesOK, OpenRoles

(* The database of a role is written to. *)
LEMMA Filled ==
  ASSUME DatabasesOK, NEW role \in OpenRoles, role # "orphan", call' = call,
         NEW holds \in {"nothing", "source", "target", "other", "partial"},
         Fill(role, holds)
  PROVE  /\ Settles({}, {}) /\ Spares(role)
         /\ \A C : holds \in C => Exists(role, C)'
<1> DEFINE old == Live(role)
           new == [old EXCEPT !.holds = holds]
<1>1. /\ old \in shadows /\ old.role = role /\ old.fate = "open" /\ old \in Databases
      /\ \A s \in shadows : s.role = role /\ s.fate = "open" => s = old
  BY LiveIs
<1>2. shadows' = (shadows \ {old}) \cup {new}
  BY DEF Fill
<1> HIDE DEF old
<1>3. new.role = role /\ new.fate = "open" /\ new.holds = holds /\ new \in Databases
  BY <1>1 DEF Databases
<1> HIDE DEF new
<1>4. DatabasesOK'
  <2>1. shadows' \subseteq Databases
    BY <1>2, <1>3 DEF DatabasesOK
  <2>2. \A s, t \in shadows' : (s.role = t.role /\ s.fate = "open" /\ t.fate = "open") => s = t
    BY <1>1, <1>2, <1>3 DEF DatabasesOK
  <2>3. \A s \in shadows' : s.fate = "kept" =>
          call.keep /\ s.role \notin {"scratch", "flyway_replica"}
    BY <1>2, <1>3 DEF DatabasesOK
  <2>4. \A s \in shadows' : s.role = "orphan" => s = Open("orphan")
    BY <1>2, <1>3 DEF DatabasesOK
  <2>5. QED
    BY <2>1, <2>2, <2>3, <2>4 DEF DatabasesOK
<1>5. OpenRoles' = OpenRoles
  BY <1>1, <1>2, <1>3 DEF OpenRoles
<1>6. Settles({}, {})
  BY <1>4, <1>5 DEF Settles
<1>7. Spares(role)
  BY <1>1, <1>2, <1>3 DEF Spares
<1>8. ASSUME NEW C, holds \in C PROVE Exists(role, C)'
  <2>1. new \in shadows'
    BY <1>2
  <2>2. QED
    BY <2>1, <1>3, <1>8 DEF Exists
<1>9. QED
  BY <1>6, <1>7, <1>8

(* A new database. *)
LEMMA Opened ==
  ASSUME DatabasesOK, NEW role \in Roles, role \notin OpenRoles, role # "orphan",
         call' = call, shadows' = shadows \cup {Open(role)}
  PROVE  /\ Settles({}, {role}) /\ Spares(role)
         /\ Exists(role, {"nothing"})'
<1>1. /\ Open(role) \in Databases /\ Open(role).role = role /\ Open(role).fate = "open"
      /\ Open(role).holds = "nothing"
  BY DEF Open, Databases
<1>2. \A s \in shadows : s.role = role => s.fate # "open"
  BY DEF OpenRoles
<1>3. DatabasesOK'
  <2>1. \A s, t \in shadows' : (s.role = t.role /\ s.fate = "open" /\ t.fate = "open") => s = t
    BY <1>1, <1>2 DEF DatabasesOK
  <2>2. \A s \in shadows' : s.role = "orphan" => s = Open("orphan")
    BY <1>1 DEF DatabasesOK
  <2>3. /\ shadows' \subseteq Databases
        /\ \A s \in shadows' : s.fate = "kept" =>
             call.keep /\ s.role \notin {"scratch", "flyway_replica"}
    BY <1>1 DEF DatabasesOK
  <2>4. QED
    BY <2>1, <2>2, <2>3 DEF DatabasesOK
<1>4. OpenRoles' = OpenRoles \cup {role}
  BY <1>1 DEF OpenRoles
<1>5. Spares(role) /\ Exists(role, {"nothing"})'
  BY <1>1 DEF Spares, Exists
<1>6. QED
  BY <1>3, <1>4, <1>5 DEF Settles

(* A database without an owner. *)
LEMMA Orphaned ==
  ASSUME DatabasesOK, call' = call,
         shadows' = shadows \cup {Open("orphan")}
  PROVE  Settles({}, {}) /\ Spares("orphan")
<1>1. /\ Open("orphan") \in Databases /\ Open("orphan").role = "orphan"
      /\ Open("orphan").fate = "open" /\ "orphan" \in Roles
  BY DEF Open, Databases, Roles
<1>2. DatabasesOK'
  <2>1. \A s, t \in shadows' : (s.role = t.role /\ s.fate = "open" /\ t.fate = "open") => s = t
    BY <1>1 DEF DatabasesOK
  <2>2. QED
    BY <1>1, <2>1 DEF DatabasesOK, Open
<1>3. OpenRoles' = OpenRoles \cup {"orphan"}
  BY <1>1 DEF OpenRoles
<1>4. Spares("orphan")
  BY <1>1 DEF Spares
<1>5. QED
  BY <1>2, <1>3, <1>4 DEF Settles

(* A database is dropped, or kept on purpose, or cannot be dropped. *)
LEMMA Disposed ==
  ASSUME DatabasesOK, NEW role \in OpenRoles, role # "orphan", call' = call, NEW keep,
         keep => call.keep /\ role \notin {"scratch", "flyway_replica"},
         Dispose(role, keep)
  PROVE  Settles({role}, {}) /\ Spares(role)
<1> DEFINE old == Live(role)
           new == [role |-> role, holds |-> "nothing",
                   fate |-> IF keep THEN "kept" ELSE "undropped"]
<1>1. /\ old \in shadows /\ old.role = role /\ old.fate = "open" /\ role \in Roles
      /\ \A s \in shadows : s.role = role /\ s.fate = "open" => s = old
  BY LiveIs
<1>2. shadows' = shadows \ {old} \/ shadows' = (shadows \ {old}) \cup {new}
  BY DEF Dispose
<1> HIDE DEF old
<1>3. /\ new.role = role /\ new.fate \in {"kept", "undropped"} /\ new \in Databases
      /\ new.fate = "kept" => keep
  BY <1>1 DEF Databases
<1> HIDE DEF new
<1>4. DatabasesOK'
  <2>1. shadows' \subseteq Databases
    BY <1>2, <1>3 DEF DatabasesOK
  <2>2. \A s, t \in shadows' : (s.role = t.role /\ s.fate = "open" /\ t.fate = "open") => s = t
    BY <1>2, <1>3 DEF DatabasesOK
  <2>3. \A s \in shadows' : s.fate = "kept" =>
          call.keep /\ s.role \notin {"scratch", "flyway_replica"}
    BY <1>2, <1>3 DEF DatabasesOK
  <2>4. \A s \in shadows' : s.role = "orphan" => s = Open("orphan")
    BY <1>2, <1>3 DEF DatabasesOK
  <2>5. QED
    BY <2>1, <2>2, <2>3, <2>4 DEF DatabasesOK
<1>5. OpenRoles' = OpenRoles \ {role}
  BY <1>1, <1>2, <1>3 DEF OpenRoles
<1>6. Spares(role)
  BY <1>1, <1>2, <1>3 DEF Spares
<1>7. QED
  BY <1>4, <1>5, <1>6 DEF Settles

(* The topmost frame and the ones below. *)
LEMMA HeldAre ==
  ASSUME Shape, Owners, stack # <<>>
  PROVE  /\ HeldRoles = HeldBelow \cup stack[1].owns
         /\ stack[1].owns \subseteq Claims(stack[1].proc, stack[1].about)
         /\ HeldBelow \cap Claims(stack[1].proc, stack[1].about) = {}
         /\ FrameOK(stack[1], result = "ok")
<1>1. Len(stack) \in Nat /\ Len(stack) > 0
  BY Chain
<1>2. PICK j \in Nat : j = Len(stack) - 1
  BY <1>1
<1>3. /\ j \in 0..(Len(stack) - 1) /\ Up(j) = stack[1] /\ Len(stack) \in Nat \ {0}
      /\ stack[1].owns \subseteq Roles
  BY <1>2, Chain, TopFrame DEF Shape
<1>4. HeldRoles = HeldBelow \cup stack[1].owns
  <2>1. \A k \in 0..(Len(stack) - 1) : k = j \/ k \in 0..(Len(stack) - 2)
    BY <1>2, <1>3
  <2>2. \A k \in 0..(Len(stack) - 2) : k \in 0..(Len(stack) - 1)
    BY <1>3
  <2>3. QED
    BY <1>3, <2>1, <2>2 DEF HeldRoles, HeldBelow
<1>5. FrameOK(stack[1], result = "ok")
  <2>1. FrameOK(Up(j), Received(j))
    BY <1>3 DEF Owners
  <2>2. Received(j) = (result = "ok")
    BY <1>2 DEF Received
  <2>3. QED
    BY <1>3, <2>1, <2>2
<1>6. stack[1].owns \subseteq Claims(stack[1].proc, stack[1].about)
  BY <1>5, DueIsClaimed DEF FrameOK
<1>7. ASSUME NEW role \in HeldBelow PROVE role \notin Claims(stack[1].proc, stack[1].about)
  <2>1. PICK k \in 0..(Len(stack) - 2) : role \in Up(k).owns
    BY <1>7 DEF HeldBelow
  <2>2. k \in 0..(j - 1)
    BY <1>2, <1>3, <2>1
  <2>3. role \notin Claims(Up(j).proc, Up(j).about)
    BY <1>3, <2>1, <2>2, OneClaim
  <2>4. QED
    BY <1>3, <2>3
<1>8. QED
  BY <1>4, <1>5, <1>6, <1>7

(* A frame is as it should be, whenever that is said. *)
LEMMA FrameThen ==
  ASSUME call' = call, NEW f, NEW r, FrameOK(f, r), NEW k, Up(k)' = f, Received(k)' = r
  PROVE  FrameOK(Up(k), Received(k))'
BY DEF FrameOK, Due, AwaitsReplica

(* The frames below the topmost are callers: they have received nothing.   *)
LEMMA FramesBelow ==
  ASSUME Shape, Owners, stack # <<>>, NEW k \in 0..(Len(stack) - 2)
  PROVE  FrameOK(Up(k), FALSE)
<1>1. k \in 0..(Len(stack) - 1) /\ k # Len(stack) - 1
  BY Chain
<1>2. FrameOK(Up(k), Received(k)) /\ Received(k) = FALSE
  BY <1>1 DEF Owners, Received
<1>3. QED
  BY <1>2

(* Nothing a frame owns outlives the open databases. *)
LEMMA Balance ==
  ASSUME NEW strays, Tight(strays), NEW gone, NEW come, Settles(gone, come),
         NEW more, HeldRoles' = (HeldRoles \ (gone \cup more)) \cup come, call' = call
  PROVE  Tight(strays \cup more)'
BY DEF Tight, Settles

(* A call: the caller keeps what it owns while it waits. *)
LEMMA HoldPushed ==
  ASSUME Shape, NEW strays, Accounted(strays), stack # <<>>, call' = call,
         NEW proc, NEW about, NEW place, Pushed(proc, about, place),
         CallSite(stack[1].proc, place, proc, about), Settles({}, {}),
         stack[1].owns = Due(stack[1].proc, stack[1].about, place, FALSE),
         AwaitsReplica(stack[1].proc, place) => call.sides["source"] # "url"
  PROVE  Accounted(strays)'
<1>1. /\ Len(stack) \in Nat \ {0} /\ stack[1] \in Frames
      /\ stack' \in Seq(Frames) /\ Len(stack') = Len(stack) + 1
      /\ stack'[1] = Frame(proc, about)
      /\ stack'[2].proc = stack[1].proc /\ stack'[2].about = stack[1].about
      /\ stack'[2].at = place /\ stack'[2].owns = stack[1].owns
  BY Chain, TopFrame DEF Pushed, Shape
<1>2. ASSUME NEW k \in 0..(Len(stack) - 2)
      PROVE  FrameOK(Up(k), Received(k))' /\ Up(k)' = Up(k)
  <2>1. FrameOK(Up(k), FALSE) /\ Up(k)' = Up(k)
    BY FramesBelow DEF Accounted, Pushed, Below
  <2>2. Received(k)' = FALSE
    BY <1>1 DEF Received
  <2>3. PICK f : f = Up(k)
    OBVIOUS
  <2>4. FrameOK(f, FALSE) /\ Up(k)' = f
    BY <2>1, <2>3
  <2>5. QED
    BY <2>1, <2>2, <2>4, FrameThen
<1>3. PICK j \in Nat : j = Len(stack) - 1
  BY <1>1
<1>4. FrameOK(Up(j), Received(j))' /\ Up(j)' = stack'[2]
  <2>1. Len(stack') - j = 2 /\ j # Len(stack') - 1
    BY <1>3, <1>1
  <2>2. Up(j)' = stack'[2] /\ Received(j)' = FALSE
    BY <2>1 DEF Up, Received
  <2>3. PICK f : f = stack'[2]
    OBVIOUS
  <2>4. FrameOK(f, FALSE)
    BY <1>1, <2>3 DEF FrameOK
  <2>5. QED
    BY <2>2, <2>3, <2>4, FrameThen
<1>5. ASSUME NEW k \in Nat, k = Len(stack)
      PROVE  FrameOK(Up(k), Received(k))' /\ Up(k)' = Frame(proc, about)
  <2>1. Len(stack') - k = 1
    BY <1>1, <1>5
  <2>2. Up(k)' = Frame(proc, about)
    BY <1>1, <2>1 DEF Up
  <2>3. PICK r : r = Received(k)'
    OBVIOUS
  <2>4. FrameOK(Frame(proc, about), r)
    BY DEF FrameOK, Frame, Due, AwaitsReplica
  <2>5. QED
    BY <2>2, <2>3, <2>4, FrameThen
<1>6. /\ \A k \in 0..(Len(stack') - 1) :
           k \in 0..(Len(stack) - 2) \/ k = j \/ (k \in Nat /\ k = Len(stack))
      /\ j \in 0..(Len(stack') - 1)
  BY <1>3, <1>1
<1>7. Owners'
  BY <1>2, <1>4, <1>5, <1>6, <1>1 DEF Owners
<1>8. HeldRoles' = HeldRoles
  <2>1. ASSUME NEW role \in HeldRoles' PROVE role \in HeldRoles
    <3>1. PICK k \in 0..(Len(stack') - 1) : role \in Up(k)'.owns
      BY <2>1 DEF HeldRoles
    <3>2. CASE k \in 0..(Len(stack) - 2)
      <4>1. k \in 0..(Len(stack) - 1) /\ role \in Up(k).owns
        BY <1>1, <1>2, <3>1, <3>2
      <4>2. QED
        BY <2>1, <4>1 DEF HeldRoles
    <3>3. CASE k = j
      <4>1. role \in stack[1].owns
        BY <1>1, <1>4, <3>1, <3>3
      <4>2. QED
        BY <4>1, HeldAre DEF Accounted
    <3>4. CASE k = Len(stack)
      BY <1>1, <1>5, <3>1, <3>4 DEF Frame
    <3>5. QED
      BY <1>6, <3>2, <3>3, <3>4
  <2>2. ASSUME NEW role \in HeldRoles PROVE role \in HeldRoles'
    <3>1. role \in HeldBelow \/ role \in stack[1].owns
      BY <2>2, HeldAre DEF Accounted
    <3>2. CASE role \in HeldBelow
      <4>1. PICK k \in 0..(Len(stack) - 2) : role \in Up(k).owns
        BY <3>2 DEF HeldBelow
      <4>2. k \in 0..(Len(stack') - 1) /\ role \in Up(k)'.owns
        BY <1>1, <1>2, <4>1
      <4>3. QED
        BY <2>2, <4>2 DEF HeldRoles
    <3>3. CASE role \in stack[1].owns
      <4>1. j \in 0..(Len(stack') - 1) /\ role \in Up(j)'.owns
        BY <1>1, <1>4, <1>6, <3>3
      <4>2. QED
        BY <2>2, <4>1 DEF HeldRoles
    <3>4. QED
      BY <3>1, <3>2, <3>3
  <2>3. QED
    BY <2>1, <2>2
<1>9. Tight(strays)'
  BY <1>8, Balance DEF Accounted, Tight, Settles
<1>10. Returned'
  <2>1. stack'[1].proc \notin Commands
    BY <1>1, SiteTyped DEF Frame
  <2>2. QED
    BY <2>1 DEF Returned, Commands
<1>11. QED
  BY <1>7, <1>9, <1>10 DEF Accounted, Settles

LEMMA BelowStays ==
  ASSUME Shape, Owners, stack # <<>>, call' = call, Below,
         NEW k \in 0..(Len(stack) - 2), Received(k)' = FALSE
  PROVE  FrameOK(Up(k), Received(k))' /\ Up(k)' = Up(k)
<1>1. FrameOK(Up(k), FALSE) /\ Up(k)' = Up(k)
  BY FramesBelow DEF Below
<1>2. PICK f : f = Up(k)
  OBVIOUS
<1>3. FrameOK(f, FALSE) /\ Up(k)' = f
  BY <1>1, <1>2
<1>4. QED
  BY <1>1, <1>3, FrameThen

(* A step within a procedure, that may drop or create a database. *)
LEMMA HoldMoved ==
  ASSUME Shape, NEW strays, Accounted(strays), stack # <<>>, call' = call,
         NEW place, NEW owned, Moved(place, owned),
         NEW gone, NEW come, Settles(gone, come), gone \subseteq stack[1].owns,
         come \subseteq Claims(stack[1].proc, stack[1].about),
         owned = (stack[1].owns \ gone) \cup come,
         owned = Due(stack[1].proc, stack[1].about, place, result' = "ok"),
         ~AwaitsReplica(stack[1].proc, place),
         stack[1].proc = "cmd_apply" =>
           /\ place = "checked" => result' = "ok"
           /\ place = "scanned" => result' \in {"ok", "ai"}
  PROVE  Accounted(strays)'
<1>1. /\ Len(stack) \in Nat \ {0} /\ stack[1] \in Frames
      /\ stack' \in Seq(Frames) /\ Len(stack') = Len(stack)
      /\ stack'[1].proc = stack[1].proc /\ stack'[1].about = stack[1].about
      /\ stack'[1].at = place /\ stack'[1].owns = owned /\ Below
  BY Chain, TopFrame DEF Moved, Shape
<1>2. ASSUME NEW k \in 0..(Len(stack) - 2)
      PROVE  FrameOK(Up(k), Received(k))' /\ Up(k)' = Up(k)
  <2>1. Received(k)' = FALSE
    BY <1>1 DEF Received
  <2>2. QED
    BY <1>1, <2>1, BelowStays DEF Accounted
<1>3. PICK j \in Nat : j = Len(stack) - 1
  BY <1>1
<1>4. FrameOK(Up(j), Received(j))' /\ Up(j)' = stack'[1]
  <2>1. Len(stack') - j = 1 /\ j = Len(stack') - 1
    BY <1>3, <1>1
  <2>2. Up(j)' = stack'[1] /\ Received(j)' = (result' = "ok")
    BY <2>1 DEF Up, Received
  <2>3. PICK f : f = stack'[1]
    OBVIOUS
  <2>4. PICK r : r = (result' = "ok")
    OBVIOUS
  <2>5. FrameOK(f, r)
    BY <1>1, <2>3, <2>4 DEF FrameOK
  <2>6. QED
    BY <2>2, <2>3, <2>4, <2>5, FrameThen
<1>5. /\ \A k \in 0..(Len(stack') - 1) : k \in 0..(Len(stack) - 2) \/ k = j
      /\ \A k \in 0..(Len(stack) - 2) : k \in 0..(Len(stack') - 1)
      /\ j \in 0..(Len(stack') - 1)
  BY <1>3, <1>1
<1>6. Owners'
  BY <1>2, <1>4, <1>5 DEF Owners
<1>7. HeldRoles' = (HeldRoles \ gone) \cup come
  <2>1. /\ HeldRoles = HeldBelow \cup stack[1].owns
        /\ HeldBelow \cap Claims(stack[1].proc, stack[1].about) = {}
        /\ stack[1].owns \subseteq Claims(stack[1].proc, stack[1].about)
    BY HeldAre DEF Accounted
  <2>2. HeldRoles' = HeldBelow \cup owned
    <3>1. ASSUME NEW role \in HeldRoles' PROVE role \in HeldBelow \cup owned
      <4>1. PICK k \in 0..(Len(stack') - 1) : role \in Up(k)'.owns
        BY <3>1 DEF HeldRoles
      <4>2. QED
        BY <1>1, <1>2, <1>4, <1>5, <3>1, <4>1 DEF HeldBelow, HeldRoles
    <3>2. ASSUME NEW role \in HeldBelow PROVE role \in HeldRoles'
      <4>1. PICK k \in 0..(Len(stack) - 2) : role \in Up(k).owns
        BY <3>2 DEF HeldBelow
      <4>2. k \in 0..(Len(stack') - 1) /\ role \in Up(k)'.owns
        BY <1>2, <1>5, <4>1
      <4>3. QED
        BY <3>2, <4>2 DEF HeldRoles, HeldBelow
    <3>3. ASSUME NEW role \in owned PROVE role \in HeldRoles'
      <4>1. j \in 0..(Len(stack') - 1) /\ role \in Up(j)'.owns /\ role \in Roles
        BY <1>1, <1>4, <1>5, <3>3 DEF Due
      <4>2. QED
        BY <4>1 DEF HeldRoles
    <3>4. QED
      BY <3>1, <3>2, <3>3
  <2>3. QED
    BY <2>1, <2>2
<1>8. Tight(strays)'
  BY <1>7, Balance DEF Accounted, Tight, Settles
<1>9. Returned'
  BY <1>1 DEF Returned
<1>10. QED
  BY <1>6, <1>8, <1>9 DEF Accounted, Settles

(* A return: what the procedure owned is gone, or has gone astray. *)
LEMMA HoldPopped ==
  ASSUME Shape, NEW strays, Accounted(strays), Len(stack) > 1, call' = call, Popped,
         NEW gone, Settles(gone, {}), gone \subseteq stack[1].owns,
         NEW left, left = stack[1].owns \ gone,
         stack[1].proc = "materialize" => result' # "ok",
         stack[1].proc = "checks" => result' = "ok",
         stack[1].proc = "ai" => result' \in {"ok", "ai"}
  PROVE  Accounted(strays \cup left)'
<1>1. /\ Len(stack) \in Nat /\ stack # <<>> /\ stack[1] \in Frames
      /\ stack' \in Seq(Frames) /\ Len(stack') = Len(stack) - 1 /\ Below
      /\ CallsNow(stack[2], stack[1]) /\ stack[2] = Up(Len(stack) - 2)
  BY NonEmpty, Chain, TopFrame DEF Popped, Shape
<1>2. PICK j \in Nat : j = Len(stack) - 2
  BY <1>1
<1>3. j \in 0..(Len(stack) - 2) /\ Up(j) = stack[2] /\ j = Len(stack') - 1
      /\ Len(stack') - j = 1
  BY <1>2, <1>1
<1>4. Up(j)' = stack[2] /\ Up(j)' = stack'[1] /\ Received(j)' = (result' = "ok")
  BY <1>1, <1>3 DEF Below, Up, Received
<1>5. FrameOK(Up(j), Received(j))'
  <2>1. PICK f : f = stack[2]
    OBVIOUS
  <2>2. FrameOK(f, FALSE)
    BY <1>1, <1>3, <2>1, FramesBelow DEF Accounted
  <2>3. PICK r : r = (result' = "ok")
    OBVIOUS
  <2>4. Due(f.proc, f.about, f.at, r) = Due(f.proc, f.about, f.at, FALSE)
    <3>1. CASE r = FALSE
      BY <3>1
    <3>2. CASE stack[1].proc # "materialize"
      <4>1. CallSite(f.proc, f.at, stack[1].proc, stack[1].about)
        BY <1>1, <2>1 DEF CallsNow
      <4>2. /\ f.proc \in {"rehearse", "cmd_apply"} => f.at \notin {"comparable", "compare"}
            /\ f.proc = "rehearse" => f.at # "flyable"
        BY <3>2, <4>1 DEF CallSite, Commands
      <4>3. QED
        BY <4>2 DEF Due
    <3>3. QED
      BY <2>3, <3>1, <3>2
  <2>5. FrameOK(f, r)
    BY <2>2, <2>4 DEF FrameOK
  <2>6. QED
    BY <1>4, <2>1, <2>3, <2>5, FrameThen
<1>6. ASSUME NEW k \in 0..(Len(stack) - 3)
      PROVE  FrameOK(Up(k), Received(k))' /\ Up(k)' = Up(k)
  <2>1. k \in 0..(Len(stack) - 2) /\ Received(k)' = FALSE
    BY <1>1 DEF Received
  <2>2. QED
    BY <1>1, <2>1, BelowStays DEF Accounted
<1>7. /\ \A k \in 0..(Len(stack') - 1) : k \in 0..(Len(stack) - 3) \/ k = j
      /\ 0..(Len(stack') - 1) = 0..(Len(stack) - 2)
      /\ j \in 0..(Len(stack') - 1)
  BY <1>2, <1>1
<1>8. Owners'
  BY <1>5, <1>6, <1>7 DEF Owners
<1>9. HeldRoles' = HeldBelow
  <2>1. \A k \in 0..(Len(stack) - 2) : Up(k)' = Up(k)
    BY <1>1 DEF Below
  <2>2. QED
    BY <1>7, <2>1 DEF HeldRoles, HeldBelow
<1>10. Tight(strays \cup left)'
  <2>1. HeldRoles' = (HeldRoles \ (gone \cup left)) \cup {}
    BY <1>1, <1>9, HeldAre DEF Accounted
  <2>2. QED
    BY <2>1, Balance DEF Accounted
<1>11. Returned'
  <2>1. CallSite(stack'[1].proc, stack'[1].at, stack[1].proc, stack[1].about)
    BY <1>1, <1>4 DEF CallsNow
  <2>2. QED
    BY <2>1 DEF Returned, CallSite, Commands
<1>12. QED
  BY <1>8, <1>10, <1>11 DEF Accounted, Settles

(* A database that changes hands. *)
LEMMA HoldHanded ==
  ASSUME Shape, NEW strays, Accounted(strays), Len(stack) > 1, call' = call, Handed,
         result' = "ok", stack[1].proc = "materialize", stack[1].at = "sane",
         Settles({}, {})
  PROVE  Accounted(strays)'
<1>1. /\ Len(stack) \in Nat /\ stack # <<>> /\ stack[1] \in Frames
      /\ stack' \in Seq(Frames) /\ Len(stack') = Len(stack) - 1
      /\ CallSite(stack[2].proc, stack[2].at, "materialize", stack[1].about)
      /\ stack[2] = Up(Len(stack) - 2)
      /\ stack'[1].proc = stack[2].proc /\ stack'[1].about = stack[2].about
      /\ stack'[1].at = stack[2].at /\ stack'[1].owns = stack[2].owns \cup stack[1].owns
      /\ \A k \in 0..(Len(stack) - 3) : Up(k)' = Up(k)
  <2>1. stack \in Seq(Frames) /\ Len(stack) \in Nat /\ stack # <<>>
    BY EmptySeq DEF Shape
  <2>2. /\ stack[1] \in Frames /\ stack[2] = Up(Len(stack) - 2)
        /\ CallsNow(stack[2], stack[1])
    BY <2>1, Chain, TopFrame
  <2>3. CallSite(stack[2].proc, stack[2].at, "materialize", stack[1].about)
    BY <2>2 DEF CallsNow
  <2>4. QED
    BY <2>1, <2>2, <2>3 DEF Handed
<1>2. Len(stack) \in Nat
  BY <1>1
<1>3. PICK j \in Nat : j = Len(stack) - 2
  BY <1>2
<1>4. j \in 0..(Len(stack) - 2) /\ Up(j) = stack[2] /\ j = Len(stack') - 1
      /\ Len(stack') - j = 1
  BY <1>3, <1>1
<1>5. Up(j)' = stack'[1] /\ Received(j)' = TRUE
  BY <1>4 DEF Up, Received
<1>6. /\ HeldRoles = HeldBelow \cup stack[1].owns
      /\ FrameOK(stack[1], result = "ok")
      /\ FrameOK(stack[2], FALSE)
  <2>1. FrameOK(Up(j), FALSE)
    BY <1>1, <1>4, FramesBelow DEF Accounted
  <2>2. QED
    BY <1>1, <1>4, <2>1, HeldAre DEF Accounted
<1>7. FrameOK(Up(j), Received(j))'
  <2>1. PICK f : f = stack'[1]
    OBVIOUS
  <2>2. stack[1].owns = {stack[1].about}
    <3>1. stack[1].about \in Roles
      BY <1>1 DEF CallSite, Roles, Replicas, Commands
    <3>2. QED
      BY <1>6, <3>1 DEF FrameOK, Due
  <2>3. stack[2].owns = Due(stack[2].proc, stack[2].about, stack[2].at, FALSE)
        /\ (AwaitsReplica(stack[2].proc, stack[2].at) => call.sides["source"] # "url")
    BY <1>6 DEF FrameOK
  <2>4. \/ /\ stack[1].about = "source_replica" /\ call.sides["source"] # "url"
           /\ stack[2].proc = "rehearse" /\ stack[2].at = "comparable"
        \/ /\ stack[1].about = "source_replica" /\ call.sides["source"] # "url"
           /\ stack[2].proc = "cmd_apply" /\ stack[2].at = "compare"
        \/ /\ stack[1].about = "flyway_replica"
           /\ stack[2].proc = "rehearse" /\ stack[2].at = "flyable"
    BY <1>1, <2>3 DEF CallSite, AwaitsReplica, Commands
  <2>5. Due(stack[2].proc, stack[2].about, stack[2].at, TRUE) =
          Due(stack[2].proc, stack[2].about, stack[2].at, FALSE) \cup {stack[1].about}
    BY <2>4 DEF Due, Roles, Replicas
  <2>6. FrameOK(f, TRUE)
    BY <1>1, <2>1, <2>2, <2>3, <2>5 DEF FrameOK
  <2>7. QED
    BY <1>5, <2>1, <2>6, FrameThen
<1>8. ASSUME NEW k \in 0..(Len(stack) - 3)
      PROVE  FrameOK(Up(k), Received(k))' /\ Up(k)' = Up(k)
  <2>1. k \in 0..(Len(stack) - 2) /\ Received(k)' = FALSE
    BY <1>1 DEF Received
  <2>2. FrameOK(Up(k), FALSE) /\ Up(k)' = Up(k)
    BY <1>1, <2>1, FramesBelow DEF Accounted
  <2>3. PICK f : f = Up(k)
    OBVIOUS
  <2>4. FrameOK(f, FALSE) /\ Up(k)' = f
    BY <2>2, <2>3
  <2>5. QED
    BY <2>1, <2>2, <2>4, FrameThen
<1>9. /\ \A k \in 0..(Len(stack') - 1) : k \in 0..(Len(stack) - 3) \/ k = j
      /\ \A k \in 0..(Len(stack) - 2) : k \in 0..(Len(stack) - 3) \/ k = j
      /\ 0..(Len(stack') - 1) = 0..(Len(stack) - 2)
      /\ j \in 0..(Len(stack') - 1)
  BY <1>3, <1>1
<1>10. Owners'
  BY <1>7, <1>8, <1>9 DEF Owners
<1>11. HeldRoles' = HeldBelow \cup stack[1].owns
  <2>1. Up(j)'.owns = Up(j).owns \cup stack[1].owns /\ stack[1].owns \subseteq Roles
    BY <1>1, <1>4, <1>5, FrameFields
  <2>2. \A k \in 0..(Len(stack) - 3) : Up(k)' = Up(k)
    BY <1>1
  <2>3. ASSUME NEW role \in HeldRoles' PROVE role \in HeldBelow \cup stack[1].owns
    <3>1. PICK k \in 0..(Len(stack') - 1) : role \in Up(k)'.owns
      BY <2>3 DEF HeldRoles
    <3>2. CASE k = j
      BY <1>4, <2>1, <2>3, <3>1, <3>2 DEF HeldBelow, HeldRoles
    <3>3. CASE k \in 0..(Len(stack) - 3)
      BY <1>9, <2>2, <2>3, <3>1, <3>3 DEF HeldBelow, HeldRoles
    <3>4. QED
      BY <1>9, <3>2, <3>3
  <2>4. ASSUME NEW role \in HeldBelow PROVE role \in HeldRoles'
    <3>1. PICK k \in 0..(Len(stack) - 2) : role \in Up(k).owns
      BY <2>4 DEF HeldBelow
    <3>2. k \in 0..(Len(stack') - 1) /\ role \in Up(k)'.owns
      BY <1>9, <2>1, <2>2, <3>1
    <3>3. QED
      BY <2>4, <3>2 DEF HeldRoles, HeldBelow
  <2>5. ASSUME NEW role \in stack[1].owns PROVE role \in HeldRoles'
    <3>1. role \in Up(j)'.owns /\ role \in Roles
      BY <2>1, <2>5
    <3>2. QED
      BY <1>9, <3>1 DEF HeldRoles
  <2>6. QED
    BY <2>3, <2>4, <2>5
<1>12. Tight(strays)'
  BY <1>11, <1>6, Balance DEF Accounted, Tight, Settles
<1>13. Returned'
  BY <1>1 DEF Returned, CallSite
<1>14. QED
  BY <1>10, <1>12, <1>13 DEF Accounted, Settles

(* The end: what the command still owns is left behind. *)
LEMMA HoldExit ==
  ASSUME Shape, NEW strays, Accounted(strays), Len(stack) = 1, NEW code, Exit(code),
         UNCHANGED <<call, shadows>>, NEW left, left = stack[1].owns
  PROVE  Accounted(strays \cup left)'
<1>1. Len(stack) > 0
  OBVIOUS
<1>2. stack # <<>>
  BY <1>1, NonEmpty
<1>3. stack' = <<>> /\ Len(stack') = 0 /\ 0..(Len(stack') - 1) = {}
      /\ 0..(Len(stack) - 2) = {}
  BY DEF Exit
<1>4. HeldRoles' = {} /\ HeldRoles = left
  <2>1. HeldBelow = {}
    BY <1>3 DEF HeldBelow
  <2>2. QED
    BY <1>2, <1>3, <2>1, HeldAre DEF Accounted, HeldRoles
<1>5. Settles({}, {})
  BY Untouched DEF Accounted
<1>6. Tight(strays \cup left)'
  <2>1. HeldRoles' = (HeldRoles \ ({} \cup left)) \cup {}
    BY <1>4
  <2>2. QED
    BY <1>5, <2>1, Balance DEF Accounted
<1>7. Owners'
  BY <1>3 DEF Owners
<1>8. QED
  BY <1>3, <1>5, <1>6, <1>7 DEF Accounted, Returned, Settles

(* The same for the steps as the procedures write them. *)
LEMMA HoldReturns ==
  ASSUME Shape, NEW strays, Accounted(strays), stack # <<>>, stack[1].proc \notin Commands,
         call' = call, NEW r, Return(r),
         NEW gone, Settles(gone, {}), gone = stack[1].owns,
         stack[1].proc = "materialize" => r # "ok",
         stack[1].proc = "checks" => r = "ok",
         stack[1].proc = "ai" => r \in {"ok", "ai"}
  PROVE  Accounted(strays)'
<1>1. Len(stack) > 1 /\ Popped /\ result' = r
  BY Chain, Returns DEF Shape
<1>2. PICK left : left = stack[1].owns \ gone
  OBVIOUS
<1>3. Accounted(strays \cup left)'
  BY <1>1, <1>2, HoldPopped
<1>4. strays \cup left = strays
  BY <1>2
<1>5. QED
  BY <1>3, <1>4

LEMMA HoldDisposes ==
  ASSUME Shape, NEW strays, Accounted(strays), stack # <<>>, stack[1].proc \notin Commands,
         call' = call, NEW r, Return(r), NEW role \in Roles, stack[1].owns = {role},
         role # "orphan", NEW keep, Dispose(role, keep),
         keep => call.keep /\ role \notin {"scratch", "flyway_replica"},
         stack[1].proc = "materialize" => r # "ok",
         stack[1].proc \notin {"checks", "ai"}
  PROVE  Accounted(strays)'
<1>1. role \in OpenRoles
  BY HeldAre DEF Accounted, Tight
<1>2. Settles({role}, {})
  BY <1>1, Disposed DEF Accounted
<1>3. QED
  BY <1>2, HoldReturns

LEMMA HoldCreates ==
  ASSUME Shape, Accounted({}), stack # <<>>, stack[1].proc \notin Commands,
         call' = call, NEW role, NEW place \in Places, Create(role, place),
         role \in Claims(stack[1].proc, stack[1].about), role # "orphan",
         stack[1].owns = {}, stack[1].proc \notin {"checks", "ai"},
         ~AwaitsReplica(stack[1].proc, place),
         \A r \in BOOLEAN : Due(stack[1].proc, stack[1].about, place, r) = {role}
  PROVE  Accounted({})'
<1>1. role \in Roles /\ role \notin OpenRoles /\ DatabasesOK
  BY HeldAre DEF Accounted, Tight, Claims
<1>2. CASE Return("failed") /\ UNCHANGED shadows
  <2>1. Settles({}, {})
    BY <1>1, <1>2, Untouched
  <2>2. QED
    BY <1>2, <2>1, HoldReturns
<1>3. CASE /\ Return("failed")
           /\ shadows' = shadows \cup {Open("orphan")}
  <2>1. Settles({}, {})
    BY <1>1, <1>3, Orphaned
  <2>2. QED
    BY <1>3, <2>1, HoldReturns
<1>4. CASE /\ shadows' = shadows \cup {Open(role)} /\ result' = result
           /\ stack' = [stack EXCEPT ![1].at = place, ![1].owns = @ \cup {role}]
  <2>1. Settles({}, {role})
    BY <1>1, <1>4, Opened
  <2>2. PICK owned : owned = {role}
    OBVIOUS
  <2>3. Moved(place, owned)
    <3>1. Moved(place, stack[1].owns \cup {role})
      BY <1>1, <1>4, Takes DEF Shape
    <3>2. QED
      BY <2>2, <3>1 DEF Moved
  <2>4. owned = Due(stack[1].proc, stack[1].about, place, result' = "ok")
    BY <2>2
  <2>5. stack[1].proc # "cmd_apply"
    BY DEF Commands
  <2>6. QED
    BY <2>1, <2>2, <2>3, <2>4, <2>5, HoldMoved
<1>5. QED
  BY <1>2, <1>3, <1>4 DEF Create

LEMMA HoldGoes ==
  ASSUME Shape, NEW strays, Accounted(strays), stack # <<>>, call' = call,
         NEW place \in Places, Goto(place), Settles({}, {}),
         stack[1].owns = Due(stack[1].proc, stack[1].about, place, result' = "ok"),
         ~AwaitsReplica(stack[1].proc, place),
         stack[1].proc = "cmd_apply" =>
           /\ place = "checked" => result' = "ok"
           /\ place = "scanned" => result' \in {"ok", "ai"}
  PROVE  Accounted(strays)'
<1>1. PICK owned : owned = stack[1].owns
  OBVIOUS
<1>2. Moved(place, owned)
  <2>1. Moved(place, stack[1].owns)
    BY Goes DEF Shape
  <2>2. QED
    BY <1>1, <2>1 DEF Moved
<1>3. QED
  BY <1>1, <1>2, HoldMoved

LEMMA HoldCalls ==
  ASSUME Shape, NEW strays, Accounted(strays), stack # <<>>, call' = call,
         NEW proc, NEW about, NEW place, Invoke(proc, about, place),
         CallSite(stack[1].proc, place, proc, about), Settles({}, {}),
         stack[1].owns = Due(stack[1].proc, stack[1].about, place, FALSE),
         AwaitsReplica(stack[1].proc, place) => call.sides["source"] # "url"
  PROVE  Accounted(strays)'
<1>1. Pushed(proc, about, place)
  BY SiteTyped, Invokes DEF Shape
<1>2. QED
  BY <1>1, HoldPushed

LEMMA HoldDisowns ==
  ASSUME Shape, NEW strays, Accounted(strays), stack # <<>>, call' = call,
         NEW role \in Roles, role \in stack[1].owns, role # "orphan",
         NEW place \in Places, Dispose(role, FALSE), Disown(role, place),
         stack[1].owns \ {role} =
           Due(stack[1].proc, stack[1].about, place, result' = "ok"),
         ~AwaitsReplica(stack[1].proc, place),
         stack[1].proc = "cmd_apply" => place \notin {"checked", "scanned"}
  PROVE  Accounted(strays)'
<1>1. role \in OpenRoles
  BY HeldAre DEF Accounted, Tight
<1>2. Settles({role}, {})
  BY <1>1, Disposed DEF Accounted
<1>3. PICK owned : owned = stack[1].owns \ {role}
  OBVIOUS
<1>4. Moved(place, owned)
  <2>1. Moved(place, stack[1].owns \ {role})
    BY Disowns DEF Shape
  <2>2. QED
    BY <1>3, <2>1 DEF Moved
<1>5. QED
  BY <1>2, <1>3, <1>4, HoldMoved

(* Nothing is astray before a step, and nothing after it. *)
LEMMA HoldBase ==
  ASSUME Shape, HoldInv, stack # <<>>,
         ~(stack[1].proc = "verify" /\ stack[1].at = "dispose"),
         ~(stack[1].proc = "cmd_verify" /\ stack[1].at = "verified")
  PROVE  /\ Accounted({}) /\ stack[1].about \in Abouts
         /\ stack[1].owns = Due(stack[1].proc, stack[1].about, stack[1].at, result = "ok")
         /\ AwaitsReplica(stack[1].proc, stack[1].at) => call.sides["source"] # "url"
<1>1. Strays = {}
  BY DEF Strays
<1>2. Accounted({})
  BY <1>1 DEF HoldInv
<1>3. QED
  BY <1>2, HeldAre, TopFrame DEF Accounted, FrameOK, Shape

LEMMA HoldEnough == ASSUME Accounted({})' PROVE HoldInv'
BY DEF HoldInv, Accounted, Tight

LEMMA HoldStill == ASSUME HoldInv, UNCHANGED <<call, shadows>> PROVE Settles({}, {})
BY Untouched DEF HoldInv, Accounted

LEMMA HoldLoad ==
  ASSUME Shape, HoldInv,
         Resolve \/ Resolved \/ LoadSource \/ LoadTarget \/ Compare \/ Loaded
  PROVE  HoldInv'
<1>1. /\ stack # <<>> /\ Head(stack) = stack[1] /\ stack[1].proc \in {"resolve", "load"}
      /\ call' = call
  BY AtTop DEF Resolve, Resolved, LoadSource, LoadTarget, Compare, Loaded
<1>2. /\ Accounted({}) /\ stack[1].proc \notin Commands
      /\ stack[1].owns = Due(stack[1].proc, stack[1].about, stack[1].at, result = "ok")
  BY <1>1, HoldBase DEF Commands
<1>3. ASSUME NEW r, Return(r), UNCHANGED shadows, stack[1].owns = {} PROVE HoldInv'
  BY <1>1, <1>2, <1>3, HoldStill, HoldReturns, HoldEnough
<1>4. ASSUME NEW proc, NEW about, NEW place, Invoke(proc, about, place),
             CallSite("load", place, proc, about), UNCHANGED shadows,
             stack[1].proc = "load"
      PROVE  HoldInv'
  <2>1. stack[1].owns = Due(stack[1].proc, stack[1].about, place, FALSE)
        /\ ~AwaitsReplica(stack[1].proc, place)
    BY <1>2, <1>4 DEF Due, AwaitsReplica
  <2>2. QED
    BY <1>1, <1>2, <1>4, <2>1, HoldStill, HoldCalls, HoldEnough
<1>5. CASE Resolve
  <2>1. /\ stack[1].proc = "resolve" /\ stack[1].at = "start"
        /\ stack[1].about \in Sides /\ stack[1].about \in Roles
        /\ stack[1].about # "orphan" /\ "filled" \in Places
    BY <1>1, <1>5, AtTop, SubjectOfAChild DEF Resolve, Sides, Roles, Places
  <2>2. stack[1].owns = {}
    BY <1>2, <2>1 DEF Due
  <2>3. CASE Create(stack[1].about, "filled")
    <3>1. /\ stack[1].about \in Claims(stack[1].proc, stack[1].about)
          /\ ~AwaitsReplica(stack[1].proc, "filled")
          /\ \A r \in BOOLEAN :
               Due(stack[1].proc, stack[1].about, "filled", r) = {stack[1].about}
      BY <2>1 DEF Claims, AwaitsReplica, Due
    <3>2. QED
      BY <1>1, <1>2, <2>1, <2>2, <2>3, <3>1, HoldCreates, HoldEnough
  <2>4. CASE (\E r \in {"ok", "failed"} : Return(r)) /\ UNCHANGED shadows
    BY <1>3, <2>2, <2>4
  <2>5. QED
    BY <1>1, <1>5, <2>3, <2>4 DEF Resolve
<1>6. CASE Resolved
  <2>1. /\ stack[1].proc = "resolve" /\ stack[1].at = "filled"
        /\ stack[1].about \in Sides /\ stack[1].about \in Roles
        /\ stack[1].about \notin {"orphan", "scratch", "flyway_replica"}
    BY <1>1, <1>6, AtTop, SubjectOfAChild DEF Resolved, Sides, Roles
  <2>2. stack[1].owns = {stack[1].about}
    BY <1>2, <2>1 DEF Due
  <2>3. PICK r \in {"ok", "failed"} : Return(r)
    BY <1>6 DEF Resolved
  <2>4. Dispose(stack[1].about, call.keep)
    BY <1>1, <1>6 DEF Resolved
  <2>5. Accounted({})'
    BY <1>1, <1>2, <2>1, <2>2, <2>3, <2>4, HoldDisposes
  <2>6. QED
    BY <2>5, HoldEnough
<1>7. ASSUME stack[1].proc = "load" PROVE stack[1].owns = {}
  BY <1>2, <1>7 DEF Due
<1>8. /\ CallSite("load", "target", "resolve", "source")
      /\ CallSite("load", "compare", "resolve", "target")
      /\ CallSite("load", "loaded", "canonicalize", "sides")
  BY DEF CallSite, Abouts
<1>9. CASE LoadSource
  BY <1>1, <1>4, <1>8, <1>9, AtTop DEF LoadSource
<1>10. CASE LoadTarget
  <2>1. stack[1].proc = "load" /\ UNCHANGED shadows
    BY <1>10, AtTop DEF LoadTarget
  <2>2. CASE Return(result)
    BY <1>3, <1>7, <2>1, <2>2
  <2>3. CASE Goto("compare")
    <3>1. /\ "compare" \in Places /\ ~AwaitsReplica(stack[1].proc, "compare")
          /\ stack[1].owns =
               Due(stack[1].proc, stack[1].about, "compare", result' = "ok")
      BY <1>7, <2>1 DEF Due, AwaitsReplica, Places
    <3>2. Accounted({})'
      BY <1>1, <1>2, <2>1, <2>3, <3>1, HoldStill, HoldGoes
    <3>3. QED
      BY <3>2, HoldEnough
  <2>4. CASE Invoke("resolve", "target", "compare")
    BY <1>4, <1>8, <2>1, <2>4
  <2>5. QED
    BY <1>10, <2>2, <2>3, <2>4 DEF LoadTarget
<1>11. CASE Compare
  <2>1. stack[1].proc = "load" /\ UNCHANGED shadows
    BY <1>11, AtTop DEF Compare
  <2>2. CASE \E r : Return(r)
    BY <1>3, <1>7, <2>1, <2>2
  <2>3. CASE Invoke("canonicalize", "sides", "loaded")
    BY <1>4, <1>8, <2>1, <2>3
  <2>4. QED
    BY <1>11, <2>2, <2>3 DEF Compare
<1>12. CASE Loaded
  BY <1>3, <1>7, <1>12, AtTop DEF Loaded
<1>13. QED
  BY <1>5, <1>6, <1>9, <1>10, <1>11, <1>12

LEMMA HoldCanonicalize ==
  ASSUME Shape, HoldInv, Canonicalize \/ Canonicalized
  PROVE  HoldInv'
<1>1. stack # <<>> /\ stack[1].proc = "canonicalize" /\ call' = call
  BY AtTop DEF Canonicalize, Canonicalized
<1>2. /\ Accounted({}) /\ stack[1].proc \notin Commands
      /\ stack[1].owns = Due(stack[1].proc, stack[1].about, stack[1].at, result = "ok")
  BY <1>1, HoldBase DEF Commands
<1>3. "scratch" \in Roles /\ "scratched" \in Places
  BY DEF Roles, Places
<1>4. CASE Canonicalize
  <2>1. stack[1].owns = {}
    BY <1>1, <1>2, <1>4, AtTop DEF Canonicalize, Due
  <2>2. CASE Create("scratch", "scratched")
    <3>1. /\ "scratch" \in Claims(stack[1].proc, stack[1].about)
          /\ ~AwaitsReplica(stack[1].proc, "scratched")
          /\ \A r \in BOOLEAN :
               Due(stack[1].proc, stack[1].about, "scratched", r) = {"scratch"}
      BY <1>1, <1>3 DEF Claims, AwaitsReplica, Due
    <3>2. QED
      BY <1>1, <1>2, <1>3, <2>1, <2>2, <3>1, HoldCreates, HoldEnough
  <2>3. CASE Return("ok") /\ UNCHANGED shadows
    BY <1>1, <1>2, <2>1, <2>3, HoldStill, HoldReturns, HoldEnough
  <2>4. QED
    BY <1>4, <2>2, <2>3 DEF Canonicalize
<1>5. CASE Canonicalized
  <2>1. stack[1].owns = {"scratch"}
    BY <1>1, <1>2, <1>3, <1>5, AtTop DEF Canonicalized, Due
  <2>2. PICK r \in {"ok", "failed"} : Return(r)
    BY <1>5 DEF Canonicalized
  <2>3. Dispose("scratch", FALSE)
    BY <1>5 DEF Canonicalized
  <2>4. Accounted({})'
    BY <1>1, <1>2, <1>3, <2>1, <2>2, <2>3, HoldDisposes
  <2>5. QED
    BY <2>4, HoldEnough
<1>6. QED
  BY <1>4, <1>5

LEMMA HoldMaterialize ==
  ASSUME Shape, HoldInv, Materialize \/ Bootstrap \/ Materialized
  PROVE  HoldInv'
<1>1. stack # <<>> /\ Head(stack) = stack[1] /\ stack[1].proc = "materialize" /\ call' = call
  BY AtTop DEF Materialize, Bootstrap, Materialized
<1>2. /\ Accounted({}) /\ stack[1].proc \notin Commands
      /\ stack[1].owns = Due(stack[1].proc, stack[1].about, stack[1].at, result = "ok")
      /\ Len(stack) > 1
  BY <1>1, HoldBase, Chain DEF Commands
<1> DEFINE role == stack[1].about
<1>3. role \in {"source_replica", "flyway_replica"} /\ role \in Roles /\ role \in Abouts
  BY <1>1, SubjectOfAChild DEF Roles, Replicas, Abouts
<1>4. /\ stack[1].at = "start" => stack[1].owns = {}
      /\ stack[1].at \in {"bootstrap", "sane"} => stack[1].owns = {role}
  BY <1>1, <1>2, <1>3 DEF Due
<1>5. ASSUME stack[1].owns = {role}, Dispose(role, FALSE), Return("failed") PROVE HoldInv'
  <2>1. PICK about \in Roles : about = role
    BY <1>3
  <2>2. stack[1].owns = {about} /\ Dispose(about, FALSE) /\ about # "orphan"
    BY <1>3, <1>5, <2>1
  <2>3. /\ stack[1].proc \notin {"checks", "ai"}
        /\ stack[1].proc = "materialize" => "failed" # "ok"
        /\ FALSE => call.keep /\ about \notin {"scratch", "flyway_replica"}
    BY <1>1
  <2>4. Accounted({}) /\ stack # <<>> /\ stack[1].proc \notin Commands /\ call' = call
        /\ Return("failed")
    BY <1>1, <1>2, <1>5
  <2>5. Accounted({})'
    BY <2>2, <2>3, <2>4, HoldDisposes
  <2>6. QED
    BY <2>5, HoldEnough
<1>6. CASE Materialize
  <2>1. stack[1].at = "start" /\ Create(role, "bootstrap") /\ "bootstrap" \in Places
    BY <1>1, <1>6, AtTop DEF Materialize, Places
  <2>2. /\ role \in Claims(stack[1].proc, stack[1].about)
        /\ ~AwaitsReplica(stack[1].proc, "bootstrap")
        /\ \A r \in BOOLEAN : Due(stack[1].proc, stack[1].about, "bootstrap", r) = {role}
    BY <1>1, <1>3 DEF Claims, AwaitsReplica, Due
  <2>3. QED
    BY <1>1, <1>2, <1>3, <1>4, <2>1, <2>2, HoldCreates, HoldEnough
<1>7. CASE Bootstrap
  <2>1. stack[1].at = "bootstrap" /\ stack[1].owns = {role}
    BY <1>4, <1>7, AtTop DEF Bootstrap
  <2>2. CASE /\ \E holds \in {Subject(role), "other"} : Fill(role, holds)
             /\ Invoke("canonicalize", role, "sane")
    <3>1. PICK holds \in {Subject(role), "other"} : Fill(role, holds)
      BY <2>2
    <3>2. holds \in {"nothing", "source", "target", "other", "partial"}
      BY <3>1 DEF Subject
    <3>3. role \in OpenRoles /\ DatabasesOK
      BY <1>1, <1>2, <2>1, HeldAre DEF Accounted, Tight
    <3>4. Settles({}, {})
      BY <1>1, <1>3, <3>1, <3>2, <3>3, Filled
    <3>5. /\ CallSite(stack[1].proc, "sane", "canonicalize", role)
          /\ ~AwaitsReplica(stack[1].proc, "sane")
          /\ stack[1].owns = Due(stack[1].proc, stack[1].about, "sane", FALSE)
      BY <1>1, <1>3, <2>1 DEF CallSite, AwaitsReplica, Due
    <3>6. Accounted({})'
      BY <1>1, <1>2, <2>2, <3>4, <3>5, HoldCalls
    <3>7. QED
      BY <3>6, HoldEnough
  <2>3. QED
    BY <1>1, <1>5, <1>7, <2>1, <2>2 DEF Bootstrap
<1>8. CASE Materialized
  <2>1. stack[1].at = "sane" /\ stack[1].owns = {role}
    BY <1>4, <1>8, AtTop DEF Materialized
  <2>2. CASE ReturnOwned /\ UNCHANGED shadows
    <3>1. Handed /\ result' = "ok"
      BY <1>2, <2>2, HandsOver DEF Shape
    <3>2. Accounted({})'
      BY <1>1, <1>2, <2>1, <2>2, <3>1, HoldStill, HoldHanded
    <3>3. QED
      BY <3>2, HoldEnough
  <2>3. QED
    BY <1>1, <1>5, <1>8, <2>1, <2>2 DEF Materialized
<1>9. QED
  BY <1>6, <1>7, <1>8

LEMMA HoldVerify ==
  ASSUME Shape, HoldInv, VerifyStart \/ VerifyCreate \/ VerifyRun
  PROVE  HoldInv'
<1>1. /\ stack # <<>> /\ stack[1].proc = "verify" /\ call' = call
      /\ stack[1].at \in {"start", "replica", "created"}
  BY AtTop DEF VerifyStart, VerifyCreate, VerifyRun
<1>2. /\ Accounted({}) /\ stack[1].proc \notin Commands
      /\ stack[1].owns = Due(stack[1].proc, stack[1].about, stack[1].at, result = "ok")
  BY <1>1, HoldBase DEF Commands
<1>3. /\ "replica" \in Roles /\ "created" \in Places
      /\ stack[1].at \in {"start", "replica"} => stack[1].owns = {}
      /\ stack[1].at = "created" => stack[1].owns = {"replica"}
  BY <1>1, <1>2 DEF Due, Roles, Replicas, Places
<1>4. ASSUME NEW r, Return(r), UNCHANGED shadows, stack[1].owns = {} PROVE HoldInv'
  BY <1>1, <1>2, <1>4, HoldStill, HoldReturns, HoldEnough
<1>5. CASE VerifyStart
  <2>1. stack[1].at = "start" /\ UNCHANGED shadows
    BY <1>5, AtTop DEF VerifyStart
  <2>2. CASE Invoke("canonicalize", "sides", "replica")
    <3>1. /\ CallSite(stack[1].proc, "replica", "canonicalize", "sides")
          /\ ~AwaitsReplica(stack[1].proc, "replica")
          /\ stack[1].owns = Due(stack[1].proc, stack[1].about, "replica", FALSE)
      BY <1>1, <1>3, <2>1 DEF CallSite, AwaitsReplica, Due, Abouts
    <3>2. Accounted({})'
      BY <1>1, <1>2, <2>1, <2>2, <3>1, HoldStill, HoldCalls
    <3>3. QED
      BY <3>2, HoldEnough
  <2>3. QED
    BY <1>3, <1>4, <1>5, <2>1, <2>2 DEF VerifyStart
<1>6. CASE VerifyCreate
  <2>1. stack[1].at = "replica"
    BY <1>6, AtTop DEF VerifyCreate
  <2>2. CASE Create("replica", "created")
    <3>1. /\ "replica" \in Claims(stack[1].proc, stack[1].about)
          /\ ~AwaitsReplica(stack[1].proc, "created")
          /\ \A r \in BOOLEAN :
               Due(stack[1].proc, stack[1].about, "created", r) = {"replica"}
      BY <1>1, <1>3 DEF Claims, AwaitsReplica, Due
    <3>2. QED
      BY <1>1, <1>2, <1>3, <2>1, <2>2, <3>1, HoldCreates, HoldEnough
  <2>3. QED
    BY <1>3, <1>4, <1>6, <2>1, <2>2 DEF VerifyCreate
<1>7. CASE VerifyRun
  <2>1. stack[1].at = "created"
    BY <1>7, AtTop DEF VerifyRun
  <2>2. CASE Dispose("replica", FALSE) /\ Return("failed")
    <3>1. Accounted({})'
      BY <1>1, <1>2, <1>3, <2>1, <2>2, HoldDisposes
    <3>2. QED
      BY <3>1, HoldEnough
  <2>3. CASE Invoke("rehearse", "replica", "dispose") /\ UNCHANGED shadows
    <3>1. /\ CallSite(stack[1].proc, "dispose", "rehearse", "replica")
          /\ ~AwaitsReplica(stack[1].proc, "dispose")
          /\ stack[1].owns = Due(stack[1].proc, stack[1].about, "dispose", FALSE)
      BY <1>1, <1>3, <2>1 DEF CallSite, AwaitsReplica, Due
    <3>2. Accounted({})'
      BY <1>1, <1>2, <2>3, <3>1, HoldStill, HoldCalls
    <3>3. QED
      BY <3>2, HoldEnough
  <2>4. \/ Dispose("replica", FALSE) /\ Return("failed")
        \/ Invoke("rehearse", "replica", "dispose") /\ UNCHANGED shadows
    BY <1>7 DEF VerifyRun
  <2>5. QED
    BY <2>2, <2>3, <2>4
<1>8. QED
  BY <1>5, <1>6, <1>7

(* The replica of the verification is disposed of even if the rehearsal    *)
(* has left another one behind.                                            *)
LEMMA HoldVerifyEnd ==
  ASSUME Shape, HoldInv, VerifyEnd
  PROVE  HoldInv'
<1>1. /\ stack # <<>> /\ stack[1].proc = "verify" /\ stack[1].at = "dispose"
      /\ call' = call /\ stack[1].proc \notin Commands
      /\ Dispose("replica", call.keep) /\ Return(result)
  BY AtTop DEF VerifyEnd, Commands
<1>2. PICK strays : strays = Strays
  OBVIOUS
<1>3. Accounted(strays)
  BY <1>2 DEF HoldInv
<1>4. stack[1].owns = {"replica"} /\ "replica" \in Roles
  BY <1>1, <1>3, HeldAre DEF Accounted, FrameOK, Due, Roles, Replicas
<1>5. Accounted(strays)'
  <2>1. PICK r : r = result
    OBVIOUS
  <2>2. PICK keep : keep = call.keep
    OBVIOUS
  <2>3. Return(r) /\ Dispose("replica", keep)
    BY <1>1, <2>1, <2>2
  <2>4. QED
    BY <1>1, <1>3, <1>4, <2>2, <2>3, HoldDisposes
<1>6. stack'[1].proc = "cmd_verify" /\ stack'[1].at = "verified" /\ result' = result
  <2>1. Inside /\ Leaving /\ result' = result
    BY <1>1, ReturnProceeds DEF Inside, Shape
  <2>2. QED
    BY <1>1, <2>1, ReturnsTo DEF CallSite, Commands
<1>7. strays \subseteq Strays'
  BY <1>1, <1>2, <1>6 DEF Strays
<1>8. QED
  BY <1>5, <1>7 DEF HoldInv, Accounted, Tight

(* The rehearsal writes to the replica of its caller. *)
LEMMA ReplicaIsOpen ==
  ASSUME Shape, NEW strays, Accounted(strays), stack # <<>>, stack[1].proc = "rehearse"
  PROVE  "replica" \in OpenRoles
<1>1. Len(stack) = 3 /\ Len(stack) > 1
  BY RehearsalIsVerify
<1>2. /\ Len(stack) = 3 /\ CallSite(stack[2].proc, stack[2].at, "rehearse", stack[1].about)
      /\ stack[2] = Up(Len(stack) - 2)
  BY <1>1, Chain DEF CallsNow
<1>3. Len(stack) - 2 = 1 /\ 1 \in 0..(Len(stack) - 2)
  BY <1>2
<1>4. FrameOK(Up(1), FALSE) /\ Up(1) = stack[2]
  BY <1>2, <1>3, FramesBelow DEF Accounted
<1>5. "replica" \in Up(1).owns /\ "replica" \in Roles
  BY <1>2, <1>4 DEF FrameOK, Due, CallSite, Roles, Replicas, Commands
<1>6. 1 \in 0..(Len(stack) - 1)
  BY <1>2
<1>7. "replica" \in HeldRoles
  BY <1>5, <1>6 DEF HeldRoles
<1>8. QED
  BY <1>7 DEF Accounted, Tight

LEMMA HoldRehearse ==
  ASSUME Shape, HoldInv,
         \/ RehearseBootstrap \/ RehearseMigrate \/ Rediff \/ Comparable
         \/ FlywayReplica \/ FlywayStart \/ FlywayExits
         \/ ExternalStart \/ ExternalExits \/ RehearseEnd
  PROVE  HoldInv'
<1>1. stack # <<>> /\ stack[1].proc = "rehearse" /\ call' = call
  BY AtTop DEF RehearseBootstrap, RehearseMigrate, Rediff, Comparable, FlywayReplica,
     FlywayStart, FlywayExits, ExternalStart, ExternalExits, RehearseEnd
<1>2. /\ Accounted({}) /\ stack[1].proc \notin Commands
      /\ stack[1].owns = Due(stack[1].proc, stack[1].about, stack[1].at, result = "ok")
      /\ AwaitsReplica(stack[1].proc, stack[1].at) => call.sides["source"] # "url"
  BY <1>1, HoldBase DEF Commands
<1>3. PICK held : held = IF call.sides["source"] = "url" THEN {} ELSE {"source_replica"}
  OBVIOUS
<1>4. PICK subject : subject = stack[1].about
  OBVIOUS
<1>5. PICK now \in BOOLEAN : now = (result = "ok")
  OBVIOUS
<1>6. PICK then \in BOOLEAN : then = (result' = "ok")
  OBVIOUS
<1> DEFINE D(at, r) == Due("rehearse", subject, at, r)
<1>7. {"source_replica", "flyway_replica"} \subseteq Roles
  BY DEF Roles, Replicas
<1>8. /\ \A r \in BOOLEAN : D("start", r) = {} /\ D("sane", r) = {} /\ D("rediff", r) = {}
      /\ \A r \in BOOLEAN, at \in {"checked", "external", "outside", "finish"} :
           D(at, r) = held
      /\ D("comparable", FALSE) = {} /\ D("comparable", TRUE) = held
      /\ D("flyable", FALSE) = held /\ D("flyable", TRUE) = held \cup {"flyway_replica"}
      /\ \A r \in BOOLEAN : D("flying", r) = held \cup {"flyway_replica"}
  <2>1. \A r \in BOOLEAN : D("start", r) = {} /\ D("sane", r) = {} /\ D("rediff", r) = {}
    BY DEF Due
  <2>2. \A r \in BOOLEAN, at \in {"checked", "external", "outside", "finish"} :
          D(at, r) = held
    BY <1>3, <1>7 DEF Due
  <2>3. D("comparable", FALSE) = {} /\ D("comparable", TRUE) = held
    BY <1>3, <1>7 DEF Due
  <2>4. D("flyable", FALSE) = held /\ D("flyable", TRUE) = held \cup {"flyway_replica"}
    BY <1>3, <1>7 DEF Due
  <2>5. \A r \in BOOLEAN : D("flying", r) = held \cup {"flyway_replica"}
    BY <1>3, <1>7 DEF Due
  <2>6. QED
    BY <2>1, <2>2, <2>3, <2>4, <2>5
<1>9. stack[1].owns = D(stack[1].at, now)
  BY <1>1, <1>2, <1>4, <1>5
<1> HIDE DEF D
<1>10. ASSUME NEW r, Return(r), Settles({}, {}), stack[1].owns = {} PROVE HoldInv'
  <2>1. Accounted({})'
    BY <1>1, <1>2, <1>10, HoldReturns
  <2>2. QED
    BY <2>1, HoldEnough
<1>11. ASSUME NEW proc, NEW about, NEW place, Invoke(proc, about, place),
             CallSite("rehearse", place, proc, about), Settles({}, {}),
             stack[1].owns = D(place, FALSE),
             place = "comparable" => call.sides["source"] # "url", place # "compare"
      PROVE  HoldInv'
  <2>1. /\ stack[1].owns = Due(stack[1].proc, stack[1].about, place, FALSE)
        /\ AwaitsReplica(stack[1].proc, place) => call.sides["source"] # "url"
    BY <1>1, <1>11, <1>4 DEF D, AwaitsReplica
  <2>2. Accounted({})'
    BY <1>1, <1>2, <1>11, <2>1, HoldCalls
  <2>3. QED
    BY <2>2, HoldEnough
<1>12. ASSUME NEW place \in {"external", "flying", "outside", "finish"}, Goto(place),
             UNCHANGED shadows, result' = result, stack[1].owns = D(place, then)
      PROVE  HoldInv'
  <2>1. place \in Places /\ ~AwaitsReplica(stack[1].proc, place)
    BY DEF Places, AwaitsReplica
  <2>2. stack[1].owns = Due(stack[1].proc, stack[1].about, place, result' = "ok")
    BY <1>1, <1>12, <1>4, <1>6 DEF D
  <2>3. Accounted({})'
    BY <1>1, <1>2, <1>12, <2>1, <2>2, HoldStill, HoldGoes
  <2>4. QED
    BY <2>3, HoldEnough
<1>13. /\ CallSite("rehearse", "sane", "canonicalize", "replica")
      /\ CallSite("rehearse", "rediff", "canonicalize", "replica")
      /\ CallSite("rehearse", "checked", "checks", "replica")
      /\ CallSite("rehearse", "comparable", "materialize", "source_replica")
      /\ CallSite("rehearse", "flyable", "materialize", "flyway_replica")
  BY DEF CallSite, Abouts, Roles, Replicas
<1>14. ASSUME NEW holds \in {"source", "target", "other", "partial"}, Fill("replica", holds)
       PROVE  Settles({}, {})
  <2>1. "replica" \in OpenRoles /\ DatabasesOK
    BY <1>1, <1>2, ReplicaIsOpen DEF Accounted
  <2>2. QED
    BY <1>1, <1>14, <2>1, Filled
<1>15. UNCHANGED shadows => Settles({}, {})
  BY <1>1, HoldStill
<1>16. CASE RehearseBootstrap
  <2>1. stack[1].at = "start"
    BY <1>16, AtTop DEF RehearseBootstrap
  <2>2. stack[1].owns = {} /\ D("sane", FALSE) = {}
    BY <1>8, <1>9, <2>1
  <2>3. QED
    BY <1>10, <1>11, <1>13, <1>14, <1>15, <1>16, <2>2 DEF RehearseBootstrap
<1>17. CASE RehearseMigrate
  <2>1. stack[1].at = "sane"
    BY <1>17, AtTop DEF RehearseMigrate
  <2>2. stack[1].owns = {} /\ D("rediff", FALSE) = {}
    BY <1>8, <1>9, <2>1
  <2>3. QED
    BY <1>10, <1>11, <1>13, <1>14, <1>15, <1>17, <2>2 DEF RehearseMigrate
<1>18. CASE Rediff
  <2>1. stack[1].at = "rediff" /\ stack[1].owns = {} /\ Settles({}, {})
    BY <1>8, <1>9, <1>15, <1>18, AtTop DEF Rediff
  <2>2. CASE \E r : Return(r)
    BY <1>10, <2>1, <2>2
  <2>3. CASE call.sides["source"] = "url" /\ Invoke("checks", "replica", "checked")
    <3>1. stack[1].owns = D("checked", FALSE)
      BY <1>3, <1>8, <2>1, <2>3
    <3>2. QED
      BY <1>11, <1>13, <2>1, <2>3, <3>1
  <2>4. CASE /\ call.sides["source"] # "url"
             /\ Invoke("materialize", "source_replica", "comparable")
    BY <1>8, <1>11, <1>13, <2>1, <2>4
  <2>5. QED
    BY <1>18, <2>2, <2>3, <2>4 DEF Rediff
<1>19. CASE Comparable
  <2>1. stack[1].at = "comparable" /\ Settles({}, {})
    BY <1>15, <1>19, AtTop DEF Comparable
  <2>2. CASE result = "ok" /\ Invoke("checks", "replica", "checked")
    <3>1. now = TRUE
      BY <2>2, <1>5
    <3>2. stack[1].owns = D("checked", FALSE)
      BY <1>8, <1>9, <2>1, <3>1
    <3>3. QED
      BY <1>11, <1>13, <2>1, <2>2, <3>2
  <2>3. CASE result # "ok" /\ Return("ok")
    <3>1. now = FALSE
      BY <2>3, <1>5
    <3>2. stack[1].owns = {}
      BY <1>8, <1>9, <2>1, <3>1
    <3>3. QED
      BY <1>10, <2>1, <2>3, <3>2
  <2>4. QED
    BY <1>19, <2>2, <2>3 DEF Comparable
<1>20. CASE FlywayReplica
  <2>1. /\ stack[1].at = "checked" /\ Settles({}, {}) /\ UNCHANGED shadows
        /\ stack[1].owns = held
    BY <1>8, <1>9, <1>15, <1>20, AtTop DEF FlywayReplica
  <2>2. CASE Invoke("materialize", "flyway_replica", "flyable")
    BY <1>8, <1>11, <1>13, <2>1, <2>2
  <2>3. CASE Goto("external") /\ result' = result
    BY <1>8, <1>12, <2>1, <2>3
  <2>4. QED
    BY <1>20, <2>2, <2>3 DEF FlywayReplica
<1>21. ASSUME stack[1].owns = held \cup {"flyway_replica"}, result' = result,
              Dispose("flyway_replica", FALSE), Disown("flyway_replica", "external")
       PROVE  HoldInv'
  <2>1. /\ "flyway_replica" \in Roles /\ "external" \in Places
        /\ ~AwaitsReplica(stack[1].proc, "external")
        /\ stack[1].proc # "cmd_apply"
    BY <1>1 DEF Roles, Replicas, Places, AwaitsReplica
  <2>2. stack[1].owns \ {"flyway_replica"} =
          Due(stack[1].proc, stack[1].about, "external", result' = "ok")
    <3>1. D("external", then) = held /\ "flyway_replica" \notin held
      BY <1>3, <1>8
    <3>2. QED
      BY <1>1, <1>21, <1>4, <1>6, <3>1 DEF D
  <2>3. Accounted({})'
    BY <1>1, <1>2, <1>21, <2>1, <2>2, HoldDisowns
  <2>4. QED
    BY <2>3, HoldEnough
<1>22. CASE FlywayStart
  <2>1. stack[1].at = "flyable" /\ result' = result
    BY <1>22, AtTop DEF FlywayStart
  <2>2. CASE result # "ok" /\ Goto("external") /\ UNCHANGED shadows
    <3>1. now = FALSE
      BY <2>2, <1>5
    <3>2. stack[1].owns = held
      BY <1>8, <1>9, <2>1, <3>1
    <3>3. QED
      BY <1>8, <1>12, <2>1, <2>2, <3>2
  <2>3. ASSUME result = "ok" PROVE stack[1].owns = held \cup {"flyway_replica"}
    <3>1. now = TRUE
      BY <2>3, <1>5
    <3>2. QED
      BY <1>8, <1>9, <2>1, <3>1
  <2>4. CASE /\ result = "ok" /\ Dispose("flyway_replica", FALSE)
             /\ Disown("flyway_replica", "external")
    BY <1>21, <2>1, <2>3, <2>4
  <2>5. CASE result = "ok" /\ Goto("flying") /\ UNCHANGED shadows
    BY <1>8, <1>12, <2>1, <2>3, <2>5
  <2>6. QED
    BY <1>22, <2>2, <2>4, <2>5 DEF FlywayStart
<1>23. CASE FlywayExits
  <2>1. /\ stack[1].at = "flying" /\ result' = result
        /\ stack[1].owns = held \cup {"flyway_replica"}
    BY <1>8, <1>9, <1>23, AtTop DEF FlywayExits
  <2>2. QED
    BY <1>21, <1>23, <2>1 DEF FlywayExits
<1>24. CASE ExternalStart
  <2>1. stack[1].at = "external" /\ UNCHANGED shadows /\ stack[1].owns = held
    BY <1>8, <1>9, <1>24, AtTop DEF ExternalStart
  <2>2. CASE (Goto("finish") \/ Goto("outside")) /\ result' = result
    BY <1>8, <1>12, <2>1, <2>2
  <2>3. CASE Return("external")
    <3>1. /\ call.command = "cmd_verify" /\ Len(stack) > 1 /\ Inside /\ Leaving
          /\ Popped /\ result' = "external"
      BY <1>1, <1>2, <2>3, RehearsalIsVerify, Chain, ReturnProceeds, Returns
         DEF Inside, Results, Shape
    <3>2. Accounted({} \cup held)'
      <4>1. held = stack[1].owns \ {}
        BY <2>1
      <4>2. {} \subseteq stack[1].owns /\ Settles({}, {})
        BY <1>15, <2>1
      <4>3. QED
        BY <1>1, <1>2, <3>1, <4>1, <4>2, HoldPopped
    <3>3. stack'[1].proc = "verify" /\ stack'[1].at = "dispose"
      BY <1>1, <3>1, ReturnsTo DEF CallSite, Commands
    <3>4. held \subseteq Strays'
      BY <1>1, <1>3, <3>1, <3>3 DEF Strays
    <3>5. QED
      BY <3>2, <3>4 DEF HoldInv, Accounted, Tight
  <2>4. QED
    BY <1>24, <2>2, <2>3 DEF ExternalStart
<1>25. CASE ExternalExits
  <2>1. stack[1].at = "outside" /\ stack[1].owns = held
    BY <1>8, <1>9, <1>25, AtTop DEF ExternalExits
  <2>2. QED
    BY <1>8, <1>12, <1>25, <2>1 DEF ExternalExits
<1>26. CASE RehearseEnd
  <2>1. /\ Head(stack) = stack[1] /\ stack[1].at = "finish" /\ stack[1].owns = held
        /\ Return("ok")
    BY <1>8, <1>9, <1>26, AtTop DEF RehearseEnd
  <2>2. CASE held = {}
    BY <1>10, <1>15, <1>26, <2>1, <2>2 DEF RehearseEnd
  <2>3. CASE held # {}
    <3>1. stack[1].owns = {"source_replica"} /\ "source_replica" \in Roles
      BY <1>3, <2>1, <2>3 DEF Roles, Replicas
    <3>2. PICK keep : keep = call.keep
      OBVIOUS
    <3>3. Dispose("source_replica", keep)
      BY <1>26, <2>1, <2>3, <3>2 DEF RehearseEnd
    <3>4. Accounted({})'
      BY <1>1, <1>2, <2>1, <3>1, <3>2, <3>3, HoldDisposes
    <3>5. QED
      BY <3>4, HoldEnough
  <2>4. QED
    BY <2>2, <2>3
<1>27. QED
  BY <1>16, <1>17, <1>18, <1>19, <1>20, <1>22, <1>23, <1>24, <1>25, <1>26

(* What the accounts are made of. *)
LEMMA HoldUnchanged ==
  ASSUME HoldInv, UNCHANGED <<call, stack, result, shadows>>
  PROVE  HoldInv'
<1>1. Strays' = Strays /\ HeldRoles' = HeldRoles /\ OpenRoles' = OpenRoles
  BY DEF Strays, HeldRoles, OpenRoles, Up
<1>2. DatabasesOK' /\ Returned'
  BY DEF HoldInv, Accounted, DatabasesOK, Returned
<1>3. Owners'
  <2> SUFFICES ASSUME NEW k \in 0..(Len(stack) - 1) PROVE FrameOK(Up(k), Received(k))'
    BY DEF Owners
  <2>1. PICK f : f = Up(k)
    OBVIOUS
  <2>2. PICK r \in BOOLEAN : r = Received(k)
    BY DEF Received
  <2>3. FrameOK(Up(k), Received(k)) /\ Up(k)' = Up(k) /\ Received(k)' = Received(k)
    BY DEF HoldInv, Accounted, Owners, Up, Received
  <2>4. FrameOK(f, r) /\ Up(k)' = f /\ Received(k)' = r
    BY <2>1, <2>2, <2>3
  <2>5. QED
    BY <2>4, FrameThen
<1>4. QED
  BY <1>1, <1>2, <1>3 DEF HoldInv, Accounted, Tight

(* The checks and the reviewer own nothing. *)
LEMMA HoldTools ==
  ASSUME Shape, HoldInv,
         StartTool \/ ToolExits \/ Ask \/ CallProvider \/ ReviewerExits
  PROVE  HoldInv'
<1>1. /\ stack # <<>> /\ stack[1].proc \in {"checks", "ai"}
      /\ call' = call /\ UNCHANGED shadows
  BY AtTop DEF StartTool, ToolExits, Ask, CallProvider, ReviewerExits, found
<1>2. /\ Accounted({}) /\ stack[1].proc \notin Commands
      /\ stack[1].owns = Due(stack[1].proc, stack[1].about, stack[1].at, result = "ok")
  BY <1>1, HoldBase DEF Commands
<1>3. /\ \A place, r : Due(stack[1].proc, stack[1].about, place, r) = {}
      /\ \A place : ~AwaitsReplica(stack[1].proc, place)
  BY <1>1 DEF Due, AwaitsReplica
<1>4. stack[1].owns = {} /\ Settles({}, {})
  BY <1>1, <1>2, <1>3, HoldStill
<1>5. ASSUME NEW r, Return(r), r = "ok" \/ (r = "ai" /\ stack[1].proc = "ai")
      PROVE  HoldInv'
  <2>1. Accounted({})'
    BY <1>1, <1>2, <1>4, <1>5, HoldReturns
  <2>2. QED
    BY <2>1, HoldEnough
<1>6. ASSUME NEW place \in Places, Goto(place) PROVE HoldInv'
  <2>1. stack[1].owns = Due(stack[1].proc, stack[1].about, place, result' = "ok")
    BY <1>3, <1>4
  <2>2. Accounted({})'
    BY <1>1, <1>2, <1>3, <1>4, <1>6, <2>1, HoldGoes
  <2>3. QED
    BY <2>2, HoldEnough
<1>7. ASSUME Moved(stack[1].at, stack[1].owns) PROVE HoldInv'
  <2>1. PICK at : at = stack[1].at
    OBVIOUS
  <2>2. {} = Due(stack[1].proc, stack[1].about, at, result' = "ok")
    BY <1>3
  <2>3. Moved(at, {}) /\ {} = (stack[1].owns \ {}) \cup {}
    BY <1>4, <1>7, <2>1
  <2>4. Accounted({})'
    BY <1>1, <1>2, <1>3, <1>4, <2>2, <2>3, HoldMoved
  <2>5. QED
    BY <2>4, HoldEnough
<1>8. {"start", "waits", "calling"} \subseteq Places
  BY DEF Places
<1>9. CASE StartTool
  <2>1. CASE Return("ok")
    BY <1>5, <2>1
  <2>2. CASE Goto("waits")
    BY <1>6, <1>8, <2>2
  <2>3. CASE UNCHANGED <<stack, result>>
    <3>1. UNCHANGED <<call, stack, result, shadows>>
      BY <1>1, <2>3
    <3>2. QED
      BY <3>1, HoldUnchanged
  <2>4. QED
    BY <1>9, <2>1, <2>2, <2>3 DEF StartTool
<1>10. CASE ToolExits
  BY <1>6, <1>8, <1>10 DEF ToolExits
<1>11. CASE Ask
  <2>1. stack[1].proc = "ai"
    BY <1>11, AtTop DEF Ask
  <2>2. QED
    BY <1>5, <1>6, <1>8, <1>11, <2>1 DEF Ask
<1>12. CASE CallProvider
  <2>1. stack[1].proc = "ai"
    BY <1>12, AtTop DEF CallProvider
  <2>2. CASE stack' = [stack EXCEPT ![1].tries = @ + 1]
    BY <1>1, <1>7, <2>2, Retries DEF Shape
  <2>3. QED
    BY <1>5, <1>12, <2>1, <2>2 DEF CallProvider, Answered
<1>13. CASE ReviewerExits
  BY <1>5, <1>13 DEF ReviewerExits, Answered
<1>14. QED
  BY <1>9, <1>10, <1>11, <1>12, <1>13

-----------------------------------------------------------------------------
(* The commands: they own a source replica at most. *)

LEMMA CommandBase ==
  ASSUME Shape, HoldInv, NEW c \in Commands, NEW place, Reached(c, place)
  PROVE  /\ Accounted({}) /\ stack # <<>> /\ Len(stack) = 1 /\ result = "ok"
         /\ stack[1].proc = c /\ stack[1].at = place /\ call.command = c
         /\ Head(stack) = stack[1]
         /\ stack[1].owns = Due(c, stack[1].about, place, TRUE)
         /\ AwaitsReplica(c, place) => call.sides["source"] # "url"
<1>1. /\ stack # <<>> /\ Len(stack) = 1 /\ stack[1].proc = c /\ stack[1].at = place
      /\ call.command = c /\ Head(stack) = stack[1]
  BY AtTop, AtCommand DEF Reached
<1>2. result = "ok" /\ Strays = {}
  BY DEF Reached, Strays
<1>3. Accounted({})
  BY <1>2 DEF HoldInv
<1>4. FrameOK(stack[1], result = "ok")
  BY <1>1, <1>3, HeldAre DEF Accounted
<1>5. PICK b \in BOOLEAN : b = (result = "ok")
  OBVIOUS
<1>6. b = TRUE /\ FrameOK(stack[1], b)
  BY <1>2, <1>4, <1>5
<1>7. QED
  BY <1>1, <1>2, <1>3, <1>6 DEF FrameOK

LEMMA HoldDecides ==
  ASSUME Shape, HoldInv, NEW c \in Commands, NEW place, Reached(c, place),
         \A about : Due(c, about, place, TRUE) = {}, NEW code, Decide(code)
  PROVE  HoldInv'
<1>1. Accounted({}) /\ Len(stack) = 1 /\ stack[1].owns = {}
  BY CommandBase
<1>2. Exit(code) /\ UNCHANGED <<call, shadows>>
  BY DEF Decide
<1>3. Accounted({} \cup {})'
  BY <1>1, <1>2, HoldExit
<1>4. QED
  BY <1>3, HoldEnough

LEMMA HoldAsks ==
  ASSUME Shape, HoldInv, NEW c \in Commands, NEW place, Reached(c, place),
         UNCHANGED <<call, shadows>>, NEW proc, NEW about, NEW next,
         Invoke(proc, about, next), CallSite(c, next, proc, about),
         \A subject : Due(c, subject, place, TRUE) = Due(c, subject, next, FALSE),
         AwaitsReplica(c, next) => call.sides["source"] # "url"
  PROVE  HoldInv'
<1>1. /\ Accounted({}) /\ stack # <<>> /\ stack[1].proc = c
      /\ stack[1].owns = Due(c, stack[1].about, place, TRUE)
  BY CommandBase
<1>2. stack[1].owns = Due(stack[1].proc, stack[1].about, next, FALSE)
  BY <1>1
<1>3. Settles({}, {})
  BY HoldStill
<1>4. Accounted({})'
  BY <1>1, <1>2, <1>3, HoldCalls
<1>5. QED
  BY <1>4, HoldEnough

LEMMA HoldOn ==
  ASSUME Shape, HoldInv, NEW c \in Commands, NEW place, Reached(c, place),
         UNCHANGED <<call, result, shadows>>, NEW next \in Places \ {"comparable", "compare"},
         Goto(next),
         \A subject : Due(c, subject, place, TRUE) = Due(c, subject, next, TRUE)
  PROVE  HoldInv'
<1>1. /\ Accounted({}) /\ stack # <<>> /\ stack[1].proc = c /\ result = "ok"
      /\ stack[1].owns = Due(c, stack[1].about, place, TRUE)
  BY CommandBase
<1>2. stack[1].owns = Due(stack[1].proc, stack[1].about, next, TRUE)
  BY <1>1
<1>3. PICK b \in BOOLEAN : b = (result' = "ok")
  OBVIOUS
<1>4. b = TRUE
  BY <1>1, <1>3
<1>5. stack[1].owns = Due(stack[1].proc, stack[1].about, next, result' = "ok")
  BY <1>2, <1>3, <1>4
<1>6. Settles({}, {}) /\ ~AwaitsReplica(stack[1].proc, next) /\ call' = call /\ result' = "ok"
  BY <1>1, HoldStill DEF AwaitsReplica
<1>7. Accounted({})'
  BY <1>1, <1>5, <1>6, HoldGoes
<1>8. QED
  BY <1>7, HoldEnough

(* An error of the scan of `apply` is where a source replica is forgotten; *)
(* what `verify` forgot it has forgotten before.                           *)
LEMMA HoldFail ==
  ASSUME Shape, HoldInv, Fail
  PROVE  HoldInv'
<1>1. /\ Len(stack) = 1 /\ stack # <<>> /\ result \notin {"none", "ok"}
      /\ Exit("error") /\ UNCHANGED <<call, result, shadows>> /\ stack' = <<>>
  <2>1. Len(stack) = 1 /\ Len(stack) > 0
    BY DEF Fail
  <2>2. QED
    BY <2>1, NonEmpty DEF Fail, Exit
<1>2. stack[1] = Up(0) /\ stack[1].proc = call.command /\ stack[1].proc \in Commands
  <2>1. stack[1] = Up(0) /\ 0 \in 0..(Len(stack) - 1)
    BY <1>1, Chain
  <2>2. QED
    BY <1>1, <2>1, Chain DEF Shape
<1>3. PICK strays : strays = Strays
  OBVIOUS
<1>4. Accounted(strays)
  BY <1>3 DEF HoldInv
<1>5. PICK left : left = stack[1].owns
  OBVIOUS
<1>6. Accounted(strays \cup left)'
  BY <1>1, <1>4, <1>5, HoldExit
<1>7. strays \subseteq Strays'
  BY <1>1, <1>3 DEF Strays
<1>8. PICK b \in BOOLEAN : b = (result = "ok")
  OBVIOUS
<1>9. b = FALSE /\ FrameOK(stack[1], b)
  BY <1>1, <1>4, <1>8, HeldAre DEF Accounted
<1>10. left = Due(stack[1].proc, stack[1].about, stack[1].at, FALSE)
  BY <1>5, <1>9 DEF FrameOK
<1>11. left \subseteq Strays'
  <2>1. CASE stack[1].proc # "cmd_apply"
    BY <1>2, <1>10, <2>1 DEF Due, Commands
  <2>2. CASE stack[1].proc = "cmd_apply" /\ stack[1].at = "scanned"
    <3>1. result \in {"ok", "ai"}
      BY <1>1, <1>4, <2>2 DEF Accounted, Returned
    <3>2. left \subseteq {"source_replica"}
      BY <1>10, <2>2 DEF Due
    <3>3. QED
      BY <1>1, <1>2, <2>2, <3>1, <3>2 DEF Strays
  <2>3. CASE stack[1].proc = "cmd_apply" /\ stack[1].at # "scanned"
    <3>1. stack[1].at # "checked"
      BY <1>1, <1>4, <2>3 DEF Accounted, Returned
    <3>2. QED
      BY <1>10, <2>3, <3>1 DEF Due
  <2>4. QED
    BY <2>1, <2>2, <2>3
<1>12. QED
  BY <1>6, <1>7, <1>11 DEF HoldInv, Accounted, Tight

LEMMA HoldCommand == ASSUME Shape, HoldInv, CommandStep PROVE HoldInv'
<1>1. /\ "cmd_apply" \in Commands /\ "cmd_verify" \in Commands
      /\ "cmd_diff" \in Commands /\ "cmd_review" \in Commands
  BY DEF Commands
<1>2. \A c \in Commands \ {"cmd_apply"} :
        \A about, place : Due(c, about, place, FALSE) = {} /\ Due(c, about, place, TRUE) = {}
  BY DEF Commands, Due
<1>3. \A place \in {"start", "loaded", "reviewed", "asked", "confirmed", "refreshed",
                    "execute", "residual", "release"} :
        \A about : /\ Due("cmd_apply", about, place, FALSE) = {}
                   /\ Due("cmd_apply", about, place, TRUE) = {}
  BY DEF Due
<1>4. PICK held : held = IF call.sides["source"] = "url" THEN {} ELSE {"source_replica"}
  OBVIOUS
<1>5. "source_replica" \in Roles
  BY DEF Roles, Replicas
<1>6. \A about : /\ Due("cmd_apply", about, "compare", FALSE) = {}
                 /\ Due("cmd_apply", about, "compare", TRUE) = held
  BY <1>4, <1>5 DEF Due
<1>7. \A place \in {"checked", "scanned"} :
        \A about : /\ Due("cmd_apply", about, place, FALSE) = held
                   /\ Due("cmd_apply", about, place, TRUE) = held
  BY <1>4, <1>5 DEF Due
<1>8. \A c \in Commands : CallSite(c, "loaded", "load", "sides")
  BY DEF CallSite, Commands
<1>9. \A c \in Commands : CallSite(c, "reviewed", "ai", "review")
  BY DEF CallSite, Commands
<1>10. \A c \in {"cmd_verify", "cmd_apply"} : CallSite(c, "scanned", "ai", "scan")
  BY DEF CallSite, Commands
<1>11. /\ CallSite("cmd_verify", "verified", "verify", "sides")
       /\ CallSite("cmd_apply", "refreshed", "load", "sides")
       /\ CallSite("cmd_apply", "residual", "canonicalize", "target")
       /\ CallSite("cmd_apply", "checked", "checks", "target")
       /\ CallSite("cmd_apply", "compare", "materialize", "source_replica")
  BY DEF CallSite, Commands, Abouts, Roles, Sides, Replicas
<1>12. \A c : \A place \in {"loaded", "reviewed", "scanned", "verified", "refreshed",
                            "residual", "checked"} : ~AwaitsReplica(c, place)
  BY DEF AwaitsReplica
<1>13. {"scanned", "reviewed", "asked", "confirmed", "execute", "residual", "release"}
         \subseteq Places \ {"comparable", "compare"}
  BY DEF Places
<1>14. ASSUME NEW c \in Commands, NEW place, Reached(c, place), UNCHANGED <<call, shadows>>,
              NEW about, NEW next, AskReviewer(about, next), CallSite(c, next, "ai", about),
              \A subject : Due(c, subject, place, TRUE) = Due(c, subject, next, FALSE),
              ~AwaitsReplica(c, next)
       PROVE  HoldInv'
  <2>1. Invoke("ai", about, next)
    BY <1>14 DEF AskReviewer
  <2>2. QED
    BY <1>14, <2>1, HoldAsks
<1>15. CASE Start
  <2>1. PICK c \in Commands : At(c, "start")
    BY <1>15 DEF Start
  <2>2. /\ stack # <<>> /\ Len(stack) = 1 /\ stack[1].proc = c /\ stack[1].at = "start"
        /\ UNCHANGED <<call, shadows>>
    BY <1>15, <2>1, AtTop, AtCommand DEF Start
  <2>3. Accounted({}) /\ FrameOK(stack[1], result = "ok")
    BY <2>2, HoldBase, HeldAre DEF Commands, Accounted
  <2>4. \A about, r : Due(c, about, "start", r) = {}
    BY DEF Due, Commands
  <2>5. stack[1].owns = {}
    BY <2>2, <2>3, <2>4 DEF FrameOK
  <2>6. CASE Exit("error")
    <3>1. Accounted({} \cup {})'
      BY <2>2, <2>3, <2>5, <2>6, HoldExit
    <3>2. QED
      BY <3>1, HoldEnough
  <2>7. CASE Invoke("load", "sides", "loaded")
    <3>1. Due(c, stack[1].about, "loaded", FALSE) = {}
      BY <1>2, <1>3
    <3>2. /\ stack[1].owns = Due(stack[1].proc, stack[1].about, "loaded", FALSE)
          /\ CallSite(stack[1].proc, "loaded", "load", "sides")
          /\ ~AwaitsReplica(stack[1].proc, "loaded") /\ Settles({}, {}) /\ call' = call
      BY <1>8, <1>12, <2>2, <2>5, <3>1, HoldStill
    <3>3. Accounted({})'
      BY <2>2, <2>3, <2>7, <3>2, HoldCalls
    <3>4. QED
      BY <3>3, HoldEnough
  <2>8. QED
    BY <1>15, <2>6, <2>7 DEF Start
<1>16. CASE Fail
  BY <1>16, HoldFail
<1>17. CASE Rendered
  <2>1. PICK c \in {"cmd_diff", "cmd_review"} :
          /\ Reached(c, "loaded")
          /\ \/ \E code : Decide(code)
             \/ AskReviewer("review", "reviewed")
    BY <1>17 DEF Rendered
  <2>2. /\ c \in Commands /\ CallSite(c, "reviewed", "ai", "review")
        /\ \A about : /\ Due(c, about, "loaded", TRUE) = {}
                      /\ Due(c, about, "reviewed", FALSE) = {}
        /\ ~AwaitsReplica(c, "reviewed")
    BY <1>1, <1>2, <1>9, <1>12
  <2>3. QED
    BY <1>14, <2>1, <2>2, HoldDecides DEF AskReviewer
<1>18. CASE Reviewed
  <2>1. PICK c \in {"cmd_diff", "cmd_review"} :
          Reached(c, "reviewed") /\ \E code : Decide(code)
    BY <1>18 DEF Reviewed
  <2>2. c \in Commands /\ \A about : Due(c, about, "reviewed", TRUE) = {}
    BY <1>1, <1>2
  <2>3. QED
    BY <2>1, <2>2, HoldDecides
<1>19. CASE Verify
  <2>1. Reached("cmd_verify", "loaded")
    BY <1>19 DEF Verify
  <2>2. \A about : /\ Due("cmd_verify", about, "loaded", TRUE) = {}
                   /\ Due("cmd_verify", about, "verified", FALSE) = {}
    BY <1>1, <1>2
  <2>3. QED
    BY <1>1, <1>11, <1>12, <1>19, <2>1, <2>2, HoldDecides, HoldAsks DEF Verify
<1>20. CASE Verified
  <2>1. Reached("cmd_verify", "verified")
    BY <1>20 DEF Verified
  <2>2. \A about : /\ Due("cmd_verify", about, "verified", TRUE) = {}
                   /\ Due("cmd_verify", about, "scanned", TRUE) = {}
                   /\ Due("cmd_verify", about, "scanned", FALSE) = {}
    BY <1>1, <1>2
  <2>3. CASE Decide("error")
    BY <1>1, <2>1, <2>2, <2>3, HoldDecides
  <2>4. CASE AskReviewer("scan", "scanned")
    BY <1>1, <1>10, <1>12, <1>14, <2>1, <2>2, <2>4 DEF AskReviewer
  <2>5. CASE Goto("scanned") /\ UNCHANGED <<call, result, shadows>>
    BY <1>1, <1>13, <2>1, <2>2, <2>5, HoldOn
  <2>6. QED
    BY <1>20, <2>3, <2>4, <2>5 DEF Verified
<1>21. CASE VerifyScanned
  <2>1. Reached("cmd_verify", "scanned")
    BY <1>21 DEF VerifyScanned
  <2>2. \A about : /\ Due("cmd_verify", about, "scanned", TRUE) = {}
                   /\ Due("cmd_verify", about, "reviewed", TRUE) = {}
                   /\ Due("cmd_verify", about, "reviewed", FALSE) = {}
    BY <1>1, <1>2
  <2>3. CASE AskReviewer("review", "reviewed")
    BY <1>1, <1>9, <1>12, <1>14, <2>1, <2>2, <2>3 DEF AskReviewer
  <2>4. CASE Goto("reviewed") /\ UNCHANGED <<call, result, shadows>>
    BY <1>1, <1>13, <2>1, <2>2, <2>4, HoldOn
  <2>5. QED
    BY <1>21, <2>3, <2>4 DEF VerifyScanned
<1>22. CASE VerifyReviewed
  <2>1. Reached("cmd_verify", "reviewed") /\ \E code : Decide(code)
    BY <1>22 DEF VerifyReviewed
  <2>2. \A about : Due("cmd_verify", about, "reviewed", TRUE) = {}
    BY <1>1, <1>2
  <2>3. QED
    BY <1>1, <2>1, <2>2, HoldDecides
<1>23. CASE Plan
  <2>1. Reached("cmd_apply", "loaded")
    BY <1>23 DEF Plan
  <2>2. \A about : /\ Due("cmd_apply", about, "loaded", TRUE) = {}
                   /\ Due("cmd_apply", about, "reviewed", TRUE) = {}
                   /\ Due("cmd_apply", about, "reviewed", FALSE) = {}
    BY <1>3
  <2>3. CASE \E code : Decide(code)
    BY <1>1, <2>1, <2>2, <2>3, HoldDecides
  <2>4. CASE AskReviewer("review", "reviewed")
    BY <1>1, <1>9, <1>12, <1>14, <2>1, <2>2, <2>4 DEF AskReviewer
  <2>5. CASE Goto("reviewed") /\ UNCHANGED <<call, result, shadows>>
    BY <1>1, <1>13, <2>1, <2>2, <2>5, HoldOn
  <2>6. QED
    BY <1>23, <2>3, <2>4, <2>5 DEF Plan
<1>24. CASE Confirm
  <2>1. Reached("cmd_apply", "reviewed")
    BY <1>24 DEF Confirm
  <2>2. \A about : /\ Due("cmd_apply", about, "reviewed", TRUE) = {}
                   /\ Due("cmd_apply", about, "asked", TRUE) = {}
                   /\ Due("cmd_apply", about, "confirmed", TRUE) = {}
    BY <1>3
  <2>3. CASE Decide("4")
    BY <1>1, <2>1, <2>2, <2>3, HoldDecides
  <2>4. CASE Goto("asked") /\ UNCHANGED <<call, result, shadows>>
    BY <1>1, <1>13, <2>1, <2>2, <2>4, HoldOn
  <2>5. CASE Goto("confirmed") /\ UNCHANGED <<call, result, shadows>>
    BY <1>1, <1>13, <2>1, <2>2, <2>5, HoldOn
  <2>6. QED
    BY <1>24, <2>3, <2>4, <2>5 DEF Confirm
<1>24a. CASE Answer
  <2>1. Reached("cmd_apply", "asked")
    BY <1>24a DEF Answer
  <2>2. \A about : /\ Due("cmd_apply", about, "asked", TRUE) = {}
                   /\ Due("cmd_apply", about, "confirmed", TRUE) = {}
    BY <1>3
  <2>3. CASE \E code : Decide(code)
    BY <1>1, <2>1, <2>2, <2>3, HoldDecides
  <2>4. CASE Goto("confirmed") /\ UNCHANGED <<call, result, shadows>>
    BY <1>1, <1>13, <2>1, <2>2, <2>4, HoldOn
  <2>5. QED
    BY <1>24a, <2>3, <2>4 DEF Answer
<1>24b. CASE AcquireLease
  <2>1. Reached("cmd_apply", "confirmed")
    BY <1>24b DEF AcquireLease
  <2>2. \A about : /\ Due("cmd_apply", about, "confirmed", TRUE) = {}
                   /\ Due("cmd_apply", about, "refreshed", FALSE) = {}
                   /\ Due("cmd_apply", about, "execute", TRUE) = {}
    BY <1>3
  <2>3. CASE \E code : Decide(code)
    BY <1>1, <2>1, <2>2, <2>3, HoldDecides
  <2>4. CASE Invoke("load", "sides", "refreshed") /\ UNCHANGED <<call, shadows>>
    BY <1>1, <1>11, <1>12, <2>1, <2>2, <2>4, HoldAsks
  <2>5. CASE Goto("execute") /\ UNCHANGED <<call, result, shadows>>
    BY <1>1, <1>13, <2>1, <2>2, <2>5, HoldOn
  <2>6. QED
    BY <1>24b, <2>3, <2>4, <2>5 DEF AcquireLease
<1>25. CASE Refreshed
  <2>1. Reached("cmd_apply", "refreshed")
    BY <1>25 DEF Refreshed
  <2>2. \A about : /\ Due("cmd_apply", about, "refreshed", TRUE) = {}
                   /\ Due("cmd_apply", about, "execute", TRUE) = {}
    BY <1>3
  <2>3. CASE \E code : Decide(code)
    BY <1>1, <2>1, <2>2, <2>3, HoldDecides
  <2>4. CASE Goto("execute") /\ UNCHANGED <<call, result, shadows>>
    BY <1>1, <1>13, <2>1, <2>2, <2>4, HoldOn
  <2>5. QED
    BY <1>25, <2>3, <2>4 DEF Refreshed
<1>26. CASE Execute
  <2>1. Reached("cmd_apply", "execute")
    BY <1>26 DEF Execute
  <2>2. \A about : /\ Due("cmd_apply", about, "execute", TRUE) = {}
                   /\ Due("cmd_apply", about, "residual", TRUE) = {}
                   /\ Due("cmd_apply", about, "residual", FALSE) = {}
    BY <1>3
  <2>3. CASE Decide("error")
    BY <1>1, <2>1, <2>2, <2>3, HoldDecides
  <2>4. CASE Invoke("canonicalize", "target", "residual") /\ UNCHANGED <<call, shadows>>
    BY <1>1, <1>11, <1>12, <2>1, <2>2, <2>4, HoldAsks
  <2>5. CASE Goto("residual") /\ UNCHANGED <<call, result, shadows>>
    BY <1>1, <1>13, <2>1, <2>2, <2>5, HoldOn
  <2>6. QED
    BY <1>26, <2>3, <2>4, <2>5 DEF Execute
<1>27. CASE Residual
  <2>1. Reached("cmd_apply", "residual") /\ UNCHANGED <<call, shadows>>
    BY <1>27 DEF Residual
  <2>2. \A about : /\ Due("cmd_apply", about, "residual", TRUE) = {}
                   /\ Due("cmd_apply", about, "release", TRUE) = {}
                   /\ Due("cmd_apply", about, "compare", FALSE) = {}
    BY <1>3, <1>6
  <2>3. CASE Goto("release") /\ UNCHANGED result
    BY <1>1, <1>13, <2>1, <2>2, <2>3, HoldOn
  <2>4. CASE call.sides["source"] = "url" /\ Invoke("checks", "target", "checked")
    <3>1. \A about : Due("cmd_apply", about, "checked", FALSE) = {}
      BY <1>4, <1>7, <2>4
    <3>2. QED
      BY <1>1, <1>11, <1>12, <2>1, <2>2, <2>4, <3>1, HoldAsks
  <2>5. CASE /\ call.sides["source"] # "url"
             /\ Invoke("materialize", "source_replica", "compare")
    BY <1>1, <1>11, <2>1, <2>2, <2>5, HoldAsks
  <2>6. QED
    BY <1>27, <2>3, <2>4, <2>5 DEF Residual
<1>28. CASE Compared
  <2>1. Reached("cmd_apply", "compare") /\ UNCHANGED <<call, shadows>>
    BY <1>28 DEF Compared
  <2>2. \A about : Due("cmd_apply", about, "compare", TRUE) =
                   Due("cmd_apply", about, "checked", FALSE)
    BY <1>6, <1>7
  <2>3. QED
    BY <1>1, <1>11, <1>12, <1>28, <2>1, <2>2, HoldAsks DEF Compared
<1>29. CASE Checked
  <2>1. Reached("cmd_apply", "checked") /\ UNCHANGED <<call, shadows>>
    BY <1>29 DEF Checked, AskReviewer
  <2>2. \A about : /\ Due("cmd_apply", about, "checked", TRUE) =
                      Due("cmd_apply", about, "scanned", FALSE)
                   /\ Due("cmd_apply", about, "checked", TRUE) =
                      Due("cmd_apply", about, "scanned", TRUE)
    BY DEF Due
  <2>3. CASE AskReviewer("scan", "scanned")
    BY <1>1, <1>10, <1>12, <1>14, <2>1, <2>2, <2>3
  <2>4. CASE Goto("scanned") /\ UNCHANGED result
    BY <1>1, <1>13, <2>1, <2>2, <2>4, HoldOn
  <2>5. QED
    BY <1>29, <2>3, <2>4 DEF Checked
<1>30. CASE Scanned
  <2>1. Reached("cmd_apply", "scanned") /\ UNCHANGED <<call, result>>
    BY <1>30 DEF Scanned
  <2>2. /\ Accounted({}) /\ stack # <<>> /\ Len(stack) = 1 /\ stack[1].proc = "cmd_apply"
        /\ Head(stack) = stack[1]
        /\ stack[1].owns = Due("cmd_apply", stack[1].about, "scanned", TRUE)
    BY <1>1, <2>1, CommandBase
  <2>3. stack[1].owns = held
    BY <1>7, <2>2
  <2>4. \A about, r : Due("cmd_apply", about, "release", r) = {}
    BY DEF Due
  <2>5. "release" \in Places /\ ~AwaitsReplica(stack[1].proc, "release")
    BY DEF Places, AwaitsReplica
  <2>6. stack[1].owns \ {"source_replica"} =
          Due(stack[1].proc, stack[1].about, "release", result' = "ok")
    BY <1>4, <2>2, <2>3, <2>4
  <2>7. CASE held = {}
    <3>1. stack[1].owns = Due(stack[1].proc, stack[1].about, "release", result' = "ok")
      BY <2>3, <2>6, <2>7
    <3>2. Goto("release") /\ UNCHANGED shadows
      BY <1>30, <2>2, <2>3, <2>7 DEF Scanned
    <3>3. Settles({}, {})
      BY <2>1, <3>2, HoldStill
    <3>4. Accounted({})'
      BY <2>1, <2>2, <2>5, <3>1, <3>2, <3>3, HoldGoes
    <3>5. QED
      BY <3>4, HoldEnough
  <2>8. CASE held # {}
    <3>1. "source_replica" \in stack[1].owns /\ "source_replica" # "orphan"
      BY <1>4, <2>3, <2>8
    <3>2. Dispose("source_replica", FALSE) /\ Disown("source_replica", "release")
      BY <1>30, <2>2, <2>3, <2>8 DEF Scanned
    <3>3. Accounted({})'
      BY <1>5, <2>1, <2>2, <2>5, <2>6, <3>1, <3>2, HoldDisowns
    <3>4. QED
      BY <3>3, HoldEnough
  <2>9. QED
    BY <2>7, <2>8
<1>31. CASE Release
  <2>1. Reached("cmd_apply", "release") /\ \E code : Decide(code)
    BY <1>31 DEF Release
  <2>2. \A about : Due("cmd_apply", about, "release", TRUE) = {}
    BY <1>3
  <2>3. QED
    BY <1>1, <2>1, <2>2, HoldDecides
<1>32. QED
  BY <1>15, <1>16, <1>17, <1>18, <1>19, <1>20, <1>21, <1>22, <1>23, <1>24, <1>24a,
     <1>24b, <1>25,
     <1>26, <1>27, <1>28, <1>29, <1>30, <1>31 DEF CommandStep

LEMMA HoldInit == ASSUME Init PROVE HoldInv
<1>1. /\ stack = <<Frame(call.command, "all")>> /\ shadows = {} /\ result = "none"
      /\ call \in Calls
  BY DEF Init
<1>2. call.command \in Commands
  BY <1>1, CallsAssumption DEF CallOK
<1>3. /\ Len(stack) = 1 /\ \A k \in 0..(Len(stack) - 1) : k = 0
      /\ Up(0) = Frame(call.command, "all") /\ stack[1] = Frame(call.command, "all")
  BY <1>1 DEF Up
<1>4. DatabasesOK /\ OpenRoles = {}
  BY <1>1 DEF DatabasesOK, OpenRoles
<1>5. Owners
  BY <1>2, <1>3 DEF Owners, FrameOK, Due, AwaitsReplica, Frame, Commands
<1>6. Returned /\ HeldRoles = {}
  BY <1>3 DEF Returned, HeldRoles, Frame
<1>7. QED
  BY <1>4, <1>5, <1>6 DEF HoldInv, Accounted, Tight

LEMMA HoldStep == ASSUME Shape, HoldInv, [Next]_vars PROVE HoldInv'
<1>1. CASE CommandStep
  BY <1>1, HoldCommand
<1>2. CASE Resolve \/ Resolved \/ LoadSource \/ LoadTarget \/ Compare \/ Loaded
  BY <1>2, HoldLoad
<1>3. CASE Canonicalize \/ Canonicalized
  BY <1>3, HoldCanonicalize
<1>4. CASE Materialize \/ Bootstrap \/ Materialized
  BY <1>4, HoldMaterialize
<1>5. CASE VerifyStart \/ VerifyCreate \/ VerifyRun
  BY <1>5, HoldVerify
<1>6. CASE VerifyEnd
  BY <1>6, HoldVerifyEnd
<1>7. CASE \/ RehearseBootstrap \/ RehearseMigrate \/ Rediff \/ Comparable
           \/ FlywayReplica \/ FlywayStart \/ FlywayExits
           \/ ExternalStart \/ ExternalExits \/ RehearseEnd
  BY <1>7, HoldRehearse
<1>8. CASE StartTool \/ ToolExits \/ Ask \/ CallProvider \/ ReviewerExits
  BY <1>8, HoldTools
<1>9. CASE UNCHANGED vars
  BY <1>9, HoldUnchanged DEF vars
<1>10. QED
  BY <1>1, <1>2, <1>3, <1>4, <1>5, <1>6, <1>7, <1>8, <1>9, NextSplits DEF InsideStep

(* One frame holds a role that is held, and no other does. *)
LEMMA OneHolder ==
  ASSUME Shape, Owners, NEW role, NEW k \in 0..(Len(stack) - 1), role \in Up(k).owns
  PROVE  Cardinality(Holders(role)) = 1
<1>1. stack # <<>> /\ Len(stack) \in Nat \ {0} /\ DOMAIN stack = 1..Len(stack)
  BY EmptySeq, LenProperties DEF Shape
<1>2. Len(stack) \in Nat
  BY <1>1
<1>3. Len(stack) - k \in Nat
  BY <1>2
<1>4. PICK i \in Nat : i = Len(stack) - k
  BY <1>3
<1>5. i \in Holders(role)
  BY <1>1, <1>2, <1>4 DEF Holders, Up
<1>6. ASSUME NEW m \in Holders(role) PROVE m = i
  <2>1. m \in 1..Len(stack) /\ role \in stack[m].owns
    BY <1>1 DEF Holders
  <2>2. Len(stack) - m \in Nat
    BY <1>2, <2>1
  <2>3. PICK n \in Nat : n = Len(stack) - m
    BY <2>2
  <2>4. n \in 0..(Len(stack) - 1) /\ Len(stack) - n = m /\ role \in Up(n).owns
    BY <1>2, <2>1, <2>3 DEF Up
  <2>5. \A j \in 0..(Len(stack) - 1) :
          Up(j).owns \subseteq Claims(Up(j).proc, Up(j).about)
    BY DueIsClaimed DEF Owners, FrameOK
  <2>6. ~(n < k)
    <3>1. CASE n < k
      <4>1. n \in 0..(k - 1)
        BY <2>4, <3>1
      <4>2. role \notin Claims(Up(k).proc, Up(k).about)
        BY <2>4, <4>1, OneClaim
      <4>3. QED
        BY <2>5, <4>2
    <3>2. QED
      BY <3>1
  <2>7. ~(k < n)
    <3>1. CASE k < n
      <4>1. k \in 0..(n - 1)
        BY <2>4, <3>1
      <4>2. role \notin Claims(Up(n).proc, Up(n).about)
        BY <2>4, <4>1, OneClaim
      <4>3. QED
        BY <2>4, <2>5, <4>2
    <3>2. QED
      BY <3>1
  <2>8. k \in Int /\ m \in Int
    BY <1>2, <2>1
  <2>9. QED
    BY <1>2, <1>4, <2>3, <2>6, <2>7, <2>8
<1>7. Holders(role) = {i}
  BY <1>5, <1>6
<1>8. Cardinality({i}) = 1
  BY FS_Singleton
<1>9. QED
  BY <1>7, <1>8

LEMMA AllAccounted ==
  ASSUME Shape, AskInv, CheckInv, HoldInv
  PROVE  NothingForgotten
<1>1. TypeOK
  <2>1. \A i \in DOMAIN stack : stack[i].proc \in Procedures /\ stack[i].owns \subseteq Roles
    <3> SUFFICES ASSUME NEW i \in DOMAIN stack
                 PROVE  stack[i].proc \in Procedures /\ stack[i].owns \subseteq Roles
      OBVIOUS
    <3>1. stack[i] \in Frames
      BY ElementOfSeq, LenProperties DEF Shape
    <3>2. QED
      BY <3>1, FrameFields
  <2>2. DOMAIN reviews \subseteq {"review", "scan"}
    BY DEF AskInv, ReviewsGenuine
  <2>3. DOMAIN reports \subseteq Tools \cup {"external", "source-replica"}
    BY DEF CheckInv, ReportsHonest
  <2>4. shadows \subseteq
          [role : Roles, holds : {"nothing", "source", "target", "other", "partial"},
           fate : {"open", "kept", "undropped"}]
    BY DEF HoldInv, Accounted, DatabasesOK, Databases
  <2>5. QED
    BY <2>1, <2>2, <2>3, <2>4 DEF Shape, TypeOK
<1>2. PICK strays : strays = Strays
  OBVIOUS
<1>3. DatabasesOK /\ Owners /\ Tight(strays)
  BY <1>2 DEF HoldInv, Accounted
<1>4. ASSUME NEW s \in shadows
      PROVE  \/ s.fate = "open" /\ (Cardinality(Holders(s.role)) = 1 \/ Forgotten(s))
             \/ /\ s.fate = "kept" /\ call.keep
                /\ s.role \notin {"scratch", "flyway_replica"}
             \/ s.fate = "undropped"
  <2>1. s.fate \in {"open", "kept", "undropped"} /\ s.role \in Roles
    BY <1>3 DEF DatabasesOK, Databases
  <2>2. CASE s.fate = "open"
    <3>1. s.role \in OpenRoles
      BY <2>1, <2>2 DEF OpenRoles
    <3>2. s.role \in HeldRoles \cup strays \cup {"orphan"}
      BY <1>3, <3>1 DEF Tight
    <3>3. CASE s.role \in HeldRoles
      <4>1. PICK k \in 0..(Len(stack) - 1) : s.role \in Up(k).owns
        BY <3>3 DEF HeldRoles
      <4>2. Cardinality(Holders(s.role)) = 1
        BY <1>3, <4>1, OneHolder
      <4>3. QED
        BY <2>2, <4>2
    <3>4. CASE s.role \in strays
      BY <1>2, <2>2, <3>4 DEF Strays, Forgotten
    <3>5. CASE s.role = "orphan"
      BY <1>3, <2>2, <3>1, <3>5 DEF Tight, Forgotten
    <3>6. QED
      BY <3>2, <3>3, <3>4, <3>5
  <2>3. CASE s.fate = "kept"
    BY <1>3, <2>3 DEF DatabasesOK
  <2>4. QED
    BY <2>1, <2>2, <2>3
<1>5. ASSUME NEW i \in DOMAIN stack, NEW role \in stack[i].owns
      PROVE  \E s \in shadows : s.role = role /\ s.fate = "open"
  <2>1. stack[i] \in Frames /\ i \in 1..Len(stack) /\ Len(stack) \in Nat
    BY ElementOfSeq, LenProperties DEF Shape
  <2>2. role \in Roles
    BY <2>1, FrameFields
  <2>3. Len(stack) - i \in Nat
    BY <2>1
  <2>4. PICK k \in Nat : k = Len(stack) - i
    BY <2>3
  <2>5. k \in 0..(Len(stack) - 1) /\ Len(stack) - k = i
    BY <2>1, <2>4
  <2>6. role \in HeldRoles
    BY <2>2, <2>5 DEF HeldRoles, Up
  <2>7. role \in OpenRoles
    BY <1>3, <2>6 DEF Tight
  <2>8. QED
    BY <2>7 DEF OpenRoles
<1>6. QED
  BY <1>1, <1>4, <1>5 DEF NothingForgotten

(* At any moment, whatever fails and wherever, each database on the shadow *)
(* server is in the hands of exactly one procedure that will drop it, or   *)
(* kept as asked, or the server would not drop it, or it is one of the     *)
(* three the code is known to forget; and who holds a database finds it.   *)
THEOREM NothingIsForgotten == Spec => []NothingForgotten
<1>1. Init => Shape /\ AskInv /\ CheckInv /\ HoldInv
  BY ShapeInit, AskInit, CheckInit, HoldInit
<1>2. (Shape /\ AskInv /\ CheckInv /\ HoldInv) /\ [Next]_vars
        => (Shape /\ AskInv /\ CheckInv /\ HoldInv)'
  BY ShapeStep, AskStep, CheckStep, HoldStep
<1>3. Shape /\ AskInv /\ CheckInv /\ HoldInv => NothingForgotten
  BY AllAccounted
<1>4. QED
  BY <1>1, <1>2, <1>3, PTL DEF Spec

-----------------------------------------------------------------------------
(* The checkers see the sides. *)

(* A step writes to the databases of one role at most: one that is the     *)
(* topmost procedure's to have, or the replica under rehearsal.            *)
Touches(x) ==
  /\ Spares(x)
  /\ \/ x = "orphan" \/ x \in Claims(stack[1].proc, stack[1].about)
     \/ x = "replica" /\ stack[1].proc = "rehearse"

(* What OnlyFaithfulReplicas says of a step. *)
Faithful ==
  \A s \in shadows, t \in shadows' :
    (s.role = t.role /\ {s.fate, t.fate} = {"open"} /\ s.holds # t.holds) =>
      \/ s.holds = "nothing"
      \/ s.role = "replica" /\ s.holds = "target"

Gently == Faithful /\ \E x : Touches(x)

LEMMA ExistsStays ==
  ASSUME NEW x, Spares(x), NEW role, role # x, NEW C, Exists(role, C)
  PROVE  Exists(role, C)'
BY DEF Exists, Spares

LEMMA SightThen ==
  ASSUME NEW f, NEW k, Up(k)' = f, SeesTheSides(f)'
  PROVE  SeesTheSides(Up(k))'
BY DEF SeesTheSides

(* Where nothing that is open is new, nothing has changed. *)
LEMMA FaithfulUnlessNew ==
  ASSUME DatabasesOK,
         \A t \in shadows' : \/ t \in shadows \/ t.fate # "open"
                             \/ t.role \notin OpenRoles \/ t = Open("orphan"),
         shadows' \subseteq Databases
  PROVE  Faithful
<1> SUFFICES ASSUME NEW s \in shadows, NEW t \in shadows', s.role = t.role,
                    {s.fate, t.fate} = {"open"}, s.holds # t.holds
             PROVE  s.holds = "nothing"
  BY DEF Faithful
<1>1. s.fate = "open" /\ t.fate = "open" /\ s.role \in Roles
  BY DEF DatabasesOK, Databases
<1>2. s.role \in OpenRoles
  BY <1>1 DEF OpenRoles
<1>3. t \notin shadows
  BY <1>1 DEF DatabasesOK
<1>4. t = Open("orphan") /\ s.role = "orphan"
  BY <1>1, <1>2, <1>3 DEF Open
<1>5. s = Open("orphan")
  BY <1>4 DEF DatabasesOK
<1>6. QED
  BY <1>5 DEF Open

LEMMA GentleStill ==
  ASSUME DatabasesOK, UNCHANGED shadows
  PROVE  Gently
<1>1. Faithful
  BY FaithfulUnlessNew DEF DatabasesOK
<1>2. Touches("orphan")
  BY DEF Touches, Spares
<1>3. QED
  BY <1>1, <1>2 DEF Gently

LEMMA GentleCreate ==
  ASSUME Shape, Accounted({}), stack # <<>>, NEW role, NEW place, Create(role, place),
         role \in Claims(stack[1].proc, stack[1].about), role # "orphan",
         stack[1].owns = {}, call' = call
  PROVE  /\ Gently
         /\ \/ Return("failed")
            \/ /\ Exists(role, {"nothing"})'
               /\ stack' = [stack EXCEPT ![1].at = place, ![1].owns = @ \cup {role}]
<1>1. role \in Roles /\ role \notin OpenRoles /\ DatabasesOK
  BY HeldAre DEF Accounted, Tight, Claims
<1>2. CASE Return("failed") /\ UNCHANGED shadows
  BY <1>1, <1>2, GentleStill
<1>3. CASE /\ Return("failed")
           /\ shadows' = shadows \cup {Open("orphan")}
  <2>1. Spares("orphan") /\ DatabasesOK'
    BY <1>1, <1>3, Orphaned DEF Settles
  <2>2. Faithful
    BY <1>1, <1>3, <2>1, FaithfulUnlessNew DEF DatabasesOK
  <2>3. QED
    BY <1>3, <2>1, <2>2 DEF Gently, Touches
<1>4. CASE /\ shadows' = shadows \cup {Open(role)}
           /\ stack' = [stack EXCEPT ![1].at = place, ![1].owns = @ \cup {role}]
  <2>1. Spares(role) /\ Exists(role, {"nothing"})' /\ DatabasesOK'
    BY <1>1, <1>4, Opened DEF Settles
  <2>2. Faithful
    BY <1>1, <1>4, <2>1, FaithfulUnlessNew DEF DatabasesOK, Open
  <2>3. QED
    BY <1>4, <2>1, <2>2 DEF Gently, Touches
<1>5. QED
  BY <1>2, <1>3, <1>4 DEF Create

LEMMA GentleDispose ==
  ASSUME Shape, NEW strays, Accounted(strays), stack # <<>>, call' = call,
         NEW role \in stack[1].owns, role # "orphan", NEW keep, Dispose(role, keep)
  PROVE  Gently /\ Spares(role)
<1>1. role \in Claims(stack[1].proc, stack[1].about) /\ role \in OpenRoles /\ DatabasesOK
  BY HeldAre DEF Accounted, Tight
<1>2. Live(role) \in shadows /\ Live(role).role = role /\ role \in Roles
  BY <1>1, LiveIs
<1>3. PICK old, new :
        /\ old = Live(role) /\ new.role = role /\ new.fate \in {"kept", "undropped"}
        /\ shadows' = shadows \ {old} \/ shadows' = (shadows \ {old}) \cup {new}
        /\ new \in Databases
  <2>1. CASE shadows' = shadows \ {Live(role)}
    <3>1. [role |-> role, holds |-> "nothing", fate |-> "kept"] \in Databases
      BY <1>2 DEF Databases
    <3>2. QED
      BY <2>1, <3>1
  <2>2. CASE shadows' = (shadows \ {Live(role)}) \cup
               {[role |-> role, holds |-> "nothing",
                 fate |-> IF keep THEN "kept" ELSE "undropped"]}
    <3>1. [role |-> role, holds |-> "nothing",
           fate |-> IF keep THEN "kept" ELSE "undropped"] \in Databases
      BY <1>2 DEF Databases
    <3>2. QED
      BY <2>2, <3>1
  <2>3. QED
    BY <2>1, <2>2 DEF Dispose
<1>4. Spares(role)
  BY <1>2, <1>3 DEF Spares
<1>5. Faithful
  BY <1>1, <1>3, FaithfulUnlessNew DEF DatabasesOK
<1>6. QED
  BY <1>1, <1>4, <1>5 DEF Gently, Touches

LEMMA GentleFill ==
  ASSUME DatabasesOK, call' = call, NEW role \in OpenRoles, role # "orphan",
         NEW holds \in {"nothing", "source", "target", "other", "partial"},
         Fill(role, holds),
         \/ role \in Claims(stack[1].proc, stack[1].about)
         \/ role = "replica" /\ stack[1].proc = "rehearse",
         \/ Exists(role, {"nothing"})
         \/ role = "replica" /\ Exists(role, {"target"})
  PROVE  /\ Gently /\ Spares(role)
         /\ \A C : holds \in C => Exists(role, C)'
<1>1. Spares(role) /\ \A C : holds \in C => Exists(role, C)'
  BY Filled
<1>2. PICK old : old = Live(role)
  OBVIOUS
<1>3. /\ old \in shadows /\ old.role = role /\ old.fate = "open"
      /\ \A s \in shadows : s.role = role /\ s.fate = "open" => s = old
  BY <1>2, LiveIs
<1>4. old.holds = "nothing" \/ (role = "replica" /\ old.holds = "target")
  BY <1>3 DEF Exists
<1>5. \A t \in shadows' : t \in shadows \/ t.role = role
  BY <1>1 DEF Spares
<1>6. Faithful
  <2> SUFFICES ASSUME NEW s \in shadows, NEW t \in shadows', s.role = t.role,
                      {s.fate, t.fate} = {"open"}, s.holds # t.holds
               PROVE  s.holds = "nothing" \/ (s.role = "replica" /\ s.holds = "target")
    BY DEF Faithful
  <2>1. s.fate = "open" /\ t.fate = "open"
    OBVIOUS
  <2>2. t \notin shadows
    BY <2>1 DEF DatabasesOK
  <2>3. s = old
    BY <1>3, <1>5, <2>1, <2>2
  <2>4. QED
    BY <1>3, <1>4, <2>3
<1>7. QED
  BY <1>1, <1>6 DEF Gently, Touches

(* Below the topmost frame nothing is lost: a caller keeps what it owns,   *)
(* and nobody else writes to that.                                         *)
LEMMA SightBelow ==
  ASSUME Shape, HoldInv, SightInv, InsideStep, HoldInv', Gently,
         ~(stack[1].proc = "materialize" /\ Leaving /\ result' = "ok"),
         NEW k \in 0..(Len(stack) - 2)
  PROVE  SeesTheSides(Up(k))'
<1>1. /\ Inside /\ call' = call
      /\ stack[1].proc # "rehearse" => converged' = converged
  BY Effects
<1>2. /\ stack # <<>> /\ stack' # <<>> /\ Len(stack) \in Nat /\ Len(stack) > 1
      /\ Len(stack') \in Nat \ {0}
  BY <1>1, InsideBase
<1>3. Owners /\ Owners'
  BY DEF HoldInv, Accounted
<1>4. /\ k \in 0..(Len(stack) - 1) /\ k + 1 \in 0..(Len(stack) - 1)
      /\ CallSite(Up(k).proc, Up(k).at, Up(k + 1).proc, Up(k + 1).about)
  BY CallerOf
<1>5. PICK g : g = Up(k)
  OBVIOUS
<1>6. PICK f : f = Up(k)'
  OBVIOUS
<1>7. f.proc = g.proc /\ f.about = g.about /\ f.at = g.at
  BY <1>1, <1>5, <1>6 DEF Inside, Proceeds, BelowSame, SameFrame
<1>8. SeesTheSides(g)
  BY <1>4, <1>5 DEF SightInv
<1>9. k \in 0..(Len(stack') - 1)
  BY <1>1, <1>2 DEF Inside, Proceeds, Walks, Calling, Leaving
<1>10. PICK r \in BOOLEAN : r = Received(k)'
  BY DEF Received
<1>11. g.owns = Due(g.proc, g.about, g.at, FALSE)
  BY <1>2, <1>3, <1>5, FramesBelow DEF FrameOK
<1>12. f.owns = Due(f.proc, f.about, f.at, r)
  <2>1. FrameOK(Up(k), Received(k))'
    BY <1>3, <1>9 DEF Owners
  <2>2. QED
    BY <1>1, <1>6, <1>10, <2>1 DEF FrameOK, Due
<1>13. ASSUME r = TRUE, g.proc \in {"rehearse", "cmd_apply"}
       PROVE  g.at \notin {"comparable", "compare", "flyable"}
  <2>1. k = Len(stack') - 1 /\ result' = "ok"
    BY <1>10, <1>13 DEF Received
  <2>2. Leaving /\ k = Len(stack) - 2
    <3>1. CASE Leaving
      BY <1>2, <2>1, <3>1 DEF Leaving
    <3>2. CASE Walks \/ Calling
      BY <1>2, <2>1, <3>2 DEF Walks, Calling
    <3>3. QED
      BY <1>1, <3>1, <3>2 DEF Inside, Proceeds
  <2>3. /\ CallSite(stack[2].proc, stack[2].at, stack[1].proc, stack[1].about)
        /\ stack[2] = Up(Len(stack) - 2)
    BY <1>2, Chain DEF CallsNow
  <2>4. stack[2] = g
    BY <1>5, <2>2, <2>3
  <2>5. stack[1].proc # "materialize"
    BY <2>1, <2>2
  <2>6. QED
    BY <1>13, <2>3, <2>4, <2>5 DEF CallSite, Commands
<1>14. f.owns = g.owns
  <2>1. CASE r = FALSE
    BY <1>7, <1>11, <1>12, <2>1
  <2>2. CASE r = TRUE
    BY <1>7, <1>11, <1>12, <1>13, <2>2 DEF Due
  <2>3. QED
    BY <2>1, <2>2
<1>15. PICK x : Touches(x)
  BY DEF Gently
<1>16. HeldBelow \cap Claims(stack[1].proc, stack[1].about) = {}
  BY <1>2, <1>3, HeldAre
<1>17. ASSUME NEW role \in {"source_replica", "flyway_replica"}, role \in g.owns
       PROVE  role # x
  <2>1. role \in HeldBelow
    BY <1>5, <1>17 DEF HeldBelow, Roles, Replicas
  <2>2. QED
    BY <1>15, <1>16, <2>1 DEF Touches
<1>18. ASSUME g.proc = "rehearse" PROVE x # "replica" /\ converged' = converged
  <2>1. Len(stack) - 1 \in Nat
    BY <1>2
  <2>2. PICK n \in Nat : n = Len(stack) - 1
    BY <2>1
  <2>3. /\ n \in 0..(Len(stack) - 1) /\ Up(n) = stack[1] /\ k < n
    <3>1. Up(Len(stack) - 1) = stack[1]
      BY <1>2, Chain
    <3>2. QED
      BY <1>2, <2>2, <3>1
  <2>4. k = 2
    BY <1>4, <1>5, <1>18, Levels
  <2>5. stack[1].proc \notin {"verify", "rehearse"}
    BY <2>3, <2>4, Levels
  <2>6. stack[1].proc = "materialize" =>
          stack[1].about \in {"source_replica", "flyway_replica"}
    BY <2>3, Levels
  <2>7. stack[1].proc = "resolve" => stack[1].about \in Sides
    BY <2>3, Levels
  <2>8. "replica" \notin Claims(stack[1].proc, stack[1].about)
    BY <2>5, <2>6, <2>7 DEF Claims, Sides
  <2>9. QED
    BY <1>1, <1>15, <2>5, <2>8 DEF Touches
<1>19. SeesTheSides(f)'
  <2>1. /\ ~(g.proc = "verify" /\ g.at = "created")
        /\ ~(g.proc = "rehearse" /\ g.at = "start")
        /\ ~(g.proc = "materialize" /\ g.at = "bootstrap")
    BY <1>4, <1>5 DEF CallSite, Commands
  <2>2. Spares(x)
    BY <1>15 DEF Touches
  <2>3. (g.proc \in {"rehearse", "cmd_apply"} /\ "source_replica" \in g.owns) =>
          Exists("source_replica", {"source"})'
    BY <1>8, <1>17, <2>2, ExistsStays DEF SeesTheSides
  <2>4. (g.proc = "rehearse" /\ "flyway_replica" \in g.owns) =>
          Exists("flyway_replica", {"target"})'
    BY <1>8, <1>17, <2>2, ExistsStays DEF SeesTheSides
  <2>5. (g.proc = "rehearse" /\ g.at = "rediff") => Exists("replica", {"source", "other"})'
    BY <1>8, <1>18, <2>2, ExistsStays DEF SeesTheSides
  <2>6. (g.proc = "rehearse" /\ g.at \in {"comparable", "checked", "flyable", "flying",
                                          "external", "outside", "finish"}) =>
          Exists("replica", IF converged THEN {"source"} ELSE {"other"})'
    <3> SUFFICES ASSUME g.proc = "rehearse",
                        g.at \in {"comparable", "checked", "flyable", "flying",
                                  "external", "outside", "finish"}
                 PROVE  Exists("replica", IF converged THEN {"source"} ELSE {"other"})'
      OBVIOUS
    <3>1. PICK C : C = IF converged THEN {"source"} ELSE {"other"}
      OBVIOUS
    <3>2. Exists("replica", C)
      BY <1>8, <3>1 DEF SeesTheSides
    <3>3. Exists("replica", C)' /\ converged' = converged
      BY <1>18, <2>2, <3>2, ExistsStays
    <3>4. QED
      BY <3>1, <3>3 DEF Exists
  <2>7. QED
    BY <1>7, <1>14, <2>1, <2>3, <2>4, <2>5, <2>6 DEF SeesTheSides
<1>20. QED
  BY <1>6, <1>19, SightThen

LEMMA SightWalks ==
  ASSUME Shape, HoldInv, SightInv, InsideStep, HoldInv', Gently, Walks,
         NEW f, f = stack'[1], SeesTheSides(f)'
  PROVE  SightInv'
<1>1. stack # <<>> /\ Len(stack) \in Nat \ {0} /\ Len(stack') = Len(stack) /\ ~Leaving
  BY Effects, Chain, OneKind DEF Inside, Walks
<1>2. ASSUME NEW k \in 0..(Len(stack) - 1) PROVE SeesTheSides(Up(k))'
  <2>1. CASE k \in 0..(Len(stack) - 2)
    BY <1>1, <2>1, SightBelow
  <2>2. CASE k = Len(stack) - 1
    <3>1. Len(stack') - k = 1
      BY <1>1, <2>2
    <3>2. Up(k)' = f
      BY <3>1 DEF Up
    <3>3. QED
      BY <3>2, SightThen
  <2>3. QED
    BY <1>1, <2>1, <2>2
<1>3. QED
  BY <1>1, <1>2 DEF SightInv

LEMMA SightCalling ==
  ASSUME Shape, HoldInv, SightInv, InsideStep, HoldInv', Gently, Calling,
         NEW f, f = stack'[2], SeesTheSides(f)',
         NEW g, g = stack'[1], SeesTheSides(g)'
  PROVE  SightInv'
<1>1. stack # <<>> /\ Len(stack) \in Nat \ {0} /\ Len(stack') = Len(stack) + 1 /\ ~Leaving
  BY Effects, Chain, OneKind DEF Inside, Calling
<1>2. ASSUME NEW k \in 0..Len(stack) PROVE SeesTheSides(Up(k))'
  <2>1. CASE k \in 0..(Len(stack) - 2)
    BY <1>1, <2>1, SightBelow
  <2>2. CASE k = Len(stack) - 1
    <3>1. Len(stack') - k = 2
      BY <1>1, <2>2
    <3>2. Up(k)' = f
      BY <3>1 DEF Up
    <3>3. QED
      BY <3>2, SightThen
  <2>3. CASE k = Len(stack)
    <3>1. Len(stack') - k = 1
      BY <1>1, <2>3
    <3>2. Up(k)' = g
      BY <3>1 DEF Up
    <3>3. QED
      BY <3>2, SightThen
  <2>4. QED
    BY <1>1, <2>1, <2>2, <2>3
<1>3. \A k \in 0..(Len(stack') - 1) : k \in 0..Len(stack)
  BY <1>1
<1>4. QED
  BY <1>2, <1>3 DEF SightInv

LEMMA SightLeaving ==
  ASSUME Shape, HoldInv, SightInv, InsideStep, HoldInv', Gently, Leaving,
         ~(stack[1].proc = "materialize" /\ result' = "ok")
  PROVE  SightInv'
<1>1. stack # <<>> /\ Len(stack) \in Nat \ {0} /\ Len(stack') = Len(stack) - 1
  BY Effects, Chain DEF Inside, Leaving
<1>2. \A k \in 0..(Len(stack') - 1) : k \in 0..(Len(stack) - 2)
  BY <1>1
<1>3. \A k \in 0..(Len(stack) - 2) : SeesTheSides(Up(k))'
  BY SightBelow
<1>4. QED
  BY <1>2, <1>3 DEF SightInv

(* What is called starts with empty hands; a rehearsal, with a new replica. *)
LEMMA CalleeSees ==
  ASSUME NEW g, g.at = "start", g.owns = {}, g.proc # "rehearse"
  PROVE  SeesTheSides(g)'
BY DEF SeesTheSides

LEMMA CallsBlindly ==
  ASSUME Shape, HoldInv, SightInv, InsideStep, HoldInv', Gently, Calling,
         NEW f, f = stack'[2], SeesTheSides(f)', stack[1].proc # "verify"
  PROVE  SightInv'
<1>1. PICK g : g = stack'[1]
  OBVIOUS
<1>2. g.at = "start" /\ g.owns = {} /\ CallSite(stack[1].proc, f.at, g.proc, g.about)
  BY <1>1 DEF Calling, CallsNow
<1>3. g.proc # "rehearse"
  BY <1>2 DEF CallSite, Commands
<1>4. SeesTheSides(g)'
  BY <1>2, <1>3, CalleeSees
<1>5. QED
  BY <1>1, <1>4, SightCalling

(* Most procedures see no side. *)
LEMMA SightBlind ==
  ASSUME Shape, HoldInv, SightInv, InsideStep, HoldInv', Gently,
         stack[1].proc \notin {"materialize", "verify", "rehearse"}
  PROVE  SightInv'
<1>1. Inside /\ stack # <<>> /\ stack[1].proc # "cmd_apply"
  BY Effects DEF Inside, Commands
<1>2. CASE Leaving
  BY <1>2, SightLeaving
<1>3. CASE Walks
  <2>1. PICK f : f = stack'[1]
    OBVIOUS
  <2>2. f.proc = stack[1].proc
    BY <1>3, <2>1 DEF Walks
  <2>3. SeesTheSides(f)'
    BY <1>1, <2>2 DEF SeesTheSides
  <2>4. QED
    BY <1>3, <2>1, <2>3, SightWalks
<1>4. CASE Calling
  <2>1. PICK f : f = stack'[2]
    OBVIOUS
  <2>2. f.proc = stack[1].proc
    BY <1>4, <2>1 DEF Calling
  <2>3. SeesTheSides(f)'
    BY <1>1, <2>2 DEF SeesTheSides
  <2>4. QED
    BY <1>4, <2>1, <2>3, CallsBlindly
<1>5. QED
  BY <1>1, <1>2, <1>3, <1>4 DEF Inside, Proceeds

LEMMA SightLoad ==
  ASSUME Shape, HoldInv, SightInv, HoldInv',
         Resolve \/ Resolved \/ LoadSource \/ LoadTarget \/ Compare \/ Loaded
  PROVE  Gently /\ SightInv'
<1>1. /\ stack # <<>> /\ Head(stack) = stack[1] /\ stack[1].proc \in {"resolve", "load"}
      /\ call' = call /\ InsideStep
  BY AtTop DEF Resolve, Resolved, LoadSource, LoadTarget, Compare, Loaded, InsideStep
<1>2. /\ Accounted({}) /\ DatabasesOK
      /\ stack[1].owns = Due(stack[1].proc, stack[1].about, stack[1].at, result = "ok")
  BY <1>1, HoldBase DEF Accounted
<1>3. UNCHANGED shadows => Gently
  BY <1>2, GentleStill
<1>4. CASE Resolve
  <2>1. /\ stack[1].proc = "resolve" /\ stack[1].at = "start"
        /\ stack[1].about \in Sides /\ stack[1].about # "orphan"
    BY <1>1, <1>4, AtTop, SubjectOfAChild DEF Resolve, Sides
  <2>2. stack[1].owns = {}
    BY <1>2, <2>1 DEF Due
  <2>3. CASE Create(stack[1].about, "filled")
    <3>1. stack[1].about \in Claims(stack[1].proc, stack[1].about)
      BY <2>1 DEF Claims, Roles
    <3>2. Gently
      BY <1>1, <1>2, <2>1, <2>2, <2>3, <3>1, GentleCreate
    <3>3. QED
      BY <1>1, <3>2, SightBlind
  <2>4. CASE UNCHANGED shadows
    BY <1>1, <1>3, <2>4, SightBlind
  <2>5. QED
    BY <1>1, <1>4, <2>3, <2>4 DEF Resolve
<1>5. CASE Resolved
  <2>1. /\ stack[1].proc = "resolve" /\ stack[1].at = "filled"
        /\ stack[1].about \in Sides /\ stack[1].about \in Roles /\ stack[1].about # "orphan"
    BY <1>1, <1>5, AtTop, SubjectOfAChild DEF Resolved, Sides, Roles
  <2>2. stack[1].about \in stack[1].owns
    BY <1>2, <2>1 DEF Due
  <2>3. Dispose(stack[1].about, call.keep)
    BY <1>1, <1>5 DEF Resolved
  <2>4. Gently
    BY <1>1, <1>2, <2>1, <2>2, <2>3, GentleDispose
  <2>5. QED
    BY <1>1, <2>4, SightBlind
<1>6. CASE LoadSource \/ LoadTarget \/ Compare \/ Loaded
  <2>1. UNCHANGED shadows
    BY <1>6 DEF LoadSource, LoadTarget, Compare, Loaded
  <2>2. QED
    BY <1>1, <1>3, <2>1, SightBlind
<1>7. QED
  BY <1>4, <1>5, <1>6

LEMMA SightCanonicalize ==
  ASSUME Shape, HoldInv, SightInv, HoldInv', Canonicalize \/ Canonicalized
  PROVE  Gently /\ SightInv'
<1>1. /\ stack # <<>> /\ stack[1].proc = "canonicalize" /\ call' = call /\ InsideStep
  BY AtTop DEF Canonicalize, Canonicalized, InsideStep
<1>2. /\ Accounted({}) /\ DatabasesOK /\ "scratch" \in Roles
      /\ stack[1].owns = Due(stack[1].proc, stack[1].about, stack[1].at, result = "ok")
  BY <1>1, HoldBase DEF Accounted, Roles
<1>3. Gently
  <2>1. CASE Canonicalize
    <3>1. stack[1].owns = {} /\ "scratch" \in Claims(stack[1].proc, stack[1].about)
      BY <1>1, <1>2, <2>1, AtTop DEF Canonicalize, Due, Claims
    <3>2. CASE Create("scratch", "scratched")
      BY <1>1, <1>2, <3>1, <3>2, GentleCreate
    <3>3. QED
      BY <1>2, <2>1, <3>2, GentleStill DEF Canonicalize
  <2>2. CASE Canonicalized
    <3>1. "scratch" \in stack[1].owns
      BY <1>1, <1>2, <2>2, AtTop DEF Canonicalized, Due
    <3>2. Dispose("scratch", FALSE)
      BY <2>2 DEF Canonicalized
    <3>3. QED
      BY <1>1, <1>2, <3>1, <3>2, GentleDispose
  <2>3. QED
    BY <2>1, <2>2
<1>4. QED
  BY <1>1, <1>3, SightBlind

LEMMA SightTools ==
  ASSUME Shape, HoldInv, SightInv, HoldInv',
         StartTool \/ ToolExits \/ Ask \/ CallProvider \/ ReviewerExits
  PROVE  Gently /\ SightInv'
<1>1. /\ stack # <<>> /\ stack[1].proc \in {"checks", "ai"} /\ UNCHANGED shadows /\ InsideStep
  BY AtTop DEF StartTool, ToolExits, Ask, CallProvider, ReviewerExits, InsideStep
<1>2. Gently
  BY <1>1, GentleStill DEF HoldInv, Accounted
<1>3. QED
  BY <1>1, <1>2, SightBlind

(* A replica is handed over only if it reproduces its subject. *)
LEMMA SightMaterialize ==
  ASSUME Shape, HoldInv, SightInv, HoldInv', Materialize \/ Bootstrap \/ Materialized
  PROVE  Gently /\ SightInv'
<1>1. /\ stack # <<>> /\ Head(stack) = stack[1] /\ stack[1].proc = "materialize"
      /\ call' = call /\ InsideStep
  BY AtTop DEF Materialize, Bootstrap, Materialized, InsideStep
<1>2. /\ Accounted({}) /\ DatabasesOK /\ Len(stack) > 1 /\ Len(stack) \in Nat
      /\ stack[1].owns = Due(stack[1].proc, stack[1].about, stack[1].at, result = "ok")
      /\ stack[1] = Up(Len(stack) - 1)
  BY <1>1, HoldBase, Chain DEF Accounted, Commands
<1>3. PICK role : role = stack[1].about
  OBVIOUS
<1>4. /\ role \in {"source_replica", "flyway_replica"} /\ role \in Roles /\ role # "orphan"
      /\ role \in Claims(stack[1].proc, stack[1].about)
  BY <1>1, <1>3, SubjectOfAChild DEF Roles, Replicas, Claims
<1>5. /\ stack[1].at = "start" => stack[1].owns = {}
      /\ stack[1].at \in {"bootstrap", "sane"} => role \in stack[1].owns
  BY <1>1, <1>2, <1>3, <1>4 DEF Due
<1>6. ASSUME role \in stack[1].owns, Dispose(role, FALSE), Return("failed")
      PROVE  Gently /\ SightInv'
  <2>1. Gently
    BY <1>1, <1>2, <1>4, <1>6, GentleDispose
  <2>2. Leaving /\ result' = "failed"
    BY <1>1, <1>6, ReturnProceeds
  <2>3. QED
    BY <1>1, <2>1, <2>2, SightLeaving
<1>7. CASE Materialize
  <2>1. stack[1].at = "start" /\ Create(role, "bootstrap")
    BY <1>1, <1>3, <1>7, AtTop DEF Materialize
  <2>2. /\ Gently
        /\ \/ Return("failed")
           \/ /\ Exists(role, {"nothing"})'
              /\ stack' = [stack EXCEPT ![1].at = "bootstrap", ![1].owns = @ \cup {role}]
    BY <1>1, <1>2, <1>4, <1>5, <2>1, GentleCreate
  <2>3. CASE Return("failed")
    <3>1. Leaving /\ result' = "failed"
      BY <1>1, <2>3, ReturnProceeds
    <3>2. QED
      BY <1>1, <2>2, <3>1, SightLeaving
  <2>4. CASE /\ Exists(role, {"nothing"})'
             /\ stack' = [stack EXCEPT ![1].at = "bootstrap", ![1].owns = @ \cup {role}]
    <3>1. PICK f : f = stack'[1]
      OBVIOUS
    <3>2. Moved("bootstrap", stack[1].owns \cup {role})
      <4>1. "bootstrap" \in Places
        BY DEF Places
      <4>2. QED
        BY <1>1, <1>4, <2>4, <4>1, Takes DEF Shape
    <3>3. Walks /\ f.proc = "materialize" /\ f.about = role
      BY <1>1, <1>3, <3>1, <3>2 DEF Moved, Walks
    <3>4. SeesTheSides(f)'
      BY <2>4, <3>3 DEF SeesTheSides
    <3>5. QED
      BY <1>1, <2>2, <3>1, <3>3, <3>4, SightWalks
  <2>5. QED
    BY <2>2, <2>3, <2>4
<1>8. CASE Bootstrap
  <2>1. stack[1].at = "bootstrap" /\ role \in stack[1].owns
    BY <1>5, <1>8, AtTop DEF Bootstrap
  <2>2. CASE /\ \E holds \in {Subject(role), "other"} : Fill(role, holds)
             /\ Invoke("canonicalize", role, "sane")
    <3>1. PICK holds \in {Subject(role), "other"} : Fill(role, holds)
      BY <2>2
    <3>2. holds \in {"nothing", "source", "target", "other", "partial"}
      BY <3>1 DEF Subject
    <3>3. role \in OpenRoles
      BY <1>1, <1>2, <2>1, HeldAre DEF Accounted, Tight
    <3>4. Exists(role, {"nothing"})
      <4>1. Len(stack) - 1 \in 0..(Len(stack) - 1)
        BY <1>2
      <4>2. SeesTheSides(stack[1])
        BY <1>2, <4>1 DEF SightInv
      <4>3. QED
        BY <1>1, <1>3, <2>1, <4>2 DEF SeesTheSides
    <3>5. Gently
      BY <1>1, <1>2, <1>4, <3>1, <3>2, <3>3, <3>4, GentleFill
    <3>6. CallSite(stack[1].proc, "sane", "canonicalize", role)
      BY <1>1, <1>4 DEF CallSite, Abouts
    <3>7. Calling /\ stack'[2].at = "sane"
      BY <1>1, <2>2, <3>6, InvokeAt
    <3>8. PICK f : f = stack'[2]
      OBVIOUS
    <3>9. f.proc = "materialize" /\ f.at = "sane"
      BY <1>1, <3>7, <3>8 DEF Calling
    <3>10. SeesTheSides(f)'
      BY <3>9 DEF SeesTheSides
    <3>11. QED
      BY <1>1, <3>5, <3>7, <3>8, <3>10, CallsBlindly
  <2>3. QED
    BY <1>1, <1>3, <1>6, <1>8, <2>1, <2>2 DEF Bootstrap
<1>9. CASE Materialized
  <2>1. stack[1].at = "sane" /\ role \in stack[1].owns
    BY <1>5, <1>9, AtTop DEF Materialized
  <2>2. CASE /\ Live(role).holds = Subject(role)
             /\ ReturnOwned /\ UNCHANGED shadows
    <3>1. Handed /\ result' = "ok"
      BY <1>2, <2>2, HandsOver DEF Shape
    <3>2. Gently
      BY <1>2, <2>2, GentleStill
    <3>3. Exists(role, {Subject(role)})
      <4>1. role \in OpenRoles
        BY <1>1, <1>2, <2>1, HeldAre DEF Accounted, Tight
      <4>2. PICK live : live = Live(role)
        OBVIOUS
      <4>3. /\ live \in shadows /\ live.role = role /\ live.fate = "open"
            /\ live.holds = Subject(role)
        BY <1>2, <2>2, <4>1, <4>2, LiveIs
      <4>4. QED
        BY <4>3 DEF Exists
    <3>4. PICK caller : caller = stack[2]
      OBVIOUS
    <3>5. PICK f : f = stack'[1]
      OBVIOUS
    <3>6. /\ caller = Up(Len(stack) - 2)
          /\ CallSite(caller.proc, caller.at, "materialize", role)
      BY <1>1, <1>2, <1>3, <3>4, Chain DEF CallsNow
    <3>7. SeesTheSides(caller)
      <4>1. Len(stack) - 2 \in 0..(Len(stack) - 1)
        BY <1>2
      <4>2. QED
        BY <3>6, <4>1 DEF SightInv
    <3>8. /\ f.proc = caller.proc /\ f.about = caller.about /\ f.at = caller.at
          /\ f.owns = caller.owns \cup {role}
      <4>1. stack[1].owns = {role}
        BY <1>1, <1>2, <1>3, <1>4, <2>1 DEF Due
      <4>2. QED
        BY <3>1, <3>4, <3>5, <4>1 DEF Handed
    <3>9. /\ caller.proc \in {"rehearse", "cmd_apply"}
          /\ caller.at \in {"comparable", "compare", "flyable"}
      BY <3>6 DEF CallSite, Commands
    <3>10. UNCHANGED <<shadows, converged>>
      BY <1>9, <2>2 DEF Materialized, found
    <3>11. SeesTheSides(f)
      BY <1>4, <3>3, <3>7, <3>8, <3>9 DEF SeesTheSides, Subject
    <3>12. SeesTheSides(f)'
      BY <3>10, <3>11 DEF SeesTheSides, Exists
    <3>13. ASSUME NEW k \in 0..(Len(stack') - 1) PROVE SeesTheSides(Up(k))'
      <4>1. CASE k \in 0..(Len(stack) - 3)
        <5>1. Up(k)' = Up(k)
          BY <3>1, <4>1 DEF Handed
        <5>2. PICK g : g = Up(k)
          OBVIOUS
        <5>3. k \in 0..(Len(stack) - 1)
          BY <1>2, <4>1
        <5>4. SeesTheSides(g)
          BY <5>2, <5>3 DEF SightInv
        <5>5. SeesTheSides(g)'
          BY <3>10, <5>4 DEF SeesTheSides, Exists
        <5>6. QED
          BY <5>1, <5>2, <5>5, SightThen
      <4>2. CASE k = Len(stack) - 2
        <5>1. Len(stack') - k = 1
          BY <1>2, <3>1, <4>2 DEF Handed
        <5>2. Up(k)' = f
          BY <3>5, <5>1 DEF Up
        <5>3. QED
          BY <3>12, <5>2, SightThen
      <4>3. k \in 0..(Len(stack) - 3) \/ k = Len(stack) - 2
        BY <1>2, <3>1 DEF Handed
      <4>4. QED
        BY <4>1, <4>2, <4>3
    <3>14. QED
      BY <3>2, <3>13 DEF SightInv
  <2>3. QED
    BY <1>1, <1>3, <1>6, <1>9, <2>1, <2>2 DEF Materialized
<1>10. QED
  BY <1>7, <1>8, <1>9

(* Each rehearsal gets a new replica. *)
LEMMA SightVerify ==
  ASSUME Shape, HoldInv, SightInv, HoldInv',
         VerifyStart \/ VerifyCreate \/ VerifyRun \/ VerifyEnd
  PROVE  Gently /\ SightInv'
<1>1. stack # <<>> /\ stack[1].proc = "verify" /\ call' = call /\ InsideStep
  BY AtTop DEF VerifyStart, VerifyCreate, VerifyRun, VerifyEnd, InsideStep
<1>2. PICK strays : strays = Strays
  OBVIOUS
<1>3. /\ Accounted(strays) /\ DatabasesOK /\ FrameOK(stack[1], result = "ok")
      /\ "replica" \in Roles /\ "replica" \in Claims(stack[1].proc, stack[1].about)
  BY <1>1, <1>2, HeldAre DEF HoldInv, Accounted, Roles, Replicas, Claims
<1>4. /\ stack[1].at \in {"start", "replica"} => stack[1].owns = {}
      /\ stack[1].at \in {"created", "dispose"} => "replica" \in stack[1].owns
  BY <1>1, <1>3 DEF FrameOK, Due
<1>5. ASSUME NEW r, Return(r), Gently PROVE SightInv'
  <2>1. Leaving
    BY <1>1, <1>5, ReturnProceeds
  <2>2. QED
    BY <1>1, <1>5, <2>1, SightLeaving
<1>6. UNCHANGED shadows => Gently
  BY <1>3, GentleStill
<1>7. CASE VerifyStart
  <2>1. Gently
    BY <1>6, <1>7 DEF VerifyStart
  <2>2. CASE Invoke("canonicalize", "sides", "replica")
    <3>1. CallSite(stack[1].proc, "replica", "canonicalize", "sides")
      BY <1>1 DEF CallSite, Abouts
    <3>2. PICK f : f = stack'[2]
      OBVIOUS
    <3>3. PICK g : g = stack'[1]
      OBVIOUS
    <3>4. Calling /\ f.proc = "verify" /\ f.at = "replica"
      BY <1>1, <2>2, <3>1, <3>2, InvokeAt DEF Calling
    <3>5. g = Frame("canonicalize", "sides")
      BY <1>1, <2>2, <3>1, <3>3, SiteTyped, Invokes DEF Pushed, Shape
    <3>6. SeesTheSides(f)' /\ SeesTheSides(g)'
      BY <3>4, <3>5 DEF SeesTheSides, Frame
    <3>7. QED
      BY <1>1, <2>1, <3>2, <3>3, <3>4, <3>6, SightCalling
  <2>3. QED
    BY <1>5, <1>7, <2>1, <2>2 DEF VerifyStart
<1>8. CASE VerifyCreate
  <2>1. stack[1].at = "replica"
    BY <1>8, AtTop DEF VerifyCreate
  <2>2. CASE Create("replica", "created")
    <3>1. Accounted({})
      BY <1>1, <2>1, HoldBase
    <3>2. /\ Gently
          /\ \/ Return("failed")
             \/ /\ Exists("replica", {"nothing"})'
                /\ stack' = [stack EXCEPT ![1].at = "created", ![1].owns = @ \cup {"replica"}]
      BY <1>1, <1>3, <1>4, <2>1, <2>2, <3>1, GentleCreate
    <3>3. CASE /\ Exists("replica", {"nothing"})'
               /\ stack' = [stack EXCEPT ![1].at = "created", ![1].owns = @ \cup {"replica"}]
      <4>1. PICK f : f = stack'[1]
        OBVIOUS
      <4>2. Moved("created", stack[1].owns \cup {"replica"})
        <5>1. "created" \in Places
          BY DEF Places
        <5>2. QED
          BY <1>1, <1>3, <3>3, <5>1, Takes DEF Shape
      <4>3. Walks /\ f.proc = "verify"
        BY <1>1, <4>1, <4>2 DEF Moved, Walks
      <4>4. SeesTheSides(f)'
        BY <3>3, <4>3 DEF SeesTheSides
      <4>5. QED
        BY <1>1, <3>2, <4>1, <4>3, <4>4, SightWalks
    <3>4. QED
      BY <1>5, <3>2, <3>3
  <2>3. CASE Return(result) /\ UNCHANGED shadows
    <3>1. \E r : Return(r)
      BY <2>3
    <3>2. QED
      BY <1>5, <1>6, <2>3, <3>1
  <2>4. QED
    BY <1>8, <2>2, <2>3 DEF VerifyCreate
<1>9. CASE VerifyRun
  <2>1. stack[1].at = "created" /\ "replica" \in stack[1].owns
    BY <1>4, <1>9, AtTop DEF VerifyRun
  <2>2. CASE Dispose("replica", FALSE) /\ Return("failed")
    BY <1>1, <1>3, <1>5, <2>1, <2>2, GentleDispose
  <2>3. CASE Invoke("rehearse", "replica", "dispose") /\ UNCHANGED shadows
    <3>1. CallSite(stack[1].proc, "dispose", "rehearse", "replica")
      BY <1>1 DEF CallSite
    <3>2. PICK f : f = stack'[2]
      OBVIOUS
    <3>3. PICK g : g = stack'[1]
      OBVIOUS
    <3>4. Calling /\ f.proc = "verify" /\ f.at = "dispose"
      BY <1>1, <2>3, <3>1, <3>2, InvokeAt DEF Calling
    <3>5. g = Frame("rehearse", "replica")
      BY <1>1, <2>3, <3>1, <3>3, SiteTyped, Invokes DEF Pushed, Shape
    <3>6. Exists("replica", {"nothing"})
      <4>1. Len(stack) \in Nat \ {0} /\ stack[1] = Up(Len(stack) - 1)
        BY <1>1, Chain
      <4>2. Len(stack) - 1 \in 0..(Len(stack) - 1)
        BY <4>1
      <4>3. SeesTheSides(stack[1])
        BY <4>1, <4>2 DEF SightInv
      <4>4. QED
        BY <1>1, <2>1, <4>3 DEF SeesTheSides
    <3>7. Exists("replica", {"nothing"})'
      BY <2>3, <3>6 DEF Exists
    <3>8. SeesTheSides(f)' /\ SeesTheSides(g)'
      BY <3>4, <3>5, <3>7 DEF SeesTheSides, Frame
    <3>9. QED
      BY <1>1, <1>6, <2>3, <3>2, <3>3, <3>4, <3>8, SightCalling
  <2>4. QED
    BY <1>9, <2>2, <2>3 DEF VerifyRun
<1>10. CASE VerifyEnd
  <2>1. /\ "replica" \in stack[1].owns /\ Dispose("replica", call.keep)
        /\ \E r : Return(r)
    BY <1>4, <1>10, AtTop DEF VerifyEnd
  <2>2. PICK keep : keep = call.keep
    OBVIOUS
  <2>3. Gently
    BY <1>1, <1>3, <2>1, <2>2, GentleDispose
  <2>4. QED
    BY <1>5, <2>1, <2>3
<1>11. QED
  BY <1>7, <1>8, <1>9, <1>10

(* The replica is migrated when it reproduces the target, compared with    *)
(* the source, and left alone from then on.                                *)
LEMMA SightRehearse ==
  ASSUME Shape, HoldInv, SightInv, HoldInv',
         \/ RehearseBootstrap \/ RehearseMigrate \/ Rediff \/ Comparable
         \/ FlywayReplica \/ FlywayStart \/ FlywayExits
         \/ ExternalStart \/ ExternalExits \/ RehearseEnd
  PROVE  Gently /\ SightInv'
<1>1. stack # <<>> /\ stack[1].proc = "rehearse" /\ call' = call /\ InsideStep
  BY AtTop DEF RehearseBootstrap, RehearseMigrate, Rediff, Comparable, FlywayReplica,
     FlywayStart, FlywayExits, ExternalStart, ExternalExits, RehearseEnd, InsideStep
<1>2. /\ Accounted({}) /\ DatabasesOK
      /\ stack[1].owns = Due(stack[1].proc, stack[1].about, stack[1].at, result = "ok")
  BY <1>1, HoldBase DEF Accounted
<1>3. PICK top : top = stack[1]
  OBVIOUS
<1>4. SeesTheSides(top) /\ top.proc = "rehearse"
  <2>1. Len(stack) \in Nat \ {0} /\ stack[1] = Up(Len(stack) - 1)
    BY <1>1, Chain
  <2>2. Len(stack) - 1 \in 0..(Len(stack) - 1)
    BY <2>1
  <2>3. QED
    BY <1>1, <1>3, <2>1, <2>2 DEF SightInv
<1>5. "replica" \in OpenRoles
  BY <1>1, <1>2, ReplicaIsOpen
<1>6. PICK live : live = Live("replica")
  OBVIOUS
<1>7. /\ live \in shadows /\ live.role = "replica" /\ live.fate = "open"
      /\ \A s \in shadows : (s.role = "replica" /\ s.fate = "open") => s = live
  BY <1>2, <1>5, <1>6, LiveIs
<1>8. top.at \in {"start", "sane", "rediff"} => top.owns = {}
  BY <1>1, <1>2, <1>3 DEF Due
<1>9. UNCHANGED shadows => Gently
  BY <1>2, GentleStill
<1>10. ASSUME NEW r, Return(r), Gently PROVE SightInv'
  <2>1. Leaving
    BY <1>1, <1>10, ReturnProceeds
  <2>2. QED
    BY <1>1, <1>10, <2>1, SightLeaving
<1>11. ASSUME Gently, NEW proc, NEW about, NEW place, Invoke(proc, about, place),
              CallSite("rehearse", place, proc, about),
              \A f : (f.proc = "rehearse" /\ f.at = place /\ f.owns = top.owns)
                       => SeesTheSides(f)'
       PROVE  SightInv'
  <2>1. proc \in Procedures /\ about \in Abouts /\ place \in Places
    BY <1>11, SiteTyped
  <2>2. Pushed(proc, about, place) /\ Calling
    BY <1>1, <1>11, <2>1, Invokes, InvokeAt DEF Shape
  <2>3. PICK f : f = stack'[2]
    OBVIOUS
  <2>4. f.proc = "rehearse" /\ f.at = place /\ f.owns = top.owns
    BY <1>1, <1>3, <2>2, <2>3 DEF Pushed
  <2>5. SeesTheSides(f)'
    BY <1>11, <2>4
  <2>6. QED
    BY <1>1, <1>11, <2>2, <2>3, <2>5, CallsBlindly
<1>12. ASSUME Gently, NEW place, NEW owned, Moved(place, owned),
              \A f : (f.proc = "rehearse" /\ f.at = place /\ f.owns = owned)
                       => SeesTheSides(f)'
       PROVE  SightInv'
  <2>1. Walks
    BY <1>12 DEF Moved, Walks
  <2>2. PICK f : f = stack'[1]
    OBVIOUS
  <2>3. f.proc = "rehearse" /\ f.at = place /\ f.owns = owned
    BY <1>1, <1>12, <2>2 DEF Moved
  <2>4. SeesTheSides(f)'
    BY <1>12, <2>3
  <2>5. QED
    BY <1>1, <1>12, <2>1, <2>2, <2>4, SightWalks
<1> DEFINE Later == {"comparable", "checked", "flyable", "flying", "external", "outside",
                     "finish"}
<1>13. ASSUME top.at \in Later, NEW place \in Later, NEW owned \in SUBSET top.owns,
              NEW x, Spares(x), x \notin {"replica", "source_replica"}, x \notin owned,
              converged' = converged
       PROVE  \A f : (f.proc = "rehearse" /\ f.at = place /\ f.owns = owned)
                        => SeesTheSides(f)'
  <2> SUFFICES ASSUME NEW f, f.proc = "rehearse", f.at = place, f.owns = owned
               PROVE  SeesTheSides(f)'
    OBVIOUS
  <2>1. "source_replica" \in owned => Exists("source_replica", {"source"})'
    BY <1>4, <1>13, ExistsStays DEF SeesTheSides
  <2>2. "flyway_replica" \in owned => Exists("flyway_replica", {"target"})'
    BY <1>4, <1>13, ExistsStays DEF SeesTheSides
  <2>3. Exists("replica", IF converged THEN {"source"} ELSE {"other"})'
    <3>1. PICK C : C = IF converged THEN {"source"} ELSE {"other"}
      OBVIOUS
    <3>2. Exists("replica", C)
      BY <1>4, <1>13, <3>1 DEF SeesTheSides
    <3>3. Exists("replica", C)'
      BY <1>13, <3>2, ExistsStays
    <3>4. QED
      BY <1>13, <3>1, <3>3 DEF Exists
  <2>4. QED
    BY <2>1, <2>2, <2>3 DEF SeesTheSides
<1>14. UNCHANGED shadows => Spares("orphan")
  BY DEF Spares
<1>15. "orphan" \notin top.owns
  BY <1>1, <1>2, <1>3 DEF Due
<1>16. ASSUME UNCHANGED <<shadows, converged>>, top.at \in Later, NEW place \in Later
       PROVE  \A f : (f.proc = "rehearse" /\ f.at = place /\ f.owns = top.owns)
                        => SeesTheSides(f)'
  BY <1>13, <1>14, <1>15, <1>16
<1>17. ASSUME UNCHANGED <<shadows, converged>>, top.at \in Later, NEW place \in Later,
              Goto(place)
       PROVE  Gently /\ SightInv'
  <2>1. place \in Places
    BY DEF Places
  <2>2. Moved(place, top.owns)
    BY <1>1, <1>3, <1>17, <2>1, Goes DEF Shape
  <2>3. \A f : (f.proc = "rehearse" /\ f.at = place /\ f.owns = top.owns)
                 => SeesTheSides(f)'
    BY <1>16, <1>17
  <2>4. QED
    BY <1>9, <1>12, <1>17, <2>2, <2>3
<1>18. ASSUME converged' = converged, top.at \in Later, "flyway_replica" \in top.owns,
              Dispose("flyway_replica", FALSE), Disown("flyway_replica", "external")
       PROVE  Gently /\ SightInv'
  <2>1. Gently /\ Spares("flyway_replica")
    BY <1>1, <1>2, <1>3, <1>18, GentleDispose
  <2>2. "flyway_replica" \in Roles /\ "external" \in Places
    BY DEF Roles, Replicas, Places
  <2>3. PICK owned : owned = top.owns \ {"flyway_replica"}
    OBVIOUS
  <2>4. Moved("external", owned)
    BY <1>1, <1>3, <1>18, <2>2, <2>3, Disowns DEF Shape
  <2>5. \A f : (f.proc = "rehearse" /\ f.at = "external" /\ f.owns = owned)
                 => SeesTheSides(f)'
    BY <1>13, <1>18, <2>1, <2>3
  <2>6. QED
    BY <1>12, <2>1, <2>4, <2>5
<1>19. /\ CallSite("rehearse", "sane", "canonicalize", "replica")
       /\ CallSite("rehearse", "rediff", "canonicalize", "replica")
       /\ CallSite("rehearse", "checked", "checks", "replica")
       /\ CallSite("rehearse", "comparable", "materialize", "source_replica")
       /\ CallSite("rehearse", "flyable", "materialize", "flyway_replica")
  BY DEF CallSite, Abouts, Roles, Replicas
<1>20. ASSUME NEW holds \in {"nothing", "source", "target", "other", "partial"},
              Fill("replica", holds),
              Exists("replica", {"nothing"}) \/ Exists("replica", {"target"})
       PROVE  Gently /\ \A C : holds \in C => Exists("replica", C)'
  BY <1>1, <1>2, <1>5, <1>20, GentleFill
<1>21. CASE RehearseBootstrap
  <2>1. top.at = "start"
    BY <1>3, <1>21, AtTop DEF RehearseBootstrap
  <2>2. CASE Return("failed") /\ UNCHANGED shadows
    BY <1>9, <1>10, <2>2
  <2>3. CASE /\ \E holds \in {"target", "other"} : Fill("replica", holds)
             /\ Invoke("canonicalize", "replica", "sane")
    <3>1. Exists("replica", {"nothing"})
      BY <1>4, <2>1 DEF SeesTheSides
    <3>2. Gently
      BY <1>20, <2>3, <3>1
    <3>3. \A f : (f.proc = "rehearse" /\ f.at = "sane" /\ f.owns = top.owns)
                   => SeesTheSides(f)'
      BY <1>8, <2>1 DEF SeesTheSides
    <3>4. QED
      BY <1>11, <1>19, <2>3, <3>2, <3>3
  <2>4. QED
    BY <1>21, <2>2, <2>3 DEF RehearseBootstrap
<1>22. CASE RehearseMigrate
  <2>1. top.at = "sane"
    BY <1>3, <1>22, AtTop DEF RehearseMigrate
  <2>2. CASE Return("failed") /\ UNCHANGED shadows
    BY <1>9, <1>10, <2>2
  <2>3. ASSUME Live("replica").holds = "target" PROVE Exists("replica", {"target"})
    BY <1>6, <1>7, <2>3 DEF Exists
  <2>4. CASE /\ Live("replica").holds = "target"
             /\ Return("failed") /\ Fill("replica", "partial")
    BY <1>10, <1>20, <2>3, <2>4
  <2>5. CASE /\ Live("replica").holds = "target"
             /\ \E holds \in {"source", "other"} : Fill("replica", holds)
             /\ Invoke("canonicalize", "replica", "rediff")
    <3>1. Gently /\ Exists("replica", {"source", "other"})'
      BY <1>20, <2>3, <2>5
    <3>2. \A f : (f.proc = "rehearse" /\ f.at = "rediff" /\ f.owns = top.owns)
                   => SeesTheSides(f)'
      BY <1>8, <2>1, <3>1 DEF SeesTheSides
    <3>3. QED
      BY <1>11, <1>19, <2>5, <3>1, <3>2
  <2>6. QED
    BY <1>22, <2>2, <2>4, <2>5 DEF RehearseMigrate
<1>23. CASE Rediff
  <2>1. top.at = "rediff" /\ UNCHANGED shadows /\ Gently
    BY <1>3, <1>9, <1>23, AtTop DEF Rediff
  <2>2. CASE \E r : Return(r)
    BY <1>10, <2>1, <2>2
  <2>3. ASSUME converged' = (Live("replica").holds = "source"),
               NEW place \in {"checked", "comparable"}
        PROVE  \A f : (f.proc = "rehearse" /\ f.at = place /\ f.owns = top.owns)
                        => SeesTheSides(f)'
    <3>1. PICK C : C = IF converged' THEN {"source"} ELSE {"other"}
      OBVIOUS
    <3>2. Exists("replica", {"source", "other"})
      BY <1>4, <2>1 DEF SeesTheSides
    <3>3. live.holds \in {"source", "other"}
      BY <1>7, <3>2 DEF Exists
    <3>4. live.holds \in C
      BY <1>6, <2>3, <3>1, <3>3
    <3>5. Exists("replica", C)'
      BY <1>7, <2>1, <3>4 DEF Exists
    <3>6. QED
      BY <1>8, <2>1, <3>1, <3>5 DEF SeesTheSides, Exists
  <2>4. CASE /\ converged' = (Live("replica").holds = "source")
             /\ Invoke("checks", "replica", "checked")
    BY <1>11, <1>19, <2>1, <2>3, <2>4
  <2>5. CASE /\ converged' = (Live("replica").holds = "source")
             /\ Invoke("materialize", "source_replica", "comparable")
    BY <1>11, <1>19, <2>1, <2>3, <2>5
  <2>6. QED
    BY <1>23, <2>1, <2>2, <2>4, <2>5 DEF Rediff
<1>24. CASE Comparable
  <2>1. top.at = "comparable" /\ UNCHANGED <<shadows, converged>> /\ Gently
    BY <1>3, <1>9, <1>24, AtTop DEF Comparable
  <2>2. CASE Invoke("checks", "replica", "checked")
    BY <1>11, <1>16, <1>19, <2>1, <2>2
  <2>3. QED
    BY <1>10, <1>24, <2>1, <2>2 DEF Comparable
<1>25. CASE FlywayReplica
  <2>1. top.at = "checked" /\ UNCHANGED <<shadows, converged>> /\ Gently
    BY <1>3, <1>9, <1>25, AtTop DEF FlywayReplica, found
  <2>2. CASE Invoke("materialize", "flyway_replica", "flyable")
    BY <1>11, <1>16, <1>19, <2>1, <2>2
  <2>3. CASE Goto("external")
    BY <1>17, <2>1, <2>3
  <2>4. QED
    BY <1>25, <2>1, <2>2, <2>3 DEF FlywayReplica
<1>26. CASE FlywayStart
  <2>1. top.at = "flyable" /\ converged' = converged
    BY <1>3, <1>26, AtTop DEF FlywayStart
  <2>2. CASE (Goto("external") \/ Goto("flying")) /\ UNCHANGED shadows
    BY <1>17, <2>1, <2>2
  <2>3. CASE /\ result = "ok" /\ Dispose("flyway_replica", FALSE)
             /\ Disown("flyway_replica", "external")
    <3>1. PICK b \in BOOLEAN : b = (result = "ok")
      OBVIOUS
    <3>2. b = TRUE /\ top.owns = Due(stack[1].proc, stack[1].about, stack[1].at, b)
      BY <1>2, <1>3, <2>3, <3>1
    <3>3. "flyway_replica" \in top.owns
      BY <1>1, <1>3, <2>1, <3>2 DEF Due, Roles, Replicas
    <3>4. QED
      BY <1>18, <2>1, <2>3, <3>3
  <2>4. QED
    BY <1>26, <2>2, <2>3 DEF FlywayStart
<1>27. CASE FlywayExits
  <2>1. top.at = "flying" /\ converged' = converged
    BY <1>3, <1>27, AtTop DEF FlywayExits
  <2>2. "flyway_replica" \in top.owns
    BY <1>1, <1>2, <1>3, <2>1 DEF Due, Roles, Replicas
  <2>3. QED
    BY <1>18, <1>27, <2>1, <2>2 DEF FlywayExits
<1>28. CASE ExternalStart
  <2>1. top.at = "external" /\ UNCHANGED <<shadows, converged>>
    BY <1>3, <1>28, AtTop DEF ExternalStart, found
  <2>2. QED
    BY <1>9, <1>10, <1>17, <1>28, <2>1 DEF ExternalStart
<1>29. CASE ExternalExits
  <2>1. top.at = "outside" /\ UNCHANGED <<shadows, converged>>
    BY <1>3, <1>29, AtTop DEF ExternalExits
  <2>2. QED
    BY <1>17, <1>29, <2>1 DEF ExternalExits
<1>30. CASE RehearseEnd
  <2>1. top.at = "finish" /\ Head(stack) = stack[1] /\ Return("ok")
    BY <1>3, <1>30, AtTop DEF RehearseEnd
  <2>2. CASE UNCHANGED shadows
    BY <1>9, <1>10, <2>1, <2>2
  <2>3. CASE Dispose("source_replica", call.keep) /\ top.owns # {}
    <3>1. "source_replica" \in top.owns
      BY <1>1, <1>2, <1>3, <2>1, <2>3 DEF Due
    <3>2. PICK keep : keep = call.keep
      OBVIOUS
    <3>3. Gently
      BY <1>1, <1>2, <1>3, <2>3, <3>1, <3>2, GentleDispose
    <3>4. QED
      BY <1>10, <2>1, <3>3
  <2>4. QED
    BY <1>3, <1>30, <2>1, <2>2, <2>3 DEF RehearseEnd
<1>31. QED
  BY <1>21, <1>22, <1>23, <1>24, <1>25, <1>26, <1>27, <1>28, <1>29, <1>30

(* A command sees a side only if it owns the source replica. *)
LEMMA SightAlone ==
  ASSUME SightInv, stack # <<>>, Len(stack) = 1, Up(0).proc \in Commands,
         NEW f, f.proc = Up(0).proc, f.owns \subseteq Up(0).owns,
         \/ UNCHANGED shadows
         \/ "source_replica" \notin f.owns
  PROVE  SeesTheSides(f)'
<1>1. SeesTheSides(Up(0))
  BY DEF SightInv
<1>2. Up(0).proc \notin {"verify", "rehearse", "materialize"}
  BY DEF Commands
<1>3. ("source_replica" \in f.owns /\ f.proc = "cmd_apply") =>
        Exists("source_replica", {"source"})'
  BY <1>1 DEF SeesTheSides, Exists
<1>4. QED
  BY <1>2, <1>3 DEF SeesTheSides

LEMMA SightGoes ==
  ASSUME Shape, SightInv, NEW c \in Commands, NEW at, At(c, at), UNCHANGED shadows,
         NEW place \in Places, Goto(place)
  PROVE  SightInv'
<1>1. stack # <<>> /\ Len(stack) = 1 /\ Up(0).proc \in Commands /\ stack[1] = Up(0)
  BY AtCommand
<1>2. PICK f : f = Up(0)'
  OBVIOUS
<1>3. Len(stack') = 1 /\ f.proc = Up(0).proc /\ f.owns = Up(0).owns
  BY <1>1, <1>2, GoesAlone
<1>4. SeesTheSides(f)'
  BY <1>1, <1>3, SightAlone
<1>5. SeesTheSides(Up(0))'
  BY <1>2, <1>4, SightThen
<1>6. QED
  BY <1>3, <1>5 DEF SightInv

LEMMA SightInvokes ==
  ASSUME Shape, SightInv, NEW c \in Commands, NEW at, At(c, at), UNCHANGED shadows,
         NEW proc, NEW about, NEW place, CallSite(c, place, proc, about),
         Invoke(proc, about, place)
  PROVE  SightInv'
<1>1. /\ stack # <<>> /\ Len(stack) = 1 /\ Up(0).proc \in Commands /\ stack[1] = Up(0)
      /\ stack[1].proc = c
  BY AtCommand
<1>2. PICK f : f = Up(0)'
  OBVIOUS
<1>3. /\ Len(stack') = 2 /\ f.proc = Up(0).proc /\ f.owns = Up(0).owns
      /\ stack'[1] = Frame(proc, about)
  BY <1>1, <1>2, InvokesAlone
<1>4. SeesTheSides(f)'
  BY <1>1, <1>3, SightAlone
<1>5. SeesTheSides(Up(0))'
  BY <1>2, <1>4, SightThen
<1>6. PICK g : g = Frame(proc, about)
  OBVIOUS
<1>7. g.at = "start" /\ g.owns = {} /\ g.proc # "rehearse"
  BY <1>6 DEF Frame, CallSite, Commands
<1>8. SeesTheSides(g)'
  BY <1>7, CalleeSees
<1>9. Up(1)' = g
  <2>1. Len(stack') - 1 = 1
    BY <1>3
  <2>2. QED
    BY <1>3, <1>6, <2>1 DEF Up
<1>10. SeesTheSides(Up(1))'
  BY <1>8, <1>9, SightThen
<1>11. \A k \in 0..(Len(stack') - 1) : k = 0 \/ k = 1
  BY <1>3
<1>12. QED
  BY <1>5, <1>10, <1>11 DEF SightInv

LEMMA SightExit == ASSUME NEW code, Exit(code) PROVE SightInv'
<1>1. Len(stack') = 0
  BY DEF Exit
<1>2. QED
  BY <1>1 DEF SightInv

(* The scan of `apply` is over: its source replica goes. *)
LEMMA SightScanned ==
  ASSUME Shape, HoldInv, SightInv, Scanned
  PROVE  Gently /\ SightInv'
<1>1. /\ "cmd_apply" \in Commands /\ "release" \in Places /\ "source_replica" \in Roles
      /\ Reached("cmd_apply", "scanned") /\ At("cmd_apply", "scanned") /\ call' = call
  BY DEF Commands, Places, Roles, Replicas, Scanned, Reached
<1>2. /\ Accounted({}) /\ DatabasesOK /\ stack # <<>> /\ Len(stack) = 1
      /\ Head(stack) = stack[1] /\ stack[1].proc = "cmd_apply"
      /\ stack[1].owns = Due("cmd_apply", stack[1].about, "scanned", TRUE)
  BY <1>1, CommandBase DEF Accounted
<1>3. stack[1].owns \subseteq {"source_replica"}
  BY <1>2 DEF Due
<1>4. CASE stack[1].owns = {}
  <2>1. Goto("release") /\ UNCHANGED shadows
    BY <1>2, <1>4 DEF Scanned
  <2>2. QED
    BY <1>1, <1>2, <2>1, GentleStill, SightGoes
<1>5. CASE stack[1].owns # {}
  <2>1. Dispose("source_replica", FALSE) /\ Disown("source_replica", "release")
    BY <1>2, <1>5 DEF Scanned
  <2>2. Gently
    BY <1>1, <1>2, <1>3, <1>5, <2>1, GentleDispose
  <2>3. Moved("release", stack[1].owns \ {"source_replica"})
    BY <1>1, <1>2, <2>1, Disowns DEF Shape
  <2>4. PICK f : f = stack'[1]
    OBVIOUS
  <2>5. /\ Len(stack') = 1 /\ Up(0)' = f /\ Up(0) = stack[1]
        /\ f.proc = Up(0).proc /\ f.owns = {}
    <3>1. Len(stack') = 1 /\ f.proc = stack[1].proc /\ f.owns = {}
      BY <1>2, <1>3, <2>3, <2>4 DEF Moved
    <3>2. Len(stack') - 0 = 1 /\ Len(stack) - 0 = 1
      BY <1>2, <3>1
    <3>3. QED
      BY <2>4, <3>1, <3>2 DEF Up
  <2>6. SeesTheSides(f)'
    BY <1>1, <1>2, <2>5, SightAlone
  <2>7. SeesTheSides(Up(0))'
    BY <2>5, <2>6, SightThen
  <2>8. QED
    BY <2>2, <2>5, <2>7 DEF SightInv
<1>6. QED
  BY <1>4, <1>5

LEMMA SightCommand ==
  ASSUME Shape, HoldInv, SightInv, CommandStep
  PROVE  Gently /\ SightInv'
<1>1. ASSUME NEW code, Decide(code) PROVE UNCHANGED shadows /\ SightInv'
  BY <1>1, SightExit DEF Decide
<1>2. ASSUME NEW c \in Commands, NEW at, At(c, at), NEW about, NEW place,
             AskReviewer(about, place), CallSite(c, place, "ai", about)
      PROVE  UNCHANGED shadows /\ SightInv'
  <2>1. Invoke("ai", about, place) /\ UNCHANGED shadows
    BY <1>2 DEF AskReviewer
  <2>2. QED
    BY <1>2, <2>1, SightInvokes
<1>3. {"scanned", "reviewed", "asked", "confirmed", "execute", "residual", "release"}
        \subseteq Places
  BY DEF Places
<1>4. /\ "cmd_apply" \in Commands /\ "cmd_verify" \in Commands
      /\ "cmd_diff" \in Commands /\ "cmd_review" \in Commands
  BY DEF Commands
<1>5. \A c \in Commands : /\ CallSite(c, "loaded", "load", "sides")
                          /\ CallSite(c, "reviewed", "ai", "review")
  BY DEF CallSite, Commands
<1>6. \A c \in {"cmd_verify", "cmd_apply"} : CallSite(c, "scanned", "ai", "scan")
  BY DEF CallSite, Commands
<1>7. /\ CallSite("cmd_verify", "verified", "verify", "sides")
      /\ CallSite("cmd_apply", "refreshed", "load", "sides")
      /\ CallSite("cmd_apply", "residual", "canonicalize", "target")
      /\ CallSite("cmd_apply", "checked", "checks", "target")
      /\ CallSite("cmd_apply", "compare", "materialize", "source_replica")
  BY DEF CallSite, Commands, Abouts, Roles, Sides, Replicas
<1>8. UNCHANGED shadows => Gently
  BY GentleStill DEF HoldInv, Accounted
<1>9. CASE Start
  <2>1. PICK c \in Commands : At(c, "start")
    BY <1>9 DEF Start
  <2>2. UNCHANGED shadows
    BY <1>9 DEF Start
  <2>3. CASE Exit("error")
    BY <1>8, <2>2, <2>3, SightExit
  <2>4. CASE Invoke("load", "sides", "loaded")
    BY <1>5, <1>8, <2>1, <2>2, <2>4, SightInvokes
  <2>5. QED
    BY <1>9, <2>3, <2>4 DEF Start
<1>10. CASE Fail
  BY <1>8, <1>10, SightExit DEF Fail
<1>11. CASE Rendered
  <2>1. PICK c \in {"cmd_diff", "cmd_review"} :
          /\ At(c, "loaded")
          /\ (\E code : Decide(code)) \/ AskReviewer("review", "reviewed")
    BY <1>11 DEF Rendered, Reached
  <2>2. QED
    BY <1>1, <1>2, <1>4, <1>5, <1>8, <2>1
<1>12. CASE Reviewed
  <2>1. \E code : Decide(code)
    BY <1>12 DEF Reviewed
  <2>2. QED
    BY <1>1, <1>8, <2>1
<1>13. CASE Verify
  <2>1. At("cmd_verify", "loaded")
    BY <1>13 DEF Verify, Reached
  <2>2. CASE Invoke("verify", "sides", "verified") /\ UNCHANGED shadows
    BY <1>4, <1>7, <1>8, <2>1, <2>2, SightInvokes
  <2>3. QED
    BY <1>1, <1>8, <1>13, <2>2 DEF Verify
<1>14. CASE Verified
  <2>1. At("cmd_verify", "verified")
    BY <1>14 DEF Verified, Reached
  <2>2. CASE Goto("scanned") /\ UNCHANGED shadows
    BY <1>3, <1>4, <1>8, <2>1, <2>2, SightGoes
  <2>3. CASE AskReviewer("scan", "scanned")
    BY <1>2, <1>4, <1>6, <1>8, <2>1, <2>3
  <2>4. QED
    BY <1>1, <1>8, <1>14, <2>2, <2>3 DEF Verified
<1>15. CASE VerifyScanned
  <2>1. At("cmd_verify", "scanned")
    BY <1>15 DEF VerifyScanned, Reached
  <2>2. CASE Goto("reviewed") /\ UNCHANGED shadows
    BY <1>3, <1>4, <1>8, <2>1, <2>2, SightGoes
  <2>3. CASE AskReviewer("review", "reviewed")
    BY <1>2, <1>4, <1>5, <1>8, <2>1, <2>3
  <2>4. QED
    BY <1>15, <2>2, <2>3 DEF VerifyScanned
<1>16. CASE VerifyReviewed
  BY <1>1, <1>8, <1>16 DEF VerifyReviewed
<1>17. CASE Plan
  <2>1. At("cmd_apply", "loaded")
    BY <1>17 DEF Plan, Reached
  <2>2. CASE Goto("reviewed") /\ UNCHANGED shadows
    BY <1>3, <1>4, <1>8, <2>1, <2>2, SightGoes
  <2>3. CASE AskReviewer("review", "reviewed")
    BY <1>2, <1>4, <1>5, <1>8, <2>1, <2>3
  <2>4. QED
    BY <1>1, <1>8, <1>17, <2>2, <2>3 DEF Plan
<1>18. CASE Confirm
  <2>1. At("cmd_apply", "reviewed")
    BY <1>18 DEF Confirm, Reached
  <2>2. CASE Goto("asked") /\ UNCHANGED shadows
    BY <1>3, <1>4, <1>8, <2>1, <2>2, SightGoes
  <2>3. CASE Goto("confirmed") /\ UNCHANGED shadows
    BY <1>3, <1>4, <1>8, <2>1, <2>3, SightGoes
  <2>4. QED
    BY <1>1, <1>8, <1>18, <2>2, <2>3 DEF Confirm
<1>18a. CASE Answer
  <2>1. At("cmd_apply", "asked")
    BY <1>18a DEF Answer, Reached
  <2>2. CASE Goto("confirmed") /\ UNCHANGED shadows
    BY <1>3, <1>4, <1>8, <2>1, <2>2, SightGoes
  <2>3. QED
    BY <1>1, <1>8, <1>18a, <2>2 DEF Answer
<1>18b. CASE AcquireLease
  <2>1. At("cmd_apply", "confirmed")
    BY <1>18b DEF AcquireLease, Reached
  <2>2. CASE Goto("execute") /\ UNCHANGED shadows
    BY <1>3, <1>4, <1>8, <2>1, <2>2, SightGoes
  <2>3. CASE Invoke("load", "sides", "refreshed") /\ UNCHANGED shadows
    BY <1>4, <1>7, <1>8, <2>1, <2>3, SightInvokes
  <2>4. CASE \E code : Decide(code)
    BY <1>1, <1>8, <2>4
  <2>5. QED
    BY <1>18b, <2>2, <2>3, <2>4 DEF AcquireLease
<1>19. CASE Refreshed
  <2>1. At("cmd_apply", "refreshed")
    BY <1>19 DEF Refreshed, Reached
  <2>2. CASE Goto("execute") /\ UNCHANGED shadows
    BY <1>3, <1>4, <1>8, <2>1, <2>2, SightGoes
  <2>3. QED
    BY <1>1, <1>8, <1>19, <2>2 DEF Refreshed
<1>20. CASE Execute
  <2>1. At("cmd_apply", "execute")
    BY <1>20 DEF Execute, Reached
  <2>2. CASE Goto("residual") /\ UNCHANGED shadows
    BY <1>3, <1>4, <1>8, <2>1, <2>2, SightGoes
  <2>3. CASE Invoke("canonicalize", "target", "residual") /\ UNCHANGED shadows
    BY <1>4, <1>7, <1>8, <2>1, <2>3, SightInvokes
  <2>4. QED
    BY <1>1, <1>8, <1>20, <2>2, <2>3 DEF Execute
<1>21. CASE Residual
  <2>1. At("cmd_apply", "residual") /\ UNCHANGED shadows
    BY <1>21 DEF Residual, Reached
  <2>2. CASE Goto("release")
    BY <1>3, <1>4, <1>8, <2>1, <2>2, SightGoes
  <2>3. CASE Invoke("checks", "target", "checked")
    BY <1>4, <1>7, <1>8, <2>1, <2>3, SightInvokes
  <2>4. CASE Invoke("materialize", "source_replica", "compare")
    BY <1>4, <1>7, <1>8, <2>1, <2>4, SightInvokes
  <2>5. QED
    BY <1>21, <2>2, <2>3, <2>4 DEF Residual
<1>22. CASE Compared
  <2>1. /\ At("cmd_apply", "compare") /\ UNCHANGED shadows
        /\ Invoke("checks", "target", "checked")
    BY <1>22 DEF Compared, Reached
  <2>2. QED
    BY <1>4, <1>7, <1>8, <2>1, SightInvokes
<1>23. CASE Checked
  <2>1. At("cmd_apply", "checked")
    BY <1>23 DEF Checked, Reached
  <2>2. CASE Goto("scanned") /\ UNCHANGED shadows
    BY <1>3, <1>4, <1>8, <2>1, <2>2, SightGoes
  <2>3. CASE AskReviewer("scan", "scanned")
    BY <1>2, <1>4, <1>6, <1>8, <2>1, <2>3
  <2>4. QED
    BY <1>23, <2>2, <2>3 DEF Checked
<1>24. CASE Scanned
  BY <1>24, SightScanned
<1>25. CASE Release
  BY <1>1, <1>8, <1>25 DEF Release
<1>26. QED
  BY <1>9, <1>10, <1>11, <1>12, <1>13, <1>14, <1>15, <1>16, <1>17, <1>18, <1>18a,
     <1>18b, <1>19,
     <1>20, <1>21, <1>22, <1>23, <1>24, <1>25 DEF CommandStep

LEMMA SightInit == ASSUME Init PROVE SightInv
<1>1. stack = <<Frame(call.command, "all")>> /\ call \in Calls
  BY DEF Init
<1>2. call.command \in Commands
  BY <1>1, CallsAssumption DEF CallOK
<1>3. /\ \A k \in 0..(Len(stack) - 1) : k = 0
      /\ Up(0) = Frame(call.command, "all")
  BY <1>1 DEF Up
<1>4. SeesTheSides(Up(0))
  BY <1>2, <1>3 DEF SeesTheSides, Frame, Commands
<1>5. QED
  BY <1>3, <1>4 DEF SightInv

LEMMA SightStill == ASSUME SightInv, UNCHANGED vars PROVE SightInv'
<1>1. /\ UNCHANGED <<stack, shadows, converged>>
      /\ \A k : Up(k)' = Up(k)
  BY DEF vars, Up
<1>2. \A k : SeesTheSides(Up(k)) => SeesTheSides(Up(k))'
  BY <1>1 DEF SeesTheSides, Exists, Up
<1>3. QED
  BY <1>1, <1>2 DEF SightInv

(* What a step does to the databases, and what the frames see after it. *)
LEMMA SightStep ==
  ASSUME Shape, HoldInv, SightInv, [Next]_vars
  PROVE  SightInv' /\ (Faithful \/ UNCHANGED vars)
<1>1. HoldInv'
  BY HoldStep
<1>2. CASE CommandStep
  BY <1>2, SightCommand DEF Gently
<1>3. CASE Resolve \/ Resolved \/ LoadSource \/ LoadTarget \/ Compare \/ Loaded
  BY <1>1, <1>3, SightLoad DEF Gently
<1>4. CASE Canonicalize \/ Canonicalized
  BY <1>1, <1>4, SightCanonicalize DEF Gently
<1>5. CASE Materialize \/ Bootstrap \/ Materialized
  BY <1>1, <1>5, SightMaterialize DEF Gently
<1>6. CASE VerifyStart \/ VerifyCreate \/ VerifyRun \/ VerifyEnd
  BY <1>1, <1>6, SightVerify DEF Gently
<1>7. CASE \/ RehearseBootstrap \/ RehearseMigrate \/ Rediff \/ Comparable
           \/ FlywayReplica \/ FlywayStart \/ FlywayExits
           \/ ExternalStart \/ ExternalExits \/ RehearseEnd
  BY <1>1, <1>7, SightRehearse DEF Gently
<1>8. CASE StartTool \/ ToolExits \/ Ask \/ CallProvider \/ ReviewerExits
  BY <1>1, <1>8, SightTools DEF Gently
<1>9. CASE UNCHANGED vars
  BY <1>9, SightStill
<1>10. QED
  BY <1>2, <1>3, <1>4, <1>5, <1>6, <1>7, <1>8, <1>9, NextSplits DEF InsideStep

(* A checker's caller owns what the checker compares. *)
LEMMA CheckersSee == ASSUME Shape, HoldInv, SightInv PROVE CheckersSeeTheSides
<1>1. "source_replica" \in Roles /\ "flyway_replica" \in Roles
  BY DEF Roles, Replicas
<1>2. ASSUME Waiting("checks")
      PROVE  /\ ~Waiting("rehearse")
             /\ call.sides["source"] # "url" => Exists("source_replica", {"source"})
             /\ Caller = "rehearse" =>
                  Exists("replica", IF converged THEN {"source"} ELSE {"other"})
  <2>1. /\ stack # <<>> /\ stack[1].proc = "checks" /\ ~Waiting("rehearse")
        /\ stack[1].proc \notin Commands
    BY <1>2, TopFrame DEF Waiting, Shape, Commands
  <2>2. /\ Len(stack) \in Nat \ {0} /\ Len(stack) > 1 /\ stack[2] = Up(Len(stack) - 2)
        /\ CallsNow(stack[2], stack[1])
    BY <2>1, Chain
  <2>3. stack[2].proc \in {"rehearse", "cmd_apply"} /\ stack[2].at = "checked"
    BY <2>1, <2>2 DEF CallsNow, CallSite
  <2>4. Len(stack) - 2 \in 0..(Len(stack) - 2) /\ Len(stack) - 2 \in 0..(Len(stack) - 1)
    BY <2>2
  <2>5. FrameOK(stack[2], FALSE)
    BY <2>1, <2>2, <2>4, FramesBelow DEF HoldInv, Accounted
  <2>6. SeesTheSides(stack[2])
    BY <2>2, <2>4 DEF SightInv
  <2>7. call.sides["source"] # "url" => "source_replica" \in stack[2].owns
    BY <1>1, <2>3, <2>5 DEF FrameOK, Due
  <2>8. QED
    BY <2>1, <2>3, <2>6, <2>7 DEF SeesTheSides, Caller
<1>3. ASSUME Waiting("rehearse")
      PROVE  /\ ~Waiting("checks") /\ stack # <<>> /\ stack[1].proc = "rehearse"
             /\ Head(stack) = stack[1] /\ SeesTheSides(stack[1])
             /\ stack[1].owns =
                  Due(stack[1].proc, stack[1].about, stack[1].at, result = "ok")
  <2>1. /\ stack # <<>> /\ stack[1].proc = "rehearse" /\ ~Waiting("checks")
        /\ Head(stack) = stack[1]
    BY <1>3, TopFrame DEF Waiting, Shape
  <2>2. /\ Len(stack) \in Nat \ {0} /\ Len(stack) - 1 \in 0..(Len(stack) - 1)
        /\ stack[1] = Up(Len(stack) - 1)
    BY <2>1, Chain
  <2>3. SeesTheSides(stack[1])
    BY <2>2 DEF SightInv
  <2>4. QED
    BY <2>1, <2>3, HoldBase
<1>4. ASSUME Waiting("rehearse"), Head(stack).at = "outside"
      PROVE  /\ call.sides["source"] # "url" => Exists("source_replica", {"source"})
             /\ Exists("replica", IF converged THEN {"source"} ELSE {"other"})
  <2>1. stack[1].proc = "rehearse" /\ stack[1].at = "outside" /\ SeesTheSides(stack[1])
    BY <1>3, <1>4
  <2>2. call.sides["source"] # "url" => "source_replica" \in stack[1].owns
    BY <1>1, <1>3, <1>4, <2>1 DEF Due
  <2>3. QED
    BY <2>1, <2>2 DEF SeesTheSides
<1>5. ASSUME Waiting("rehearse"), Head(stack).at = "flying"
      PROVE  Exists("flyway_replica", {"target"})
  <2>1. stack[1].proc = "rehearse" /\ stack[1].at = "flying" /\ SeesTheSides(stack[1])
    BY <1>3, <1>5
  <2>2. "flyway_replica" \in stack[1].owns
    BY <1>1, <1>3, <1>5, <2>1 DEF Due
  <2>3. QED
    BY <2>1, <2>2 DEF SeesTheSides
<1>6. QED
  BY <1>2, <1>4, <1>5 DEF CheckersSeeTheSides

(* The reports are evidence about this migration: a running checker finds  *)
(* the migrated replica and the source, or its faithful replica; flyway, a *)
(* fresh copy of the target; no step rewrites a database that is compared; *)
(* and a PostgreSQL target is migrated and checked under the lease.        *)
THEOREM EvidenceHolds == Spec => EvidenceIsGenuine
<1> DEFINE Inv == Shape /\ AskInv /\ HoldInv /\ SightInv
<1>1. Init => Inv
  BY ShapeInit, AskInit, HoldInit, SightInit
<1>2. Inv /\ [Next]_vars => Inv'
  BY ShapeStep, AskStep, HoldStep, SightStep
<1>3. Inv => CheckersSeeTheSides /\ LeaseCoversEvidence
  BY CheckersSee, WritingPlaces DEF AskInv, Asked, Committed, LeaseCoversEvidence
<1>4. Inv /\ [Next]_vars => [Faithful]_vars
  BY SightStep
<1>5. Spec => [][Faithful]_vars /\ [](CheckersSeeTheSides /\ LeaseCoversEvidence)
  <2> HIDE DEF Inv
  <2> QED
    BY <1>1, <1>2, <1>3, <1>4, PTL DEF Spec
<1>6. QED
  BY <1>5, PTL DEF EvidenceIsGenuine, OnlyFaithfulReplicas, Faithful

-----------------------------------------------------------------------------
(* Agreement is silence: the fold of liquibase_violations, line by line.   *)

(* Induction over the naturals, for a set of them. *)
LEMMA Induct ==
  ASSUME NEW T \in SUBSET Nat, 0 \in T, \A n \in T : n + 1 \in T
  PROVE  \A n \in Nat : n \in T
<1> DEFINE R == {p \in Nat \X Nat : p[1] < p[2]}
           U == Nat \ T
<1>1. SUFFICES ASSUME U # {} PROVE FALSE
  OBVIOUS
<1>2. PICK x \in U : \A y \in U : ~(<<y, x>> \in R)
  <2>1. IsWellFoundedOn(R, Nat) /\ U \subseteq Nat
    BY LessIsWellFounded
  <2> HIDE DEF R, U
  <2> QED
    BY <1>1, <2>1, WFMin
<1>3. x \in Nat /\ x # 0 /\ x \notin T
  OBVIOUS
<1>4. x - 1 \in Nat /\ x - 1 + 1 = x /\ x - 1 < x
  BY <1>3
<1>5. x - 1 \notin U
  <2>1. <<x - 1, x>> \in Nat \X Nat /\ <<x - 1, x>>[1] = x - 1 /\ <<x - 1, x>>[2] = x
    BY <1>3, <1>4
  <2>2. <<x - 1, x>> \in R
    BY <1>4, <2>1
  <2>3. QED
    BY <1>2, <2>2
<1>6. x - 1 \in T
  BY <1>4, <1>5
<1>7. x \in T
  BY <1>4, <1>6
<1>8. QED
  BY <1>3, <1>7

(* What a fold over lines is made of. *)
LEMMA MaxIs ==
  ASSUME NEW S \in SUBSET Int, NEW m \in S, \A y \in S : m >= y
  PROVE  Max(S) = m
<1>1. \A x \in S : (\A y \in S : x >= y) => x = m
  OBVIOUS
<1>2. QED
  BY <1>1 DEF Max

(* The states of the fold, line after line. *)
Step(p, g, s) == IF s = {} THEN Closed ELSE Read(g[s \ {Max(s)}], p[Max(s)])

LEMMA FoldExists ==
  ASSUME NEW p
  PROVE  \A n \in Nat : \E g : g = [s \in SUBSET (1..n) |-> Step(p, g, s)]
<1> DEFINE T == {n \in Nat : \E g : g = [s \in SUBSET (1..n) |-> Step(p, g, s)]}
<1>1. 0 \in T
  <2> DEFINE g == [s \in SUBSET (1..0) |-> Closed]
  <2>1. 1..0 = {}
    OBVIOUS
  <2>2. \A s \in SUBSET (1..0) : Step(p, g, s) = Closed
    BY <2>1 DEF Step
  <2>3. g = [s \in SUBSET (1..0) |-> Step(p, g, s)]
    BY <2>2
  <2>4. QED
    BY <2>3
<1>2. ASSUME NEW n \in T PROVE n + 1 \in T
  <2>1. PICK g : g = [s \in SUBSET (1..n) |-> Step(p, g, s)]
    OBVIOUS
  <2>2. n \in Nat
    OBVIOUS
  <2> DEFINE h == [s \in SUBSET (1..(n + 1)) |->
                     IF n + 1 \in s THEN Read(g[s \ {n + 1}], p[n + 1]) ELSE g[s]]
  <2>3. ASSUME NEW s \in SUBSET (1..(n + 1)) PROVE h[s] = Step(p, h, s)
    <3>1. CASE n + 1 \in s
      <4>1. s # {} /\ s \ {n + 1} \in SUBSET (1..n) /\ s \ {n + 1} \in SUBSET (1..(n + 1))
        BY <2>2, <3>1
      <4>2. Max(s) = n + 1
        <5>1. s \in SUBSET Int /\ \A y \in s : n + 1 >= y
          BY <2>2
        <5>2. QED
          BY <3>1, <5>1, MaxIs
      <4>3. h[s \ {n + 1}] = g[s \ {n + 1}]
        BY <4>1
      <4>4. h[s] = Read(g[s \ {n + 1}], p[n + 1])
        BY <3>1
      <4> HIDE DEF h
      <4>5. QED
        BY <4>1, <4>2, <4>3, <4>4 DEF Step
    <3>2. CASE n + 1 \notin s
      <4>1. s \in SUBSET (1..n)
        BY <2>2, <3>2
      <4>2. h[s] = g[s] /\ g[s] = Step(p, g, s)
        BY <2>1, <3>2, <4>1
      <4>3. ASSUME s # {} PROVE h[s \ {Max(s)}] = g[s \ {Max(s)}]
        <5>1. s \ {Max(s)} \in SUBSET (1..n) /\ s \ {Max(s)} \in SUBSET (1..(n + 1))
          BY <4>1
        <5>2. n + 1 \notin s \ {Max(s)}
          BY <3>2
        <5>3. QED
          BY <5>1, <5>2
      <4> HIDE DEF h
      <4>4. QED
        BY <4>2, <4>3 DEF Step
    <3>3. QED
      BY <3>1, <3>2
  <2>4. h = [s \in SUBSET (1..(n + 1)) |-> Step(p, h, s)]
    BY <2>3
  <2> HIDE DEF h
  <2>5. \E f : f = [s \in SUBSET (1..(n + 1)) |-> Step(p, f, s)]
    BY <2>4
  <2>6. n + 1 \in Nat
    BY <2>2
  <2>7. QED
    BY <2>5, <2>6
<1>3. QED
  <2> HIDE DEF T
  <2>1. \A n \in Nat : n \in T
    BY <1>1, <1>2, Induct DEF T
  <2>2. QED
    BY <2>1 DEF T

LEMMA FoldStates ==
  ASSUME NEW S, NEW p \in Seq(S)
  PROVE  \E st : /\ st[0] = Closed
                 /\ \A k \in 1..Len(p) : st[k] = Read(st[k - 1], p[k])
                 /\ FoldLeft(Read, Closed, p) = st[Len(p)]
<1> DEFINE n == Len(p)
<1>1. n \in Nat /\ DOMAIN p = 1..n
  OBVIOUS
<1> DEFINE iter == CHOOSE g : g = [s \in SUBSET (1..n) |-> Step(p, g, s)]
<1>2. iter = [s \in SUBSET (1..n) |-> Step(p, iter, s)]
  BY <1>1, FoldExists
<1>3. FoldLeft(Read, Closed, p) = iter[1..n]
  BY <1>1 DEF FoldLeft, MapThenFoldSet, Step
<1> DEFINE st == [k \in 0..n |-> iter[1..k]]
<1>4. \A k \in 0..n : 1..k \in SUBSET (1..n)
  BY <1>1
<1>5. st[0] = Closed
  <2>1. 1..0 = {} /\ 0 \in 0..n
    BY <1>1
  <2>2. iter[{}] = Step(p, iter, {})
    BY <1>2
  <2>3. QED
    BY <2>1, <2>2 DEF Step
<1>6. ASSUME NEW k \in 1..n PROVE st[k] = Read(st[k - 1], p[k])
  <2>1. /\ k \in 0..n /\ k - 1 \in 0..n /\ 1..k # {} /\ Max(1..k) = k
        /\ (1..k) \ {k} = 1..(k - 1)
    <3>1. /\ k \in 1..k /\ 1..k \in SUBSET Int /\ \A y \in 1..k : k >= y
          /\ k \in 0..n /\ k - 1 \in 0..n /\ (1..k) \ {k} = 1..(k - 1)
      BY <1>1
    <3>2. QED
      BY <3>1, MaxIs
  <2>2. iter[1..k] = Step(p, iter, 1..k)
    BY <1>2, <1>4, <2>1
  <2> HIDE DEF iter
  <2>3. iter[1..k] = Read(iter[1..(k - 1)], p[k])
    BY <2>1, <2>2 DEF Step
  <2>4. QED
    BY <2>1, <2>3
<1>7. QED
  <2>1. st[n] = iter[1..n]
    BY <1>1
  <2> HIDE DEF iter
  <2>2. QED
    BY <1>3, <1>5, <1>6, <2>1

LineStates ==
  [category : {"none", "missing", "changed"}, open : BOOLEAN,
   details : SUBSET {"order", "detail"}, found : Nat]

(* Entries are only ever found to be differences, never taken back, and    *)
(* one that is closed without an excuse is.                                *)
LEMMA Flushed ==
  ASSUME NEW s \in LineStates
  PROVE  /\ Flush(s) \in LineStates /\ Flush(s).category = s.category
         /\ Flush(s).details = {} /\ Flush(s).found >= s.found
         /\ (s.open /\ Flush(s).found = s.found) => Excused(s)
<1>1. PICK b \in BOOLEAN : b = (s.open /\ ~Excused(s))
  BY DEF Excused, LineStates
<1>2. PICK f \in Nat : f = IF b THEN s.found + 1 ELSE s.found
  BY DEF LineStates
<1>3. Flush(s) = [s EXCEPT !.open = FALSE, !.details = {}, !.found = f]
  <2>1. Flush(s) = [s EXCEPT !.open = FALSE, !.details = {},
                             !.found = IF b THEN s.found + 1 ELSE s.found]
    BY <1>1 DEF Flush
  <2>2. QED
    BY <1>2, <2>1
<1>4. /\ Flush(s).category = s.category /\ Flush(s).details = {}
      /\ Flush(s).found = f /\ Flush(s) \in LineStates
  BY <1>3 DEF LineStates
<1>5. s.found \in Nat /\ f >= s.found /\ (f = s.found => ~b)
  BY <1>2 DEF LineStates
<1>6. ASSUME s.open, f = s.found PROVE Excused(s)
  BY <1>1, <1>5, <1>6
<1>7. QED
  BY <1>4, <1>5, <1>6

(* What a line does to the entry that is open. *)
Reads(s, line, r) ==
  /\ r \in LineStates /\ r.found >= s.found
  /\ line \in {"missing", "changed"} => r.category = line
  /\ line \in {"object", "order", "detail"} => r.category = s.category
  /\ (line = "object" /\ s.category # "none") => r.open /\ r.details = {}
  /\ (line \in {"order", "detail"} /\ s.open) =>
       r.open /\ r.details = s.details \cup {line}
  /\ (line \notin {"order", "detail"} /\ s.category # "none" /\ s.open
        /\ r.found = s.found) => Excused(s)

LEMMA ReadLine ==
  ASSUME NEW s \in LineStates, NEW line \in LiquibaseLines
  PROVE  Reads(s, line, Read(s, line))
<1>0. PICK r : r = Read(s, line)
  OBVIOUS
<1>1. PICK f : f = Flush(s)
  OBVIOUS
<1>2. /\ f \in LineStates /\ f.category = s.category /\ f.details = {}
      /\ f.found >= s.found /\ (s.open /\ f.found = s.found => Excused(s))
  BY <1>1, Flushed
<1>3. ASSUME line \in {"equal", "text"} PROVE Reads(s, line, r)
  <2>1. r = [f EXCEPT !.category = "none"]
    BY <1>0, <1>1, <1>3 DEF Read
  <2>2. r \in LineStates /\ r.found = f.found
    BY <1>2, <2>1 DEF LineStates
  <2>3. QED
    BY <1>2, <1>3, <2>2 DEF Reads
<1>4. ASSUME line \in {"missing", "changed"} PROVE Reads(s, line, r)
  <2>1. r = [f EXCEPT !.category = line]
    BY <1>0, <1>1, <1>4 DEF Read
  <2>2. r \in LineStates /\ r.found = f.found /\ r.category = line
    BY <1>2, <1>4, <2>1 DEF LineStates
  <2>3. QED
    BY <1>2, <1>4, <2>2 DEF Reads
<1>5. ASSUME line = "object" /\ s.category # "none" PROVE Reads(s, line, r)
  <2>1. r = [f EXCEPT !.open = TRUE]
    BY <1>0, <1>1, <1>5 DEF Read
  <2>2. /\ r \in LineStates /\ r.found = f.found /\ r.category = f.category
        /\ r.open /\ r.details = f.details
    BY <1>2, <2>1 DEF LineStates
  <2>3. QED
    BY <1>2, <1>5, <2>2 DEF Reads
<1>6. ASSUME line \in {"order", "detail"} /\ s.open PROVE Reads(s, line, r)
  <2>1. r = [s EXCEPT !.details = s.details \cup {line}]
    BY <1>0, <1>6 DEF Read
  <2>2. /\ r \in LineStates /\ r.found = s.found /\ r.category = s.category
        /\ r.open /\ r.details = s.details \cup {line}
    BY <1>6, <2>1 DEF LineStates
  <2>3. QED
    BY <1>6, <2>2 DEF LineStates, Reads
<1>7. ASSUME \/ line = "object" /\ s.category = "none"
             \/ line \in {"order", "detail"} /\ ~s.open
      PROVE  Reads(s, line, r)
  <2>1. r = s
    BY <1>0, <1>7 DEF Read
  <2>2. QED
    BY <1>7, <2>1 DEF LineStates, Reads
<1>8. Reads(s, line, r)
  BY <1>3, <1>4, <1>5, <1>6, <1>7 DEF LiquibaseLines
<1>9. QED
  BY <1>0, <1>8

(* An object under a category that counts is excused by its details, or it *)
(* is a difference.                                                        *)
LEMMA ObjectsAreExcused ==
  ASSUME NEW p \in Seq(LiquibaseLines), Violations(p) = 0,
         NEW i \in DOMAIN p, p[i] = "object", Category(p, i) \in {"missing", "changed"}
  PROVE  Category(p, i) = "changed" /\ DetailsOf(p, i) = {"order"}
<1> DEFINE n == Len(p)
<1>1. n \in Nat /\ DOMAIN p = 1..n /\ i \in 1..n /\ \A k \in 1..n : p[k] \in LiquibaseLines
  OBVIOUS
<1>2. PICK st : /\ st[0] = Closed
                /\ \A k \in 1..n : st[k] = Read(st[k - 1], p[k])
                /\ FoldLeft(Read, Closed, p) = st[n]
  BY FoldStates
<1> HIDE DEF n
<1>3. \A k \in 0..n : st[k] \in LineStates
  <2> DEFINE T == {k \in Nat : k <= n => st[k] \in LineStates}
  <2>1. 0 \in T
    <3>1. st[0] \in LineStates
      BY <1>2 DEF Closed, LineStates
    <3>2. QED
      BY <3>1
  <2>2. ASSUME NEW k \in T PROVE k + 1 \in T
    <3>1. k \in Nat /\ k + 1 \in Nat /\ (k + 1) - 1 = k
      OBVIOUS
    <3>2. ASSUME k + 1 <= n PROVE st[k + 1] \in LineStates
      <4>1. k + 1 \in 1..n /\ st[k] \in LineStates
        BY <1>1, <3>1, <3>2
      <4>2. st[k + 1] = Read(st[k], p[k + 1]) /\ p[k + 1] \in LiquibaseLines
        BY <1>1, <1>2, <3>1, <4>1
      <4>3. Reads(st[k], p[k + 1], Read(st[k], p[k + 1]))
        BY <4>1, <4>2, ReadLine
      <4>4. QED
        BY <4>2, <4>3 DEF Reads
    <3>3. QED
      BY <3>1, <3>2
  <2> HIDE DEF T
  <2>3. \A k \in Nat : k \in T
    BY <2>1, <2>2, Induct DEF T
  <2>4. QED
    BY <1>1, <2>3 DEF T
<1>4. ASSUME NEW k \in 1..n
      PROVE  /\ st[k - 1] \in LineStates /\ st[k] = Read(st[k - 1], p[k])
             /\ p[k] \in LiquibaseLines /\ Reads(st[k - 1], p[k], st[k])
  <2>1. k - 1 \in 0..n
    BY <1>1
  <2>2. /\ st[k - 1] \in LineStates /\ st[k] = Read(st[k - 1], p[k])
        /\ p[k] \in LiquibaseLines
    BY <1>1, <1>2, <1>3, <2>1
  <2>3. Reads(st[k - 1], p[k], Read(st[k - 1], p[k]))
    BY <2>2, ReadLine
  <2>4. QED
    BY <2>2, <2>3
<1>5. Flush(st[n]).found = 0 /\ st[n] \in LineStates /\ st[n].found = 0
  <2>1. st[n] \in LineStates
    BY <1>1, <1>3
  <2>2. Flush(st[n]).found = 0
    BY <1>2 DEF Violations
  <2>3. QED
    BY <2>1, <2>2, Flushed DEF LineStates
<1>6. \A k \in 0..n : st[k].found = 0
  <2> DEFINE T == {d \in Nat : d <= n => st[n - d].found = 0}
  <2>1. 0 \in T
    BY <1>1, <1>5
  <2>2. ASSUME NEW d \in T PROVE d + 1 \in T
    <3>1. d \in Nat /\ d + 1 \in Nat
      OBVIOUS
    <3>2. ASSUME d + 1 <= n PROVE st[n - (d + 1)].found = 0
      <4>1. PICK k \in 1..n : k = n - d
        BY <1>1, <3>1, <3>2
      <4>2. n - (d + 1) = k - 1 /\ st[k].found = 0
        BY <1>1, <3>1, <3>2, <4>1
      <4>3. st[k].found >= st[k - 1].found
        BY <1>4 DEF Reads
      <4>4. QED
        BY <1>4, <4>2, <4>3 DEF LineStates
    <3>3. QED
      BY <3>1, <3>2
  <2> HIDE DEF T
  <2>3. \A d \in Nat : d \in T
    BY <2>1, <2>2, Induct DEF T
  <2>4. ASSUME NEW k \in 0..n PROVE st[k].found = 0
    <3>1. n - k \in Nat /\ n - k <= n /\ n - (n - k) = k
      BY <1>1
    <3>2. QED
      BY <2>3, <3>1 DEF T
  <2>5. QED
    BY <2>4
<1>7. PICK c : c = Category(p, i)
  OBVIOUS
<1> DEFINE heads == {"equal", "text", "missing", "changed"}
           I == {j \in 1..i : p[j] \in heads}
<1>8. PICK m \in I : c = p[m] /\ \A j \in I : m >= j
  <2>1. c = LET at == IF I # {} THEN Max(I) ELSE 0 IN IF at = 0 THEN "text" ELSE p[at]
    BY <1>7 DEF Category, SelectLastInSubSeq
  <2>2. I # {}
    BY <1>7, <2>1
  <2>3. PICK m \in I : \A j \in I : m >= j
    <3>1. i \in Nat /\ I \in SUBSET (1..i)
      BY <1>1
    <3> HIDE DEF I
    <3>2. QED
      BY <2>2, <3>1, LastExists
  <2>4. Max(I) = m
    <3>1. I \in SUBSET Int
      OBVIOUS
    <3> HIDE DEF I
    <3>2. QED
      BY <2>3, <3>1, MaxIs
  <2>5. m # 0
    OBVIOUS
  <2>6. QED
    BY <2>1, <2>2, <2>3, <2>4, <2>5
<1>9. m \in 1..n /\ m < i /\ c \in {"missing", "changed"}
  BY <1>1, <1>7, <1>8
<1>10. st[i - 1].category = c
  <2> DEFINE T == {d \in Nat : m + d < i => st[m + d].category = c}
  <2>1. 0 \in T
    <3>1. st[m].category = c
      BY <1>4, <1>8, <1>9 DEF Reads
    <3>2. m + 0 = m
      BY <1>9
    <3>3. QED
      BY <3>1, <3>2
  <2>2. ASSUME NEW d \in T PROVE d + 1 \in T
    <3>1. d \in Nat /\ d + 1 \in Nat
      OBVIOUS
    <3>2. ASSUME m + (d + 1) < i PROVE st[m + (d + 1)].category = c
      <4>1. PICK k \in 1..n : k = m + (d + 1)
        BY <1>1, <1>9, <3>1, <3>2
      <4>2. k - 1 = m + d /\ m + d < i /\ k > m /\ k \in 1..i
        BY <1>1, <1>9, <3>1, <3>2, <4>1
      <4>3. st[k - 1].category = c
        BY <4>2
      <4>4. p[k] \in {"object", "order", "detail"}
        BY <1>1, <1>8, <1>9, <4>2 DEF LiquibaseLines
      <4>5. st[k].category = c
        BY <1>4, <4>3, <4>4 DEF Reads
      <4>6. QED
        BY <4>1, <4>5
    <3>3. QED
      BY <3>1, <3>2
  <2> HIDE DEF T
  <2>3. \A d \in Nat : d \in T
    BY <2>1, <2>2, Induct DEF T
  <2>4. (i - 1) - m \in Nat /\ m + ((i - 1) - m) = i - 1 /\ i - 1 < i
    BY <1>1, <1>9
  <2>5. QED
    BY <2>3, <2>4 DEF T
<1>11. st[i].open /\ st[i].category = c /\ st[i].details = {}
  BY <1>1, <1>4, <1>9, <1>10 DEF Reads
<1> DEFINE J == {j \in (i + 1)..n : p[j] \notin {"order", "detail"}}
<1>12. PICK q \in (i + 1)..(n + 1) :
         /\ \A j \in (i + 1)..(q - 1) : p[j] \in {"order", "detail"}
         /\ q <= n => p[q] \notin {"order", "detail"}
         /\ DetailsOf(p, i) = {p[j] : j \in (i + 1)..(q - 1)}
  <2>1. DetailsOf(p, i) = LET next == IF J # {} THEN Min(J) ELSE 0
                          IN  {p[j] : j \in (i + 1)..(IF next = 0 THEN n ELSE next - 1)}
    BY DEF DetailsOf, SelectInSubSeq, n
  <2>2. CASE J = {}
    <3>1. n + 1 \in (i + 1)..(n + 1) /\ (n + 1) - 1 = n
      BY <1>1
    <3>2. DetailsOf(p, i) = {p[j] : j \in (i + 1)..((n + 1) - 1)}
      BY <2>1, <2>2, <3>1
    <3>3. QED
      BY <1>1, <2>2, <3>1, <3>2
  <2>3. CASE J # {}
    <3>1. J \in SUBSET Nat
      BY <1>1
    <3>2. Min(J) \in J /\ \A j \in J : Min(J) <= j
      <4> HIDE DEF J
      <4>1. \E j \in J : \A k \in J : j <= k
        BY <2>3, <3>1, FirstExists
      <4>2. QED
        BY <4>1 DEF Min
    <3>3. PICK q \in J : q = Min(J)
      BY <3>2
    <3>4. /\ q \in (i + 1)..(n + 1) /\ q # 0 /\ p[q] \notin {"order", "detail"}
          /\ \A j \in (i + 1)..(q - 1) : p[j] \in {"order", "detail"}
      <4>1. /\ q \in (i + 1)..n /\ q \in (i + 1)..(n + 1) /\ q # 0
            /\ p[q] \notin {"order", "detail"}
        BY <1>1, <3>3
      <4>2. ASSUME NEW j \in (i + 1)..(q - 1) PROVE p[j] \in {"order", "detail"}
        <5>1. j \in (i + 1)..n /\ ~(q <= j)
          BY <1>1, <4>1
        <5>2. j \notin J
          BY <3>2, <3>3, <5>1
        <5>3. QED
          BY <5>1, <5>2
      <4>3. QED
        BY <4>1, <4>2
    <3>5. DetailsOf(p, i) = {p[j] : j \in (i + 1)..(q - 1)}
      BY <2>1, <2>3, <3>3, <3>4
    <3>6. QED
      BY <3>4, <3>5
  <2>4. QED
    BY <2>2, <2>3
<1>13. st[q - 1].open /\ st[q - 1].category = c /\ st[q - 1].details = DetailsOf(p, i)
  <2> DEFINE Kept(l) == /\ st[l].open /\ st[l].category = c
                        /\ st[l].details = {p[j] : j \in (i + 1)..l}
             T == {d \in Nat : i + d <= q - 1 => Kept(i + d)}
  <2>1. 0 \in T
    <3>1. i + 0 = i /\ (i + 1)..i = {}
      BY <1>1
    <3>2. QED
      BY <1>11, <3>1
  <2>2. ASSUME NEW d \in T PROVE d + 1 \in T
    <3>1. d \in Nat /\ d + 1 \in Nat
      OBVIOUS
    <3>2. ASSUME i + (d + 1) <= q - 1 PROVE Kept(i + (d + 1))
      <4>1. PICK k \in 1..n : k = i + (d + 1)
        BY <1>1, <1>12, <3>1, <3>2
      <4>2. /\ k - 1 = i + d /\ i + d <= q - 1 /\ k \in (i + 1)..(q - 1)
            /\ (i + 1)..k = ((i + 1)..(k - 1)) \cup {k}
        BY <1>1, <1>12, <3>1, <3>2, <4>1
      <4>3. Kept(k - 1)
        BY <4>2
      <4>4. p[k] \in {"order", "detail"}
        BY <1>12, <4>2
      <4>5. /\ st[k].open /\ st[k].category = c
            /\ st[k].details = {p[j] : j \in (i + 1)..(k - 1)} \cup {p[k]}
        BY <1>4, <4>3, <4>4 DEF Reads
      <4>6. {p[j] : j \in (i + 1)..k} = {p[j] : j \in (i + 1)..(k - 1)} \cup {p[k]}
        BY <4>2
      <4>7. QED
        BY <4>1, <4>5, <4>6
    <3>3. QED
      BY <3>1, <3>2
  <2> HIDE DEF T
  <2>3. \A d \in Nat : d \in T
    BY <2>1, <2>2, Induct DEF T
  <2>4. (q - 1) - i \in Nat /\ i + ((q - 1) - i) = q - 1 /\ q - 1 <= q - 1
    BY <1>1, <1>12
  <2>5. Kept(q - 1)
    BY <2>3, <2>4 DEF T
  <2>6. QED
    BY <1>12, <2>5
<1>14. Excused(st[q - 1])
  <2>1. CASE q = n + 1
    <3>1. q - 1 = n
      BY <1>1, <2>1
    <3>2. QED
      BY <1>5, <1>13, <3>1, Flushed
  <2>2. CASE q <= n
    <3>1. q \in 1..n /\ q - 1 \in 0..n
      BY <1>1, <1>12, <2>2
    <3>2. st[q].found = st[q - 1].found
      BY <1>1, <1>6, <3>1
    <3>3. st[q - 1].category # "none" /\ st[q - 1].open
      BY <1>9, <1>13
    <3>4. QED
      BY <1>4, <1>12, <2>2, <3>1, <3>2, <3>3 DEF Reads
  <2>3. QED
    BY <1>1, <1>12, <2>1, <2>2
<1>15. QED
  BY <1>7, <1>13, <1>14 DEF Excused

-----------------------------------------------------------------------------
(* A report is what a tool printed, or that it could not be run. *)
Told(t, report) ==
  \/ report = Failed
  \/ /\ t \in Tools \cup {"external"}
     /\ \E success \in BOOLEAN : \E said \in Seq(LinesOf(t)) :
          /\ report = Report(t, success, said)
          /\ t = "flyway" => said = <<>>

Quoted == \A t \in DOMAIN reports : Told(t, reports[t])

Silent(t, said) ==
  \A i \in DOMAIN said :
    /\ said[i] = "difference" =>
         (t \in {"atlas", "pg_schema_diff"} /\ Contains(said, "synced"))
    /\ (said[i] = "object" /\ Category(said, i) \in {"missing", "changed"}) =>
         (Category(said, i) = "changed" /\ DetailsOf(said, i) = {"order"})

(* By each tool's contract. *)
LEMMA AgreedIsSilent ==
  ASSUME NEW t \in Tools \cup {"external"}, NEW success,
         NEW said \in Seq(LinesOf(t)), t = "flyway" => said = <<>>,
         Agrees(t, success, said)
  PROVE  Silent(t, said)
<1>1. CASE t = "liquibase"
  <2>1. said \in Seq(LiquibaseLines) /\ Violations(said) = 0
    BY <1>1 DEF LinesOf, Agrees, LiquibaseAgrees
  <2>2. ASSUME NEW i \in DOMAIN said PROVE said[i] # "difference"
    <3>1. said[i] \in LiquibaseLines
      BY <2>1
    <3>2. QED
      BY <3>1 DEF LiquibaseLines
  <2>3. ASSUME NEW i \in DOMAIN said, said[i] = "object",
               Category(said, i) \in {"missing", "changed"}
        PROVE  Category(said, i) = "changed" /\ DetailsOf(said, i) = {"order"}
    BY <2>1, <2>3, ObjectsAreExcused
  <2>4. QED
    BY <2>2, <2>3 DEF Silent
<1>2. CASE t # "liquibase"
  <2>1. said \in Seq(PlainLines)
    BY <1>2 DEF LinesOf
  <2>2. ASSUME NEW i \in DOMAIN said PROVE said[i] # "object"
    <3>1. said[i] \in PlainLines
      BY <2>1
    <3>2. QED
      BY <3>1 DEF PlainLines
  <2>3. t \in {"migra", "pgdiff", "atlas", "pg_schema_diff", "apgdiff", "flyway",
               "external"}
    BY <1>2, ToolsAre DEF Tools
  <2>4. ASSUME NEW i \in DOMAIN said, said[i] = "difference"
        PROVE  t \in {"atlas", "pg_schema_diff"} /\ Contains(said, "synced")
    <3>1. said # <<>>
      BY <2>4
    <3>2. CASE t \in {"migra", "flyway", "external"}
      BY <3>1, <3>2 DEF Agrees, MigraAgrees, ExternalAgrees
    <3>3. CASE t \in {"pgdiff", "apgdiff"}
      BY <2>4, <3>3 DEF Agrees, PgdiffAgrees, ApgdiffAgrees
    <3>4. CASE t \in {"atlas", "pg_schema_diff"}
      BY <3>1, <3>4 DEF Agrees, AtlasAgrees, PgSchemaDiffAgrees
    <3>5. QED
      BY <2>3, <3>2, <3>3, <3>4
  <2>5. QED
    BY <2>2, <2>4 DEF Silent
<1>3. QED
  BY <1>1, <1>2

LEMMA QuotedIsSilent == ASSUME Quoted PROVE AgreementIsSilence
<1>1. SUFFICES ASSUME NEW t \in DOMAIN reports, reports[t].agreed
               PROVE  Silent(t, reports[t].printed)
  BY DEF AgreementIsSilence, Silent
<1>2. reports[t] # Failed
  BY <1>1 DEF Failed
<1>3. /\ t \in Tools \cup {"external"}
      /\ \E success \in BOOLEAN : \E said \in Seq(LinesOf(t)) :
           /\ reports[t] = Report(t, success, said)
           /\ t = "flyway" => said = <<>>
  BY <1>2 DEF Quoted, Told
<1>4. PICK success \in BOOLEAN, said \in Seq(LinesOf(t)) :
        /\ reports[t] = Report(t, success, said)
        /\ t = "flyway" => said = <<>>
  BY <1>3
<1>5. Agrees(t, success, said) /\ reports[t].printed = said
  BY <1>1, <1>4 DEF Report
<1>6. QED
  BY <1>3, <1>4, <1>5, AgreedIsSilent

(* A step adds one report at most, and one that is told. *)
LEMMA QuotedAdds ==
  ASSUME Quoted, NEW t, NEW report, Told(t, report),
         reports' = Adding(reports, t, report)
  PROVE  Quoted'
<1>1. /\ DOMAIN reports' = DOMAIN reports \cup {t}
      /\ \A k \in DOMAIN reports : reports'[k] = reports[k]
      /\ t \notin DOMAIN reports => reports'[t] = report
  BY DEF Adding
<1>2. ASSUME NEW k \in DOMAIN reports' PROVE Told(k, reports'[k])
  BY <1>1 DEF Quoted
<1>3. QED
  BY <1>2 DEF Quoted, Told

LEMMA QuotedStays == ASSUME Quoted, reports' = reports PROVE Quoted'
BY DEF Quoted, Told

(* A tool is waited for while it is the next one. *)
LEMMA NextIsPending ==
  ASSUME Shape, CheckInv, At("checks", "waits")
  PROVE  NextTool \in ToSet(DiffTools)
<1>1. Pending # {}
  BY AtTop DEF CheckInv, CheckedSoFar
<1>2. QED
  BY <1>1, NextIsATool

LEMMA QuotedStep ==
  ASSUME Shape, CheckInv, Quoted, [Next]_vars
  PROVE  Quoted'
<1>1. \A t : Told(t, Failed)
  BY DEF Told
<1>2. CASE UNCHANGED vars
  BY <1>2, QuotedStays DEF vars
<1>3. CASE CommandStep
  <2>1. reports' = reports
    BY <1>3 DEF CommandStep, Start, Fail, Rendered, Reviewed, Verify, Verified,
       VerifyScanned, VerifyReviewed, Plan, Confirm, Answer, AcquireLease, Refreshed, Execute, Residual,
       Compared, Checked, Scanned, Release, Decide, AskReviewer, found
  <2>2. QED
    BY <2>1, QuotedStays
<1>4. CASE \/ Resolve \/ Resolved \/ LoadSource \/ LoadTarget \/ Compare \/ Loaded
           \/ Canonicalize \/ Canonicalized
           \/ Materialize \/ Bootstrap \/ Materialized
           \/ VerifyStart \/ VerifyCreate \/ VerifyRun \/ VerifyEnd
           \/ Ask \/ CallProvider \/ ReviewerExits
  BY <1>4, QuotedStays DEF Resolve, Resolved, LoadSource, LoadTarget, Compare, Loaded,
     Canonicalize, Canonicalized, Materialize, Bootstrap, Materialized,
     VerifyStart, VerifyCreate, VerifyRun, VerifyEnd, Ask, CallProvider,
     ReviewerExits, found
<1>5. CASE \/ RehearseBootstrap \/ RehearseMigrate \/ Rediff
           \/ FlywayReplica \/ ExternalStart \/ RehearseEnd
  BY <1>5, QuotedStays DEF RehearseBootstrap, RehearseMigrate, Rediff, FlywayReplica,
     ExternalStart, RehearseEnd, found
<1>6. CASE Comparable \/ FlywayStart \/ StartTool
  <2>1. \/ reports' = reports
        \/ \E t : reports' = Adding(reports, t, Failed)
    BY <1>6 DEF Comparable, FlywayStart, StartTool
  <2>2. QED
    BY <1>1, <2>1, QuotedAdds, QuotedStays
<1>7. CASE FlywayExits
  <2>1. PICK success \in BOOLEAN :
          reports' = Adding(reports, "flyway", Report("flyway", success, <<>>))
    BY <1>7 DEF FlywayExits
  <2>2. "flyway" \in Tools \cup {"external"} /\ <<>> \in Seq(LinesOf("flyway"))
    BY DEF Tools
  <2>3. Told("flyway", Report("flyway", success, <<>>))
    BY <2>2 DEF Told
  <2>4. QED
    BY <2>1, <2>3, QuotedAdds
<1>8. CASE ExternalExits
  <2>1. PICK success \in BOOLEAN, said \in Printed("external") :
          reports' = Adding(reports, "external", Report("external", success, said))
    BY <1>8 DEF ExternalExits
  <2>2. said \in Seq(LinesOf("external"))
    BY PrintedAssumption
  <2>3. Told("external", Report("external", success, said))
    BY <2>2 DEF Told
  <2>4. QED
    BY <2>1, <2>3, QuotedAdds
<1>9. CASE ToolExits
  <2>1. PICK tool : tool = NextTool
    OBVIOUS
  <2>2. PICK success \in BOOLEAN, said \in Printed(tool) :
          reports' = Adding(reports, tool, Report(tool, success, said))
    BY <1>9, <2>1 DEF ToolExits
  <2>3. tool \in ToSet(DiffTools)
    BY <1>9, <2>1, NextIsPending DEF ToolExits
  <2>4. tool \in Tools \cup {"external"} /\ tool # "flyway"
    BY <2>3, ToolsAre DEF Tools
  <2>5. said \in Seq(LinesOf(tool))
    BY <2>4, PrintedAssumption
  <2>6. Told(tool, Report(tool, success, said))
    BY <2>4, <2>5 DEF Told
  <2>7. QED
    BY <2>2, <2>6, QuotedAdds
<1>10. QED
  BY <1>2, <1>3, <1>4, <1>5, <1>6, <1>7, <1>8, <1>9, NextSplits
     DEF InsideStep

(* A tool is reported to agree only if it printed no difference, or also   *)
(* that nothing is to be done (atlas, pg-schema-diff), and no object that  *)
(* is missing or changed, but for columns that only stand elsewhere.       *)
THEOREM SilenceIsEarned == Spec => []AgreementIsSilence
<1> DEFINE Inv == Shape /\ CheckInv /\ Quoted
<1>1. Init => Inv
  <2>1. Init => Quoted
    BY DEF Init, Quoted
  <2>2. QED
    BY <2>1, ShapeInit, CheckInit
<1>2. Inv /\ [Next]_vars => Inv'
  BY ShapeStep, CheckStep, QuotedStep
<1>3. Inv => AgreementIsSilence
  BY QuotedIsSilent
<1>4. QED
  <2> HIDE DEF Inv
  <2> QED
    BY <1>1, <1>2, <1>3, PTL DEF Spec

=============================================================================
