----------------------------- MODULE MCCommands -----------------------------
(***************************************************************************)
(* Invocations of Commands for TLC: every family varies what matters for   *)
(* one part, around the plain call.                                        *)
(***************************************************************************)
EXTENDS Commands

Plain ==
  [command |-> "cmd_diff", sides |-> [s \in Sides |-> "url"],
   flavors |-> [s \in Sides \cup {"shadow"} |-> "postgres"],
   bootstrap |-> FALSE, shadow |-> TRUE, rewritable |-> TRUE, work |-> TRUE,
   keep |-> FALSE, all |-> FALSE, external |-> FALSE, review |-> FALSE,
   scan |-> FALSE, strict |-> TRUE, key |-> FALSE, custom |-> FALSE,
   yes |-> FALSE, unversioned |-> {},
   checks |-> {}, installed |-> Tools, transport |-> "auto"]

Kinds(s, t) == [side \in Sides |-> IF side = "source" THEN s ELSE t]
Servers(s, t, sh) == [x \in Sides \cup {"shadow"} |->
  IF x = "source" THEN s ELSE IF x = "target" THEN t ELSE sh]

(* How the sides are loaded, and on which servers. *)
Loading ==
  {[Plain EXCEPT !.command = c, !.sides = k, !.shadow = sh, !.keep = kp,
                 !.rewritable = rw, !.bootstrap = b] :
     c \in {"cmd_diff"}, k \in {Kinds("sql", "url"), Kinds("json", "sql"),
     Kinds("sql", "sql")}, sh \in BOOLEAN, kp \in BOOLEAN, rw \in BOOLEAN,
     b \in BOOLEAN}

(* A dump that may not say which server it is of, and a server of the      *)
(* other family.                                                           *)
Dumps ==
  {[Plain EXCEPT !.command = c, !.sides = k, !.flavors = f,
                 !.unversioned = u \cap {s \in Sides : k[s] = "json"}] :
     c \in Commands, k \in {Kinds("json", "url"), Kinds("url", "json")},
     u \in {{}, Sides},
     f \in {Servers("cockroach", "postgres", "postgres"),
            Servers("postgres", "cockroach", "cockroach")}}

OtherServers ==
  {[Plain EXCEPT !.command = c, !.sides = Kinds("sql", "url"), !.flavors = f,
                 !.checks = ch] :
     c \in {"cmd_diff", "cmd_verify", "cmd_apply"},
     f \in {Servers("cockroach", "cockroach", "cockroach"),
            Servers("cockroach", "cockroach", "postgres"),
            Servers("postgres", "postgres", "cockroach"),
            Servers("postgres", "cockroach", "postgres")},
     ch \in {{}, {"migra"}}}

(* What verify and apply check with, and where the source is. *)
Checking ==
  {[Plain EXCEPT !.command = c, !.sides = Kinds(k, "url"), !.shadow = sh,
                 !.checks = ch[1], !.all = ch[2], !.installed = ch[3],
                 !.external = ch[4], !.keep = kp, !.work = w, !.scan = (kp # w),
                 !.yes = kp] :
     c \in {"cmd_verify", "cmd_apply"}, k \in {"url", "json"}, sh \in BOOLEAN,
     ch \in {<<{"migra", "apgdiff"}, FALSE, {"migra"}, FALSE>>,
             <<{"flyway"}, FALSE, Tools, TRUE>>,
             <<{"pgdiff"}, TRUE, {"atlas"}, FALSE>>},
     kp \in BOOLEAN, w \in BOOLEAN}

(* What liquibase prints is read line by line. *)
Reading == {[Plain EXCEPT !.command = "cmd_apply", !.checks = {"liquibase"}]}

(* Who is asked, over which transport, and about what. *)
Asking ==
  {[Plain EXCEPT !.command = c, !.review = about[1], !.scan = about[2],
                 !.checks = {"atlas"}, !.work = FALSE, !.strict = st,
                 !.transport = tr[1], !.key = tr[2], !.custom = tr[3]] :
     c \in Commands, about \in {<<TRUE, FALSE>>, <<FALSE, TRUE>>}, st \in BOOLEAN,
     tr \in {<<"auto", TRUE, FALSE>>, <<"auto", FALSE, FALSE>>,
             <<"api", FALSE, FALSE>>, <<"api", TRUE, TRUE>>}}
  \cup
  {[Plain EXCEPT !.command = c, !.review = TRUE, !.scan = TRUE, !.checks = {"atlas"},
                 !.work = FALSE, !.transport = "cli", !.key = TRUE] :
     c \in {"cmd_verify", "cmd_apply"}}

MCCalls == Loading \cup Dumps \cup OtherServers \cup Checking \cup Reading \cup Asking

MCTranscripts ==
  {<<>>, <<"chatter">>, <<"approve", "chatter">>, <<"approve", "reject">>,
   <<"reject", "approve">>}

(* A category and three lines under it; of the others what each of them    *)
(* calls agreement and what it does not.                                   *)
MCPrinted(tool) ==
  CASE tool = "liquibase" ->
         {<<l>> \o rest : l \in {"equal", "missing", "changed"},
            rest \in [1..3 -> LiquibaseLines \ {"text"}]} \cup {<<>>, <<"text", "object">>}
    [] tool \in {"pgdiff", "apgdiff"} -> {<<"comment">>, <<"setting">>, <<"difference">>}
    [] tool \in {"atlas", "pg_schema_diff"} ->
         {<<"synced">>, <<"difference">>, <<"difference", "synced">>}
    [] OTHER -> {<<>>, <<"difference">>}

=============================================================================
