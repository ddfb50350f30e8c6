----------------------------- MODULE MCDeploys -----------------------------
(***************************************************************************)
(* One of the two targets moves at a time, and `focus` says which: Pages;  *)
(* Fly with two processes and two versions of a project; or Fly with one   *)
(* deploy of any of many projects.                                         *)
(***************************************************************************)
EXTENDS Deploys, TLC

CONSTANTS p1, p2

VARIABLE focus

Base ==
  [json |-> "ok", name |-> "app", locale |-> "en", admins |-> <<>>, recentRequests |-> 0,
   interval |-> 0, retention |-> 0, iosUrl |-> Empty, from |-> Lit("a@x.org"),
   smtpHost |-> Lit("x.org"), smtpUsername |-> Lit("user"), smtpPassword |-> Env("SMTP"),
   smtpPort |-> 0, perMinute |-> 0, burst |-> 0, body |-> 0, proxies |-> {}, color |-> Empty,
   sessionSecret |-> Env("SECRET"), apiToken |-> Empty, flyApp |-> Lit("app"),
   flyRegion |-> Lit("gru"), flyMemory |-> Lit("1gb"), cfApp |-> Empty, cfAccount |-> Empty]

Strings == {Empty, Lit("..."), Env("OTHER"), Env("other")}

Alternatives ==
  [json |-> {"bad"}, name |-> {""}, locale |-> {"", "zz"},
   admins |-> {<<"a@x.org">>, <<"a@x.org", "a@x.org">>, <<"a">>},
   recentRequests |-> {9, 5000}, interval |-> {169}, retention |-> {1, 2},
   iosUrl |-> {Lit("http"), Lit("https")}, from |-> Strings, smtpHost |-> Strings,
   smtpUsername |-> Strings, smtpPassword |-> Strings, smtpPort |-> {65535, 65536},
   perMinute |-> {100001}, burst |-> {10000}, body |-> {1023, 1024}, proxies |-> {{"cidr"}, {"x"}},
   color |-> {Lit("red")}, sessionSecret |-> Strings, apiToken |-> Strings,
   flyApp |-> Strings, flyRegion |-> {Empty, Lit("gr")}, flyMemory |-> {Empty, Lit("300mb")},
   cfApp |-> {Lit("app")}, cfAccount |-> {Lit("account")}]

One == UNION {{[Base EXCEPT ![f] = x] : x \in Alternatives[f]} : f \in DOMAIN Alternatives}
SecretPairs == {[Base EXCEPT !.sessionSecret = x, !.smtpPassword = y] : x, y \in Strings}

Project(m) == [manifest |-> m, topology |-> "server", auth |-> TRUE, public |-> "clean"]
Projects ==
  {Project(m) : m \in SecretPairs}
    \cup {[manifest |-> m, topology |-> t, auth |-> a, public |-> p] :
            m \in One, t \in {"server", "frontend", None}, a \in BOOLEAN, p \in {"clean", "reserved"}}

\* The second version of the project refers to one variable more.
Small == [Base EXCEPT !.smtpPassword = Env("SECRET")]
Grown == Project([Small EXCEPT !.smtpUsername = Env("OTHER")])
Few == {Project(Small), Grown}
MCSources == Projects \cup Few

MCVersions == {"index" :> "i1" @@ "runtime" :> "r", "index" :> "i2" @@ "logo" :> "l"}

MCInit ==
  /\ focus \in {"pages", "fly", "projects"}
  /\ Init /\ Pages!Init
  /\ focus = "pages" => file = Grown
  /\ focus = "fly" => file \in Few
  /\ focus # "pages" => source = CHOOSE v \in Versions : TRUE

\* bound: a deploy of one of the many projects is alone and runs once
MCNext ==
  /\ UNCHANGED focus
  /\ \/ focus = "pages" /\ Pages!Next /\ UNCHANGED vars
     \/ /\ focus = "fly"
        /\ (\E p \in Few : Edit(p)) \/ (\E i \in Process : Command(i))
        /\ UNCHANGED pagesVars
     \/ /\ focus = "projects"
        /\ \E i \in Process : (runs = 0 /\ Deploy(i)) \/ DeployStep(i)
        /\ UNCHANGED pagesVars

MCSpec == MCInit /\ [][MCNext]_<<focus, vars, pagesVars>>

Processes == Permutations(Process)
=============================================================================
