-------------------------------- MODULE MCApp --------------------------------
(* App with two or three actors and objects in each part, and one part      *)
(* more, the menu tree, which is one step of much data.                     *)
EXTENDS App, FiniteSets, Sequences

CONSTANTS s1, s2

VARIABLES recs, built, menuTree, asked, grants, current, menu

treeVars == <<recs, built, menuTree, asked, grants, current, menu>>

-----------------------------------------------------------------------------
MCForcings == {[mode |-> "run", names |-> {}], [mode |-> "all", names |-> {}],
               [mode |-> "names", names |-> {s1}], [mode |-> "names", names |-> {s2}]}

MCChains == {<<"Recover", "Logger", "RequestID", "BodyLimit">>, <<"Logger", "Recover", "CORS", "Timeout">>,
             <<"Recover", "Timeout", "Recover">>, <<"Logger", "Timeout", "BodyLimit", "Recover">>,
             <<"CORS", "Timeout">>, <<>>}

(* Three records in every hierarchy, cycles included; and lists that are no  *)
(* menu.                                                                     *)
NoURL == <<"no url">>
Record(id, parent, what) ==
  [id |-> id, parent |-> parent, position |-> IF id = 1 THEN 2 ELSE 1,
   object |-> IF what \in {"guarded", "guarded heading"} THEN "admin" ELSE "",
   hide |-> what \in {"heading", "guarded heading"},
   url |-> IF id = 1 THEN <<"a">> ELSE IF id = 2 THEN <<"a", "b">> ELSE NoURL,
   route |-> IF id = 3 THEN "home" ELSE "none"]
Whats == {"link", "guarded", "heading", "guarded heading"}
MCStores == {[id \in 1 .. 3 |-> Record(id, parents[id], whats[id])] : parents \in [1 .. 3 -> 0 .. 3], whats \in [1 .. 3 -> Whats]}
              \cup {<<Record(1, 0, "link"), Record(1, 1, "link")>>, <<Record(0, 0, "link")>>, <<Record(2, 7, "link")>>, <<>>}
MCRoutes(name) == IF name = "home" THEN <<>> ELSE NoURL
T == INSTANCE MenuTree WITH Stores <- MCStores, Grants <- {{}, {"admin"}}, Paths <- {<<>>, <<"a">>, <<"a", "b">>, <<"c">>},
       Routes <- MCRoutes, NoObject <- ""

(* Patterns of every form, from the tests of the router; groups at the root  *)
(* and below, told with and without slashes.                                 *)
Slash == [is |-> "text", s |-> "/"]
Text(s) == [is |-> "text", s |-> s]
Param(is, s) == [is |-> is, s |-> s]
MCChiPatterns == {<<Slash>>, <<Slash, Text("user"), Slash, Param("{}", "id")>>}
MCPatterns == MCChiPatterns \cup
  {<<Slash, Text("user"), Slash, Param(":?", "id")>>, <<Slash, Text("a"), Slash, Param(":?", "x"), Slash, Text("b"), Slash, Param(":", "y")>>,
   <<Slash, Param(":", "from"), Text("-"), Param(":?", "to")>>, <<Slash, Param(":?", "a"), Slash, Param(":?", "b"), Slash, Param("{}", "c")>>,
   <<Slash, Param(":?", "a"), Slash, Param("*", "*")>>, <<Slash, Text("files"), Slash, Param("+", "+")>>,
   <<Slash, Param(":+", "path")>>, <<Slash, Param(":*", "path"), Slash, Text("end")>>, <<Slash, Text("dl"), Slash, Param("%", "s"), Slash, Param("%", "d")>>,
   <<Slash, Param("{", "id")>>, <<Slash, Param("{}", "a"), Slash, Param("{}", "b")>>, <<Slash, Param(":?", "lang"), Text("-x")>>,
   <<Slash, Text("at"), Param(":", "x"), Text("c"), Param("+", "+")>>}
MCSubPatterns == {<<Slash>>, <<Slash, Text("v1")>>, <<Slash, Text("v1"), Slash>>}
MCMounts == {[prefix |-> p, at |-> <<>>] : p \in {<<>>, <<Slash>>}}
              \cup {[prefix |-> p, at |-> <<Slash, Text("api")>>] : p \in {<<Text("api")>>, <<Slash, Text("api"), Slash>>}}
MCValues == {<<>>, <<"v">>, <<"v", "v">>}
MCQueries == {<<>>, <<[key |-> "k", values |-> <<"v", "w">>], [key |-> "n", values |-> <<>>]>>}
MCNoRoute == <<>>

-----------------------------------------------------------------------------
MCInit == AppInit /\ T!Init /\ (scene = "tree" \/ recs = <<>>)

Parts == AppNext /\ UNCHANGED treeVars
Trees == scene = "tree" /\ T!Next /\ UNCHANGED appVars

MCNext == Parts \/ Trees

MCSpec == MCInit /\ [][MCNext]_<<appVars, treeVars>>

-----------------------------------------------------------------------------
(* The menu is the records, and what its reader may open (MenuTree). *)
MenuTells == T!MenuTells
=============================================================================
