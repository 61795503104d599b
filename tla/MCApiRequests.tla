--------------------------- MODULE MCApiRequests ---------------------------
(* A router, its routing table, the API of the agents and inspect, and one *)
(* API the stack does not build, with routes of the shapes the stack has:  *)
(* a collection, members named by {name} or {name:path}, and what lies     *)
(* below a member.                                                         *)
EXTENDS ApiRequests

Lit(l)     == [kind |-> "literal", name |-> l]
Id(n)      == [kind |-> "param", name |-> n]
Slashed(n) == [kind |-> "path", name |-> n]

Turn == <<Lit("agents"), Id("agent_id"), Lit("turn")>>

MCListed == <<"inference", "agents", "models", "inspect">>
BuiltApis == Range(MCListed)
Apis == BuiltApis \cup {"safety"}

MCRoutingTableOf == [router \in {"inference", "safety"} |->
                       IF router = "inference" THEN "models" ELSE "shields"]

MCRoutesOf ==
  [api \in Apis |->
     CASE api = "inference" -> <<<<Lit("completion")>>>>
       [] api = "models"    -> <<<<Lit("models")>>, <<Lit("models"), Slashed("model_id")>>>>
       [] api = "inspect"   -> <<<<Lit("models"), Lit("version")>>>>
       [] api = "safety"    -> <<<<Lit("shields")>>>>
       [] api = "agents"    ->
            <<<<Lit("agents"), Lit("turn")>>, <<Lit("agents"), Id("agent_id")>>, Turn>>]

MCGenerators == {Turn}

Paths ==
  {<<"models", "a">>, <<"models", "a", "b">>, <<"models", "version">>,
   <<"agents", "turn">>, <<"agents", "a", "turn">>, <<"completion">>, <<"shields">>}
=============================================================================
