----------------------------- MODULE ToolCalls -----------------------------
(***************************************************************************)
(* Calls of tools while groups are registered and unregistered.  The       *)
(* router (external) asks the routing table which provider serves the      *)
(* tool; that provider's invoke_tool looks the tool up a second time, for  *)
(* the endpoint of its MCP server, and calls it there.  The registry may   *)
(* change between the two lookups and before the call is made.             *)
(*                                                                         *)
(* The endpoint of a tool stands in its metadata: it is that of the group  *)
(* under which the tool is registered.                                     *)
(***************************************************************************)
EXTENDS ToolGroups

CONSTANT Call   \* the calls the server handles at a time

VARIABLES
  callPc,    \* what each call does next
  callTool,  \* its tool_name
  callBy,    \* the provider the router has found
  callAt     \* the group to whose endpoint the call goes

callVars == <<callPc, callTool, callBy, callAt>>
allVars == <<vars, callVars>>

CallInit ==
  /\ Init
  /\ callPc   = [c \in Call |-> "idle"]
  /\ callTool = [c \in Call |-> None]
  /\ callBy   = [c \in Call |-> None]
  /\ callAt   = [c \in Call |-> None]

-----------------------------------------------------------------------------
BeginCall(c, x) ==
  /\ callPc[c] = "idle"
  /\ callPc'   = [callPc   EXCEPT ![c] = "routing"]
  /\ callTool' = [callTool EXCEPT ![c] = x]
  /\ UNCHANGED <<vars, callBy, callAt>>

EndCall(c) ==
  /\ callPc'   = [callPc   EXCEPT ![c] = "idle"]
  /\ callTool' = [callTool EXCEPT ![c] = None]
  /\ callBy'   = [callBy   EXCEPT ![c] = None]
  /\ callAt'   = [callAt   EXCEPT ![c] = None]
  /\ UNCHANGED vars

(* The tool that is registered under the call's name, None when there is   *)
(* none.                                                                   *)
Found(c) == tools[callTool[c]]

(* get_provider_impl *)
RouteCall(c) ==
  /\ callPc[c] = "routing" /\ Found(c) # None
  /\ callBy' = [callBy EXCEPT ![c] = Found(c).provider]
  /\ callPc' = [callPc EXCEPT ![c] = "looking"]
  /\ UNCHANGED <<vars, callTool, callAt>>

(* Mutant: the endpoint is that of some group of the provider.             *)
GetToolOfProvider(c) ==
  /\ callPc[c] = "looking" /\ Found(c) # None
  /\ \E g \in Group :
       /\ groups[g] = callBy[c]
       /\ callAt' = [callAt EXCEPT ![c] = g]
  /\ callPc' = [callPc EXCEPT ![c] = "calling"]
  /\ UNCHANGED <<vars, callTool, callBy>>

(* tool_store.get_tool *)
GetTool(c) ==
  /\ callPc[c] = "looking" /\ Found(c) # None
  /\ callAt' = [callAt EXCEPT ![c] = Found(c).group]
  /\ callPc' = [callPc EXCEPT ![c] = "calling"]
  /\ UNCHANGED <<vars, callTool, callBy>>

(* get_provider_impl raises a ValueError; invoke_tool, which takes None    *)
(* for a tool, an AttributeError.                                          *)
NotServed(c) ==
  /\ callPc[c] \in {"routing", "looking"} /\ Found(c) = None
  /\ EndCall(c)

(* send_request: with an answer, the error of a tool, or an exception the  *)
(* call is over.                                                           *)
CallTool(c) ==
  /\ callPc[c] = "calling"
  /\ EndCall(c)

CallNext ==
  \/ Next /\ UNCHANGED callVars
  \/ \E c \in Call :
       \/ \E x \in Tool : BeginCall(c, x)
       \/ RouteCall(c) \/ GetTool(c) \/ NotServed(c) \/ CallTool(c)

CallSpec == CallInit /\ [][CallNext]_allVars

-----------------------------------------------------------------------------
(* Properties.                                                             *)

(* A tool is called only at an endpoint whose server has it, whatever was  *)
(* registered and unregistered since the call was routed: the endpoint is  *)
(* that of one registered tool of this name, not of a provider.            *)
CalledWhereListed ==
  \A c \in Call : callPc[c] = "calling" => callTool[c] \in Names(callAt[c])

(* A registered group that no request is at work on serves its tools: a    *)
(* call of one of them is not refused, and goes to that group's endpoint.  *)
SettledToolsAreServed ==
  [][\A c \in Call, g \in Group :
       /\ groups[g] # None /\ ~ AtWorkOn(g)
       /\ callTool[c] \in Names(g)
       => /\ ~ NotServed(c)
          /\ callPc[c] = "looking" /\ callPc'[c] = "calling" => callAt'[c] = g]_allVars
=============================================================================
