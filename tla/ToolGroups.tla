----------------------------- MODULE ToolGroups -----------------------------
(***************************************************************************)
(* ToolGroupsRoutingTable over the Model Context Protocol runtime: a group *)
(* is registered by asking its MCP server for its tools, checking and      *)
(* registering them one after the other and registering the group last;    *)
(* unregistering deletes the tools first and the group last.  Each call is *)
(* awaited: requests interleave, and a call that raises ends its request   *)
(* half way.  Tools live in one name space: the identifier of a tool is    *)
(* its name, whatever its group.                                           *)
(*                                                                         *)
(* register_tool and unregister_tool of the MCP provider do nothing.       *)
(***************************************************************************)
EXTENDS Naturals, Sequences, FiniteSets

CONSTANTS
  Request,        \* the requests the server handles at a time
  Group, Tool, Provider, None,
  ToolsOf,        \* the tools the MCP server of each group lists
  ToolFaults,     \* which calls may raise
  Apart           \* the groups whose requests do not overlap with those of a group

ToolEntry == [group : Group, provider : Provider]

ToolFaultKind == {"list", "register", "unregister"}

ASSUME ToolAssumption ==
  /\ IsFiniteSet(Tool)
  /\ ToolsOf \in [Group -> Seq(Tool)]
  /\ None \notin Group \cup Tool \cup Provider \cup ToolEntry
  /\ ToolFaults \subseteq ToolFaultKind
  /\ Apart \in [Group -> SUBSET Group]

VARIABLES
  tools,     \* registry: the tool registered under each name
  groups,    \* registry: the provider of each registered group
  pc,        \* the call each request makes next
  group,     \* the toolgroup_id of the request
  provider,  \* its provider_id
  todo       \* the tools it has still to go through

registryVars == <<tools, groups>>
requestVars  == <<pc, group, provider, todo>>
vars == <<registryVars, requestVars>>

Registering   == {"listing", "checking", "registering", "grouping"}
Unregistering == {"collecting", "deleting", "ungrouping"}

TypeOK ==
  /\ tools    \in [Tool -> ToolEntry \cup {None}]
  /\ groups   \in [Group -> Provider \cup {None}]
  /\ pc       \in [Request -> {"idle"} \cup Registering \cup Unregistering]
  /\ group    \in [Request -> Group \cup {None}]
  /\ provider \in [Request -> Provider \cup {None}]
  /\ todo     \in [Request -> Seq(Tool)]

Init ==
  /\ tools    = [x \in Tool |-> None]
  /\ groups   = [g \in Group |-> None]
  /\ pc       = [r \in Request |-> "idle"]
  /\ group    = [r \in Request |-> None]
  /\ provider = [r \in Request |-> None]
  /\ todo     = [r \in Request |-> <<>>]

Begin(r, g, p, call) ==
  /\ pc[r] = "idle"
  /\ \A q \in Request : group[q] \notin Apart[g]
  /\ pc'       = [pc       EXCEPT ![r] = call]
  /\ group'    = [group    EXCEPT ![r] = g]
  /\ provider' = [provider EXCEPT ![r] = p]
  /\ UNCHANGED <<registryVars, todo>>

(* Go on with the next tool or, when none is left, with the last call.     *)
GoThrough(r, left, each, last) ==
  /\ todo' = [todo EXCEPT ![r] = left]
  /\ pc' = [pc EXCEPT ![r] = IF left = <<>> THEN last ELSE each]
  /\ UNCHANGED <<group, provider>>

Return(r) ==
  /\ pc'       = [pc       EXCEPT ![r] = "idle"]
  /\ group'    = [group    EXCEPT ![r] = None]
  /\ provider' = [provider EXCEPT ![r] = None]
  /\ todo'     = [todo     EXCEPT ![r] = <<>>]

(* The entry a request makes for its tools.                                *)
EntryOf(r) == [group |-> group[r], provider |-> provider[r]]

-----------------------------------------------------------------------------
(* register_tool_group *)

BeginRegister(r, g) == \E p \in Provider : Begin(r, g, p, "listing")

(* list_runtime_tools *)
ListRuntimeTools(r) ==
  /\ pc[r] = "listing"
  /\ GoThrough(r, ToolsOf[group[r]], "checking", "grouping")
  /\ UNCHANGED registryVars

(* Mutant: the tool is not compared with the one that is registered.       *)
CheckToolNot(r) ==
  /\ pc[r] = "checking"
  /\ pc' = [pc EXCEPT ![r] = "registering"]
  /\ UNCHANGED <<registryVars, group, provider, todo>>

(* Read what is registered under the name of the tool; another tool ends   *)
(* the request with an error, and the tools before it stay registered.     *)
CheckTool(r) ==
  /\ pc[r] = "checking"
  /\ IF tools[Head(todo[r])] \in {None, EntryOf(r)}
       THEN /\ pc' = [pc EXCEPT ![r] = "registering"]
            /\ UNCHANGED <<group, provider, todo>>
       ELSE Return(r)
  /\ UNCHANGED registryVars

(* register_object.  The registry keeps an entry of the same provider or   *)
(* writes the new one over it; an entry of another provider is replaced.   *)
RegisterTool(r) ==
  LET x == Head(todo[r]) IN
  /\ pc[r] = "registering"
  /\ \/ tools' = [tools EXCEPT ![x] = EntryOf(r)]
     \/ tools[x] # None /\ tools[x].provider = provider[r] /\ UNCHANGED tools
  /\ GoThrough(r, Tail(todo[r]), "checking", "grouping")
  /\ UNCHANGED groups

(* Mutant: the identifier is stored in the place of the provider_id.       *)
RegisterGroupSwapped(r) ==
  /\ pc[r] = "grouping"
  /\ groups' = [groups EXCEPT ![group[r]] = group[r]]
  /\ Return(r)
  /\ UNCHANGED tools

RegisterGroup(r) ==
  /\ pc[r] = "grouping"
  /\ groups' = [groups EXCEPT ![group[r]] = provider[r]]
  /\ Return(r)
  /\ UNCHANGED tools

-----------------------------------------------------------------------------
(* unregister_toolgroup *)

BeginUnregister(r, g) == groups[g] # None /\ Begin(r, g, groups[g], "collecting")

ListedIn(g) == {x \in Tool : tools[x] # None /\ tools[x].group = g}

(* Mutant: the tools of all groups are collected.                          *)
CollectAllTools(r) ==
  /\ pc[r] = "collecting"
  /\ \E order \in [1..Cardinality(Tool) -> Tool] :
       /\ {order[i] : i \in DOMAIN order} = Tool
       /\ GoThrough(r, order, "deleting", "ungrouping")
  /\ UNCHANGED registryVars

(* list_tools of the group, in the order of the registry.                  *)
CollectTools(r) ==
  /\ pc[r] = "collecting"
  /\ \E order \in [1..Cardinality(ListedIn(group[r])) -> ListedIn(group[r])] :
       /\ {order[i] : i \in DOMAIN order} = ListedIn(group[r])
       /\ GoThrough(r, order, "deleting", "ungrouping")
  /\ UNCHANGED registryVars

(* Mutant: only the first tool of the group is deleted.                    *)
DeleteToolOnce(r) ==
  /\ pc[r] = "deleting"
  /\ tools' = [tools EXCEPT ![Head(todo[r])] = None]
  /\ GoThrough(r, <<>>, "deleting", "ungrouping")
  /\ UNCHANGED groups

(* unregister_object: whatever the name stands for by now is deleted.      *)
DeleteTool(r) ==
  /\ pc[r] = "deleting"
  /\ tools' = [tools EXCEPT ![Head(todo[r])] = None]
  /\ GoThrough(r, Tail(todo[r]), "deleting", "ungrouping")
  /\ UNCHANGED groups

DeleteGroup(r) ==
  /\ pc[r] = "ungrouping"
  /\ groups' = [groups EXCEPT ![group[r]] = None]
  /\ Return(r)
  /\ UNCHANGED tools

(* A call raises, and with it the request; nothing is undone.              *)
CallRaises(r) ==
  /\ \/ pc[r] = "listing" /\ "list" \in ToolFaults
     \/ pc[r] \in Registering \ {"listing"} /\ "register" \in ToolFaults
     \/ pc[r] \in Unregistering /\ "unregister" \in ToolFaults
  /\ Return(r)
  /\ UNCHANGED registryVars

Next ==
  \E r \in Request :
    \/ \E g \in Group : BeginRegister(r, g) \/ BeginUnregister(r, g)
    \/ ListRuntimeTools(r) \/ CheckTool(r)  \/ RegisterTool(r) \/ RegisterGroup(r)
    \/ CollectTools(r)     \/ DeleteTool(r) \/ DeleteGroup(r)
    \/ CallRaises(r)

Spec == Init /\ [][Next]_vars

-----------------------------------------------------------------------------
(* Properties.                                                             *)

Names(g) == {ToolsOf[g][i] : i \in 1..Len(ToolsOf[g])}

AtWorkOn(g) == \E r \in Request : group[r] = g

(* A registered group that no request is at work on has all its tools      *)
(* registered under its own name: register_tool_group refuses a name that  *)
(* is taken, and puts the group after its tools.  Groups with a common     *)
(* tool name must not be registered at once, and unregistering not fail.   *)
GroupOwnsItsTools ==
  \A g \in Group :
    groups[g] # None /\ ~ AtWorkOn(g) =>
      \A i \in 1..Len(ToolsOf[g]) :
        tools[ToolsOf[g][i]] = [group |-> g, provider |-> groups[g]]

(* When unregister_toolgroup deletes a group none of its tools is left,    *)
(* those of registrations that failed half way included.                   *)
NoToolOutlivesGroup ==
  [][\A g \in Group : groups[g] # None /\ groups'[g] = None => ListedIn(g) = {}]_vars

(* A request changes the tools of its own group only, whatever call fails: *)
(* a name that is taken is neither taken over nor deleted with another     *)
(* group.                                                                  *)
OthersUntouched ==
  [][\A x \in Tool :
       tools'[x] # tools[x] =>
         /\ tools[x] # None => AtWorkOn(tools[x].group)
         /\ tools'[x] # None => AtWorkOn(tools'[x].group)]_vars
=============================================================================
