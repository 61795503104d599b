-------------------------- MODULE ToolCallsProofs --------------------------
(***************************************************************************)
(* Calls of tools for any number of calls, requests, groups and tools.     *)
(***************************************************************************)
EXTENDS ToolCalls, ToolGroupsProofs

CallTypeOK ==
  /\ callPc   \in [Call -> {"idle", "routing", "looking", "calling"}]
  /\ callTool \in [Call -> Tool \cup {None}]
  /\ callBy   \in [Call -> Provider \cup {None}]
  /\ callAt   \in [Call -> Group \cup {None}]

(* The requests never notice the calls.                                    *)
LEMMA CallsOnlyRead == CallSpec => Spec
<1>1. CallInit => Init
  BY DEF CallInit
<1>2. [CallNext]_allVars => [Next]_vars
  BY DEF CallNext, allVars, BeginCall, RouteCall, GetTool, NotServed, CallTool, EndCall
<1> QED
  BY <1>1, <1>2, PTL DEF CallSpec, Spec

-----------------------------------------------------------------------------
(* Every registered tool is in the list of its group's server; no request  *)
(* need be kept apart from another for that.                               *)

Listing(r) ==
  /\ pc[r] # "idle" => group[r] \in Group /\ provider[r] \in Provider
  /\ pc[r] \in {"checking", "registering"} =>
       todo[r] \in Seq(Names(group[r])) /\ todo[r] # <<>>
  /\ pc[r] = "deleting" => todo[r] # <<>>

LInv == TypeOK /\ OwnNames /\ \A r \in Request : Listing(r)

(* What is left to show of a step of request r that writes no tool.        *)
LEMMA ReadingStep ==
  ASSUME LInv, TypeOK', tools' = tools, NEW r \in Request, Listing(r)',
         \A q \in Request \ {r} :
           /\ pc'[q] = pc[q]             /\ group'[q] = group[q]
           /\ provider'[q] = provider[q] /\ todo'[q] = todo[q]
  PROVE  LInv'
<1>1. \A q \in Request : Listing(q)'
  BY DEF LInv, Listing
<1> QED
  BY <1>1 DEF LInv, OwnNames

LEMMA ReturningStep ==
  ASSUME LInv, tools' = tools, groups' \in [Group -> Provider \cup {None}],
         NEW r \in Request, Return(r)
  PROVE  LInv'
<1>1. TypeOK'
  BY DEF LInv, TypeOK, Return
<1>2. pc'[r] = "idle"
  BY DEF LInv, TypeOK, Return
<1>3. \A q \in Request \ {r} :
        /\ pc'[q] = pc[q]             /\ group'[q] = group[q]
        /\ provider'[q] = provider[q] /\ todo'[q] = todo[q]
  BY DEF LInv, TypeOK, Return
<1> QED
  BY <1>1, <1>2, <1>3, ReadingStep DEF Listing

(* GoThrough leaves the other requests alone.                              *)
LEMMA GoingThrough ==
  ASSUME LInv, NEW r \in Request, NEW left \in Seq(Tool),
         NEW each \in {"checking", "deleting"}, NEW last \in {"grouping", "ungrouping"},
         tools' \in [Tool -> ToolEntry \cup {None}], OwnNames', groups' = groups,
         pc[r] # "idle", GoThrough(r, left, each, last),
         each = "checking" => left \in Seq(Names(group[r]))
  PROVE  LInv'
<1> USE DEF LInv
<1>1. /\ todo' = [todo EXCEPT ![r] = left]
      /\ pc' = [pc EXCEPT ![r] = IF left = <<>> THEN last ELSE each]
      /\ group' = group /\ provider' = provider
  BY DEF GoThrough
<1>2. TypeOK'
  BY <1>1 DEF TypeOK, Registering, Unregistering
<1>3. Listing(r)'
  BY <1>1 DEF Listing, TypeOK
<1>4. \A q \in Request \ {r} : Listing(q)'
  BY <1>1 DEF Listing, TypeOK
<1> QED
  BY <1>2, <1>3, <1>4

LEMMA Parts ==
  ASSUME NEW S, NEW s \in Seq(S), s # <<>>
  PROVE  Head(s) \in S /\ Tail(s) \in Seq(S)
OBVIOUS

LEMMA RequestStep ==
  ASSUME LInv, NEW r \in Request,
         \/ \E g \in Group : BeginRegister(r, g) \/ BeginUnregister(r, g)
         \/ ListRuntimeTools(r) \/ CheckTool(r)  \/ RegisterTool(r) \/ RegisterGroup(r)
         \/ CollectTools(r)     \/ DeleteTool(r) \/ DeleteGroup(r)
         \/ CallRaises(r)
  PROVE  LInv'
<1> USE DEF LInv
<1>1. ASSUME NEW g \in Group, NEW p \in Provider, NEW call \in {"listing", "collecting"},
             Begin(r, g, p, call)
      PROVE  LInv'
  <2>1. /\ pc' = [pc EXCEPT ![r] = call] /\ group' = [group EXCEPT ![r] = g]
        /\ provider' = [provider EXCEPT ![r] = p]
        /\ tools' = tools /\ groups' = groups /\ todo' = todo
    BY <1>1 DEF Begin, registryVars
  <2>2. TypeOK'
    BY <2>1 DEF TypeOK, Registering, Unregistering
  <2>3. Listing(r)'
    BY <2>1 DEF TypeOK, Listing
  <2> QED
    BY <2>1, <2>2, <2>3, ReadingStep DEF TypeOK
<1>2. ASSUME NEW g \in Group, BeginRegister(r, g) PROVE LInv'
  BY <1>1, <1>2 DEF BeginRegister
<1>3. ASSUME NEW g \in Group, BeginUnregister(r, g) PROVE LInv'
  <2>1. groups[g] \in Provider /\ Begin(r, g, groups[g], "collecting")
    BY <1>3 DEF BeginUnregister, TypeOK
  <2> QED
    BY <1>1, <2>1
<1>4. CASE ListRuntimeTools(r)
  <2> DEFINE left == ToolsOf[group[r]]
  <2>1. /\ pc[r] # "idle" /\ left \in Seq(Tool)
        /\ GoThrough(r, left, "checking", "grouping")
        /\ tools' = tools /\ groups' = groups
    BY <1>4, NamesAreTools DEF ListRuntimeTools, registryVars, Listing
  <2>2. left \in Seq(Names(group[r]))
    BY <2>1 DEF Names
  <2>3. OwnNames' /\ tools' \in [Tool -> ToolEntry \cup {None}]
    BY <2>1 DEF OwnNames, TypeOK
  <2> QED
    BY <2>1, <2>2, <2>3, GoingThrough
<1>5. CASE CheckTool(r)
  <2>1. CASE Return(r)
    BY <1>5, <2>1, ReturningStep DEF CheckTool, registryVars, TypeOK
  <2>2. CASE ~ Return(r)
    <3>1. /\ pc[r] = "checking" /\ pc' = [pc EXCEPT ![r] = "registering"]
          /\ UNCHANGED <<registryVars, group, provider, todo>>
      BY <1>5, <2>2 DEF CheckTool
    <3>2. TypeOK' /\ Listing(r)'
      BY <3>1 DEF TypeOK, Listing, registryVars, Registering
    <3> QED
      BY <3>1, <3>2, ReadingStep DEF TypeOK, registryVars
  <2> QED
    BY <2>1, <2>2
<1>6. CASE RegisterTool(r)
  <2> DEFINE x == Head(todo[r])
             left == Tail(todo[r])
  <2>1. /\ pc[r] = "registering" /\ group[r] \in Group /\ provider[r] \in Provider
        /\ todo[r] \in Seq(Names(group[r])) /\ todo[r] # <<>> /\ todo[r] \in Seq(Tool)
        /\ GoThrough(r, left, "checking", "grouping") /\ groups' = groups
    BY <1>6 DEF RegisterTool, Listing, TypeOK
  <2>2. x \in Tool /\ x \in Names(group[r]) /\ left \in Seq(Tool) /\ left \in Seq(Names(group[r]))
    BY <2>1, Parts
  <2>3. EntryOf(r) \in ToolEntry /\ EntryOf(r).group = group[r]
    BY <2>1 DEF EntryOf, ToolEntry
  <2>4. tools' = [tools EXCEPT ![x] = EntryOf(r)] \/ tools' = tools
    BY <1>6 DEF RegisterTool
  <2> HIDE DEF x, left
  <2>5. OwnNames' /\ tools' \in [Tool -> ToolEntry \cup {None}]
    BY <2>2, <2>3, <2>4 DEF OwnNames, TypeOK
  <2> QED
    BY <2>1, <2>2, <2>5, GoingThrough
<1>7. CASE RegisterGroup(r) \/ DeleteGroup(r)
  <2>1. pc[r] # "idle" /\ tools' = tools /\ Return(r)
    BY <1>7 DEF RegisterGroup, DeleteGroup
  <2>2. groups' \in [Group -> Provider \cup {None}]
    BY <1>7 DEF RegisterGroup, DeleteGroup, TypeOK
  <2> QED
    BY <2>1, <2>2, ReturningStep
<1>8. CASE CollectTools(r)
  <2> DEFINE listed == ListedIn(group[r])
  <2>1. /\ pc[r] # "idle" /\ listed \subseteq Tool
        /\ tools' = tools /\ groups' = groups
    BY <1>8 DEF CollectTools, registryVars, ListedIn
  <2>2. PICK order \in [1..Cardinality(listed) -> listed] :
          GoThrough(r, order, "deleting", "ungrouping")
    BY <1>8 DEF CollectTools
  <2>3. Cardinality(listed) \in Nat
    BY <2>1, ToolAssumption, FS_Subset, FS_CardinalityType
  <2>4. order \in Seq(Tool)
    BY <2>1, <2>2, <2>3
  <2>5. OwnNames' /\ tools' \in [Tool -> ToolEntry \cup {None}]
    BY <2>1 DEF OwnNames, TypeOK
  <2> QED
    BY <2>1, <2>2, <2>4, <2>5, GoingThrough
<1>9. CASE DeleteTool(r)
  <2> DEFINE x == Head(todo[r])
             left == Tail(todo[r])
  <2>1. /\ pc[r] = "deleting" /\ todo[r] # <<>> /\ todo[r] \in Seq(Tool)
        /\ tools' = [tools EXCEPT ![x] = None] /\ groups' = groups
        /\ GoThrough(r, left, "deleting", "ungrouping")
    BY <1>9 DEF DeleteTool, Listing, TypeOK
  <2>2. x \in Tool /\ left \in Seq(Tool)
    BY <2>1
  <2>3. OwnNames' /\ tools' \in [Tool -> ToolEntry \cup {None}]
    BY <2>1, <2>2 DEF OwnNames, TypeOK
  <2> QED
    BY <2>1, <2>2, <2>3, GoingThrough
<1>10. CASE CallRaises(r)
  BY <1>10, ReturningStep DEF CallRaises, registryVars, TypeOK
<1> QED
  BY <1>2, <1>3, <1>4, <1>5, <1>6, <1>7, <1>8, <1>9, <1>10

LEMMA ListedInvariance == Spec => []LInv
<1>1. Init => LInv
  <2> SUFFICES ASSUME Init PROVE LInv
    OBVIOUS
  <2>1. TypeOK /\ OwnNames
    BY DEF Init, TypeOK, OwnNames
  <2>2. \A r \in Request : Listing(r)
    BY DEF Init, Listing
  <2> QED
    BY <2>1, <2>2 DEF LInv
<1>2. LInv /\ [Next]_vars => LInv'
  <2>1. ASSUME LInv, UNCHANGED vars PROVE LInv'
    BY <2>1 DEF LInv, vars, registryVars, requestVars, TypeOK, OwnNames, Listing
  <2> QED
    BY <2>1, RequestStep DEF Next
<1> QED
  BY <1>1, <1>2, PTL DEF Spec

(* The types of ToolGroups, whatever requests overlap.                     *)
THEOREM GroupsTyped == CallSpec => []TypeOK
<1>1. LInv => TypeOK
  BY DEF LInv
<1> QED
  BY <1>1, ListedInvariance, CallsOnlyRead, PTL

-----------------------------------------------------------------------------
(* Calls.                                                                  *)

CInv ==
  /\ CallTypeOK
  /\ \A c \in Call :
       /\ callPc[c] # "idle" => callTool[c] \in Tool
       /\ callPc[c] = "calling" => callTool[c] \in Names(callAt[c])

LEMMA CallStep ==
  ASSUME LInv, CInv, [CallNext]_allVars
  PROVE  CInv'
<1> USE DEF CInv, CallTypeOK
<1>1. CASE UNCHANGED callVars
  BY <1>1 DEF callVars
<1>2. ASSUME NEW c \in Call, NEW x \in Tool, BeginCall(c, x) PROVE CInv'
  BY <1>2 DEF BeginCall
<1>3. ASSUME NEW c \in Call, Found(c) # None, callPc[c] # "idle"
      PROVE  /\ Found(c).group \in Group /\ Found(c).provider \in Provider
             /\ callTool[c] \in Names(Found(c).group)
  <2>1. callTool[c] \in Tool /\ Found(c) \in ToolEntry
    BY <1>3 DEF LInv, TypeOK, Found
  <2> QED
    BY <1>3, <2>1 DEF LInv, OwnNames, Found, ToolEntry
<1>4. ASSUME NEW c \in Call, RouteCall(c) PROVE CInv'
  BY <1>3, <1>4 DEF RouteCall
<1>5. ASSUME NEW c \in Call, GetTool(c) PROVE CInv'
  BY <1>3, <1>5 DEF GetTool
<1>6. ASSUME NEW c \in Call, EndCall(c) PROVE CInv'
  BY <1>6 DEF EndCall
<1> QED
  BY <1>1, <1>2, <1>4, <1>5, <1>6 DEF CallNext, allVars, NotServed, CallTool

LEMMA CallInvariance == CallSpec => []CInv
<1>1. CallInit => CInv
  BY DEF CallInit, CInv, CallTypeOK
<1> QED
  BY <1>1, CallStep, ListedInvariance, CallsOnlyRead, PTL DEF CallSpec

(* A tool is called only where it is listed, whatever requests overlap and *)
(* whichever of their calls fail.                                          *)
THEOREM ToolsAreCalledWhereListed == CallSpec => []CalledWhereListed
<1>1. CInv => CalledWhereListed
  BY DEF CInv, CalledWhereListed
<1> QED
  BY <1>1, CallInvariance, PTL

(* The tools of a registered group that nobody is at work on are served at *)
(* its endpoint, when requests for groups with a common name do not        *)
(* overlap and deletions do not fail.                                      *)
THEOREM SettledToolsServed ==
  ASSUME SharingIsApart, "unregister" \notin ToolFaults
  PROVE  CallSpec => SettledToolsAreServed
<1> DEFINE Served ==
      \A c \in Call, g \in Group :
        /\ groups[g] # None /\ ~ AtWorkOn(g)
        /\ callTool[c] \in Names(g)
        => /\ ~ NotServed(c)
           /\ callPc[c] = "looking" /\ callPc'[c] = "calling" => callAt'[c] = g
<1>1. ASSUME GroupOwnsItsTools, LInv, CInv, [CallNext]_allVars PROVE Served
  <2> SUFFICES ASSUME NEW c \in Call, NEW g \in Group,
                      groups[g] # None, ~ AtWorkOn(g), callTool[c] \in Names(g)
               PROVE  /\ ~ NotServed(c)
                      /\ callPc[c] = "looking" /\ callPc'[c] = "calling" => callAt'[c] = g
    OBVIOUS
  <2>1. Found(c) = [group |-> g, provider |-> groups[g]]
    BY <1>1 DEF GroupOwnsItsTools, Found, Names
  <2>2. Found(c) # None
    <3>1. groups[g] \in Provider
      BY <1>1 DEF LInv, TypeOK
    <3> QED
      BY <2>1, <3>1, ToolAssumption DEF ToolEntry
  <2>3. ASSUME callPc[c] = "looking", callPc'[c] = "calling" PROVE callAt'[c] = g
    <3>1. callPc' # callPc
      BY <2>3
    <3>2. PICK d \in Call :
            \/ \E x \in Tool : BeginCall(d, x)
            \/ RouteCall(d) \/ GetTool(d) \/ NotServed(d) \/ CallTool(d)
      BY <1>1, <3>1 DEF CallNext, allVars, callVars
    <3>3. GetTool(c)
      BY <1>1, <2>3, <3>2 DEF BeginCall, RouteCall, GetTool, NotServed, CallTool, EndCall,
                              CInv, CallTypeOK
    <3> QED
      BY <1>1, <2>1, <3>3 DEF GetTool, CInv, CallTypeOK
  <2> QED
    BY <2>2, <2>3 DEF NotServed
<1>2. Spec => []GroupOwnsItsTools
  BY GroupsOwnTheirTools
<1> QED
  BY <1>1, <1>2, CallInvariance, ListedInvariance, CallsOnlyRead, PTL
  DEF CallSpec, SettledToolsAreServed
=============================================================================
