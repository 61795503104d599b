-------------------------- MODULE ToolGroupsProofs --------------------------
(***************************************************************************)
(* ToolGroups for any number of requests, groups and tools, when requests  *)
(* for one group, or for groups with a tool name in common, do not overlap.*)
(***************************************************************************)
EXTENDS ToolGroups, FiniteSetTheorems, TLAPS

SharingIsApart ==
  \A g, h \in Group : g = h \/ Names(g) \cap Names(h) # {} => h \in Apart[g]

(* What is left of a sequence when one goes through it.                    *)
IsRest(rest, all) ==
  /\ Len(rest) <= Len(all)
  /\ \A i \in 1..Len(rest) : rest[i] = all[Len(all) - Len(rest) + i]

(* How many of its tools a registration has registered.                    *)
Done(r) == Len(ToolsOf[group[r]]) - Len(todo[r])

(* A registration has come as far as its todo says.                        *)
Registered(r) ==
  /\ IsRest(todo[r], ToolsOf[group[r]])
  /\ \A i \in 1..Done(r) : tools[ToolsOf[group[r]][i]] = EntryOf(r)

(* An unregistration has still to go through all tools of its group, and   *)
(* through no others'.                                                     *)
Collected(r) ==
  /\ \A x \in ListedIn(group[r]) : \E i \in 1..Len(todo[r]) : todo[r][i] = x
  /\ \A i \in 1..Len(todo[r]) :
       /\ todo[r][i] \in Names(group[r])
       /\ tools[todo[r][i]] # None => tools[todo[r][i]].group = group[r]

RequestOK(r) ==
  /\ pc[r] = "idle" => group[r] = None
  /\ pc[r] # "idle" => group[r] \in Group /\ provider[r] \in Provider
  /\ pc[r] \in {"checking", "registering", "deleting"} => todo[r] # <<>>
  /\ pc[r] \in {"grouping", "ungrouping"} => todo[r] = <<>>
  /\ pc[r] \in {"checking", "registering", "grouping"} => Registered(r)
  /\ pc[r] = "registering" => tools[Head(todo[r])] \in {None, EntryOf(r)}
  /\ pc[r] \in {"deleting", "ungrouping"} => Collected(r)

(* Requests at work have groups without common names.                      *)
Alone ==
  \A r, q \in Request :
    pc[r] # "idle" /\ pc[q] # "idle" /\ r # q =>
      group[r] # group[q] /\ Names(group[r]) \cap Names(group[q]) = {}

OwnNames == \A x \in Tool : tools[x] # None => x \in Names(tools[x].group)

IInv == TypeOK /\ Alone /\ OwnNames /\ \A r \in Request : RequestOK(r)

(* A request touches at most one name at a time: one of its own group, for *)
(* a tool of its own group.                                                *)
Touches(r, x) ==
  /\ x \in Tool /\ x \in Names(group[r])
  /\ tools[x] # None => tools[x].group = group[r]
  /\ tools'[x] # None => tools'[x].group = group[r]
  /\ \A y \in Tool \ {x} : tools'[y] = tools[y]

Keeps(r) == tools' = tools \/ (pc[r] # "idle" /\ \E x : Touches(r, x))

(* The next element, and what is left after it.                            *)
LEMMA NextOfAll ==
  ASSUME NEW all \in Seq(Tool), NEW rest \in Seq(Tool), rest # <<>>, IsRest(rest, all)
  PROVE  /\ Head(rest) \in Tool /\ Tail(rest) \in Seq(Tool)
         /\ Len(all) - Len(rest) \in Nat
         /\ Len(all) - Len(rest) + 1 \in 1..Len(all)
         /\ Head(rest) = all[Len(all) - Len(rest) + 1]
         /\ IsRest(Tail(rest), all)
         /\ Len(all) - Len(Tail(rest)) = Len(all) - Len(rest) + 1
<1> DEFINE m == Len(all)
           k == Len(rest)
           t == Tail(rest)
<1>1. /\ m \in Nat /\ k \in Nat /\ k # 0 /\ k <= m
      /\ Head(rest) = rest[1] /\ Head(rest) \in Tool
      /\ t \in Seq(Tool) /\ Len(t) = k - 1
      /\ \A i \in 1..(k - 1) : t[i] = rest[i + 1]
      /\ \A i \in 1..k : rest[i] = all[m - k + i]
  BY DEF IsRest
<1> HIDE DEF m, k, t
<1>2. /\ m - k \in Nat /\ m - k + 1 \in 1..m /\ k - 1 <= m /\ m - (k - 1) = m - k + 1
      /\ 1 \in 1..k
  BY <1>1
<1>3. Head(rest) = all[m - k + 1]
  BY <1>1, <1>2
<1>4. ASSUME NEW i \in 1..(k - 1) PROVE t[i] = all[m - (k - 1) + i]
  <2>1. i + 1 \in 1..k /\ m - k + (i + 1) = m - (k - 1) + i
    BY <1>1
  <2> QED
    BY <1>1, <2>1
<1> QED
  BY <1>1, <1>2, <1>3, <1>4 DEF m, k, t, IsRest

-----------------------------------------------------------------------------
LEMMA NamesAreTools == \A g \in Group : ToolsOf[g] \in Seq(Tool) /\ Names(g) \subseteq Tool
BY ToolAssumption DEF Names

(* A request is not disturbed by what another one does.                    *)
LEMMA OthersUndisturbed ==
  ASSUME IInv, tools' \in [Tool -> ToolEntry \cup {None}],
         NEW r \in Request, Keeps(r),
         NEW q \in Request, q # r,
         pc'[q] = pc[q], group'[q] = group[q], provider'[q] = provider[q], todo'[q] = todo[q]
  PROVE  RequestOK(q)'
<1> USE DEF IInv
<1>1. CASE pc[q] = "idle"
  BY <1>1 DEF RequestOK
<1>2. CASE pc[q] # "idle"
  <2>0. /\ RequestOK(q) /\ group[q] \in Group
        /\ todo[q] \in Seq(Tool)
        /\ ToolsOf[group[q]] \in Seq(Tool)
    BY <1>2, NamesAreTools DEF RequestOK, TypeOK
  <2>1. \A y \in Tool : y \in Names(group[q]) => tools'[y] = tools[y]
    BY <1>2 DEF Keeps, Touches, Alone
  <2>2. \A y \in Tool : tools'[y] # None /\ tools'[y].group = group[q] => tools'[y] = tools[y]
    BY <1>2 DEF Keeps, Touches, Alone
  <2>3. \A i \in 1..Len(ToolsOf[group[q]]) :
          ToolsOf[group[q]][i] \in Tool /\ ToolsOf[group[q]][i] \in Names(group[q])
    BY <2>0, NamesAreTools DEF Names
  <2>4. EntryOf(q)' = EntryOf(q) /\ Done(q)' = Done(q)
    BY DEF EntryOf, Done
  <2>5. Registered(q) => Registered(q)'
    <3> SUFFICES ASSUME Registered(q) PROVE Registered(q)'
      OBVIOUS
    <3>1. \A k, m \in Nat : \A i \in 1..(m - k) : i \in 1..m
      OBVIOUS
    <3>2. \A i \in 1..Done(q) : i \in 1..Len(ToolsOf[group[q]])
      BY <2>0, <3>1 DEF Done
    <3>3. \A i \in 1..Done(q) : tools'[ToolsOf[group[q]][i]] = EntryOf(q)
      BY <2>1, <2>3, <3>2 DEF Registered
    <3> QED
      BY <2>4, <3>3 DEF Registered
  <2>6. Registered(q) /\ todo[q] # <<>> => Head(todo[q]) \in Names(group[q])
    <3> SUFFICES ASSUME Registered(q), todo[q] # <<>>
                 PROVE  Head(todo[q]) \in Names(group[q])
      OBVIOUS
    <3>1. /\ Head(todo[q]) = ToolsOf[group[q]][Done(q) + 1]
          /\ Done(q) + 1 \in 1..Len(ToolsOf[group[q]])
      <4>1. IsRest(todo[q], ToolsOf[group[q]])
        BY DEF Registered
      <4> QED
        BY <2>0, <4>1, NextOfAll, Zenon DEF Done
    <3> QED
      BY <2>3, <3>1
  <2>7. Collected(q) => Collected(q)'
    <3> SUFFICES ASSUME Collected(q) PROVE Collected(q)'
      OBVIOUS
    <3>1. \A x \in ListedIn(group[q])' : x \in ListedIn(group[q])
      BY <2>2 DEF ListedIn
    <3>2. \A i \in 1..Len(todo[q]) : todo[q][i] \in Tool
      BY <2>0
    <3>3. \A i \in 1..Len(todo[q]) : tools'[todo[q][i]] = tools[todo[q][i]]
      BY <2>1, <3>2 DEF Collected
    <3> QED
      BY <3>1, <3>3 DEF Collected
  <2> QED
    BY <1>2, <2>0, <2>1, <2>4, <2>5, <2>6, <2>7, NamesAreTools DEF RequestOK
<1> QED
  BY <1>1, <1>2
(* What is left to show of a step of request r.                            *)
LEMMA OneRequest ==
  ASSUME IInv, TypeOK', Alone',
         NEW r \in Request, Keeps(r), RequestOK(r)',
         \A q \in Request \ {r} :
           /\ pc'[q] = pc[q]             /\ group'[q] = group[q]
           /\ provider'[q] = provider[q] /\ todo'[q] = todo[q]
  PROVE  IInv'
<1>1. \A q \in Request \ {r} : RequestOK(q)'
  BY OthersUndisturbed DEF IInv, TypeOK
<1>2. OwnNames'
  BY DEF IInv, TypeOK, Keeps, Touches, OwnNames
<1> QED
  BY <1>1, <1>2 DEF IInv

(* A request that returns leaves nothing behind.                           *)
LEMMA ReturnKeeps ==
  ASSUME IInv, tools' \in [Tool -> ToolEntry \cup {None}],
         groups' \in [Group -> Provider \cup {None}],
         NEW r \in Request, Return(r), Keeps(r)
  PROVE  IInv'
<1>1. TypeOK' /\ Alone'
  BY DEF IInv, Return, TypeOK, Alone
<1>2. RequestOK(r)'
  BY DEF IInv, Return, TypeOK, RequestOK
<1> QED
  BY <1>1, <1>2, OneRequest DEF IInv, Return, TypeOK

-----------------------------------------------------------------------------
(* Every step of a request keeps the invariant, and a step that changes a  *)
(* tool touches it.                                                        *)

LEMMA BeginKeeps ==
  ASSUME SharingIsApart, IInv, NEW r \in Request, NEW g \in Group, NEW p \in Provider,
         NEW call \in {"listing", "collecting"}, Begin(r, g, p, call)
  PROVE  IInv' /\ Keeps(r)
<1> USE DEF IInv
<1>1. /\ pc' = [pc EXCEPT ![r] = call] /\ group' = [group EXCEPT ![r] = g]
      /\ provider' = [provider EXCEPT ![r] = p]
      /\ tools' = tools /\ groups' = groups /\ todo' = todo
      /\ \A q \in Request : group[q] \notin Apart[g]
  BY DEF Begin, registryVars
<1>2. \A q \in Request : pc[q] # "idle" => group[q] # g /\ Names(g) \cap Names(group[q]) = {}
  BY <1>1 DEF SharingIsApart, RequestOK
<1>3. TypeOK' /\ Keeps(r)
  BY <1>1 DEF TypeOK, Keeps, Registering, Unregistering
<1>4. Alone'
  BY <1>1, <1>2 DEF Alone, TypeOK
<1>5. RequestOK(r)'
  BY <1>1 DEF RequestOK, TypeOK
<1> QED
  BY <1>1, <1>3, <1>4, <1>5, OneRequest DEF TypeOK

(* GoThrough, when the tools are those that are left.                      *)
LEMMA GoesThrough ==
  ASSUME IInv, NEW r \in Request, NEW left \in Seq(Tool),
         NEW each \in {"checking", "deleting"}, NEW last \in {"grouping", "ungrouping"},
         tools' \in [Tool -> ToolEntry \cup {None}], groups' = groups,
         pc[r] # "idle", GoThrough(r, left, each, last), Keeps(r),
         \/ each = "checking" /\ last = "grouping" /\ Registered(r)'
         \/ each = "deleting" /\ last = "ungrouping" /\ Collected(r)'
  PROVE  IInv'
<1> USE DEF IInv
<1>1. /\ todo' = [todo EXCEPT ![r] = left]
      /\ pc' = [pc EXCEPT ![r] = IF left = <<>> THEN last ELSE each]
      /\ group' = group /\ provider' = provider
  BY DEF GoThrough
<1>2. TypeOK'
  BY <1>1 DEF TypeOK, Registering, Unregistering
<1>3. Alone'
  BY <1>1 DEF Alone, TypeOK
<1>4. RequestOK(r)'
  BY <1>1 DEF RequestOK, TypeOK
<1> QED
  BY <1>1, <1>2, <1>3, <1>4, OneRequest DEF TypeOK

LEMMA ListKeeps ==
  ASSUME IInv, NEW r \in Request, ListRuntimeTools(r)
  PROVE  IInv' /\ Keeps(r)
<1> DEFINE left == ToolsOf[group[r]]
<1>1. /\ pc[r] # "idle" /\ left \in Seq(Tool)
      /\ GoThrough(r, left, "checking", "grouping")
      /\ tools' = tools /\ groups' = groups
  BY NamesAreTools DEF ListRuntimeTools, registryVars, IInv, RequestOK
<1>2. group'[r] = group[r] /\ todo'[r] = left
  BY <1>1 DEF GoThrough, IInv, TypeOK
<1>3. Done(r)' = 0
  BY <1>1, <1>2 DEF Done
<1>4. Registered(r)'
  BY <1>1, <1>2, <1>3 DEF Registered, IsRest
<1>5. Keeps(r) /\ tools' \in [Tool -> ToolEntry \cup {None}]
  BY <1>1 DEF Keeps, IInv, TypeOK
<1> QED
  BY <1>1, <1>4, <1>5, GoesThrough

LEMMA CheckKeeps ==
  ASSUME IInv, NEW r \in Request, CheckTool(r)
  PROVE  IInv' /\ Keeps(r)
<1> USE DEF IInv
<1>1. tools' = tools /\ groups' = groups /\ Keeps(r)
  BY DEF CheckTool, registryVars, Keeps
<1>2. CASE Return(r)
  BY <1>1, <1>2, ReturnKeeps DEF TypeOK
<1>3. CASE ~ Return(r)
  <2>1. /\ tools[Head(todo[r])] \in {None, EntryOf(r)}
        /\ pc[r] = "checking" /\ pc' = [pc EXCEPT ![r] = "registering"]
        /\ group' = group /\ provider' = provider /\ todo' = todo
    BY <1>3 DEF CheckTool
  <2>2. TypeOK' /\ Alone'
    BY <1>1, <2>1 DEF TypeOK, Alone, Registering
  <2>3. RequestOK(r)'
    BY <1>1, <2>1 DEF RequestOK, Registered, Done, EntryOf, TypeOK
  <2> QED
    BY <1>1, <2>1, <2>2, <2>3, OneRequest DEF TypeOK
<1> QED
  BY <1>2, <1>3

LEMMA RegisterToolKeeps ==
  ASSUME IInv, NEW r \in Request, RegisterTool(r)
  PROVE  IInv' /\ Keeps(r)
<1> USE DEF IInv
<1> DEFINE x == Head(todo[r])
           left == Tail(todo[r])
           all == ToolsOf[group[r]]
           n == Done(r)
<1>1. /\ pc[r] = "registering" /\ Registered(r)
      /\ group[r] \in Group /\ provider[r] \in Provider
      /\ tools[x] \in {None, EntryOf(r)}
      /\ todo[r] \in Seq(Tool) /\ todo[r] # <<>> /\ all \in Seq(Tool)
  BY NamesAreTools DEF RegisterTool, RequestOK, TypeOK
<1>2. /\ x \in Tool /\ left \in Seq(Tool)
      /\ n \in Nat /\ n + 1 \in 1..Len(all) /\ x = all[n + 1]
      /\ IsRest(left, all) /\ Len(all) - Len(left) = n + 1
  <2>1. IsRest(todo[r], all)
    BY <1>1 DEF Registered
  <2> QED
    BY <1>1, <2>1, NextOfAll, Zenon DEF Done
<1>3. \A i \in 1..(n + 1) : i \in 1..Len(all) /\ (i = n + 1 \/ i \in 1..n)
  <2>1. Len(all) \in Nat
    BY <1>1
  <2> HIDE DEF n, all
  <2> QED
    BY <1>2, <2>1
<1>4. x \in Names(group[r])
  BY <1>1, <1>2 DEF Names
<1>5. tools' = [tools EXCEPT ![x] = EntryOf(r)] \/ tools' = tools
  BY DEF RegisterTool
<1>6. tools' \in [Tool -> ToolEntry \cup {None}]
  BY <1>1, <1>2, <1>5 DEF TypeOK, EntryOf, ToolEntry
<1>7. Keeps(r)
  <2>1. CASE tools' = [tools EXCEPT ![x] = EntryOf(r)]
    <3>1. Touches(r, x)
      BY <1>1, <1>2, <1>4, <2>1 DEF Touches, TypeOK, EntryOf
    <3> QED
      BY <1>1, <3>1 DEF Keeps
  <2> QED
    BY <1>5, <2>1 DEF Keeps
<1>8. tools'[x] = EntryOf(r) /\ \A y \in Tool : tools[y] = EntryOf(r) => tools'[y] = EntryOf(r)
  <2>1. tools[x] # None => tools'[x] = EntryOf(r)
    BY <1>1, <1>2, <1>5 DEF TypeOK
  <2>2. tools[x] = None => tools' = [tools EXCEPT ![x] = EntryOf(r)]
    BY DEF RegisterTool
  <2> QED
    BY <1>2, <1>5, <2>1, <2>2 DEF TypeOK
<1>9. /\ group' = group /\ provider' = provider /\ groups' = groups
      /\ todo' = [todo EXCEPT ![r] = left]
      /\ GoThrough(r, left, "checking", "grouping")
  BY DEF RegisterTool, GoThrough
<1>10. todo'[r] = left /\ EntryOf(r)' = EntryOf(r)
  BY <1>9 DEF TypeOK, EntryOf
<1>11. Done(r)' = n + 1 /\ group'[r] = group[r]
  BY <1>2, <1>9, <1>10 DEF Done
<1>12. \A i \in 1..(n + 1) : tools'[all[i]] = EntryOf(r)
  <2> SUFFICES ASSUME NEW i \in 1..(n + 1) PROVE tools'[all[i]] = EntryOf(r)
    OBVIOUS
  <2>1. all[i] \in Tool
    BY <1>1, <1>3
  <2>2. CASE i = n + 1
    BY <1>2, <1>8, <2>2
  <2>3. CASE i \in 1..n
    BY <1>1, <1>8, <2>1, <2>3 DEF Registered
  <2> QED
    BY <1>3, <2>2, <2>3
<1>13. Registered(r)'
  BY <1>2, <1>9, <1>10, <1>11, <1>12 DEF Registered
<1> HIDE DEF x, left, all, n
<1> QED
  BY <1>1, <1>2, <1>6, <1>7, <1>9, <1>13, GoesThrough

LEMMA RegisterGroupKeeps ==
  ASSUME IInv, NEW r \in Request, RegisterGroup(r)
  PROVE  IInv' /\ Keeps(r)
<1>1. /\ Return(r) /\ tools' = tools /\ Keeps(r)
      /\ groups' = [groups EXCEPT ![group[r]] = provider[r]]
      /\ group[r] \in Group /\ provider[r] \in Provider
  BY DEF RegisterGroup, Keeps, IInv, RequestOK
<1>2. /\ tools' \in [Tool -> ToolEntry \cup {None}]
      /\ groups' \in [Group -> Provider \cup {None}]
  BY <1>1 DEF IInv, TypeOK
<1> QED
  BY <1>1, <1>2, ReturnKeeps

LEMMA CollectKeeps ==
  ASSUME IInv, NEW r \in Request, CollectTools(r)
  PROVE  IInv' /\ Keeps(r)
<1> USE DEF IInv
<1> DEFINE listed == ListedIn(group[r])
<1>1. /\ pc[r] # "idle" /\ group[r] \in Group /\ listed \subseteq Tool
      /\ tools' = tools /\ groups' = groups
  BY DEF CollectTools, registryVars, RequestOK, ListedIn
<1>2. PICK order \in [1..Cardinality(listed) -> listed] :
        /\ {order[i] : i \in DOMAIN order} = listed
        /\ GoThrough(r, order, "deleting", "ungrouping")
  BY DEF CollectTools
<1>3. Cardinality(listed) \in Nat
  BY <1>1, ToolAssumption, FS_Subset, FS_CardinalityType
<1>4. order \in Seq(Tool) /\ Len(order) = Cardinality(listed)
  BY <1>1, <1>2, <1>3
<1>5. group' = group /\ todo'[r] = order
  BY <1>2 DEF GoThrough, TypeOK
<1>6. listed' = listed
  BY <1>1, <1>5 DEF ListedIn
<1>7. \A x \in listed : x \in Names(group[r]) /\ tools[x].group = group[r]
  BY DEF OwnNames, ListedIn
<1>8. \A x \in listed : \E i \in 1..Len(order) : order[i] = x
  BY <1>2, <1>4
<1>9. \A i \in 1..Len(order) : order[i] \in listed
  BY <1>2, <1>4
<1> HIDE DEF listed
<1>10. Collected(r)'
  BY <1>1, <1>5, <1>6, <1>7, <1>8, <1>9 DEF Collected, listed
<1>11. Keeps(r) /\ tools' \in [Tool -> ToolEntry \cup {None}]
  BY <1>1 DEF Keeps, TypeOK
<1> QED
  BY <1>1, <1>2, <1>4, <1>10, <1>11, GoesThrough

LEMMA DeleteToolKeeps ==
  ASSUME IInv, NEW r \in Request, DeleteTool(r)
  PROVE  IInv' /\ Keeps(r)
<1> USE DEF IInv
<1> DEFINE x == Head(todo[r])
           left == Tail(todo[r])
<1>1. /\ pc[r] = "deleting" /\ Collected(r)
      /\ group[r] \in Group
      /\ todo[r] \in Seq(Tool) /\ todo[r] # <<>>
      /\ tools' = [tools EXCEPT ![x] = None] /\ groups' = groups
      /\ GoThrough(r, left, "deleting", "ungrouping")
  BY DEF DeleteTool, RequestOK, TypeOK
<1>2. /\ x = todo[r][1] /\ x \in Tool /\ left \in Seq(Tool)
      /\ Len(todo[r]) \in Nat /\ Len(todo[r]) # 0 /\ Len(left) = Len(todo[r]) - 1
      /\ \A i \in 1..Len(left) : left[i] = todo[r][i + 1] /\ i + 1 \in 1..Len(todo[r])
  BY <1>1
<1>3. /\ x \in Names(group[r])
      /\ tools[x] # None => tools[x].group = group[r]
  BY <1>1, <1>2 DEF Collected
<1>4. /\ tools' \in [Tool -> ToolEntry \cup {None}]
      /\ tools'[x] = None /\ \A y \in Tool \ {x} : tools'[y] = tools[y]
  BY <1>1, <1>2 DEF TypeOK
<1>5. Keeps(r)
  <2>1. Touches(r, x)
    BY <1>2, <1>3, <1>4 DEF Touches
  <2> QED
    BY <1>1, <2>1 DEF Keeps
<1>6. group' = group /\ todo'[r] = left
  BY <1>1 DEF GoThrough, TypeOK
<1>7. \A y \in ListedIn(group[r])' : y \in ListedIn(group[r]) /\ y # x
  BY <1>4, <1>6 DEF ListedIn
<1>8. \A y \in ListedIn(group[r])' : \E i \in 1..Len(left) : left[i] = y
  <2> SUFFICES ASSUME NEW y \in ListedIn(group[r])' PROVE \E i \in 1..Len(left) : left[i] = y
    OBVIOUS
  <2>1. PICK j \in 1..Len(todo[r]) : todo[r][j] = y
    BY <1>1, <1>7 DEF Collected
  <2>2. j # 1
    BY <1>2, <1>7, <2>1
  <2>3. j - 1 \in 1..Len(left) /\ (j - 1) + 1 = j
    BY <1>2, <2>1, <2>2
  <2> QED
    BY <1>2, <2>1, <2>3
<1>9. \A i \in 1..Len(left) :
        /\ left[i] \in Names(group[r])
        /\ tools'[left[i]] # None => tools'[left[i]].group = group[r]
  <2> SUFFICES ASSUME NEW i \in 1..Len(left)
               PROVE  /\ left[i] \in Names(group[r])
                      /\ tools'[left[i]] # None => tools'[left[i]].group = group[r]
    OBVIOUS
  <2>1. /\ left[i] \in Names(group[r]) /\ left[i] \in Tool
        /\ tools[left[i]] # None => tools[left[i]].group = group[r]
    BY <1>1, <1>2 DEF Collected
  <2> QED
    BY <1>4, <2>1
<1>10. Collected(r)'
  BY <1>6, <1>8, <1>9 DEF Collected
<1> HIDE DEF x, left
<1> QED
  BY <1>1, <1>2, <1>4, <1>5, <1>10, GoesThrough

LEMMA DeleteGroupKeeps ==
  ASSUME IInv, NEW r \in Request, DeleteGroup(r)
  PROVE  IInv' /\ Keeps(r)
<1>1. /\ Return(r) /\ tools' = tools /\ Keeps(r)
      /\ groups' = [groups EXCEPT ![group[r]] = None]
  BY DEF DeleteGroup, Keeps
<1>2. /\ tools' \in [Tool -> ToolEntry \cup {None}]
      /\ groups' \in [Group -> Provider \cup {None}]
  BY <1>1 DEF IInv, TypeOK
<1> QED
  BY <1>1, <1>2, ReturnKeeps

LEMMA RaiseKeeps ==
  ASSUME IInv, NEW r \in Request, CallRaises(r)
  PROVE  IInv' /\ Keeps(r)
BY ReturnKeeps DEF CallRaises, registryVars, Keeps, IInv, TypeOK

-----------------------------------------------------------------------------
LEMMA StepKeeps ==
  ASSUME SharingIsApart, IInv, [Next]_vars
  PROVE  IInv' /\ (tools' = tools \/ \E r \in Request : Keeps(r))
<1>1. CASE UNCHANGED vars
  BY <1>1 DEF vars, registryVars, requestVars, IInv, TypeOK, Alone, OwnNames, RequestOK,
              Registered, Collected, ListedIn, EntryOf, Done
<1>2. ASSUME NEW r \in Request,
             \/ \E g \in Group : BeginRegister(r, g) \/ BeginUnregister(r, g)
             \/ ListRuntimeTools(r) \/ CheckTool(r)  \/ RegisterTool(r) \/ RegisterGroup(r)
             \/ CollectTools(r)     \/ DeleteTool(r) \/ DeleteGroup(r)
             \/ CallRaises(r)
      PROVE  IInv' /\ Keeps(r)
  <2>1. ASSUME NEW g \in Group, BeginRegister(r, g) PROVE IInv' /\ Keeps(r)
    BY <2>1, BeginKeeps DEF BeginRegister
  <2>2. ASSUME NEW g \in Group, BeginUnregister(r, g) PROVE IInv' /\ Keeps(r)
    <3>1. groups[g] \in Provider /\ Begin(r, g, groups[g], "collecting")
      BY <2>2 DEF BeginUnregister, IInv, TypeOK
    <3> QED
      BY <3>1, BeginKeeps
  <2> QED
    BY <1>2, <2>1, <2>2, ListKeeps, CheckKeeps, RegisterToolKeeps, RegisterGroupKeeps,
       CollectKeeps, DeleteToolKeeps, DeleteGroupKeeps, RaiseKeeps
<1> QED
  BY <1>1, <1>2 DEF Next

(* The invariant of the theorems below.                                    *)
THEOREM GroupsInvariance ==
  ASSUME SharingIsApart
  PROVE  Spec => []IInv
<1>1. Init => IInv
  <2> SUFFICES ASSUME Init PROVE IInv
    OBVIOUS
  <2>1. TypeOK /\ Alone /\ OwnNames
    BY DEF Init, TypeOK, Alone, OwnNames
  <2>2. \A r \in Request : RequestOK(r)
    BY DEF Init, RequestOK
  <2> QED
    BY <2>1, <2>2 DEF IInv
<1>2. IInv /\ [Next]_vars => IInv'
  BY StepKeeps
<1> QED
  BY <1>1, <1>2, PTL DEF Spec

(* A request changes the tools of its own group only.                      *)
THEOREM OthersAreUntouched ==
  ASSUME SharingIsApart
  PROVE  Spec => OthersUntouched
<1> DEFINE Safe ==
      \A x \in Tool :
        tools'[x] # tools[x] =>
          /\ tools[x] # None => AtWorkOn(tools[x].group)
          /\ tools'[x] # None => AtWorkOn(tools'[x].group)
<1>1. ASSUME IInv, [Next]_vars PROVE Safe
  <2>1. CASE tools' = tools
    BY <2>1
  <2>2. ASSUME NEW r \in Request, Keeps(r) PROVE Safe
    BY <2>2 DEF Keeps, Touches, AtWorkOn
  <2> QED
    BY <1>1, <2>1, <2>2, StepKeeps
<1> QED
  BY <1>1, GroupsInvariance, PTL DEF Spec, OthersUntouched

(* When a group is deleted none of its tools is left.                      *)
THEOREM NoToolsAreLeft ==
  ASSUME SharingIsApart
  PROVE  Spec => NoToolOutlivesGroup
<1> DEFINE Gone == \A g \in Group : groups[g] # None /\ groups'[g] = None => ListedIn(g) = {}
<1>1. ASSUME IInv, [Next]_vars PROVE Gone
  <2> SUFFICES ASSUME NEW g \in Group, groups[g] # None, groups'[g] = None
               PROVE  ListedIn(g) = {}
    OBVIOUS
  <2>1. PICK r \in Request : DeleteGroup(r) \/ RegisterGroup(r)
    BY <1>1 DEF Next, vars, registryVars, BeginRegister, BeginUnregister, Begin,
                ListRuntimeTools, CheckTool, RegisterTool, CollectTools, DeleteTool, CallRaises
  <2>2. RequestOK(r) /\ groups \in [Group -> Provider \cup {None}]
    BY <1>1 DEF IInv, TypeOK
  <2>3. ~ RegisterGroup(r)
    BY <2>2, ToolAssumption DEF RegisterGroup, RequestOK
  <2>4. DeleteGroup(r) /\ group[r] = g
    BY <2>1, <2>2, <2>3 DEF DeleteGroup
  <2>5. todo[r] = <<>> /\ Collected(r)
    BY <2>2, <2>4 DEF DeleteGroup, RequestOK
  <2> QED
    BY <2>4, <2>5 DEF Collected
<1> QED
  BY <1>1, GroupsInvariance, PTL DEF Spec, NoToolOutlivesGroup

-----------------------------------------------------------------------------
(* A registered group has its tools, but while they are being deleted.     *)
BeingDeleted(g) == \E r \in Request : group[r] = g /\ pc[r] \in {"deleting", "ungrouping"}

HasItsTools(g) ==
  \A i \in 1..Len(ToolsOf[g]) : tools[ToolsOf[g][i]] = [group |-> g, provider |-> groups[g]]

Owned == \A g \in Group : groups[g] # None /\ ~ BeingDeleted(g) => HasItsTools(g)

(* A registered group that no request is at work on has all its tools.     *)
THEOREM GroupsOwnTheirTools ==
  ASSUME SharingIsApart, "unregister" \notin ToolFaults
  PROVE  Spec => []GroupOwnsItsTools
<1>1. Init => Owned
  BY DEF Init, Owned
<1>2. ASSUME IInv, IInv', Owned, [Next]_vars PROVE Owned'
  <2> SUFFICES ASSUME NEW g \in Group, groups'[g] # None, ~ BeingDeleted(g)'
               PROVE  HasItsTools(g)'
    BY DEF Owned
  <2>0. /\ tools \in [Tool -> ToolEntry \cup {None}]
        /\ groups \in [Group -> Provider \cup {None}]
        /\ pc \in [Request -> {"idle"} \cup Registering \cup Unregistering]
        /\ \A r \in Request : RequestOK(r)
        /\ ToolsOf[g] \in Seq(Tool)
        /\ \A i \in 1..Len(ToolsOf[g]) : ToolsOf[g][i] \in Tool /\ ToolsOf[g][i] \in Names(g)
    BY <1>2, NamesAreTools DEF IInv, TypeOK, Names
  <2>1. ASSUME groups'[g] = groups[g], ~ BeingDeleted(g), tools' = tools
        PROVE  HasItsTools(g)'
    BY <1>2, <2>1 DEF Owned, HasItsTools
  <2>2. CASE UNCHANGED vars
    BY <2>1, <2>2 DEF vars, registryVars, requestVars, BeingDeleted
  <2>3. ASSUME NEW r \in Request,
               pc[r] \notin {"deleting", "ungrouping"} \/ group[r] # g,
               \A q \in Request \ {r} : pc'[q] = pc[q] /\ group'[q] = group[q]
        PROVE  ~ BeingDeleted(g)
    BY <2>3 DEF BeingDeleted
  <2>4. ASSUME NEW r \in Request, NEW h \in Group, BeginRegister(r, h) \/ BeginUnregister(r, h)
        PROVE  HasItsTools(g)'
    <3>1. pc[r] = "idle" /\ tools' = tools /\ groups' = groups
      BY <2>4 DEF BeginRegister, BeginUnregister, Begin, registryVars
    <3>2. \A q \in Request \ {r} : pc'[q] = pc[q] /\ group'[q] = group[q]
      BY <2>0, <2>4, <1>2 DEF BeginRegister, BeginUnregister, Begin, IInv, TypeOK
    <3> QED
      BY <2>1, <2>3, <3>1, <3>2
  <2>5. ASSUME NEW r \in Request,
               ListRuntimeTools(r) \/ CheckTool(r) \/ CollectTools(r) \/ CallRaises(r)
        PROVE  HasItsTools(g)'
    <3>1. pc[r] \notin {"deleting", "ungrouping"} /\ tools' = tools /\ groups' = groups
      BY <2>5 DEF ListRuntimeTools, CheckTool, CollectTools, CallRaises, registryVars,
                  Registering, Unregistering
    <3>2. \A q \in Request \ {r} : pc'[q] = pc[q] /\ group'[q] = group[q]
      BY <2>5, <1>2 DEF ListRuntimeTools, CheckTool, CollectTools, CallRaises, GoThrough,
                        Return, IInv, TypeOK
    <3> QED
      BY <2>1, <2>3, <3>1, <3>2
  <2>6. ASSUME NEW r \in Request, RegisterTool(r)
        PROVE  HasItsTools(g)'
    <3> DEFINE x == Head(todo[r])
    <3>1. /\ pc[r] = "registering" /\ groups' = groups
          /\ tools' = [tools EXCEPT ![x] = EntryOf(r)] \/ tools' = tools
          /\ tools[x] \in {None, EntryOf(r)}
      BY <2>0, <2>6 DEF RegisterTool, RequestOK
    <3>2. \A q \in Request \ {r} : pc'[q] = pc[q] /\ group'[q] = group[q]
      BY <2>6, <1>2 DEF RegisterTool, GoThrough, IInv, TypeOK
    <3>3. ~ BeingDeleted(g)
      BY <2>3, <3>1, <3>2
    <3>4. groups[g] \in Provider /\ HasItsTools(g)
      BY <1>2, <2>0, <3>1, <3>3 DEF Owned
    <3>5. \A y \in Tool : tools[y] # None => tools'[y] = tools[y]
      BY <2>0, <3>1
    <3>6. [group |-> g, provider |-> groups[g]] # None
      BY <3>4, ToolAssumption DEF ToolEntry
    <3> QED
      BY <2>0, <3>1, <3>4, <3>5, <3>6 DEF HasItsTools
  <2>7. ASSUME NEW r \in Request, RegisterGroup(r)
        PROVE  HasItsTools(g)'
    <3>1. /\ pc[r] = "grouping" /\ tools' = tools
          /\ groups' = [groups EXCEPT ![group[r]] = provider[r]]
          /\ todo[r] = <<>> /\ Registered(r)
      BY <2>0, <2>7 DEF RegisterGroup, RequestOK
    <3>2. \A q \in Request \ {r} : pc'[q] = pc[q] /\ group'[q] = group[q]
      BY <2>7, <1>2 DEF RegisterGroup, Return, IInv, TypeOK
    <3>3. CASE group[r] = g
      <4>1. Done(r) = Len(ToolsOf[g])
        BY <2>0, <3>1, <3>3 DEF Done
      <4>2. groups'[g] = provider[r]
        BY <2>0, <3>1, <3>3
      <4> QED
        BY <3>1, <3>3, <4>1, <4>2 DEF Registered, HasItsTools, EntryOf
    <3>4. CASE group[r] # g
      <4>1. groups'[g] = groups[g]
        BY <2>0, <3>1, <3>4
      <4> QED
        BY <2>1, <2>3, <3>1, <3>2, <4>1
    <3> QED
      BY <3>3, <3>4
  <2>8. ASSUME NEW r \in Request, DeleteTool(r)
        PROVE  HasItsTools(g)'
    <3> DEFINE x == Head(todo[r])
    <3>1. /\ pc[r] = "deleting" /\ groups' = groups /\ group' = group
          /\ tools' = [tools EXCEPT ![x] = None]
          /\ Collected(r) /\ todo[r] # <<>> /\ todo[r] \in Seq(Tool)
      BY <1>2, <2>8 DEF DeleteTool, GoThrough, RequestOK, IInv, TypeOK
    <3>2. /\ pc'[r] \in {"deleting", "ungrouping"}
          /\ \A q \in Request \ {r} : pc'[q] = pc[q] /\ group'[q] = group[q]
      BY <2>8, <1>2 DEF DeleteTool, GoThrough, IInv, TypeOK
    <3>3. group[r] # g
      BY <3>1, <3>2 DEF BeingDeleted
    <3>4. groups[g] \in Provider /\ HasItsTools(g)
      BY <1>2, <2>0, <2>3, <3>1, <3>2, <3>3 DEF Owned
    <3>5. 1 \in 1..Len(todo[r]) /\ x = todo[r][1]
      BY <3>1
    <3>6. tools[x] # None => tools[x].group = group[r]
      BY <3>1, <3>5 DEF Collected
    <3>7. \A y \in Tool : tools[y] # None /\ tools[y].group = g => tools'[y] = tools[y]
      BY <2>0, <3>1, <3>3, <3>6
    <3>8. [group |-> g, provider |-> groups[g]] # None
      BY <3>4, ToolAssumption DEF ToolEntry
    <3> QED
      BY <2>0, <3>1, <3>4, <3>7, <3>8 DEF HasItsTools
  <2>9. ASSUME NEW r \in Request, DeleteGroup(r)
        PROVE  HasItsTools(g)'
    <3>1. /\ tools' = tools /\ groups' = [groups EXCEPT ![group[r]] = None]
          /\ \A q \in Request \ {r} : pc'[q] = pc[q] /\ group'[q] = group[q]
      BY <2>9, <1>2 DEF DeleteGroup, Return, IInv, TypeOK
    <3>2. group[r] # g /\ groups'[g] = groups[g]
      BY <2>0, <3>1
    <3> QED
      BY <2>1, <2>3, <3>1, <3>2
  <2> QED
    BY <1>2, <2>2, <2>4, <2>5, <2>6, <2>7, <2>8, <2>9 DEF Next
<1>3. IInv /\ Owned => GroupOwnsItsTools
  BY DEF Owned, HasItsTools, GroupOwnsItsTools, AtWorkOn, BeingDeleted
<1> QED
  BY <1>1, <1>2, <1>3, GroupsInvariance, PTL DEF Spec
=============================================================================
