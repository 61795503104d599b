------------------------- MODULE RoutingTableProofs -------------------------
(***************************************************************************)
(* RoutingTable for any number of requests, objects and providers: types,  *)
(* and RoutedIsServed when requests for one object do not overlap.         *)
(***************************************************************************)
EXTENDS RoutingTable, TLAPS

(* What a request works on.                                                *)
AtWork ==
  \A r \in Request : pc[r] # "idle" => obj[r] \in Object /\ provider[r] \in Provider

(* No two requests work on one object.                                     *)
Alone ==
  \A r, q \in Request : pc[r] # "idle" /\ pc[q] # "idle" /\ r # q => obj[r] # obj[q]

(* Between its two calls a registration has told its provider, and an      *)
(* unregistration has emptied the registry.                                *)
HalfDone ==
  \A r \in Request :
    /\ pc[r] = "storing"     => obj[r] \in served[provider[r]]
    /\ pc[r] = "withdrawing" => registry[obj[r]] = None

IInv == TypeOK /\ AtWork /\ Alone /\ HalfDone /\ RoutedIsServed

(* The inductive invariant: a request works on an object that no other     *)
(* works on, and what it leaves half done never shows in the registry.     *)
THEOREM TableInvariance ==
  ASSUME Exclusive
  PROVE  Spec => []IInv
<1>1. Init => IInv
  <2> SUFFICES ASSUME Init PROVE IInv
    OBVIOUS
  <2>1. TypeOK
    BY DEF Init, TypeOK
  <2>2. AtWork /\ Alone /\ HalfDone
    BY DEF Init, AtWork, Alone, HalfDone
  <2>3. RoutedIsServed
    <3> SUFFICES ASSUME NEW o \in Object, registry[o] # None
                 PROVE  o \in served[registry[o]]
      BY DEF RoutedIsServed, GetProviderImpl
    <3> QED
      BY DEF Init
  <2> QED
    BY <2>1, <2>2, <2>3 DEF IInv
<1>2. ASSUME IInv, [Next]_vars PROVE IInv'
  <2> USE <1>2 DEF IInv
  <2>1. CASE UNCHANGED vars
    BY <2>1 DEF vars, TypeOK, AtWork, Alone, HalfDone, RoutedIsServed, GetProviderImpl
  <2>2. ASSUME NEW r \in Request, NEW o \in Object, NEW p \in Provider,
               NEW call \in {"providing", "deleting"}, Begin(r, o, p, call)
        PROVE  IInv'
    <3>1. \A q \in Request : pc[q] # "idle" => obj[q] # o
      BY <2>2 DEF Begin, Free
    <3>2. /\ pc'       = [pc       EXCEPT ![r] = call]
          /\ obj'      = [obj      EXCEPT ![r] = o]
          /\ provider' = [provider EXCEPT ![r] = p]
          /\ pc[r] = "idle" /\ UNCHANGED <<registry, served>>
      BY <2>2 DEF Begin
    <3>3. TypeOK'
      BY <3>2 DEF TypeOK
    <3>4. AtWork'
      BY <3>2 DEF AtWork, TypeOK
    <3>5. Alone'
      BY <3>1, <3>2 DEF Alone, TypeOK
    <3>6. HalfDone'
      BY <3>2 DEF HalfDone, TypeOK
    <3>7. RoutedIsServed'
      BY <3>2 DEF RoutedIsServed, GetProviderImpl
    <3> QED
      BY <3>3, <3>4, <3>5, <3>6, <3>7
  <2>3. ASSUME NEW r \in Request, NEW o \in Object, BeginRegister(r, o)
        PROVE  IInv'
    <3>1. PICK p \in Provider : Begin(r, o, p, "providing")
      BY <2>3, TableAssumption DEF BeginRegister, ProviderFor
    <3> QED
      BY <3>1, <2>2
  <2>4. ASSUME NEW r \in Request, NEW o \in Object, BeginUnregister(r, o)
        PROVE  IInv'
    <3>1. registry[o] \in Provider /\ Begin(r, o, registry[o], "deleting")
      BY <2>4 DEF BeginUnregister, TypeOK
    <3> QED
      BY <3>1, <2>2
  <2>5. ASSUME NEW r \in Request, RegisterWithProvider(r)
        PROVE  IInv'
    <3> DEFINE o == obj[r]
               p == provider[r]
    <3>1. /\ o \in Object /\ p \in Provider
          /\ served' = [served EXCEPT ![p] = @ \cup {o}]
          /\ pc' = [pc EXCEPT ![r] = "storing"]
          /\ pc[r] = "providing" /\ UNCHANGED <<obj, provider, registry>>
      BY <2>5 DEF RegisterWithProvider, Goto, AtWork
    <3> HIDE DEF o, p
    <3>2. TypeOK'
      BY <3>1 DEF TypeOK
    <3>3. \A i \in Provider : served[i] \subseteq served'[i]
      BY <3>1 DEF TypeOK
    <3>4. o \in served'[p]
      BY <3>1 DEF TypeOK
    <3>5. AtWork' /\ Alone'
      BY <3>1 DEF AtWork, Alone, TypeOK
    <3>6. HalfDone'
      BY <3>1, <3>3, <3>4 DEF HalfDone, AtWork, TypeOK, o, p
    <3>7. RoutedIsServed'
      BY <3>1, <3>3 DEF RoutedIsServed, GetProviderImpl, TypeOK
    <3> QED
      BY <3>2, <3>5, <3>6, <3>7
  <2>6. ASSUME NEW r \in Request, Return(r), UNCHANGED <<registry, served>>
        PROVE  IInv'
    BY <2>6 DEF Return, TypeOK, AtWork, Alone, HalfDone, RoutedIsServed, GetProviderImpl
  <2>7. ASSUME NEW r \in Request, StoreObject(r)
        PROVE  IInv'
    <3>1. /\ obj[r] \in Object /\ provider[r] \in Provider
          /\ obj[r] \in served[provider[r]]
          /\ \A q \in Request \ {r} : pc[q] # "idle" => obj[q] # obj[r]
      BY <2>7 DEF StoreObject, AtWork, Alone, HalfDone
    <3>2. registry' = [registry EXCEPT ![obj[r]] = provider[r]] /\ served' = served
      BY <2>7 DEF StoreObject
    <3>3. TypeOK'
      BY <2>7, <3>1, <3>2 DEF StoreObject, Return, TypeOK
    <3>4. AtWork' /\ Alone'
      BY <2>7 DEF StoreObject, Return, AtWork, Alone, TypeOK
    <3>5. HalfDone'
      BY <2>7, <3>1, <3>2 DEF StoreObject, Return, HalfDone, AtWork, TypeOK
    <3>6. RoutedIsServed'
      BY <3>1, <3>2 DEF RoutedIsServed, GetProviderImpl, TypeOK
    <3> QED
      BY <3>3, <3>4, <3>5, <3>6
  <2>8. ASSUME NEW r \in Request, DeleteObject(r)
        PROVE  IInv'
    <3>1. /\ obj[r] \in Object /\ provider[r] \in Provider
          /\ registry' = [registry EXCEPT ![obj[r]] = None]
          /\ pc' = [pc EXCEPT ![r] = "withdrawing"]
          /\ pc[r] = "deleting" /\ UNCHANGED <<obj, provider, served>>
      BY <2>8 DEF DeleteObject, Goto, AtWork
    <3>2. TypeOK'
      BY <3>1 DEF TypeOK
    <3>3. AtWork' /\ Alone'
      BY <3>1 DEF AtWork, Alone, TypeOK
    <3>4. HalfDone'
      BY <3>1 DEF HalfDone, AtWork, TypeOK
    <3>5. RoutedIsServed'
      BY <3>1 DEF RoutedIsServed, GetProviderImpl, TypeOK
    <3> QED
      BY <3>2, <3>3, <3>4, <3>5
  <2>9. ASSUME NEW r \in Request, UnregisterFromProvider(r)
        PROVE  IInv'
    <3> DEFINE o == obj[r]
               p == provider[r]
    <3>1. /\ o \in Object /\ p \in Provider /\ registry[o] = None
          /\ \A q \in Request \ {r} : pc[q] # "idle" => obj[q] # o
      BY <2>9 DEF UnregisterFromProvider, AtWork, Alone, HalfDone
    <3>2. /\ served' = [served EXCEPT ![p] = @ \ {o}]
          /\ registry' = registry /\ Return(r)
      BY <2>9 DEF UnregisterFromProvider
    <3> HIDE DEF o, p
    <3>3. \A i \in Provider : served[i] \ {o} \subseteq served'[i]
      BY <3>1, <3>2 DEF TypeOK
    <3>4. TypeOK'
      BY <3>1, <3>2 DEF Return, TypeOK
    <3>5. AtWork' /\ Alone'
      BY <3>2 DEF Return, AtWork, Alone, TypeOK
    <3>6. HalfDone'
      BY <3>1, <3>2, <3>3 DEF Return, HalfDone, AtWork, TypeOK
    <3>7. RoutedIsServed'
      BY <3>1, <3>2, <3>3 DEF RoutedIsServed, GetProviderImpl, TypeOK
    <3> QED
      BY <3>4, <3>5, <3>6, <3>7
  <2>10. ASSUME NEW r \in Request, CallRaises(r)
         PROVE  IInv'
    BY <2>10, <2>6 DEF CallRaises
  <2> QED
    BY <2>1, <2>3, <2>4, <2>5, <2>7, <2>8, <2>9, <2>10 DEF Next
<1> QED
  BY <1>1, <1>2, PTL DEF Spec

(* The provider an object is routed to knows it, whatever calls fail.      *)
THEOREM RoutedAreServed ==
  ASSUME Exclusive
  PROVE  Spec => []RoutedIsServed
<1>1. IInv => RoutedIsServed
  BY DEF IInv
<1> QED
  BY <1>1, TableInvariance, PTL

(* The types of registry, providers and requests, whether or not requests  *)
(* for one object overlap: every table hands its calls a known provider.   *)
THEOREM TableTyped == Spec => []TypeOK
<1>1. Init => TypeOK /\ AtWork
  BY DEF Init, TypeOK, AtWork
<1>2. ASSUME TypeOK, AtWork, [Next]_vars PROVE TypeOK' /\ AtWork'
  <2> USE <1>2
  <2>1. CASE UNCHANGED vars
    BY <2>1 DEF vars, TypeOK, AtWork
  <2>2. ASSUME NEW r \in Request, NEW o \in Object, NEW p \in Provider,
               NEW call \in {"providing", "deleting"}, Begin(r, o, p, call)
        PROVE  TypeOK' /\ AtWork'
    BY <2>2 DEF Begin, TypeOK, AtWork
  <2>3. ASSUME NEW r \in Request, NEW o \in Object, BeginRegister(r, o)
        PROVE  TypeOK' /\ AtWork'
    <3>1. PICK p \in Provider : Begin(r, o, p, "providing")
      BY <2>3, TableAssumption DEF BeginRegister, ProviderFor
    <3> QED
      BY <3>1, <2>2
  <2>4. ASSUME NEW r \in Request, NEW o \in Object, BeginUnregister(r, o)
        PROVE  TypeOK' /\ AtWork'
    <3>1. registry[o] \in Provider /\ Begin(r, o, registry[o], "deleting")
      BY <2>4 DEF BeginUnregister, TypeOK
    <3> QED
      BY <3>1, <2>2
  <2>5. ASSUME NEW r \in Request,
               RegisterWithProvider(r) \/ DeleteObject(r)
        PROVE  TypeOK' /\ AtWork'
    BY <2>5 DEF RegisterWithProvider, DeleteObject, Goto, TypeOK, AtWork
  <2>6. ASSUME NEW r \in Request,
               StoreObject(r) \/ UnregisterFromProvider(r) \/ CallRaises(r)
        PROVE  TypeOK' /\ AtWork'
    BY <2>6 DEF StoreObject, UnregisterFromProvider, CallRaises, Return, TypeOK, AtWork
  <2> QED
    BY <2>1, <2>3, <2>4, <2>5, <2>6 DEF Next
<1> QED
  BY <1>1, <1>2, PTL DEF Spec
=============================================================================
