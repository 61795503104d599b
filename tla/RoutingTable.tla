---------------------------- MODULE RoutingTable ----------------------------
(***************************************************************************)
(* CommonRoutingTableImpl with the table of one API: the registry on disk  *)
(* says which provider serves an object, and each provider keeps its own   *)
(* record of the objects registered with it.  register_object tells the    *)
(* provider first and the registry second; unregister_object goes the      *)
(* other way round.  Both await every call, so requests interleave, and    *)
(* every call may fail and leave the request half done.                    *)
(*                                                                         *)
(* A request that is refused before its first call changes nothing and is  *)
(* not modelled.                                                           *)
(***************************************************************************)
EXTENDS Naturals, FiniteSets

CONSTANTS
  Request,        \* the requests the server handles at a time
  Object,         \* identifiers
  Provider,       \* the keys of impls_by_provider_id
  FirstProvider,  \* the first of them
  None,
  ObjectType,     \* the type of the objects of this table
  Exclusive       \* TRUE when requests for one object do not overlap

ASSUME TableAssumption ==
  /\ FirstProvider \in Provider
  /\ None \notin Provider
  /\ ObjectType \in {"model", "shield", "vector_db", "dataset", "scoring_function", "benchmark"}
  /\ Exclusive \in BOOLEAN

VARIABLES
  registry,   \* dist_registry: the provider_id stored with each object
  served,     \* the objects each provider knows
  pc,         \* the call each request makes next
  obj,        \* its object: the identifier
  provider    \* and the provider_id

vars == <<registry, served, pc, obj, provider>>

TypeOK ==
  /\ registry \in [Object -> Provider \cup {None}]
  /\ served   \in [Provider -> SUBSET Object]
  /\ pc       \in [Request -> {"idle", "providing", "storing", "deleting", "withdrawing"}]
  /\ obj      \in [Request -> Object \cup {None}]
  /\ provider \in [Request -> Provider \cup {None}]

(* initialize() registers what the providers of scoring functions list; a  *)
(* function that several of them list goes to one of them.                 *)
Init ==
  /\ served \in IF ObjectType = "scoring_function" THEN [Provider -> SUBSET Object]
                ELSE {[p \in Provider |-> {}]}
  /\ registry \in [Object -> Provider \cup {None}]
  /\ \A o \in Object : LET listed == {p \in Provider : o \in served[p]}
                       IN  registry[o] \in IF listed = {} THEN {None} ELSE listed
  /\ pc       = [r \in Request |-> "idle"]
  /\ obj      = [r \in Request |-> None]
  /\ provider = [r \in Request |-> None]

(* register_model and its siblings want a provider_id unless the table has *)
(* one provider only; register_vector_db falls back on the first.          *)
ProviderFor(requested) ==
  IF requested # None THEN {requested}
  ELSE IF ObjectType = "vector_db" \/ Cardinality(Provider) = 1 THEN {FirstProvider}
  ELSE {}

(* get_provider_impl, which looks into the registry alone: an object that  *)
(* is not there is not served.                                             *)
GetProviderImpl(o) == IF registry[o] = None THEN {} ELSE {registry[o]}

CanUnregister == ObjectType \in {"model", "vector_db", "dataset"}

Free(o) == Exclusive => \A r \in Request : pc[r] # "idle" => obj[r] # o

Begin(r, o, p, call) ==
  /\ pc[r] = "idle"
  /\ Free(o)
  /\ pc'       = [pc       EXCEPT ![r] = call]
  /\ obj'      = [obj      EXCEPT ![r] = o]
  /\ provider' = [provider EXCEPT ![r] = p]
  /\ UNCHANGED <<registry, served>>

Goto(r, call) == pc' = [pc EXCEPT ![r] = call] /\ UNCHANGED <<obj, provider>>

Return(r) ==
  /\ pc'       = [pc       EXCEPT ![r] = "idle"]
  /\ obj'      = [obj      EXCEPT ![r] = None]
  /\ provider' = [provider EXCEPT ![r] = None]

-----------------------------------------------------------------------------
BeginRegister(r, o) ==
  \E requested \in Provider \cup {None} :
    \E p \in ProviderFor(requested) : Begin(r, o, p, "providing")

(* register_object_with_provider *)
RegisterWithProvider(r) ==
  /\ pc[r] = "providing"
  /\ served' = [served EXCEPT ![provider[r]] = @ \cup {obj[r]}]
  /\ Goto(r, "storing")
  /\ UNCHANGED registry

(* Mutant: the identifier is stored in the place of the provider_id.       *)
StoreObjectSwapped(r) ==
  /\ pc[r] = "storing"
  /\ registry' = [registry EXCEPT ![obj[r]] = obj[r]]
  /\ Return(r)
  /\ UNCHANGED served

StoreObject(r) ==
  /\ pc[r] = "storing"
  /\ registry' = [registry EXCEPT ![obj[r]] = provider[r]]
  /\ Return(r)
  /\ UNCHANGED served

(* The object is read first; what the provider is told later is read here. *)
BeginUnregister(r, o) ==
  /\ CanUnregister
  /\ registry[o] # None
  /\ Begin(r, o, registry[o], "deleting")

(* Mutant: the provider is told first, the registry second.                *)
DeleteObjectLast(r) ==
  /\ pc[r] = "deleting"
  /\ served' = [served EXCEPT ![provider[r]] = @ \ {obj[r]}]
  /\ Goto(r, "withdrawing")
  /\ UNCHANGED registry

DeleteObject(r) ==
  /\ pc[r] = "deleting"
  /\ registry' = [registry EXCEPT ![obj[r]] = None]
  /\ Goto(r, "withdrawing")
  /\ UNCHANGED served

(* unregister_object_from_provider *)
UnregisterFromProvider(r) ==
  /\ pc[r] = "withdrawing"
  /\ served' = [served EXCEPT ![provider[r]] = @ \ {obj[r]}]
  /\ Return(r)
  /\ UNCHANGED registry

(* The call raises; so does the request, and nothing is undone.            *)
CallRaises(r) ==
  /\ pc[r] # "idle"
  /\ Return(r)
  /\ UNCHANGED <<registry, served>>

Next ==
  \E r \in Request :
    \/ \E o \in Object : BeginRegister(r, o) \/ BeginUnregister(r, o)
    \/ RegisterWithProvider(r) \/ StoreObject(r)
    \/ DeleteObject(r) \/ UnregisterFromProvider(r)
    \/ CallRaises(r)

Spec == Init /\ [][Next]_vars

-----------------------------------------------------------------------------
(* Properties.                                                             *)

(* The provider that get_provider_impl hands an object's calls to knows    *)
(* the object, whatever call fails, as long as requests for one object do  *)
(* not overlap: this is what the order of the two calls in register_object *)
(* and unregister_object is for.                                           *)
RoutedIsServed == \A o \in Object : \A p \in GetProviderImpl(o) : o \in served[p]
=============================================================================
