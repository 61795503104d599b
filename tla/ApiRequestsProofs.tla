------------------------- MODULE ApiRequestsProofs -------------------------
(***************************************************************************)
(* What a request keeps and what it finds, for all APIs, routes, paths and *)
(* functions.                                                              *)
(*                                                                         *)
(* The tables of endpoints are folded from lists, so what they hold is     *)
(* shown by induction on the length of the list.  NatSetInduction is       *)
(* induction for a set of numbers instead of a predicate, which no prover  *)
(* here could instantiate: a proof by induction shows of the set of the n  *)
(* for which its claim holds that it has 0 and, with n, also n + 1.  That  *)
(* a recursive function satisfies its equation is shown in the same way.   *)
(***************************************************************************)
EXTENDS ApiRequests, SequenceTheorems, FiniteSetTheorems, WellFoundedInduction, TLAPS

(* A set of numbers that is not empty has a smallest.                      *)
LEMMA SmallestNat ==
  ASSUME NEW T, T \subseteq Nat, T # {}
  PROVE \E n \in T : \A m \in T : ~ (m < n)
<1>1. \E n \in T : \A m \in T : <<m, n>> \notin OpToRel(<, Nat)
  BY WFMin, NatLessThanWellFounded
<1>2. \A m, n \in Nat : m < n => <<m, n>> \in OpToRel(<, Nat)
  BY DEF OpToRel
<1> QED
  BY <1>1, <1>2

(* Induction.                                                              *)
LEMMA NatSetInduction ==
  ASSUME NEW S, 0 \in S, \A n \in Nat : n \in S => n + 1 \in S
  PROVE Nat \subseteq S
<1> SUFFICES ASSUME Nat \ S # {} PROVE FALSE
  OBVIOUS
<1>1. PICK n \in Nat \ S : \A m \in Nat \ S : ~ (m < n)
  BY SmallestNat
<1>2. n # 0 /\ n - 1 \in Nat /\ n - 1 < n /\ (n - 1) + 1 = n
  BY <1>1
<1> QED
  BY <1>1, <1>2

-----------------------------------------------------------------------------
(* The first route of a table that matches.                                *)
IsFirst(table, p, i) ==
  /\ i \in DOMAIN table
  /\ Matches(table[i], p)
  /\ \A j \in 1..(i - 1) : ~ Matches(table[j], p)

(* A table with a match has a first one; a lookup finds it, on the server *)
(* and in the client, and finds nothing when there is none.                *)
LEMMA FirstExists ==
  ASSUME NEW S, NEW table \in Seq(S), NEW p, NEW i \in DOMAIN table, Matches(table[i], p)
  PROVE  \E k \in DOMAIN table : IsFirst(table, p, k)
<1> DEFINE T == {k \in DOMAIN table : Matches(table[k], p)}
<1>1. T \subseteq Nat /\ i \in T /\ DOMAIN table = 1..Len(table) /\ Len(table) \in Nat
  OBVIOUS
<1>2. PICK k \in T : \A m \in T : ~ (m < k)
  BY <1>1, SmallestNat
<1>3. ASSUME NEW j \in 1..(k - 1) PROVE ~ Matches(table[j], p)
  <2>1. j < k /\ j \in DOMAIN table
    BY <1>1, <1>2
  <2> QED
    BY <2>1, <1>2
<1> QED
  BY <1>2, <1>3 DEF IsFirst

LEMMA LookupFinds ==
  ASSUME NEW S, NEW table \in Seq(S), NEW p, NEW k \in DOMAIN table, IsFirst(table, p, k)
  PROVE  Lookup(table, p) = [found |-> TRUE, index |-> k, params |-> Params(table[k], p)]
<1>1. ASSUME NEW i \in DOMAIN table, Matches(table[i], p),
             \A j \in 1..(i - 1) : ~ Matches(table[j], p)
      PROVE  i = k
  BY <1>1 DEF IsFirst
<1>2. FirstMatch(table, p) = k
  BY <1>1 DEF FirstMatch, IsFirst
<1> QED
  BY <1>2 DEF Lookup, IsFirst

LEMMA ServerFinds ==
  ASSUME NEW S, NEW table \in Seq(S), NEW p, NEW k \in DOMAIN table, IsFirst(table, p, k)
  PROVE  ServerRoute(table, p) =
           [found |-> TRUE, func |-> table[k], params |-> Params(table[k], p)]
<1>1. Lookup(table, p) = [found |-> TRUE, index |-> k, params |-> Params(table[k], p)]
  BY LookupFinds
<1> QED
  BY <1>1 DEF ServerRoute

LEMMA ServerFindsNone ==
  ASSUME NEW table, NEW p, \A i \in DOMAIN table : ~ Matches(table[i], p)
  PROVE  ServerRoute(table, p) = NotFound
BY DEF ServerRoute, Lookup, NotFound

(* An item of the client's dict.                                           *)
Entry == [pattern : Seq(Segment), func : Routes]

LEMMA ClientFinds ==
  ASSUME NEW impls \in Seq(Entry), NEW p, NEW k \in DOMAIN impls, Matches(impls[k].pattern, p),
         \A j \in 1..(k - 1) : ~ Matches(impls[j].pattern, p)
  PROVE  FindMatchingEndpoint(impls, p) =
           [found |-> TRUE, func |-> impls[k].func, params |-> Params(impls[k].pattern, p)]
<1> DEFINE patterns == [i \in DOMAIN impls |-> impls[i].pattern]
<1>0. ASSUME NEW i \in DOMAIN impls PROVE impls[i].pattern \in Seq(Segment)
  <2>1. impls[i] \in Entry
    OBVIOUS
  <2> QED
    BY <2>1 DEF Entry
<1>1. patterns \in Seq(Seq(Segment)) /\ DOMAIN patterns = DOMAIN impls
  BY <1>0
<1>2. \A j \in 1..(k - 1) : j \in DOMAIN impls
  OBVIOUS
<1>3. IsFirst(patterns, p, k)
  BY <1>2 DEF IsFirst
<1>4. Lookup(patterns, p) = [found |-> TRUE, index |-> k, params |-> Params(patterns[k], p)]
  <2> HIDE DEF patterns
  <2> QED BY <1>1, <1>3, LookupFinds
<1>5. patterns[k] = impls[k].pattern
  OBVIOUS
<1>6. FindMatchingEndpoint(impls, p) =
        LET result == Lookup(patterns, p)
        IN  IF result.found
              THEN [found |-> TRUE, func |-> impls[result.index].func, params |-> result.params]
              ELSE NotFound
  BY DEF FindMatchingEndpoint
<1> DEFINE result == Lookup(patterns, p)
<1>7. result.found /\ result.index = k /\ result.params = Params(impls[k].pattern, p)
  <2> HIDE DEF patterns
  <2> QED BY <1>4, <1>5
<1> QED
  BY <1>6, <1>7

LEMMA ClientFindsNone ==
  ASSUME NEW impls, NEW p, \A i \in DOMAIN impls : ~ Matches(impls[i].pattern, p)
  PROVE  FindMatchingEndpoint(impls, p) = NotFound
BY DEF FindMatchingEndpoint, Lookup, NotFound

-----------------------------------------------------------------------------
(* A route converted has no path parameter left, and else its segments.    *)
LEMMA Converted ==
  ASSUME NEW r \in Seq(Segment)
  PROVE  /\ ConvertPathToRegex(r) \in Seq(Segment)
         /\ Len(ConvertPathToRegex(r)) = Len(r)
         /\ DOMAIN ConvertPathToRegex(r) = DOMAIN r
         /\ \A i \in DOMAIN r :
              /\ ConvertPathToRegex(r)[i].kind # "path"
              /\ ConvertPathToRegex(r)[i].kind = "literal" <=> r[i].kind = "literal"
              /\ ConvertPathToRegex(r)[i].name = r[i].name
<1>1. ASSUME NEW i \in DOMAIN r
      PROVE  /\ Convert(r[i]) \in Segment
             /\ Convert(r[i]).kind # "path"
             /\ Convert(r[i]).kind = "literal" <=> r[i].kind = "literal"
             /\ Convert(r[i]).name = r[i].name
  <2>1. r[i] \in Segment
    OBVIOUS
  <2> QED
    BY <2>1 DEF Convert, Segment
<1> QED
  BY <1>1 DEF ConvertPathToRegex

(* For a path whose parameters have no slashes a route and its conversion  *)
(* match alike, with the same parameters.                                  *)
LEMMA ConvertedAlike ==
  ASSUME NEW r \in Seq(Segment), NEW p \in Seq(STRING), Matches(r, p) => Len(r) = Len(p)
  PROVE  /\ Matches(ConvertPathToRegex(r), p) <=> Matches(r, p)
         /\ Matches(r, p) => Params(ConvertPathToRegex(r), p) = Params(r, p)
<1> DEFINE c == ConvertPathToRegex(r)
<1>1. /\ c \in Seq(Segment) /\ Len(c) = Len(r) /\ DOMAIN c = DOMAIN r
      /\ \A i \in DOMAIN r : /\ c[i].kind # "path"
                             /\ c[i].kind = "literal" <=> r[i].kind = "literal"
                             /\ c[i].name = r[i].name
  BY Converted
<1> HIDE DEF c
<1>2. CASE Len(r) # Len(p)
  <2>1. ~ Matches(c, p)
    BY <1>1, <1>2 DEF Matches
  <2> QED
    BY <2>1, <1>2 DEF c
<1>3. CASE Len(r) = Len(p)
  <2>1. \A i \in Int : ParamFirst(r, p, i) = i /\ ParamFirst(c, p, i) = i
    BY <1>1, <1>3 DEF ParamFirst
  <2>2. \A i \in DOMAIN r : i \in Int /\ i + 1 \in Int
    OBVIOUS
  <2>3. Matches(c, p) <=> Matches(r, p)
    <3>1. Len(p) \in Nat
      OBVIOUS
    <3>2. \A i \in DOMAIN r : p[ParamFirst(r, p, i)] = p[ParamFirst(c, p, i)]
      BY <2>1, <2>2
    <3> QED
      BY <1>1, <1>3, <3>1, <3>2 DEF Matches
  <2>4. \A i \in DOMAIN r : ParamLast(r, p, i) = ParamLast(c, p, i)
    BY <2>1, <2>2 DEF ParamLast
  <2>5. Params(c, p) = Params(r, p)
    BY <1>1, <2>1, <2>2, <2>4 DEF Params
  <2> QED
    BY <2>3, <2>5 DEF c
<1> QED
  BY <1>2, <1>3

-----------------------------------------------------------------------------

(* Typing of the routes.                                                   *)
LEMMA RoutesType == Routes \subseteq Seq(Segment)
<1> SUFFICES ASSUME NEW api \in Api, NEW i \in DOMAIN RoutesOf[api]
             PROVE  RoutesOf[api][i] \in Seq(Segment)
  BY DEF Routes
<1>1. RoutesOf[api] \in Seq(Seq(Segment))
  BY RequestAssumption
<1> QED
  BY <1>1

(* The client's table of the first n of the routes R.                      *)
ImplsOf(R) ==
  CHOOSE impls : impls = [n \in 0..Len(R) |->
    IF n = 0 THEN <<>> ELSE Assign(impls[n - 1], ConvertPathToRegex(R[n]), R[n])]

(* The recursion has a solution: one of length m gives one of length m + 1.*)
LEMMA ImplsOfStep ==
  ASSUME NEW R, Len(R) \in Nat
  PROVE  /\ EndpointImpls(R) = ImplsOf(R)[Len(R)]
         /\ ImplsOf(R) = [n \in 0..Len(R) |->
              IF n = 0 THEN <<>> ELSE Assign(ImplsOf(R)[n - 1], ConvertPathToRegex(R[n]), R[n])]
<1> DEFINE G(f, n) == IF n = 0 THEN <<>> ELSE Assign(f[n - 1], ConvertPathToRegex(R[n]), R[n])
           S == {m \in Nat : \E f : f = [n \in 0..m |-> G(f, n)]}
<1>1. 0 \in S
  <2> DEFINE f == [n \in 0..0 |-> <<>>]
  <2>1. f = [n \in 0..0 |-> G(f, n)]
    OBVIOUS
  <2> QED BY <2>1
<1>2. ASSUME NEW m \in Nat, m \in S PROVE m + 1 \in S
  <2>1. PICK f : f = [n \in 0..m |-> G(f, n)]
    BY <1>2
  <2> DEFINE g == [n \in 0..(m + 1) |-> IF n = m + 1 THEN G(f, m + 1) ELSE f[n]]
  <2>2. ASSUME NEW n \in 0..(m + 1) PROVE g[n] = G(g, n)
    <3>1. CASE n = 0
      BY <3>1, <2>1
    <3>2. CASE n = m + 1
      <4>1. g[n - 1] = f[n - 1]
        BY <3>2
      <4> QED
        BY <3>2, <4>1
    <3>3. CASE n # 0 /\ n # m + 1
      <4>1. n \in 0..m /\ n - 1 \in 0..(m + 1) /\ n - 1 # m + 1
        BY <3>3
      <4>2. g[n - 1] = f[n - 1] /\ g[n] = f[n]
        BY <3>3, <4>1
      <4>3. f[n] = G(f, n)
        BY <2>1, <4>1
      <4> QED
        BY <4>2, <4>3
    <3> QED
      BY <3>1, <3>2, <3>3
  <2>3. g = [n \in 0..(m + 1) |-> G(g, n)]
    BY <2>2
  <2>4. \E h : h = [n \in 0..(m + 1) |-> G(h, n)]
    <3> HIDE DEF g
    <3> QED BY <2>3
  <2> QED
    BY <2>4
<1>3. Len(R) \in S
  <2> HIDE DEF S
  <2> QED BY <1>1, <1>2, NatSetInduction
<1>4. \E f : f = [n \in 0..Len(R) |-> G(f, n)]
  BY <1>3
<1> QED
  BY <1>4 DEF ImplsOf, EndpointImpls

(* What the table of the first n routes of R holds for the path p: each    *)
(* route once converted, and the first that matches before the others.     *)
FirstConverted(R, p, k) ==
  /\ Matches(ConvertPathToRegex(R[k]), p)
  /\ \A j \in 1..(k - 1) : ~ Matches(ConvertPathToRegex(R[j]), p)

Tabled(dict, R, n, p) ==
  /\ dict \in Seq(Entry)
  /\ \A i \in DOMAIN dict : /\ dict[i].pattern = ConvertPathToRegex(dict[i].func)
                            /\ \E m \in 1..n : dict[i].func = R[m]
  /\ \A m \in 1..n : \E i \in DOMAIN dict : dict[i].func = R[m]
  /\ \A k \in 1..n : FirstConverted(R, p, k) =>
       \E i \in DOMAIN dict :
         dict[i].func = R[k] /\ \A j \in 1..(i - 1) : ~ Matches(dict[j].pattern, p)

(* One more route is assigned: one that is there already changes nothing.  *)
LEMMA AssignTabled ==
  ASSUME NEW R \in Seq(Routes), NEW p, NEW n \in Nat, n + 1 <= Len(R), NEW dict,
         Tabled(dict, R, n, p)
  PROVE  Tabled(Assign(dict, ConvertPathToRegex(R[n + 1]), R[n + 1]), R, n + 1, p)
<1> DEFINE r == R[n + 1]
           key == ConvertPathToRegex(r)
           item == [pattern |-> key, func |-> r]
           new == Assign(dict, key, r)
<1>1. r \in Routes /\ r \in Seq(Segment) /\ key \in Seq(Segment) /\ item \in Entry
  <2>1. r \in Routes
    OBVIOUS
  <2>2. r \in Seq(Segment)
    BY <2>1, RoutesType
  <2>3. key \in Seq(Segment)
    BY <2>2, Converted
  <2> QED
    BY <2>1, <2>2, <2>3 DEF Entry
<1>2. /\ dict \in Seq(Entry)
      /\ \A i \in DOMAIN dict : /\ dict[i].pattern = ConvertPathToRegex(dict[i].func)
                                /\ \E m \in 1..n : dict[i].func = R[m]
      /\ \A m \in 1..n : \E i \in DOMAIN dict : dict[i].func = R[m]
      /\ \A k \in 1..n : FirstConverted(R, p, k) =>
           \E i \in DOMAIN dict :
             dict[i].func = R[k] /\ \A j \in 1..(i - 1) : ~ Matches(dict[j].pattern, p)
  BY DEF Tabled
<1> HIDE DEF r, key, item, new
<1>3. CASE \E i \in DOMAIN dict : dict[i].pattern = key
  <2>1. PICK i \in DOMAIN dict : dict[i].pattern = key
    BY <1>3
  <2>2. \A a, b \in Routes : ConvertPathToRegex(a) = ConvertPathToRegex(b) => a = b
    BY RequestAssumption
  <2>3. ASSUME NEW e \in Entry, e.pattern = ConvertPathToRegex(e.func), e.pattern = key
        PROVE  e = item
    <3>1. e.func \in Routes /\ e = [pattern |-> e.pattern, func |-> e.func]
      BY DEF Entry
    <3>2. e.func = r
      BY <3>1, <2>2, <2>3, <1>1 DEF key
    <3> QED
      BY <3>1, <3>2, <2>3 DEF item
  <2>4. ASSUME NEW j \in DOMAIN dict, dict[j].pattern = key PROVE dict[j] = item
    <3>1. dict[j] \in Entry
      BY <1>2
    <3> QED
      BY <3>1, <2>3, <2>4, <1>2
  <2>5. new = dict
    BY <2>1, <2>4, <1>2 DEF new, Assign, item
  <2>6. dict[i].func = r
    BY <2>4, <2>1 DEF item
  <2>7. PICK m \in 1..n : r = R[m]
    BY <2>6, <1>2
  <2>8. ~ FirstConverted(R, p, n + 1)
    <3>1. m \in 1..((n + 1) - 1)
      OBVIOUS
    <3> QED
      BY <2>7, <3>1 DEF FirstConverted, r
  <2>9. \A k \in 1..(n + 1) : k \in 1..n \/ k = n + 1
    OBVIOUS
  <2>10. \A j \in DOMAIN dict : \E k \in 1..(n + 1) : dict[j].func = R[k]
    <3>1. \A k \in 1..n : k \in 1..(n + 1)
      OBVIOUS
    <3> QED
      BY <3>1, <1>2
  <2>11. \A k \in 1..(n + 1) : \E j \in DOMAIN dict : dict[j].func = R[k]
    BY <1>2, <2>6, <2>9 DEF r
  <2>12. \A k \in 1..(n + 1) : FirstConverted(R, p, k) =>
           \E j \in DOMAIN dict :
             dict[j].func = R[k] /\ \A h \in 1..(j - 1) : ~ Matches(dict[h].pattern, p)
    BY <1>2, <2>8, <2>9
  <2>13. Tabled(dict, R, n + 1, p)
    BY <1>2, <2>10, <2>11, <2>12 DEF Tabled
  <2> QED
    BY <2>5, <2>13 DEF new, r, key
<1>4. CASE \A i \in DOMAIN dict : dict[i].pattern # key
  <2>1. new = Append(dict, item)
    BY <1>4 DEF new, Assign, item
  <2>2. /\ new \in Seq(Entry) /\ DOMAIN new = 1..(Len(dict) + 1) /\ DOMAIN dict = 1..Len(dict)
        /\ new[Len(dict) + 1] = item /\ \A i \in DOMAIN dict : new[i] = dict[i]
        /\ Len(dict) \in Nat
    <3>1. dict \in Seq(Entry) /\ item \in Entry
      BY <1>1, <1>2
    <3> QED
      BY <3>1, <2>1, AppendProperties
  <2>3. item.func = r /\ item.pattern = ConvertPathToRegex(r)
    BY DEF item, key
  <2>4. ASSUME NEW i \in DOMAIN new
        PROVE  /\ new[i].pattern = ConvertPathToRegex(new[i].func)
               /\ \E m \in 1..(n + 1) : new[i].func = R[m]
    <3>1. CASE i \in DOMAIN dict
      <4>1. PICK m \in 1..n : dict[i].func = R[m]
        BY <3>1, <1>2
      <4>2. m \in 1..(n + 1) /\ new[i] = dict[i]
        BY <3>1, <2>2
      <4> QED
        BY <3>1, <4>1, <4>2, <1>2
    <3>2. CASE i = Len(dict) + 1
      BY <3>2, <2>2, <2>3 DEF r
    <3> QED
      BY <3>1, <3>2, <2>2
  <2>5. ASSUME NEW m \in 1..(n + 1) PROVE \E i \in DOMAIN new : new[i].func = R[m]
    <3>1. CASE m \in 1..n
      <4>1. PICK i \in DOMAIN dict : dict[i].func = R[m]
        BY <3>1, <1>2
      <4> QED
        BY <4>1, <2>2
    <3>2. CASE m = n + 1
      BY <3>2, <2>2, <2>3 DEF r
    <3> QED
      BY <3>1, <3>2
  <2>6. ASSUME NEW k \in 1..(n + 1), FirstConverted(R, p, k)
        PROVE  \E i \in DOMAIN new :
                 new[i].func = R[k] /\ \A j \in 1..(i - 1) : ~ Matches(new[j].pattern, p)
    <3>1. CASE k \in 1..n
      <4>1. PICK i \in DOMAIN dict :
              dict[i].func = R[k] /\ \A j \in 1..(i - 1) : ~ Matches(dict[j].pattern, p)
        BY <3>1, <2>6, <1>2
      <4>2. i \in DOMAIN new /\ new[i] = dict[i] /\ \A j \in 1..(i - 1) : new[j] = dict[j]
        BY <2>2
      <4> QED
        BY <4>1, <4>2
    <3>2. CASE k = n + 1
      <4>1. ASSUME NEW j \in DOMAIN dict PROVE ~ Matches(new[j].pattern, p)
        <5>1. PICK m \in 1..n : dict[j].func = R[m]
          BY <1>2
        <5>2. m \in 1..(k - 1)
          BY <3>2
        <5>3. new[j].pattern = ConvertPathToRegex(R[m])
          BY <5>1, <1>2, <2>2
        <5> QED
          BY <5>2, <5>3, <2>6 DEF FirstConverted
      <4>2. \A j \in 1..((Len(dict) + 1) - 1) : j \in DOMAIN dict
        BY <2>2
      <4>3. Len(dict) + 1 \in DOMAIN new /\ new[Len(dict) + 1].func = R[k]
        BY <2>2, <2>3, <3>2 DEF r
      <4> QED
        BY <4>1, <4>2, <4>3
    <3> QED
      BY <3>1, <3>2
  <2> QED
    BY <2>2, <2>4, <2>5, <2>6 DEF Tabled, new, r, key
<1> QED
  BY <1>3, <1>4 DEF new, key, r

(* The table of all the routes, by induction on their number.              *)
LEMMA ImplsTabled ==
  ASSUME NEW R \in Seq(Routes), NEW p
  PROVE  Tabled(EndpointImpls(R), R, Len(R), p)
<1> DEFINE S == {n \in Nat : n <= Len(R) => Tabled(ImplsOf(R)[n], R, n, p)}
<1>1. Len(R) \in Nat
  OBVIOUS
<1>2. /\ ImplsOf(R)[0] = <<>>
      /\ \A n \in Nat : n + 1 <= Len(R) =>
           ImplsOf(R)[n + 1] = Assign(ImplsOf(R)[n], ConvertPathToRegex(R[n + 1]), R[n + 1])
  <2>1. ImplsOf(R) = [n \in 0..Len(R) |->
           IF n = 0 THEN <<>> ELSE Assign(ImplsOf(R)[n - 1], ConvertPathToRegex(R[n]), R[n])]
    BY <1>1, ImplsOfStep
  <2>2. 0 \in 0..Len(R)
    BY <1>1
  <2>3. \A n \in Nat : n + 1 <= Len(R) => n + 1 \in 0..Len(R) /\ n + 1 # 0 /\ (n + 1) - 1 = n
    BY <1>1
  <2> QED
    BY <2>1, <2>2, <2>3, Zenon
<1>3. 0 \in S
  <2>1. Tabled(<<>>, R, 0, p)
    BY DEF Tabled
  <2> QED
    BY <2>1, <1>2
<1>4. ASSUME NEW n \in Nat, n \in S PROVE n + 1 \in S
  <2> SUFFICES ASSUME n + 1 <= Len(R) PROVE Tabled(ImplsOf(R)[n + 1], R, n + 1, p)
    OBVIOUS
  <2>1. Tabled(ImplsOf(R)[n], R, n, p)
    BY <1>1, <1>4
  <2> QED
    BY <2>1, <1>2, AssignTabled
<1>5. Len(R) \in S
  <2> HIDE DEF S
  <2> QED BY <1>1, <1>3, <1>4, NatSetInduction
<1> QED
  BY <1>1, <1>5, ImplsOfStep

-----------------------------------------------------------------------------
(* The routes of the APIs, one after the other.                            *)
FlatOf(s) ==
  CHOOSE flatten : flatten = [i \in 1..Len(s) |->
    IF i = 1 THEN s[i] ELSE flatten[i - 1] \o s[i]]

(* The same for FlattenSeq.                                                *)
LEMMA FlatOfStep ==
  ASSUME NEW s, Len(s) \in Nat
  PROVE  /\ FlattenSeq(s) = IF Len(s) = 0 THEN s ELSE FlatOf(s)[Len(s)]
         /\ FlatOf(s) = [i \in 1..Len(s) |->
              IF i = 1 THEN s[i] ELSE FlatOf(s)[i - 1] \o s[i]]
<1> DEFINE G(f, n) == IF n = 1 THEN s[n] ELSE f[n - 1] \o s[n]
           S == {m \in Nat : \E f : f = [n \in 1..m |-> G(f, n)]}
<1>1. 0 \in S
  <2> DEFINE f == [n \in 1..0 |-> {}]
  <2>1. f = [n \in 1..0 |-> G(f, n)]
    OBVIOUS
  <2> QED BY <2>1
<1>2. ASSUME NEW m \in Nat, m \in S PROVE m + 1 \in S
  <2>1. PICK f : f = [n \in 1..m |-> G(f, n)]
    BY <1>2
  <2> DEFINE g == [n \in 1..(m + 1) |-> IF n = m + 1 THEN G(f, m + 1) ELSE f[n]]
  <2>2. ASSUME NEW n \in 1..(m + 1) PROVE g[n] = G(g, n)
    <3>1. CASE n = 1 /\ n # m + 1
      BY <3>1, <2>1
    <3>2. CASE n = 1 /\ n = m + 1
      BY <3>2
    <3>3. CASE n # 1 /\ n = m + 1
      <4>1. g[n - 1] = f[n - 1]
        BY <3>3
      <4> QED
        BY <3>3, <4>1
    <3>4. CASE n # 1 /\ n # m + 1
      <4>1. n \in 1..m /\ n - 1 \in 1..(m + 1) /\ n - 1 # m + 1
        BY <3>4
      <4>2. g[n - 1] = f[n - 1] /\ g[n] = f[n]
        BY <3>4, <4>1
      <4>3. f[n] = G(f, n)
        BY <2>1, <4>1
      <4> QED
        BY <4>2, <4>3
    <3> QED
      BY <3>1, <3>2, <3>3, <3>4
  <2>3. g = [n \in 1..(m + 1) |-> G(g, n)]
    BY <2>2
  <2>4. \E h : h = [n \in 1..(m + 1) |-> G(h, n)]
    <3> HIDE DEF g
    <3> QED BY <2>3
  <2>5. m + 1 \in Nat
    OBVIOUS
  <2> HIDE DEF G
  <2> QED
    BY <2>4, <2>5
<1>3. Len(s) \in S
  <2> HIDE DEF S
  <2> QED BY <1>1, <1>2, NatSetInduction
<1>4. \E f : f = [n \in 1..Len(s) |-> G(f, n)]
  BY <1>3
<1> QED
  BY <1>4 DEF FlatOf, FlattenSeq

NoneMatches(table, p) == \A i \in DOMAIN table : ~ Matches(table[i], p)

(* The first match in two lists, one after the other.                      *)
LEMMA ConcatFirst ==
  ASSUME NEW X \in Seq(Routes), NEW Y \in Seq(Routes), NEW p
  PROVE  /\ X \o Y \in Seq(Routes)
         /\ NoneMatches(X \o Y, p) <=> NoneMatches(X, p) /\ NoneMatches(Y, p)
         /\ \A k \in DOMAIN X : IsFirst(X, p, k) =>
              IsFirst(X \o Y, p, k) /\ (X \o Y)[k] = X[k]
         /\ NoneMatches(X, p) => \A k \in DOMAIN Y : IsFirst(Y, p, k) =>
              IsFirst(X \o Y, p, Len(X) + k) /\ (X \o Y)[Len(X) + k] = Y[k]
<1>1. /\ X \o Y \in Seq(Routes) /\ DOMAIN (X \o Y) = 1..(Len(X) + Len(Y))
      /\ DOMAIN X = 1..Len(X) /\ DOMAIN Y = 1..Len(Y) /\ Len(X) \in Nat /\ Len(Y) \in Nat
      /\ \A i \in 1..Len(X) : (X \o Y)[i] = X[i]
      /\ \A i \in 1..Len(Y) : (X \o Y)[Len(X) + i] = Y[i]
  OBVIOUS
<1> DEFINE Z == X \o Y
<1> HIDE DEF Z
<1>2. \A i \in DOMAIN Z : i \in DOMAIN X \/ \E j \in DOMAIN Y : i = Len(X) + j
  <2> SUFFICES ASSUME NEW i \in DOMAIN Z, ~ (i <= Len(X)) PROVE \E j \in DOMAIN Y : i = Len(X) + j
    BY <1>1 DEF Z
  <2>1. i - Len(X) \in DOMAIN Y /\ i = Len(X) + (i - Len(X))
    BY <1>1 DEF Z
  <2> QED
    BY <2>1
<1>3. /\ \A i \in DOMAIN X : i \in DOMAIN Z /\ Z[i] = X[i]
      /\ \A i \in DOMAIN Y : Len(X) + i \in DOMAIN Z /\ Z[Len(X) + i] = Y[i]
  BY <1>1 DEF Z
<1>4. NoneMatches(Z, p) <=> NoneMatches(X, p) /\ NoneMatches(Y, p)
  BY <1>2, <1>3 DEF NoneMatches
<1>5. ASSUME NEW k \in DOMAIN X, IsFirst(X, p, k) PROVE IsFirst(Z, p, k) /\ Z[k] = X[k]
  <2>1. \A j \in 1..(k - 1) : j \in DOMAIN X
    BY <1>1
  <2> QED
    BY <1>5, <2>1, <1>3 DEF IsFirst
<1>6. ASSUME NoneMatches(X, p), NEW k \in DOMAIN Y, IsFirst(Y, p, k)
      PROVE  IsFirst(Z, p, Len(X) + k) /\ Z[Len(X) + k] = Y[k]
  <2>1. ASSUME NEW j \in 1..(Len(X) + k - 1) PROVE ~ Matches(Z[j], p)
    <3>1. CASE j \in DOMAIN X
      BY <3>1, <1>3, <1>6 DEF NoneMatches
    <3>2. CASE j \notin DOMAIN X
      <4>1. j - Len(X) \in DOMAIN Y /\ j - Len(X) \in 1..(k - 1) /\ j = Len(X) + (j - Len(X))
        BY <3>2, <1>1
      <4>2. ~ Matches(Y[j - Len(X)], p)
        BY <4>1, <1>6 DEF IsFirst
      <4>3. Z[Len(X) + (j - Len(X))] = Y[j - Len(X)]
        BY <4>1, <1>3
      <4> QED
        BY <4>1, <4>2, <4>3
    <3> QED
      BY <3>1, <3>2
  <2> QED
    BY <2>1, <1>3, <1>6 DEF IsFirst
<1> QED
  BY <1>1, <1>4, <1>5, <1>6 DEF Z

(* Of lists put one after the other: where only one has a match, its first *)
(* match is the first of all.                                              *)
OnlyMatchIsFirst(s, p) ==
  \A a \in DOMAIN s : \A k \in DOMAIN s[a] :
    IsFirst(s[a], p, k) /\ (\A i \in DOMAIN s : i # a => NoneMatches(s[i], p)) =>
      \E j \in DOMAIN FlattenSeq(s) :
        IsFirst(FlattenSeq(s), p, j) /\ FlattenSeq(s)[j] = s[a][k]

(* The lists together match what one of them matches.                      *)
LEMMA FlattenFirst ==
  ASSUME NEW s \in Seq(Seq(Routes)), NEW p
  PROVE  /\ FlattenSeq(s) \in Seq(Routes)
         /\ NoneMatches(FlattenSeq(s), p) <=> \A i \in DOMAIN s : NoneMatches(s[i], p)
         /\ OnlyMatchIsFirst(s, p)
<1> DEFINE f == FlatOf(s)
           Only(a, k) == IsFirst(s[a], p, k) /\ (\A i \in DOMAIN s : i # a => NoneMatches(s[i], p))
           Good(n) ==
             /\ f[n] \in Seq(Routes)
             /\ NoneMatches(f[n], p) <=> \A i \in 1..n : NoneMatches(s[i], p)
             /\ \A a \in 1..n : \A k \in DOMAIN s[a] :
                  Only(a, k) => \E j \in DOMAIN f[n] : IsFirst(f[n], p, j) /\ f[n][j] = s[a][k]
           S == {n \in Nat : n + 1 <= Len(s) => Good(n + 1)}
<1>1. /\ Len(s) \in Nat /\ DOMAIN s = 1..Len(s) /\ \A i \in DOMAIN s : s[i] \in Seq(Routes)
  OBVIOUS
<1>2. /\ 1 <= Len(s) => f[1] = s[1]
      /\ \A n \in Nat : n + 2 <= Len(s) => f[n + 2] = f[n + 1] \o s[n + 2]
  <2>1. f = [i \in 1..Len(s) |-> IF i = 1 THEN s[i] ELSE f[i - 1] \o s[i]]
    BY <1>1, FlatOfStep
  <2> HIDE DEF f
  <2>2. 1 <= Len(s) => 1 \in 1..Len(s)
    BY <1>1
  <2>3. \A n \in Nat : n + 2 <= Len(s) => n + 2 \in 1..Len(s) /\ n + 2 # 1 /\ (n + 2) - 1 = n + 1
    BY <1>1
  <2> QED
    BY <2>1, <2>2, <2>3, Zenon
<1> HIDE DEF f
<1>3. 0 \in S
  <2> SUFFICES ASSUME 1 <= Len(s) PROVE Good(1)
    OBVIOUS
  <2>1. 1 \in DOMAIN s /\ f[1] = s[1] /\ 1..1 = {1}
    BY <1>1, <1>2
  <2> QED
    BY <2>1, <1>1
<1>4. ASSUME NEW n \in Nat, n \in S PROVE n + 1 \in S
  <2> SUFFICES ASSUME n + 2 <= Len(s) PROVE Good(n + 2)
    OBVIOUS
  <2>1. Good(n + 1)
    BY <1>1, <1>4
  <2> DEFINE X == f[n + 1]
             Y == s[n + 2]
  <2>2. n + 2 \in DOMAIN s /\ X \in Seq(Routes) /\ Y \in Seq(Routes) /\ f[n + 2] = X \o Y
    <3>1. n + 2 \in DOMAIN s
      BY <1>1
    <3> QED
      BY <3>1, <1>1, <1>2, <2>1
  <2>8. /\ NoneMatches(X \o Y, p) <=> NoneMatches(X, p) /\ NoneMatches(Y, p)
        /\ \A k \in DOMAIN X : IsFirst(X, p, k) =>
             IsFirst(X \o Y, p, k) /\ (X \o Y)[k] = X[k]
        /\ NoneMatches(X, p) => \A k \in DOMAIN Y : IsFirst(Y, p, k) =>
             IsFirst(X \o Y, p, Len(X) + k) /\ (X \o Y)[Len(X) + k] = Y[k]
    <3> HIDE DEF X, Y
    <3> QED BY <2>2, ConcatFirst
  <2>3. \A i \in 1..(n + 2) : i \in DOMAIN s /\ (i \in 1..(n + 1) \/ i = n + 2)
    BY <1>1
  <2>4. \A i \in 1..(n + 1) : i \in 1..(n + 2) /\ i \in DOMAIN s /\ i # n + 2
    BY <1>1
  <2>5. f[n + 2] \in Seq(Routes)
    BY <2>2, ConcatFirst
  <2>6. NoneMatches(f[n + 2], p) <=> \A i \in 1..(n + 2) : NoneMatches(s[i], p)
    <3>1. NoneMatches(f[n + 2], p) <=> NoneMatches(f[n + 1], p) /\ NoneMatches(s[n + 2], p)
      BY <2>2, <2>8
    <3>2. NoneMatches(f[n + 1], p) <=> \A i \in 1..(n + 1) : NoneMatches(s[i], p)
      BY <2>1
    <3>3. (\A i \in 1..(n + 2) : NoneMatches(s[i], p)) <=>
            (\A i \in 1..(n + 1) : NoneMatches(s[i], p)) /\ NoneMatches(s[n + 2], p)
      <4>1. n + 2 \in 1..(n + 2)
        OBVIOUS
      <4> QED
        BY <4>1, <2>3, <2>4
    <3> QED
      BY <3>1, <3>2, <3>3
  <2>7. ASSUME NEW a \in 1..(n + 2), NEW k \in DOMAIN s[a], Only(a, k)
        PROVE  \E j \in DOMAIN f[n + 2] : IsFirst(f[n + 2], p, j) /\ f[n + 2][j] = s[a][k]
    <3>1. CASE a \in 1..(n + 1)
      <4>1. PICK j \in DOMAIN f[n + 1] : IsFirst(f[n + 1], p, j) /\ f[n + 1][j] = s[a][k]
        BY <3>1, <2>1, <2>7
      <4>2. IsFirst(f[n + 2], p, j) /\ f[n + 2][j] = f[n + 1][j]
        BY <4>1, <2>2, <2>8
      <4> QED
        BY <4>1, <4>2 DEF IsFirst
    <3>2. CASE a = n + 2
      <4>1. \A i \in 1..(n + 1) : NoneMatches(s[i], p)
        BY <3>2, <2>4, <2>7
      <4>2. NoneMatches(f[n + 1], p)
        BY <4>1, <2>1
      <4>3. /\ IsFirst(f[n + 2], p, Len(f[n + 1]) + k)
            /\ f[n + 2][Len(f[n + 1]) + k] = s[a][k]
        BY <4>2, <3>2, <2>2, <2>7, <2>8
      <4> QED
        BY <4>3 DEF IsFirst
    <3> QED
      BY <3>1, <3>2, <2>3
  <2> QED
    BY <2>5, <2>6, <2>7
<1>5. CASE Len(s) = 0
  <2>1. FlattenSeq(s) = s
    BY <1>1, <1>5, FlatOfStep
  <2>2. s = <<>> /\ <<>> \in Seq(Routes) /\ DOMAIN s = {}
    BY <1>1, <1>5
  <2> QED
    BY <2>1, <2>2 DEF NoneMatches, OnlyMatchIsFirst
<1>6. CASE Len(s) # 0
  <2>1. Len(s) - 1 \in Nat /\ (Len(s) - 1) + 1 = Len(s)
    BY <1>1, <1>6
  <2>2. Len(s) - 1 \in S
    <3> HIDE DEF S
    <3> QED BY <2>1, <1>3, <1>4, NatSetInduction
  <2>3. Good(Len(s))
    BY <2>1, <2>2, <1>1
  <2>4. FlattenSeq(s) = f[Len(s)]
    BY <1>1, <1>6, FlatOfStep DEF f
  <2>5. DOMAIN s = 1..Len(s)
    BY <1>1
  <2>6. FlattenSeq(s) \in Seq(Routes)
    BY <2>3, <2>4
  <2>7. NoneMatches(FlattenSeq(s), p) <=> \A i \in DOMAIN s : NoneMatches(s[i], p)
    BY <2>3, <2>4, <2>5
  <2>8. ASSUME NEW a \in DOMAIN s, NEW k \in DOMAIN s[a], Only(a, k)
        PROVE  \E j \in DOMAIN FlattenSeq(s) :
                 IsFirst(FlattenSeq(s), p, j) /\ FlattenSeq(s)[j] = s[a][k]
    BY <2>3, <2>4, <2>5, <2>8
  <2> QED
    BY <2>6, <2>7, <2>8 DEF OnlyMatchIsFirst
<1> QED
  BY <1>5, <1>6

-----------------------------------------------------------------------------
(* An order of some of the APIs names each of them once.                   *)
LEMMA OrderNamesAll ==
  ASSUME NEW A \in SUBSET Built, NEW order \in SetToSeqs(A)
  PROVE  /\ order \in Seq(A)
         /\ \A i, j \in DOMAIN order : i # j => order[i] # order[j]
         /\ \A api \in A : \E i \in DOMAIN order : order[i] = api
<1> DEFINE D == 1..Cardinality(A)
<1>1. IsFiniteSet(A)
  <2>1. A \subseteq Api /\ IsFiniteSet(Api)
    BY RequestAssumption
  <2> QED
    BY <2>1, FS_Subset
<1>2. Cardinality(A) \in Nat
  BY <1>1, FS_CardinalityType
<1>3. order \in [D -> A] /\ \A i, j \in D : i # j => order[i] # order[j]
  BY DEF SetToSeqs
<1>4. order \in Seq(A) /\ DOMAIN order = D
  BY <1>2, <1>3
<1>5. order \in Injection(D, A)
  BY <1>3 DEF Injection, IsInjective
<1>6. IsFiniteSet(D) /\ Cardinality(D) = Cardinality(A)
  BY <1>2, FS_Interval
<1>7. order \in Surjection(D, A)
  BY <1>1, <1>5, <1>6, FS_Injection
<1>8. \A api \in A : \E i \in D : order[i] = api
  BY <1>7 DEF Surjection
<1> QED
  BY <1>3, <1>4, <1>8

LEMMA ApiRoutes ==
  ASSUME NEW api \in Built
  PROVE  RoutesOf[api] \in Seq(Routes)
<1>1. api \in Api /\ RoutesOf[api] \in Seq(Seq(Segment))
  BY RequestAssumption
<1>2. \A i \in DOMAIN RoutesOf[api] : RoutesOf[api][i] \in Routes
  BY <1>1 DEF Routes
<1> QED
  BY <1>1, <1>2

(* If only one of the APIs A serves a path, its first route is found in    *)
(* whatever order they come.                                               *)
OnlyServerIsFirst(A, order, p) ==
  \A api \in A : \A k \in DOMAIN RoutesOf[api] :
    IsFirst(RoutesOf[api], p, k) /\ (\A b \in A : Serves(b, p) => b = api) =>
      \E i \in DOMAIN Listing(order) :
        IsFirst(Listing(order), p, i) /\ Listing(order)[i] = RoutesOf[api][k]

(* In whatever order the APIs A come, their routes match a path if one of  *)
(* them serves it.                                                         *)
LEMMA ListingFinds ==
  ASSUME NEW A \in SUBSET Built, NEW order \in SetToSeqs(A), NEW p
  PROVE  /\ Listing(order) \in Seq(Routes)
         /\ NoneMatches(Listing(order), p) <=> \A api \in A : ~ Serves(api, p)
         /\ OnlyServerIsFirst(A, order, p)
<1> DEFINE s == [i \in DOMAIN order |-> RoutesOf[order[i]]]
<1>1. /\ order \in Seq(A)
      /\ \A i, j \in DOMAIN order : i # j => order[i] # order[j]
      /\ \A api \in A : \E i \in DOMAIN order : order[i] = api
  BY OrderNamesAll
<1>2. \A i \in DOMAIN order : order[i] \in A /\ RoutesOf[order[i]] \in Seq(Routes)
  BY <1>1, ApiRoutes
<1>3. /\ s \in Seq(Seq(Routes)) /\ DOMAIN s = DOMAIN order
      /\ \A i \in DOMAIN s : s[i] = RoutesOf[order[i]]
  BY <1>1, <1>2
<1> HIDE DEF s
<1>4. Listing(order) = FlattenSeq(s)
  BY DEF Listing, s
<1>5. /\ FlattenSeq(s) \in Seq(Routes)
      /\ NoneMatches(FlattenSeq(s), p) <=> \A i \in DOMAIN s : NoneMatches(s[i], p)
      /\ OnlyMatchIsFirst(s, p)
  BY <1>3, FlattenFirst
<1>6. \A i \in DOMAIN s : NoneMatches(s[i], p) <=> ~ Serves(order[i], p)
  BY <1>3 DEF Serves, NoneMatches
<1>7. NoneMatches(FlattenSeq(s), p) <=> \A api \in A : ~ Serves(api, p)
  <2>1. NoneMatches(FlattenSeq(s), p) <=> \A i \in DOMAIN s : ~ Serves(order[i], p)
    BY <1>5, <1>6
  <2>2. (\A i \in DOMAIN s : ~ Serves(order[i], p)) <=> \A api \in A : ~ Serves(api, p)
    BY <1>1, <1>2, <1>3
  <2> QED
    BY <2>1, <2>2
<1>8. ASSUME NEW api \in A, NEW k \in DOMAIN RoutesOf[api], IsFirst(RoutesOf[api], p, k),
             \A b \in A : Serves(b, p) => b = api
      PROVE  \E j \in DOMAIN FlattenSeq(s) :
               IsFirst(FlattenSeq(s), p, j) /\ FlattenSeq(s)[j] = RoutesOf[api][k]
  <2>1. PICK a \in DOMAIN s : order[a] = api
    BY <1>1, <1>3
  <2>2. \A i \in DOMAIN s : i # a => order[i] \in A /\ order[i] # api
    BY <1>1, <1>2, <1>3, <2>1
  <2>3. \A i \in DOMAIN s : i # a => NoneMatches(s[i], p)
    BY <2>2, <1>6, <1>8
  <2>4. s[a] = RoutesOf[api]
    BY <2>1, <1>3
  <2> QED
    BY <1>5, <1>8, <2>3, <2>4 DEF OnlyMatchIsFirst
<1> QED
  BY <1>4, <1>5, <1>7, <1>8 DEF OnlyServerIsFirst

(* The server answers for the APIs it serves.                              *)
LEMMA ServerAnswers ==
  ASSUME NEW A \in SUBSET Built, NEW order \in SetToSeqs(A), NEW p
  PROVE  ServerRoute(Listing(order), p).found <=> \E api \in A : Serves(api, p)
<1>1. /\ Listing(order) \in Seq(Routes)
      /\ NoneMatches(Listing(order), p) <=> \A api \in A : ~ Serves(api, p)
  BY ListingFinds
<1>2. CASE NoneMatches(Listing(order), p)
  <2>1. ServerRoute(Listing(order), p) = NotFound
    BY <1>2, ServerFindsNone DEF NoneMatches
  <2> QED
    BY <2>1, <1>1, <1>2 DEF NotFound
<1>3. CASE ~ NoneMatches(Listing(order), p)
  <2>1. PICK i \in DOMAIN Listing(order) : Matches(Listing(order)[i], p)
    BY <1>3 DEF NoneMatches
  <2>2. PICK k \in DOMAIN Listing(order) : IsFirst(Listing(order), p, k)
    BY <1>1, <2>1, FirstExists
  <2>3. ServerRoute(Listing(order), p) =
          [found |-> TRUE, func |-> Listing(order)[k], params |-> Params(Listing(order)[k], p)]
    BY <1>1, <2>2, ServerFinds
  <2> QED
    BY <2>3, <1>1, <1>3
<1> QED
  BY <1>2, <1>3

(* The client's answer is an item of its table, if one matches.            *)
LEMMA ClientAnswers ==
  ASSUME NEW impls \in Seq(Entry), NEW p
  PROVE  \/ /\ FindMatchingEndpoint(impls, p) = NotFound
            /\ \A i \in DOMAIN impls : ~ Matches(impls[i].pattern, p)
         \/ \E k \in DOMAIN impls :
              /\ Matches(impls[k].pattern, p)
              /\ FindMatchingEndpoint(impls, p) =
                   [found |-> TRUE, func |-> impls[k].func, params |-> Params(impls[k].pattern, p)]
<1>1. CASE \A i \in DOMAIN impls : ~ Matches(impls[i].pattern, p)
  BY <1>1, ClientFindsNone
<1>2. CASE \E i \in DOMAIN impls : Matches(impls[i].pattern, p)
  <2> DEFINE T == {i \in DOMAIN impls : Matches(impls[i].pattern, p)}
  <2>1. T \subseteq Nat /\ T # {} /\ DOMAIN impls = 1..Len(impls) /\ Len(impls) \in Nat
    BY <1>2
  <2>2. PICK k \in T : \A m \in T : ~ (m < k)
    BY <2>1, SmallestNat
  <2>3. ASSUME NEW j \in 1..(k - 1) PROVE ~ Matches(impls[j].pattern, p)
    <3>1. j < k /\ j \in DOMAIN impls
      BY <2>1, <2>2
    <3> QED
      BY <3>1, <2>2
  <2> QED
    BY <2>2, <2>3, ClientFinds
<1> QED
  BY <1>1, <1>2

(* A converted route matches no path with a slash too many, and what it    *)
(* matches its route does.                                                 *)
LEMMA ConvertedFits ==
  ASSUME NEW r \in Seq(Segment), NEW p \in Seq(STRING), Matches(ConvertPathToRegex(r), p)
  PROVE  Matches(r, p) /\ Params(ConvertPathToRegex(r), p) = Params(r, p)
<1> DEFINE c == ConvertPathToRegex(r)
<1>1. Len(c) = Len(r) /\ DOMAIN c = DOMAIN r /\ \A i \in DOMAIN r : c[i].kind # "path"
  BY Converted
<1>2. Len(p) \in Nat /\ Len(r) \in Nat
  OBVIOUS
<1>3. Matches(c, p)
  OBVIOUS
<1> HIDE DEF c
<1>4. Len(r) = Len(p)
  BY <1>1, <1>2, <1>3 DEF Matches
<1> QED
  BY <1>3, <1>4, ConvertedAlike DEF c

(* What the client finds serves the path, with its parameters.             *)
LEMMA ClientFits ==
  ASSUME NEW p \in Path
  PROVE  LET e == FindMatchingEndpoint(EndpointImpls(Listing(Listed)), p)
         IN  e.found => /\ Matches(e.func, p) /\ e.params = Params(e.func, p)
                        /\ \E api \in Built : Serves(api, p)
<1> DEFINE R == Listing(Listed)
           dict == EndpointImpls(R)
           e == FindMatchingEndpoint(dict, p)
<1>1. /\ R \in Seq(Routes) /\ p \in Seq(STRING)
      /\ NoneMatches(R, p) <=> \A api \in Built : ~ Serves(api, p)
  BY ListingFinds, RequestAssumption
<1>2. Tabled(dict, R, Len(R), p)
  BY <1>1, ImplsTabled
<1> HIDE DEF dict, R
<1>3. /\ dict \in Seq(Entry)
      /\ \A i \in DOMAIN dict : /\ dict[i].pattern = ConvertPathToRegex(dict[i].func)
                                /\ \E m \in 1..Len(R) : dict[i].func = R[m]
  BY <1>2 DEF Tabled
<1>4. \A m \in 1..Len(R) : m \in DOMAIN R /\ R[m] \in Routes /\ R[m] \in Seq(Segment)
  BY <1>1, RoutesType
<1> HIDE DEF e
<1> SUFFICES ASSUME e.found
             PROVE  /\ Matches(e.func, p) /\ e.params = Params(e.func, p)
                    /\ \E api \in Built : Serves(api, p)
  BY DEF e, dict, R
<1>5. e # NotFound
  BY DEF NotFound
<1>6. PICK k \in DOMAIN dict :
        /\ Matches(dict[k].pattern, p)
        /\ e = [found |-> TRUE, func |-> dict[k].func, params |-> Params(dict[k].pattern, p)]
  BY <1>3, <1>5, ClientAnswers DEF e
<1>7. PICK m \in 1..Len(R) : dict[k].func = R[m]
  BY <1>3
<1>8. Matches(R[m], p) /\ Params(dict[k].pattern, p) = Params(R[m], p)
  <2>1. dict[k].pattern = ConvertPathToRegex(R[m]) /\ R[m] \in Seq(Segment)
    BY <1>3, <1>4, <1>7
  <2> QED
    BY <2>1, <1>1, <1>6, ConvertedFits
<1>9. ~ NoneMatches(R, p)
  BY <1>4, <1>8 DEF NoneMatches
<1> QED
  BY <1>1, <1>6, <1>7, <1>8, <1>9

(* If no parameter has a slash the client answers for the APIs that are    *)
(* built, and finds what the server finds where that is one API's.         *)
LEMMA DoorsFindAlike ==
  ASSUME NEW A \in SUBSET Built, NEW order \in SetToSeqs(A), NEW p \in Path, Slashless(p)
  PROVE  LET e      == FindMatchingEndpoint(EndpointImpls(Listing(Listed)), p)
             owners == {api \in Built : Serves(api, p)}
         IN  /\ owners # {} => e.found
             /\ owners \subseteq A /\ (\A a, b \in owners : a = b) =>
                  e = ServerRoute(Listing(order), p)
<1> DEFINE R == Listing(Listed)
           dict == EndpointImpls(R)
<1>1. /\ R \in Seq(Routes) /\ Listing(order) \in Seq(Routes) /\ p \in Seq(STRING)
      /\ NoneMatches(R, p) <=> \A api \in Built : ~ Serves(api, p)
      /\ NoneMatches(Listing(order), p) <=> \A api \in A : ~ Serves(api, p)
  BY ListingFinds, RequestAssumption
<1>2. \A r \in Routes : /\ Matches(ConvertPathToRegex(r), p) <=> Matches(r, p)
                        /\ Matches(r, p) => Params(ConvertPathToRegex(r), p) = Params(r, p)
  <2> SUFFICES ASSUME NEW r \in Routes
               PROVE  /\ Matches(ConvertPathToRegex(r), p) <=> Matches(r, p)
                      /\ Matches(r, p) => Params(ConvertPathToRegex(r), p) = Params(r, p)
    OBVIOUS
  <2>1. r \in Seq(Segment) /\ (Matches(r, p) => Len(r) = Len(p))
    BY RoutesType DEF Slashless
  <2> QED
    BY <1>1, <2>1, ConvertedAlike
<1>3. Tabled(dict, R, Len(R), p)
  BY <1>1, ImplsTabled
<1> HIDE DEF dict, R
<1>4. /\ dict \in Seq(Entry)
      /\ \A i \in DOMAIN dict : /\ dict[i].pattern = ConvertPathToRegex(dict[i].func)
                                /\ \E m \in 1..Len(R) : dict[i].func = R[m]
      /\ \A m \in 1..Len(R) : \E i \in DOMAIN dict : dict[i].func = R[m]
      /\ \A k \in 1..Len(R) : FirstConverted(R, p, k) =>
           \E i \in DOMAIN dict :
             dict[i].func = R[k] /\ \A j \in 1..(i - 1) : ~ Matches(dict[j].pattern, p)
  BY <1>3 DEF Tabled
<1>5. DOMAIN R = 1..Len(R) /\ \A m \in 1..Len(R) : R[m] \in Routes
  BY <1>1
<1>6. ASSUME NEW api \in Built, Serves(api, p)
      PROVE  FindMatchingEndpoint(dict, p).found
  <2>1. PICK m \in DOMAIN R : Matches(R[m], p)
    BY <1>1, <1>6 DEF NoneMatches
  <2>2. PICK i \in DOMAIN dict : dict[i].func = R[m]
    BY <2>1, <1>4, <1>5
  <2>3. Matches(dict[i].pattern, p)
    BY <2>1, <2>2, <1>2, <1>4, <1>5
  <2> QED
    BY <2>3, <1>4, ClientAnswers
<1>7. ASSUME \A api \in Built : ~ Serves(api, p)
      PROVE  FindMatchingEndpoint(dict, p) = ServerRoute(Listing(order), p)
  <2>1. ServerRoute(Listing(order), p) = NotFound
    BY <1>1, <1>7, ServerFindsNone DEF NoneMatches
  <2>2. ASSUME NEW i \in DOMAIN dict PROVE ~ Matches(dict[i].pattern, p)
    <3>1. PICK m \in 1..Len(R) : dict[i].func = R[m]
      BY <1>4
    <3>2. m \in DOMAIN R /\ R[m] \in Routes
      BY <1>5
    <3>3. ~ Matches(R[m], p)
      BY <3>2, <1>1, <1>7 DEF NoneMatches
    <3> QED
      BY <3>1, <3>2, <3>3, <1>2, <1>4
  <2> QED
    BY <2>1, <2>2, ClientFindsNone
<1>8. ASSUME NEW api \in A, Serves(api, p), \A b \in Built : Serves(b, p) => b = api
      PROVE  FindMatchingEndpoint(dict, p) = ServerRoute(Listing(order), p)
  <2>1. PICK k \in DOMAIN RoutesOf[api] : IsFirst(RoutesOf[api], p, k)
    <3>1. PICK i \in DOMAIN RoutesOf[api] : Matches(RoutesOf[api][i], p)
      BY <1>8 DEF Serves
    <3> QED
      BY <3>1, ApiRoutes, FirstExists
  <2> DEFINE r == RoutesOf[api][k]
  <2>2. r \in Routes /\ Matches(r, p)
    <3>1. RoutesOf[api] \in Seq(Routes)
      BY ApiRoutes
    <3> QED
      BY <3>1, <2>1 DEF IsFirst
  <2> HIDE DEF r
  <2>3. PICK i \in DOMAIN Listing(order) :
          IsFirst(Listing(order), p, i) /\ Listing(order)[i] = r
    <3>1. \A b \in A : Serves(b, p) => b = api
      BY <1>8
    <3>2. \E i \in DOMAIN Listing(order) :
            IsFirst(Listing(order), p, i) /\ Listing(order)[i] = RoutesOf[api][k]
      <4>1. OnlyServerIsFirst(A, order, p)
        BY ListingFinds
      <4> QED
        BY <3>1, <1>8, <2>1, <4>1 DEF OnlyServerIsFirst
    <3> QED
      BY <3>2 DEF r
  <2>4. ServerRoute(Listing(order), p) = [found |-> TRUE, func |-> r, params |-> Params(r, p)]
    BY <1>1, <2>3, ServerFinds
  <2>5. PICK h \in DOMAIN R : IsFirst(R, p, h) /\ R[h] = r
    <3>1. /\ api \in Built /\ Built \in SUBSET Built /\ Listed \in SetToSeqs(Built)
          /\ \A b \in Built : Serves(b, p) => b = api
      BY <1>8, RequestAssumption
    <3>2. \E h \in DOMAIN Listing(Listed) :
            IsFirst(Listing(Listed), p, h) /\ Listing(Listed)[h] = RoutesOf[api][k]
      <4>1. OnlyServerIsFirst(Built, Listed, p)
        BY <3>1, ListingFinds
      <4> QED
        BY <3>1, <2>1, <4>1 DEF OnlyServerIsFirst
    <3> QED
      BY <3>2 DEF r, R
  <2>6. h \in 1..Len(R) /\ \A j \in 1..(h - 1) : j \in 1..Len(R)
    BY <1>1, <2>5
  <2>7. FirstConverted(R, p, h)
    BY <1>2, <1>5, <2>2, <2>5, <2>6 DEF FirstConverted, IsFirst
  <2>8. PICK j \in DOMAIN dict :
          dict[j].func = r /\ \A g \in 1..(j - 1) : ~ Matches(dict[g].pattern, p)
    BY <1>4, <2>5, <2>6, <2>7
  <2>9. dict[j].pattern = ConvertPathToRegex(r) /\ Matches(dict[j].pattern, p)
    BY <1>2, <1>4, <2>2, <2>8
  <2>10. FindMatchingEndpoint(dict, p) =
           [found |-> TRUE, func |-> r, params |-> Params(dict[j].pattern, p)]
    BY <1>4, <2>8, <2>9, ClientFinds
  <2> QED
    BY <2>2, <2>4, <2>9, <2>10, <1>2
<1> DEFINE owners == {api \in Built : Serves(api, p)}
<1>9. owners # {} => FindMatchingEndpoint(dict, p).found
  BY <1>6
<1>10. ASSUME owners \subseteq A, \A a, b \in owners : a = b
       PROVE  FindMatchingEndpoint(dict, p) = ServerRoute(Listing(order), p)
  <2>1. CASE owners = {}
    BY <2>1, <1>7
  <2>2. CASE owners # {}
    <3>1. PICK api \in owners : TRUE
      BY <2>2
    <3>2. api \in A /\ Serves(api, p) /\ \A b \in Built : Serves(b, p) => b = api
      BY <3>1, <1>10
    <3> QED
      BY <3>2, <1>8
  <2> QED
    BY <2>1, <2>2
<1> QED
  BY <1>9, <1>10 DEF dict, R

-----------------------------------------------------------------------------
(* What is already settled at each point of a request's way.               *)
Typed ==
  /\ pc \in {"idle", "version", "trace", "find", "call", "streaming", "awaiting",
             "raised", "untrace"}
  /\ pc # "idle" => request \in Request
  /\ sent \in Seq({"item", "error"})

Fresh ==
  /\ pc = "version" => Http /\ trace = "none" /\ ~ endpoint.found /\ ~ ran
  /\ pc \notin {"raised", "untrace", "idle"} => failure = "none"

Traced == pc = "idle" /\ trace = "open" => request.door = "library" /\ answer = "abandoned"

OtherVersion == Http /\ request.version = "other"

Refusing ==
  /\ pc \notin {"idle", "version"} => ~ OtherVersion
  /\ pc = "idle" /\ request # None /\ OtherVersion =>
       answer = "426" /\ trace = "none" /\ ~ endpoint.found /\ ~ ran
  /\ pc = "call" \/ (pc = "trace" /\ ~ Http) => ~ Refused(request.body)
  /\ request # None /\ ran => ~ Refused(request.body)

ToldTheCaller ==
  IF Http /\ request.stream
    THEN Translated(failure) => sent # <<>> /\ Last(sent) = "error"
    ELSE answer = Told(failure)

Telling == pc \in {"untrace", "idle"} /\ failure # "none" => ToldTheCaller

IInv == Typed /\ Fresh /\ Traced /\ Refusing /\ Telling

LEMMA IInvInit == Init => IInv
<1> SUFFICES ASSUME Init PROVE IInv
  OBVIOUS
<1>1. sent \in Seq({"item", "error"})
  BY DEF Init
<1> QED
  BY <1>1 DEF Init, NotFound, IInv, Typed, Fresh, Traced, Refusing, Telling

(* A stream ends with what is appended to it.                              *)
LEMMA EndsInError ==
  ASSUME NEW s \in Seq({"item", "error"})
  PROVE  /\ Append(s, "error") \in Seq({"item", "error"})
         /\ Append(s, "error") # <<>>
         /\ Last(Append(s, "error")) = "error"
         /\ Append(s, "item") \in Seq({"item", "error"})
BY DEF Last

LEMMA IInvNext ==
  ASSUME IInv, [Next]_vars
  PROVE  IInv'
<1> USE DEF IInv, Typed, Fresh, Traced, Refusing, Telling, ToldTheCaller, OtherVersion, Http, Refused,
            Told
<1>1. CASE InitializeClient \/ InitializeFails
  <2>1. ASSUME NEW table, SetTable(table)
        PROVE  pc = "idle" /\ UNCHANGED <<pc, request, endpoint, ran, trace, failure, sent, answer>>
    BY <2>1 DEF SetTable
  <2>2. UNCHANGED <<pc, request, endpoint, ran, trace, failure, sent, answer>>
    BY <1>1, <2>1, Zenon DEF InitializeClient, InitializeFails
  <2> QED
    BY <2>2
<1>2. ASSUME NEW r \in Request, Arrive(r) PROVE IInv'
  <2>1. sent' \in Seq({"item", "error"}) /\ request' \in Request
    BY <1>2 DEF Arrive
  <2>2. (pc' = "version" /\ Http') \/ (pc' = "find" /\ ~ Http')
    BY <1>2 DEF Arrive
  <2>3. ~ endpoint'.found /\ ~ ran' /\ trace' = "none" /\ failure' = "none"
    BY <1>2 DEF Arrive, NotFound
  <2> QED
    BY <2>1, <2>2, <2>3
<1>3. CASE CheckVersion
  BY <1>3 DEF CheckVersion, Answer, Goto
<1>4. CASE StartTrace
  BY <1>4 DEF StartTrace, Goto
<1>5. CASE FindEndpoint
  <2>1. /\ pc = "find" /\ pc' \in {"untrace", "call", "trace"}
        /\ pc' \in {"call", "trace"} => ~ Refused(request.body)
        /\ pc' = "call" => Http
        /\ UNCHANGED <<request, ran, trace, failure, sent>>
    BY <1>5 DEF FindEndpoint, Answer, Goto
  <2> QED
    BY <2>1
<1>6. CASE CallFails
  BY <1>6 DEF CallFails
<1>7. CASE Call
  BY <1>7 DEF Call, Goto
<1>8. ASSUME NEW f \in Failure, FunctionRaises(f) PROVE IInv'
  BY <1>8 DEF FunctionRaises, Failure
<1>9. CASE Return \/ StreamEnds
  BY <1>9 DEF Return, StreamEnds, Answer, Goto
<1>10. CASE StreamItem
  BY <1>10, EndsInError DEF StreamItem
<1>11. CASE StreamRaises
  BY <1>11, EndsInError DEF StreamRaises, Goto
<1>12. CASE CallRaises
  BY <1>12 DEF CallRaises, Answer, Goto
<1>13. CASE CallerLeaves
  BY <1>13 DEF CallerLeaves, Answer, Goto, Request
<1>14. CASE EndTrace
  BY <1>14 DEF EndTrace, Goto
<1>15. CASE UNCHANGED vars
  BY <1>15 DEF vars, tables
<1> QED
  BY <1>1, <1>2, <1>3, <1>4, <1>5, <1>6, <1>7, <1>8, <1>9, <1>10, <1>11, <1>12, <1>13, <1>14, <1>15
  DEF Next

(* However a request ends, its trace is closed; only a stream of the       *)
(* library client that its caller leaves keeps it.                         *)
THEOREM TracesClosed == Spec => []TracesAreClosed
<1>1. IInv => TracesAreClosed
  BY DEF IInv, Traced, TracesAreClosed, Answered
<1> QED
  BY <1>1, IInvInit, IInvNext, PTL DEF Spec

(* What is refused is neither traced nor routed nor called.                *)
THEOREM RefusalsHarmless == Spec => []RefusedUntouched
<1>1. IInv => RefusedUntouched
  BY DEF IInv, Refusing, OtherVersion, RefusedUntouched, Answered
<1> QED
  BY <1>1, IInvInit, IInvNext, PTL DEF Spec

(* A failure of a function is told to whoever called it.                   *)
THEOREM FailuresTold == Spec => []FailuresAreTold
<1>1. IInv => FailuresAreTold
  BY DEF IInv, Telling, ToldTheCaller, FailuresAreTold, Answered
<1> QED
  BY <1>1, IInvInit, IInvNext, PTL DEF Spec

-----------------------------------------------------------------------------
(* What a request of the library client has found, and in which tables.    *)
Found ==
  /\ served \subseteq Built
  /\ \E order \in SetToSeqs(served) : serverRoutes = Listing(order)
  /\ endpointImpls = <<>> \/ endpointImpls = EndpointImpls(Listing(Listed))
  /\ pc = "find" /\ ~ Http => endpoint = NotFound
  /\ pc \notin {"idle", "version", "find"} /\ ~ Http /\ ~ Refused(request.body) =>
       endpoint = FindMatchingEndpoint(endpointImpls, request.path)

(* What the server serves is built.                                        *)
LEMMA FoundInit == Init => Found
<1> SUFFICES ASSUME Init PROVE Found
  OBVIOUS
<1>1. PICK apis \in SUBSET Built : served = ApisToServe(apis)
  BY DEF Init
<1>2. ApisToServe(apis) \subseteq Built
  BY RequestAssumption DEF ApisToServe
<1> QED
  BY <1>1, <1>2 DEF Init, Found

LEMMA FoundNext ==
  ASSUME IInv, Found, [Next]_vars
  PROVE  Found'
<1> USE DEF Found
<1>1. CASE InitializeClient
  BY <1>1 DEF InitializeClient, SetTable
<1>2. CASE InitializeFails
  BY <1>2 DEF InitializeFails, SetTable
<1>3. ASSUME NEW r \in Request, Arrive(r) PROVE Found'
  BY <1>3 DEF Arrive, tables
<1>4. CASE FindEndpoint
  <2> DEFINE e == FindMatchingEndpoint(endpointImpls, request.path)
  <2>1. /\ pc = "find" /\ UNCHANGED <<tables, request>> /\ pc' # "find"
        /\ ~ Http => endpoint = NotFound
        /\ ~ Http /\ ~ Refused(request.body) =>
             IF e.found THEN endpoint' = e ELSE endpoint' = endpoint
    BY <1>4 DEF FindEndpoint, Answer, Goto
  <2>2. ~ e.found => e = NotFound
    BY DEF FindMatchingEndpoint
  <2>3. ~ Http /\ ~ Refused(request.body) => endpoint' = e
    BY <2>1, <2>2
  <2> HIDE DEF e
  <2>4. e' = e /\ (Http' <=> Http) /\ (Refused(request.body)' <=> Refused(request.body))
    BY <2>1 DEF e, tables, Http, Refused
  <2> QED
    BY <2>1, <2>3, <2>4 DEF tables, e
<1>5. CASE CheckVersion
  <2>1. pc = "version" => Http
    BY DEF IInv, Fresh
  <2> QED
    BY <1>5, <2>1 DEF CheckVersion, Answer, Goto, tables, Http
<1>6. ASSUME UNCHANGED <<tables, request, endpoint>>, pc' # "find",
             pc \in {"idle", "version"} => pc' \in {"idle", "version"}, pc # "find"
      PROVE  Found'
  BY <1>6 DEF tables, Http, Refused
<1>7. CASE StartTrace
  BY <1>7 DEF StartTrace, Goto, tables, Http, Refused
<1>8. CASE CallFails \/ Call \/ CallRaises \/ StreamRaises
  BY <1>8, <1>6 DEF CallFails, Call, CallRaises, StreamRaises, Answer, Goto
<1>9. ASSUME NEW f \in Failure, FunctionRaises(f) PROVE Found'
  BY <1>9, <1>6 DEF FunctionRaises
<1>10. CASE Return \/ StreamEnds \/ StreamItem \/ CallerLeaves \/ EndTrace
  BY <1>10, <1>6 DEF Return, StreamEnds, StreamItem, CallerLeaves, EndTrace, Answer, Goto
<1>11. CASE UNCHANGED vars
  BY <1>11 DEF vars, tables, Http, Refused
<1> QED
  BY <1>1, <1>2, <1>3, <1>4, <1>5, <1>7, <1>8, <1>9, <1>10, <1>11 DEF Next

(* The library client calls a function only for a path that is its own,    *)
(* with all of its parameters; for a path without slashes in them it finds *)
(* what the server finds, if one API that is served has it.                *)
THEOREM DoorsLeadAlike == Spec => []DoorsAgree
<1>1. ASSUME IInv, Found PROVE DoorsAgree
  <2> SUFFICES ASSUME pc \in {"trace", "call", "untrace"}, ~ Http, ~ Refused(request.body),
                      endpointImpls # <<>>
               PROVE  DoorsAgree
    BY DEF DoorsAgree
  <2> DEFINE path   == request.path
             there  == ServerRoute(serverRoutes, path)
             owners == {api \in Built : Serves(api, path)}
  <2>1. path \in Path
    BY <1>1 DEF IInv, Typed, Request
  <2>2. endpoint = FindMatchingEndpoint(EndpointImpls(Listing(Listed)), path)
    BY <1>1 DEF Found
  <2>3. PICK order \in SetToSeqs(served) : serverRoutes = Listing(order)
    BY <1>1 DEF Found
  <2>4. served \in SUBSET Built
    BY <1>1 DEF Found
  <2>5. endpoint.found => /\ Matches(endpoint.func, path)
                          /\ endpoint.params = Params(endpoint.func, path)
                          /\ owners # {}
    BY <2>1, <2>2, ClientFits
  <2>6. there.found <=> owners \cap served # {}
    BY <2>3, <2>4, ServerAnswers
  <2>7. ASSUME Slashless(path)
        PROVE  /\ owners # {} => endpoint.found
               /\ owners \subseteq served /\ (\A a, b \in owners : a = b) => endpoint = there
    BY <2>1, <2>2, <2>3, <2>4, <2>7, DoorsFindAlike
  <2> QED
    BY <2>5, <2>6, <2>7 DEF DoorsAgree
<1> QED
  BY <1>1, IInvInit, IInvNext, FoundInit, FoundNext, PTL DEF Spec
=============================================================================
