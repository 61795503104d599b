--------------------------- MODULE EndpointTable ---------------------------
(***************************************************************************)
(* How a request finds the function of an endpoint, on the server and in   *)
(* the library client, which answers requests within the process.  The     *)
(* client turns the route of each endpoint into a regular expression and   *)
(* keeps the expressions of a method in a dict; it takes the first that    *)
(* matches.                                                                *)
(*                                                                         *)
(* A route is a sequence of segments [kind, name], each a "literal",       *)
(* {name} ("param") or {name:path} ("path", one at most); a path is a      *)
(* sequence of literals.  The dicts of two methods never meet: one method  *)
(* stands for all.                                                         *)
(***************************************************************************)
EXTENDS Naturals, Sequences, SequencesExt

Segment == [kind : {"literal", "param", "path"}, name : STRING]

NotFound == [found |-> FALSE]

(* A parameter spans one segment, a path parameter all that are left over. *)
ParamFirst(route, p, i) ==
  IF \E k \in 1..(i - 1) : route[k].kind = "path" THEN i + Len(p) - Len(route) ELSE i

ParamLast(route, p, i) == ParamFirst(route, p, i + 1) - 1

Matches(route, p) ==
  /\ Len(p) >= Len(route)
  /\ Len(p) > Len(route) => \E i \in DOMAIN route : route[i].kind = "path"
  /\ \A i \in DOMAIN route :
       route[i].kind = "literal" => p[ParamFirst(route, p, i)] = route[i].name

(* match.groupdict() *)
Params(route, p) ==
  {[name |-> route[i].name, value |-> SubSeq(p, ParamFirst(route, p, i), ParamLast(route, p, i))] :
     i \in {k \in DOMAIN route : route[k].kind # "literal"}}

(* The first route that matches.                                           *)
FirstMatch(routes, p) ==
  CHOOSE i \in DOMAIN routes :
    Matches(routes[i], p) /\ \A j \in 1..(i - 1) : ~ Matches(routes[j], p)

Lookup(routes, p) ==
  IF \E i \in DOMAIN routes : Matches(routes[i], p)
    THEN LET i == FirstMatch(routes, p)
         IN  [found |-> TRUE, index |-> i, params |-> Params(routes[i], p)]
    ELSE NotFound

-----------------------------------------------------------------------------
(* The library client's table.                                             *)

(* Mutant: a parameter takes all that is left, as a path parameter should. *)
ConvertGreedy(segment) ==
  IF segment.kind = "param" THEN [segment EXCEPT !.kind = "path"] ELSE segment

(* The test that should tell {name:path} from {name} looks for ":path" at  *)
(* the end of a text that ends in "}": both become a group of one segment. *)
Convert(segment) ==
  IF segment.kind = "path" THEN [segment EXCEPT !.kind = "param"] ELSE segment

ConvertPathToRegex(route) == [i \in DOMAIN route |-> Convert(route[i])]

(* Assignment to a dict: a key that is there keeps its place.              *)
Assign(dict, key, value) ==
  LET item == [pattern |-> key, func |-> value]
  IN  IF \E i \in DOMAIN dict : dict[i].pattern = key
        THEN [i \in DOMAIN dict |-> IF dict[i].pattern = key THEN item ELSE dict[i]]
        ELSE Append(dict, item)

(* endpoint_impls of a list of routes; the route stands for the function.  *)
EndpointImpls(routes) ==
  LET impls[n \in 0..Len(routes)] ==
        IF n = 0 THEN <<>> ELSE Assign(impls[n - 1], ConvertPathToRegex(routes[n]), routes[n])
  IN  impls[Len(routes)]

(* _find_matching_endpoint *)
FindMatchingEndpoint(impls, p) ==
  LET answer == Lookup([i \in DOMAIN impls |-> impls[i].pattern], p)
  IN  IF answer.found
        THEN [found |-> TRUE, func |-> impls[answer.index].func, params |-> answer.params]
        ELSE NotFound

-----------------------------------------------------------------------------
(* The server adds the routes as they are; the first that matches wins.    *)
ServerRoute(routes, p) ==
  LET answer == Lookup(routes, p)
  IN  IF answer.found
        THEN [found |-> TRUE, func |-> routes[answer.index], params |-> answer.params]
        ELSE NotFound
=============================================================================
