------------------------------ MODULE RouteSearch ------------------------------
(***************************************************************************)
(* The search for relationship routes: simple paths of a canonical graph    *)
(* whose steps follow one of the templates of a mode, within the accounts   *)
(* the reader may see, and within four bounds.                             *)
(*   CanonicalRouteGraph.search       modules/relationships/routes.py      *)
(* The graph is what the search is given: any subset of Facts. One step of  *)
(* the search is one edge examined, so that a cancellation or the deadline  *)
(* may come between any two.                                               *)
(***************************************************************************)
EXTENDS Naturals, Sequences, FiniteSets, SequencesExt

CONSTANTS
  Facts,            \* edges there may be: [id, source, target, predicate, inverse, usable]
  Templates,        \* of the mode: sequences of tokens
  Start,            \* source_id
  Targets,          \* target_ids
  Guarded,          \* nodes of an account the reader may not be allowed to see
  MaxDepth, MaxExpansions, MaxCandidates

ASSUME QueryIsBounded ==
  /\ {MaxDepth, MaxExpansions, MaxCandidates} \subseteq Nat \ {0}
  /\ Start \notin Guarded /\ Targets \cap Guarded = {}

VARIABLES
  graph,            \* the edges of this revision
  authorized,       \* the guarded nodes that may be seen
  stack,            \* partial routes to extend, the last one first
  current,          \* the partial route whose edges are being examined, if any
  pending,          \* the steps out of it still to examine
  children,         \* its extensions
  paths,            \* the routes found
  examined,
  stopReason

searchVars == <<graph, authorized, stack, current, pending, children, paths, examined, stopReason>>

Idle == [hops |-> <<>>, nodes |-> <<>>]

\* A step of a route: an edge, and whether it is walked against its direction.
Step(edge, inverse) ==
  [edge |-> edge.id, from |-> IF inverse THEN edge.target ELSE edge.source,
   to |-> IF inverse THEN edge.source ELSE edge.target,
   token |-> <<edge.predicate, inverse>>, usable |-> edge.usable]

Steps == {Step(e, FALSE) : e \in graph} \cup {Step(e, TRUE) : e \in {f \in graph : f.inverse}}

\* The adjacency of a node; it is gone through in the order of the edges' ids.
StepsFrom(node) == {s \in Steps : s.from = node}

IsFirst(step, steps) == step \in steps /\ \A other \in steps : step.edge <= other.edge

Tokens(hops) == [i \in DOMAIN hops |-> hops[i].token]

\* _edge_allowed, _node_allowed: both ends may be seen, and the assertion stands for this query.
Allowed(step) == step.usable /\ {step.from, step.to} \cap Guarded \subseteq authorized

\* A prefix of a template, not through a node twice.
Extends(hops, nodes, step) ==
  /\ \E t \in Templates : IsPrefix(Append(Tokens(hops), step.token), t)
  /\ step.to \notin ToSet(nodes)

IsRoute(hops) == hops[Len(hops)].to \in Targets /\ Tokens(hops) \in Templates

-----------------------------------------------------------------------------
\* Mutant: a route of the greatest length is still extended.
OverDepth(route) == Len(route.hops) > MaxDepth

AtDepth(route) == Len(route.hops) >= MaxDepth

Searching == stopReason = "none" /\ (stack # <<>> \/ current # Idle)

\* stack.pop(): a route of the greatest length is not extended.
Pop ==
  /\ stopReason = "none" /\ current = Idle /\ stack # <<>>
  /\ stack' = Front(stack)
  /\ IF AtDepth(Last(stack)) THEN UNCHANGED <<current, pending>>
     ELSE current' = Last(stack) /\ pending' = StepsFrom(Last(Last(stack).nodes))
  /\ UNCHANGED <<graph, authorized, children, paths, examined, stopReason>>

Stop(reason) ==
  /\ stopReason' = reason
  /\ UNCHANGED <<graph, authorized, stack, current, pending, children, paths, examined>>

\* cancelled() or the clock, asked before every edge.
Interrupted ==
  /\ stopReason = "none" /\ current # Idle /\ pending # {}
  /\ Stop("CANCELLED") \/ Stop("DEADLINE")

ExpansionLimit ==
  /\ stopReason = "none" /\ current # Idle /\ pending # {}
  /\ examined >= MaxExpansions /\ Stop("EXPANSION_LIMIT")

\* One edge: counted, perhaps followed; a route that reaches a target is kept, and extended too.
Examine ==
  /\ stopReason = "none" /\ current # Idle /\ examined < MaxExpansions
  /\ \E step \in pending :
       LET route == [hops |-> Append(current.hops, step), nodes |-> Append(current.nodes, step.to)]
           followed == Extends(current.hops, current.nodes, step) /\ Allowed(step)
           found == IF followed /\ IsRoute(route.hops) THEN {route.hops} ELSE {}
           full == found # {} /\ Cardinality(paths \cup found) >= MaxCandidates
       IN  /\ IsFirst(step, pending)
           /\ paths' = paths \cup found
           /\ stopReason' = IF full THEN "CANDIDATE_LIMIT" ELSE "none"
           /\ children' = IF followed /\ ~full THEN Append(children, route) ELSE children
           /\ pending' = pending \ {step}
  /\ examined' = examined + 1
  /\ UNCHANGED <<graph, authorized, stack, current>>

\* stack.extend(reversed(children)); the loop ends when nothing is left, or a bound was met.
EndOfNode ==
  /\ current # Idle /\ (pending = {} \/ stopReason # "none")
  /\ stack' = stack \o Reverse(children)
  /\ current' = Idle /\ pending' = {} /\ children' = <<>>
  /\ UNCHANGED <<graph, authorized, paths, examined, stopReason>>

SearchInit ==
  /\ graph \in SUBSET Facts /\ authorized \in SUBSET Guarded
  /\ stack = IF Targets = {} THEN <<>> ELSE <<[hops |-> <<>>, nodes |-> <<Start>>]>>
  /\ current = Idle /\ pending = {} /\ children = <<>>
  /\ paths = {} /\ examined = 0 /\ stopReason = "none"

SearchNext == Pop \/ Interrupted \/ ExpansionLimit \/ Examine \/ EndOfNode

SearchSpec == SearchInit /\ [][SearchNext]_searchVars

-----------------------------------------------------------------------------
\* What the search is for, whatever its order: every simple route of a template that may be seen.
Visited(w) == {Start} \cup {w[i].to : i \in DOMAIN w}

Onward(w) ==
  {s \in Steps : s.usable /\ s.to \notin Visited(w) \cup (Guarded \ authorized)
                          /\ s.from = IF w = <<>> THEN Start ELSE Last(w).to}

WalksOf[n \in 0..MaxDepth] ==
  IF n = 0 THEN {<<>>} ELSE UNION {{Append(w, s) : s \in Onward(w)} : w \in WalksOf[n - 1]}

Walks == UNION {WalksOf[n] : n \in 1..MaxDepth}

RoutesThereAre == {w \in Walks : Tokens(w) \in Templates /\ Last(w).to \in Targets}

(* A search that says it is complete has found every route there is, and    *)
(* one that was stopped says so; wherever it stops, what it has are routes   *)
(* that may be seen, and it kept to its bounds.                             *)
SearchIsHonest ==
  /\ ~Searching => IF stopReason = "none" THEN paths = RoutesThereAre ELSE paths \subseteq RoutesThereAre
  /\ examined <= MaxExpansions /\ Cardinality(paths) <= MaxCandidates
=============================================================================
