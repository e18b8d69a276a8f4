---------------------------- MODULE InstallLayers ----------------------------
(***************************************************************************)
(* Registry.InstallRequestLayers (tools/registry.go): which tools must be  *)
(* installed for a list of requests, in which layers, or that there is no  *)
(* such plan.  The tools of a layer are installed in parallel.             *)
(*                                                                         *)
(* The search and the layering loop are operators; what they compute is    *)
(* compared with a definition that does not search.  A request is a record *)
(* of a tool and a version.  A catalog is the registry in one environment: *)
(* the tools that have a plugin whose Dependencies succeeds, and what each *)
(* of them asks for, in its order.  Names are compared after trimming.     *)
(***************************************************************************)
EXTENDS Naturals, Sequences, SequencesExt, FiniteSets

CONSTANTS Tool, Version,
          NoVersion      \* the empty version

Request == [tool : Tool, version : Version \cup {NoVersion}]

-----------------------------------------------------------------------------
(* The search.  order lists the ids of the map requests as they were met.  *)

Unvisited == [requests |-> {}, order |-> <<>>, visiting |-> {}, visited |-> {},
              failed |-> FALSE]

Fail(walk) == [walk EXCEPT !.failed = TRUE]

Conflicts(walk, r) ==
  \E q \in walk.requests : q.tool = r.tool /\ q.version # r.version

Refused(walk, r) ==
  r.version = NoVersion \/ r.tool \in walk.visiting \/ Conflicts(walk, r)

Note(walk, r) ==
  [walk EXCEPT !.requests = @ \cup {r},
               !.order = IF Contains(@, r.tool) THEN @ ELSE Append(@, r.tool)]

Enter(walk, t) == [walk EXCEPT !.visiting = @ \cup {t}]
Leave(walk, t) == [walk EXCEPT !.visiting = @ \ {t}, !.visited = @ \cup {t}]

\* The local function visit: requests is noted before the visited tool is left alone.
RECURSIVE Visit(_, _, _)
Visit(catalog, walk, r) ==
  LET noted == Note(walk, r)
      below == FoldLeft(LAMBDA w, q : Visit(catalog, w, q),
                        Enter(noted, r.tool), catalog.needs[r.tool])
  IN  CASE walk.failed -> walk
        [] ~walk.failed /\ Refused(walk, r) -> Fail(walk)
        [] OTHER -> IF r.tool \in noted.visited THEN noted
                    ELSE IF r.tool \notin catalog.plugins THEN Fail(noted)
                    ELSE IF below.failed THEN below
                    ELSE Leave(below, r.tool)

Search(catalog, roots) ==
  FoldLeft(LAMBDA w, r : Visit(catalog, w, r), Unvisited, roots)

-----------------------------------------------------------------------------
(* The layers. *)

Dependencies(catalog, t) == {q.tool : q \in ToSet(catalog.needs[t])}

ReadyIn(catalog, remaining) ==
  {t \in remaining : Dependencies(catalog, t) \cap remaining = {}}

\* A layer has its tools in the order in which the search met them.  The loop ends
\* when no tool remains or none of them is ready.
RECURSIVE Layered(_, _, _)
Layered(catalog, order, remaining) ==
  LET ready == ReadyIn(catalog, remaining)
      layer == SelectSeq(order, LAMBDA t : t \in ready)
  IN  IF remaining = {} \/ ready = {} THEN <<>>
      ELSE <<layer>> \o Layered(catalog, order, remaining \ ready)

NoPlan == [found |-> FALSE, requests |-> {}, layers |-> <<>>]

InstallRequestLayers(catalog, roots) ==
  LET walk   == Search(catalog, roots)
      layers == Layered(catalog, walk.order, ToSet(walk.order))
  IN  IF walk.failed \/ ToSet(FlattenSeq(layers)) # ToSet(walk.order) THEN NoPlan
      ELSE [found |-> TRUE, requests |-> walk.requests, layers |-> layers]

-----------------------------------------------------------------------------
(* What a plan is, without a search. *)

\* The requests that follow from the roots.
Closure(catalog, roots) ==
  LET wanted(R) == UNION {ToSet(catalog.needs[r.tool]) : r \in R}
      reached[n \in 0 .. Cardinality(Request)] ==
        IF n = 0 THEN ToSet(roots) ELSE reached[n - 1] \cup wanted(reached[n - 1])
  IN  reached[Cardinality(Request)]

NeedsItself(catalog, t) ==
  \E r \in Closure(catalog, catalog.needs[t]) : r.tool = t

Plannable(catalog, R) ==
  /\ \A r \in R : /\ r.tool \in catalog.plugins /\ r.version # NoVersion
                  /\ ~NeedsItself(catalog, r.tool)
  /\ \A q, r \in R : q.tool = r.tool => q = r

LayerOf(layers, t) == CHOOSE n \in DOMAIN layers : Contains(layers[n], t)

\* There is a plan exactly when the requests that follow from the roots agree on a
\* version of each tool, of tools that are known and that do not need themselves: a
\* chain of dependencies that only looks like a cycle, a diamond or a tool asked for
\* twice, is planned, and no cycle or conflict behind several tools escapes because
\* the tool it goes through was already visited.  The plan then has each of those
\* requests once, a tool in the first layer after all that it needs, so what is
\* installed in parallel is independent and no layer is later than it has to be.
RightLayers(catalog, roots) ==
  LET plan == InstallRequestLayers(catalog, roots)
      R    == Closure(catalog, roots)
      flat == FlattenSeq(plan.layers)
      at(t) == LayerOf(plan.layers, t)
      before(t) == {at(d) : d \in Dependencies(catalog, t)}
  IN  /\ plan.found <=> Plannable(catalog, R)
      /\ plan.found =>
           /\ plan.requests = R
           /\ ToSet(flat) = {r.tool : r \in R} /\ IsInjective(flat)
           /\ \A t \in ToSet(flat) :
                /\ \A n \in before(t) : n < at(t)
                /\ at(t) > 1 => at(t) - 1 \in before(t)

\* The plan depends on the order of the roots only in the order within a layer.
SameLayers(catalog, roots, others) ==
  LET plan == InstallRequestLayers(catalog, roots)
      other == InstallRequestLayers(catalog, others)
  IN  ToSet(roots) = ToSet(others) =>
        /\ plan.found = other.found
        /\ [n \in DOMAIN plan.layers |-> ToSet(plan.layers[n])]
             = [n \in DOMAIN other.layers |-> ToSet(other.layers[n])]
=============================================================================
