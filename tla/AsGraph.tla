------------------------------- MODULE AsGraph -------------------------------
(***************************************************************************)
(* buildAsGraph() of the BIRD status page (luci-app-bird,                  *)
(* view/bird/status.js:428-480): the graph of autonomous systems that the  *)
(* page draws from the AS paths of a status reply, and what it should be.  *)
(*                                                                         *)
(* The code appends to an array of nodes and an array of edges and looks   *)
(* up what it has in byId and seen.  Here the arrays are sequences and the *)
(* look-ups range over them; a node's id is the AS itself ("as" + number   *)
(* in the code), NoAs the id of a router that reports no AS of its own.    *)
(***************************************************************************)
EXTENDS Naturals, FiniteSets, SequencesExt

CONSTANT NoAs    \* no AS number: local_as is null

ASSUME NoAsAssumption == NoAs \notin Nat

\* The data of a reply: local_as of each BGP session, and the AS paths.
\* localAs is the first that is there.
LocalAs(data) ==
  LET given == {i \in DOMAIN data.local : data.local[i] # NoAs}
  IN  IF given = {} THEN NoAs
      ELSE data.local[CHOOSE i \in given : \A j \in given : i <= j]

NodeIds(g) == {g.nodes[i].id : i \in DOMAIN g.nodes}

AddNode(g, id, group) ==
  IF id \in NodeIds(g) THEN g
  ELSE [g EXCEPT !.nodes = Append(@, [id |-> id, group |-> group])]

AddEdge(g, a, b) ==
  IF a = b \/ <<a, b>> \in Range(g.edges) \/ <<b, a>> \in Range(g.edges) THEN g
  ELSE [g EXCEPT !.edges = Append(@, <<a, b>>)]

\* One hop of a path: its node, and the edge from the hop before.
AddHop(g, id) ==
  LET n == AddNode(g, id, "peer")
      e == IF g.prev = NoAs THEN n ELSE AddEdge(n, g.prev, id)
  IN  [e EXCEPT !.prev = id]

\* The loop over the hops of a path.
AddHops(g, path) ==
  LET upto[k \in 0..Len(path)] ==
        IF k = 0 THEN g ELSE LET h == upto[k - 1] IN AddHop(h, path[k])
  IN  upto[Len(path)]

\* Mutant: prev is carried over from the path before.
MAddPath(g, path) ==
  LET h == AddHops(g, path)
  IN  IF path = <<>> THEN h ELSE AddEdge(h, g.nodes[1].id, path[1])

\* A path, and the edge from this router to its first hop.
AddPath(g, path) ==
  LET h == AddHops([g EXCEPT !.prev = NoAs], path)
  IN  IF path = <<>> THEN h ELSE AddEdge(h, g.nodes[1].id, path[1])

BuildAsGraph(data) ==
  LET start == [nodes |-> <<[id |-> LocalAs(data), group |-> "local"]>>,
                edges |-> <<>>, prev |-> NoAs]
      upto[p \in 0..Len(data.paths)] ==
        IF p = 0 THEN start
        ELSE LET g == upto[p - 1] IN AddPath(g, data.paths[p])
      graph == upto[Len(data.paths)]
  IN  [nodes |-> graph.nodes, edges |-> graph.edges]

-----------------------------------------------------------------------------
(* What the graph should be, from the paths alone.                         *)

Hops(data) == UNION {Range(data.paths[p]) : p \in DOMAIN data.paths}

\* The route of a path starts at this router.
Route(data, p) == <<LocalAs(data)>> \o data.paths[p]

Links(data) ==
  UNION {{{Route(data, p)[k], Route(data, p)[k + 1]}
            : k \in 1..Len(data.paths[p])} : p \in DOMAIN data.paths}

\* Each AS once, this router first and the only local one; an edge for each two
\* different neighbours on a route, once, in whichever direction.
IsAsGraph(g, data) ==
  /\ g.nodes[1] = [id |-> LocalAs(data), group |-> "local"]
  /\ \A i \in 2..Len(g.nodes) : g.nodes[i].group = "peer"
  /\ NodeIds(g) = Hops(data) \cup {LocalAs(data)}
  /\ Cardinality(NodeIds(g)) = Len(g.nodes)
  /\ LET linked == {{e[1], e[2]} : e \in Range(g.edges)}
     IN  /\ linked = {l \in Links(data) : Cardinality(l) = 2}
         /\ Cardinality(linked) = Len(g.edges)

=============================================================================
