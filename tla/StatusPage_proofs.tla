------------------------- MODULE StatusPage_proofs --------------------------
(***************************************************************************)
(* Theorems about StatusPage and AsGraph: what the page holds and shows    *)
(* agree after any replies in any order, and the graph it draws is right   *)
(* for every list of paths.                                                *)
(***************************************************************************)
EXTENDS StatusPage, TLAPS, SequenceTheorems, FiniteSetTheorems, FunctionTheorems,
        WellFoundedInduction

(***************************************************************************)
(* Induction over the natural numbers, for sets: the library's theorem is  *)
(* about operators, which cannot be given to the provers, but that < is    *)
(* well-founded can be used without.                                       *)
(***************************************************************************)

(* A set of naturals that is not empty has a least element.                *)
LEMMA Least ==
  ASSUME NEW T, T \subseteq Nat, T # {}
  PROVE  \E x \in T : \A y \in T : x <= y
<1> DEFINE R == OpToRel(<, Nat)
<1>1. IsWellFoundedOn(R, Nat)
  BY NatLessThanWellFounded
<1>2. \A x, y \in Nat : <<x, y>> \in R <=> x < y
  BY DEF OpToRel
<1> HIDE DEF R
<1>3. PICK x \in T : \A y \in T : ~(<<y, x>> \in R)
  BY <1>1, WFMin
<1>4. \A y \in T : x \in Nat /\ y \in Nat /\ ~(y < x)
  BY <1>2, <1>3
<1>5. \A y \in T : x <= y
  BY <1>4
<1> QED
  BY <1>5

(* A set that has 0, and with each number up to n the next, has them all.  *)
LEMMA UpTo ==
  ASSUME NEW T, NEW n \in Nat, 0 \in T,
         \A k \in 0..n : k \in T /\ k < n => k + 1 \in T
  PROVE  0..n \subseteq T
<1> DEFINE D == (0..n) \ T
<1> SUFFICES ASSUME D # {} PROVE FALSE
  OBVIOUS
<1>0. D \subseteq Nat
  OBVIOUS
<1> HIDE DEF D
<1>1. PICK x \in D : \A y \in D : x <= y
  BY <1>0, Least
<1> USE DEF D
<1>2. x # 0 /\ x - 1 \in 0..n /\ x - 1 < n /\ (x - 1) + 1 = x /\ ~(x <= x - 1)
  BY <1>1
<1>3. x - 1 \in T
  BY <1>1, <1>2
<1> QED
  BY <1>1, <1>2, <1>3

-----------------------------------------------------------------------------
(* The two loops of buildAsGraph() as the recursive functions they are.    *)

(* What the loop over the hops of a path has made of g after each hop.     *)
IsHopLoop(u, g, path, n) ==
  u = [k \in 0..n |-> IF k = 0 THEN g ELSE AddHop(u[k - 1], path[k])]

LEMMA HopLoopExists ==
  ASSUME NEW g, NEW path, NEW n \in Nat
  PROVE  \E u : IsHopLoop(u, g, path, n)
<1> DEFINE T == {k \in 0..n : \E u : IsHopLoop(u, g, path, k)}
<1>1. 0 \in T
  <2> DEFINE u == [k \in 0..0 |-> g]
  <2>1. \A k \in 0..0 : k = 0
    OBVIOUS
  <2>2. u = [k \in 0..0 |-> IF k = 0 THEN g ELSE AddHop(u[k - 1], path[k])]
    BY <2>1
  <2>3. IsHopLoop(u, g, path, 0) /\ 0 \in 0..n
    BY <2>2 DEF IsHopLoop
  <2> QED
    BY <2>3
<1>2. ASSUME NEW k \in 0..n, k \in T, k < n PROVE k + 1 \in T
  <2>1. PICK u : IsHopLoop(u, g, path, k)
    BY <1>2
  <2> DEFINE v == [i \in 0..k + 1 |-> IF i = k + 1 THEN AddHop(u[k], path[i]) ELSE u[i]]
  <2>2. ASSUME NEW i \in 0..k + 1
        PROVE  v[i] = IF i = 0 THEN g ELSE AddHop(v[i - 1], path[i])
    <3>1. CASE i = 0
      <4>1. i # k + 1 /\ i \in 0..k
        BY <3>1
      <4> QED
        BY <2>1, <3>1, <4>1 DEF IsHopLoop
    <3>2. CASE i # 0 /\ i # k + 1
      <4>1. i \in 0..k /\ i - 1 \in 0..k /\ i - 1 \in 0..k + 1 /\ i - 1 # k + 1
        BY <3>2
      <4>2. u[i] = AddHop(u[i - 1], path[i])
        BY <2>1, <3>2, <4>1 DEF IsHopLoop
      <4> QED
        BY <3>2, <4>1, <4>2
    <3>3. CASE i = k + 1
      <4>1. i # 0 /\ i - 1 = k /\ k \in 0..k + 1 /\ k # k + 1
        BY <3>3
      <4> QED
        BY <3>3, <4>1
    <3> QED
      BY <3>1, <3>2, <3>3
  <2>3. v = [i \in 0..k + 1 |-> IF i = 0 THEN g ELSE AddHop(v[i - 1], path[i])]
    BY <2>2
  <2>4. IsHopLoop(v, g, path, k + 1)
    BY <2>3 DEF IsHopLoop
  <2>5. k + 1 \in 0..n
    BY <1>2
  <2> QED
    BY <2>4, <2>5
<1> HIDE DEF T
<1>3. 0..n \subseteq T
  BY <1>1, <1>2, UpTo
<1> QED
  BY <1>3 DEF T

LEMMA HopLoop ==
  ASSUME NEW g, NEW path, Len(path) \in Nat
  PROVE  \E u : IsHopLoop(u, g, path, Len(path)) /\ AddHops(g, path) = u[Len(path)]
<1> DEFINE u == CHOOSE v : IsHopLoop(v, g, path, Len(path))
<1>1. IsHopLoop(u, g, path, Len(path))
  BY HopLoopExists
<1>2. AddHops(g, path) = u[Len(path)]
  BY DEF AddHops, IsHopLoop
<1> QED
  BY <1>1, <1>2

-----------------------------------------------------------------------------
(* What buildAsGraph() keeps to while it runs: the nodes are this router's *)
(* L and the hops H met so far, the edges the pairs K of neighbours met.   *)

Ids   == Nat \cup {NoAs}
Node  == [id : Ids, group : {"local", "peer"}]
Edge  == Ids \X Ids
Graph == [nodes : Seq(Node), edges : Seq(Edge), prev : Ids]

Swap(e) == <<e[2], e[1]>>

NodesOf(n, L, H) ==
  /\ 1 \in 1..Len(n) /\ n[1] = [id |-> L, group |-> "local"]
  /\ \A i \in 1..Len(n) : i # 1 => n[i].group = "peer"
  /\ \A i \in 1..Len(n) : n[i].id \in H \cup {L}
  /\ \A h \in H : \E i \in 1..Len(n) : n[i].id = h
  /\ \A i, j \in 1..Len(n) : n[i].id = n[j].id => i = j

EdgesOf(s, K) ==
  /\ \A i \in 1..Len(s) : s[i][1] # s[i][2] /\ (s[i] \in K \/ Swap(s[i]) \in K)
  /\ \A a, b \in Ids : <<a, b>> \in K /\ a # b =>
       \E i \in 1..Len(s) : s[i] = <<a, b>> \/ s[i] = <<b, a>>
  /\ \A i, j \in 1..Len(s) : s[i] = s[j] \/ s[i] = Swap(s[j]) => i = j

GraphOf(g, L, H, K) == g \in Graph /\ NodesOf(g.nodes, L, H) /\ EdgesOf(g.edges, K)

(* node(): the id is there or is appended.                                 *)
LEMMA NodeAdded ==
  ASSUME NEW g \in Graph, NEW L \in Ids, NEW H \in SUBSET Ids,
         NodesOf(g.nodes, L, H), NEW id \in Ids
  PROVE  LET r == AddNode(g, id, "peer")
         IN  /\ r \in Graph /\ NodesOf(r.nodes, L, H \cup {id})
             /\ r.edges = g.edges /\ r.prev = g.prev
<1> DEFINE r == AddNode(g, id, "peer")
           n == g.nodes
<1>1. n \in Seq(Node) /\ g.edges \in Seq(Edge) /\ g.prev \in Ids
  BY DEF Graph
<1>2. DOMAIN n = 1..Len(n) /\ Len(n) \in Nat
  BY <1>1, LenProperties
<1>3. CASE id \in NodeIds(g)
  <2>1. r = g
    BY <1>3 DEF AddNode
  <2>2. \E i \in 1..Len(n) : n[i].id = id
    BY <1>2, <1>3 DEF NodeIds
  <2>3. NodesOf(n, L, H \cup {id})
    BY <2>2 DEF NodesOf
  <2> QED
    BY <2>1, <2>3
<1>4. CASE id \notin NodeIds(g)
  <2> DEFINE m == [id |-> id, group |-> "peer"]
             s == Append(n, m)
  <2>1. r = [g EXCEPT !.nodes = s]
    BY <1>4 DEF AddNode
  <2>2. m \in Node /\ m.id = id /\ m.group = "peer"
    BY DEF Node
  <2> HIDE DEF m
  <2>3. /\ s \in Seq(Node) /\ Len(s) = Len(n) + 1
        /\ \A i \in 1..Len(n) : s[i] = n[i]
        /\ s[Len(n) + 1] = m
    BY <1>1, <2>2, AppendProperties
  <2> HIDE DEF s
  <2>4. r \in Graph /\ r.nodes = s /\ r.edges = g.edges /\ r.prev = g.prev
    BY <1>1, <2>1, <2>3 DEF Graph
  <2>5. \A i \in 1..Len(n) : n[i].id # id
    BY <1>2, <1>4 DEF NodeIds
  <2>6. \A i \in 1..Len(s) : i \in 1..Len(n) \/ i = Len(n) + 1
    BY <1>2, <2>3
  <2>7. /\ 1 \in 1..Len(s) /\ 1 \in 1..Len(n) /\ Len(n) + 1 \in 1..Len(s)
        /\ \A i \in 1..Len(n) : i \in 1..Len(s)
    BY <1>2, <2>3 DEF NodesOf
  <2>8. s[1] = [id |-> L, group |-> "local"]
    BY <2>3, <2>7 DEF NodesOf
  <2>9. \A i \in 1..Len(s) : i # 1 => s[i].group = "peer"
    BY <2>2, <2>3, <2>6 DEF NodesOf
  <2>10. \A i \in 1..Len(s) : s[i].id \in (H \cup {id}) \cup {L}
    BY <2>2, <2>3, <2>6 DEF NodesOf
  <2>11. ASSUME NEW h \in H \cup {id} PROVE \E i \in 1..Len(s) : s[i].id = h
    <3>1. CASE h = id
      BY <2>2, <2>3, <2>7, <3>1
    <3>2. CASE h \in H
      <4>1. PICK i \in 1..Len(n) : n[i].id = h
        BY <3>2 DEF NodesOf
      <4> QED
        BY <2>3, <2>7, <4>1
    <3> QED
      BY <3>1, <3>2
  <2>12. ASSUME NEW i \in 1..Len(s), NEW j \in 1..Len(s), s[i].id = s[j].id
         PROVE  i = j
    BY <2>2, <2>3, <2>5, <2>6, <2>12 DEF NodesOf
  <2>13. NodesOf(s, L, H \cup {id})
    BY <2>7, <2>8, <2>9, <2>10, <2>11, <2>12 DEF NodesOf
  <2> QED
    BY <2>4, <2>13
<1> QED
  BY <1>3, <1>4

(* edge(): the two are one, or linked already, or are now.                 *)
LEMMA EdgeAdded ==
  ASSUME NEW g \in Graph, NEW K \in SUBSET Edge, EdgesOf(g.edges, K),
         NEW a \in Ids, NEW b \in Ids
  PROVE  LET r == AddEdge(g, a, b)
         IN  /\ r \in Graph /\ EdgesOf(r.edges, K \cup {<<a, b>>})
             /\ r.nodes = g.nodes /\ r.prev = g.prev
<1> DEFINE r == AddEdge(g, a, b)
           s == g.edges
           J == K \cup {<<a, b>>}
<1>1. g.nodes \in Seq(Node) /\ s \in Seq(Edge) /\ g.prev \in Ids
  BY DEF Graph
<1>2. DOMAIN s = 1..Len(s) /\ Len(s) \in Nat /\ \A i \in 1..Len(s) : s[i] \in Edge
  BY <1>1, LenProperties, ElementOfSeq
<1>3. CASE a = b \/ <<a, b>> \in Range(s) \/ <<b, a>> \in Range(s)
  <2>1. r = g
    BY <1>3 DEF AddEdge
  <2>2. a # b => \E i \in 1..Len(s) : s[i] = <<a, b>> \/ s[i] = <<b, a>>
    BY <1>2, <1>3 DEF Range
  <2>3. ASSUME NEW c \in Ids, NEW d \in Ids, <<c, d>> \in J, c # d
        PROVE  \E i \in 1..Len(s) : s[i] = <<c, d>> \/ s[i] = <<d, c>>
    <3>1. CASE <<c, d>> \in K
      BY <2>3, <3>1 DEF EdgesOf
    <3>2. CASE <<c, d>> = <<a, b>>
      BY <2>2, <2>3, <3>2
    <3> QED
      BY <2>3, <3>1, <3>2
  <2>4. EdgesOf(s, J)
    BY <2>3 DEF EdgesOf
  <2> QED
    BY <2>1, <2>4
<1>4. CASE ~(a = b \/ <<a, b>> \in Range(s) \/ <<b, a>> \in Range(s))
  <2> DEFINE e == <<a, b>>
             t == Append(s, e)
  <2>1. r = [g EXCEPT !.edges = t]
    BY <1>4 DEF AddEdge
  <2>2. e \in Edge /\ e[1] = a /\ e[2] = b /\ Swap(e) = <<b, a>> /\ e \in J
    BY DEF Edge, Swap
  <2>3. a # b /\ \A i \in 1..Len(s) : s[i] # e /\ s[i] # Swap(e)
    BY <1>2, <1>4, <2>2 DEF Range
  <2> HIDE DEF e
  <2>4. /\ t \in Seq(Edge) /\ Len(t) = Len(s) + 1
        /\ \A i \in 1..Len(s) : t[i] = s[i]
        /\ t[Len(s) + 1] = e
    BY <1>1, <2>2, AppendProperties
  <2> HIDE DEF t
  <2>5. r \in Graph /\ r.edges = t /\ r.nodes = g.nodes /\ r.prev = g.prev
    BY <1>1, <2>1, <2>4 DEF Graph
  <2>6. /\ \A i \in 1..Len(t) : i \in 1..Len(s) \/ i = Len(s) + 1
        /\ \A i \in 1..Len(s) : i \in 1..Len(t)
        /\ Len(s) + 1 \in 1..Len(t)
    BY <1>2, <2>4
  <2>7. ASSUME NEW i \in 1..Len(t)
        PROVE  t[i][1] # t[i][2] /\ (t[i] \in J \/ Swap(t[i]) \in J)
    <3>1. CASE i \in 1..Len(s)
      <4>1. t[i] = s[i]
        BY <2>4, <3>1
      <4>2. s[i][1] # s[i][2] /\ (s[i] \in K \/ Swap(s[i]) \in K)
        BY <3>1 DEF EdgesOf
      <4> QED
        BY <4>1, <4>2
    <3>2. CASE i = Len(s) + 1
      <4>1. t[i] = e
        BY <2>4, <3>2
      <4> QED
        BY <2>2, <2>3, <4>1
    <3> QED
      BY <2>6, <3>1, <3>2
  <2>8. ASSUME NEW c \in Ids, NEW d \in Ids, <<c, d>> \in J, c # d
        PROVE  \E i \in 1..Len(t) : t[i] = <<c, d>> \/ t[i] = <<d, c>>
    <3>1. CASE <<c, d>> \in K
      <4>1. PICK i \in 1..Len(s) : s[i] = <<c, d>> \/ s[i] = <<d, c>>
        BY <2>8, <3>1 DEF EdgesOf
      <4> QED
        BY <2>4, <2>6, <4>1
    <3>2. CASE <<c, d>> = <<a, b>>
      BY <2>4, <2>6, <3>2 DEF e
    <3> QED
      BY <2>8, <3>1, <3>2
  <2>9. ASSUME NEW i \in 1..Len(s) PROVE s[i] # e /\ s[i] # Swap(e) /\ e # Swap(s[i])
    <3>1. s[i] = <<s[i][1], s[i][2]>>
      BY <1>2 DEF Edge
    <3> QED
      BY <2>2, <2>3, <3>1 DEF Swap, e
  <2>11. ASSUME NEW i \in 1..Len(t), NEW j \in 1..Len(t),
                t[i] = t[j] \/ t[i] = Swap(t[j])
         PROVE  i = j
    <3>1. CASE i \in 1..Len(s) /\ j \in 1..Len(s)
      BY <2>4, <2>11, <3>1 DEF EdgesOf
    <3>2. CASE i \in 1..Len(s) /\ j = Len(s) + 1
      BY <2>4, <2>9, <2>11, <3>2
    <3>3. CASE i = Len(s) + 1 /\ j \in 1..Len(s)
      BY <2>4, <2>9, <2>11, <3>3
    <3> QED
      BY <2>6, <3>1, <3>2, <3>3
  <2>12. EdgesOf(t, J)
    BY <2>7, <2>8, <2>11 DEF EdgesOf
  <2> QED
    BY <2>5, <2>12
<1> QED
  BY <1>3, <1>4

LEMMA FirstThere ==
  ASSUME NEW S, NEW s \in Seq(S), s # <<>>
  PROVE  Len(s) \in Nat /\ 1 \in 1..Len(s)
BY EmptySeq, LenProperties

(* A hop adds itself and, but for the first, the pair with the one before. *)
LEMMA HopAdded ==
  ASSUME NEW L \in Ids, NEW H \in SUBSET Ids, NEW K \in SUBSET Edge, NEW g,
         GraphOf(g, L, H, K), NEW id \in Nat
  PROVE  LET r == AddHop(g, id)
         IN  /\ GraphOf(r, L, H \cup {id},
                        K \cup IF g.prev = NoAs THEN {} ELSE {<<g.prev, id>>})
             /\ r.prev = id
<1> DEFINE n == AddNode(g, id, "peer")
           e == IF g.prev = NoAs THEN n ELSE AddEdge(n, g.prev, id)
           J == K \cup IF g.prev = NoAs THEN {} ELSE {<<g.prev, id>>}
<1>1. id \in Ids /\ g \in Graph /\ NodesOf(g.nodes, L, H) /\ EdgesOf(g.edges, K)
  BY DEF Ids, GraphOf
<1>2. /\ n \in Graph /\ NodesOf(n.nodes, L, H \cup {id})
      /\ n.edges = g.edges /\ n.prev = g.prev
  BY <1>1, NodeAdded
<1>3. g.prev \in Ids
  BY <1>1 DEF Graph
<1> HIDE DEF n
<1>4. e \in Graph /\ e.nodes = n.nodes /\ EdgesOf(e.edges, J)
  BY <1>1, <1>2, <1>3, EdgeAdded
<1>5. AddHop(g, id) = [e EXCEPT !.prev = id]
  BY DEF AddHop, n
<1> HIDE DEF e, J
<1> DEFINE r == [e EXCEPT !.prev = id]
<1>6. r \in Graph /\ r.nodes = e.nodes /\ r.edges = e.edges /\ r.prev = id
  BY <1>1, <1>4 DEF Graph
<1> HIDE DEF r
<1>7. GraphOf(r, L, H \cup {id}, J)
  BY <1>2, <1>4, <1>6 DEF GraphOf
<1> QED
  BY <1>5, <1>6, <1>7 DEF r, J

HopsTo(path, k)  == {path[i] : i \in 1..k}
PairsTo(path, k) == {<<path[i], path[i + 1]>> : i \in 1..k - 1}

LEMMA PrefixSets ==
  ASSUME NEW path, NEW k \in Nat
  PROVE  /\ HopsTo(path, 0) = {} /\ PairsTo(path, 0) = {} /\ PairsTo(path, 1) = {}
         /\ HopsTo(path, k + 1) = HopsTo(path, k) \cup {path[k + 1]}
         /\ k # 0 => PairsTo(path, k + 1) = PairsTo(path, k) \cup {<<path[k], path[k + 1]>>}
<1>1. 1..0 = {} /\ 1..0 - 1 = {} /\ 1..1 - 1 = {}
  OBVIOUS
<1>2. HopsTo(path, 0) = {} /\ PairsTo(path, 0) = {} /\ PairsTo(path, 1) = {}
  BY <1>1 DEF HopsTo, PairsTo
<1>3. 1..k + 1 = (1..k) \cup {k + 1}
  OBVIOUS
<1>4. HopsTo(path, k + 1) = HopsTo(path, k) \cup {path[k + 1]}
  BY <1>3 DEF HopsTo
<1>5. ASSUME k # 0
      PROVE  PairsTo(path, k + 1) = PairsTo(path, k) \cup {<<path[k], path[k + 1]>>}
  <2>1. 1..(k + 1) - 1 = (1..k - 1) \cup {k}
    BY <1>5
  <2> QED
    BY <2>1 DEF PairsTo
<1> QED
  BY <1>2, <1>4, <1>5

(* The loop over the hops of one path.                                     *)
LEMMA HopsAdded ==
  ASSUME NEW L \in Ids, NEW H \in SUBSET Ids, NEW K \in SUBSET Edge, NEW g,
         GraphOf(g, L, H, K), g.prev = NoAs, NEW path \in Seq(Nat)
  PROVE  GraphOf(AddHops(g, path), L, H \cup HopsTo(path, Len(path)),
                 K \cup PairsTo(path, Len(path)))
<1> DEFINE n == Len(path)
<1>1. n \in Nat /\ \A i \in 1..n : path[i] \in Nat
  BY LenProperties, ElementOfSeq
<1>2. PICK u : IsHopLoop(u, g, path, n) /\ AddHops(g, path) = u[n]
  BY <1>1, HopLoop
<1> DEFINE T == {k \in 0..n :
                   /\ GraphOf(u[k], L, H \cup HopsTo(path, k), K \cup PairsTo(path, k))
                   /\ u[k].prev = IF k = 0 THEN NoAs ELSE path[k]}
<1> HIDE DEF n
<1>3. /\ u[0] = g
      /\ \A k \in 0..n : k < n => u[k + 1] = AddHop(u[k], path[k + 1])
  <2>1. 0 \in 0..n
    BY <1>1
  <2>2. u[0] = g
    BY <1>2, <2>1 DEF IsHopLoop
  <2>3. ASSUME NEW k \in 0..n, k < n PROVE u[k + 1] = AddHop(u[k], path[k + 1])
    <3>1. k + 1 \in 0..n /\ k + 1 # 0 /\ (k + 1) - 1 = k
      BY <1>1, <2>3
    <3> QED
      BY <1>2, <3>1 DEF IsHopLoop
  <2> QED
    BY <2>2, <2>3
<1>4. 0 \in T
  <2>1. H \cup HopsTo(path, 0) = H /\ K \cup PairsTo(path, 0) = K /\ 0 \in 0..n
    BY <1>1, PrefixSets
  <2> QED
    BY <1>3, <2>1
<1>5. ASSUME NEW k \in 0..n, k \in T, k < n PROVE k + 1 \in T
  <2> DEFINE G == H \cup HopsTo(path, k)
             J == K \cup PairsTo(path, k)
             id == path[k + 1]
  <2>1. k + 1 \in 1..n /\ k + 1 \in 0..n /\ k \in Nat /\ k + 1 # 0
    BY <1>1, <1>5
  <2>2. id \in Nat /\ \A i \in 1..k : path[i] \in Nat
    BY <1>1, <2>1
  <2>3. G \in SUBSET Ids
    BY <2>2 DEF HopsTo, Ids
  <2>4. J \in SUBSET Edge
    <3>1. \A i \in 1..k - 1 : path[i] \in Nat /\ path[i + 1] \in Nat
      BY <2>1, <2>2
    <3> QED
      BY <3>1 DEF PairsTo, Edge, Ids
  <2>5. GraphOf(u[k], L, G, J) /\ u[k].prev = IF k = 0 THEN NoAs ELSE path[k]
    BY <1>5
  <2> HIDE DEF G, J, id
  <2>6. /\ GraphOf(u[k + 1], L, G \cup {id},
                   J \cup IF u[k].prev = NoAs THEN {} ELSE {<<u[k].prev, id>>})
        /\ u[k + 1].prev = id
    <3>1. u[k + 1] = AddHop(u[k], id)
      BY <1>3, <1>5 DEF id
    <3> DEFINE w == u[k]
    <3>2. GraphOf(w, L, G, J)
      BY <2>5
    <3> HIDE DEF w
    <3>3. /\ GraphOf(AddHop(w, id), L, G \cup {id},
                     J \cup IF w.prev = NoAs THEN {} ELSE {<<w.prev, id>>})
          /\ AddHop(w, id).prev = id
      BY <2>2, <2>3, <2>4, <3>2, HopAdded, SMTT(30)
    <3> QED
      BY <3>1, <3>3 DEF w
  <2>7. G \cup {id} = H \cup HopsTo(path, k + 1)
    BY <2>1, PrefixSets DEF G, id
  <2>8. J \cup (IF u[k].prev = NoAs THEN {} ELSE {<<u[k].prev, id>>})
          = K \cup PairsTo(path, k + 1)
    <3>1. CASE k = 0
      <4>1. u[k].prev = NoAs
        BY <2>5, <3>1
      <4>2. PairsTo(path, k) = {} /\ PairsTo(path, k + 1) = {}
        BY <3>1, PrefixSets
      <4> QED
        BY <4>1, <4>2 DEF J
    <3>2. CASE k # 0
      <4>1. u[k].prev = path[k] /\ path[k] # NoAs
        BY <2>1, <2>2, <2>5, <3>2, NoAsAssumption
      <4> QED
        BY <2>1, <3>2, <4>1, PrefixSets DEF J, id
    <3> QED
      BY <3>1, <3>2
  <2> QED
    BY <2>1, <2>6, <2>7, <2>8 DEF id
<1> HIDE DEF T
<1>6. 0..n \subseteq T
  BY <1>1, <1>4, <1>5, UpTo
<1>7. n \in T
  BY <1>1, <1>6
<1> QED
  BY <1>2, <1>7 DEF T, n

PathPairs(L, path) ==
  PairsTo(path, Len(path)) \cup IF path = <<>> THEN {} ELSE {<<L, path[1]>>}

(* One path: its hops, its pairs, and the one with this router.            *)
LEMMA PathAdded ==
  ASSUME NEW L \in Ids, NEW H \in SUBSET Ids, NEW K \in SUBSET Edge, NEW g,
         GraphOf(g, L, H, K), NEW path \in Seq(Nat)
  PROVE  GraphOf(AddPath(g, path), L, H \cup HopsTo(path, Len(path)),
                 K \cup PathPairs(L, path))
<1> DEFINE f == [g EXCEPT !.prev = NoAs]
           h == AddHops(f, path)
           J == K \cup PairsTo(path, Len(path))
           G == H \cup HopsTo(path, Len(path))
<1>1. f \in Graph /\ f.nodes = g.nodes /\ f.edges = g.edges /\ f.prev = NoAs
  BY DEF GraphOf, Graph, Ids
<1>2. GraphOf(f, L, H, K)
  BY <1>1 DEF GraphOf
<1> HIDE DEF f
<1>3. GraphOf(h, L, G, J)
  BY <1>1, <1>2, HopsAdded
<1>4. CASE path = <<>>
  <2>1. AddPath(g, path) = h
    BY <1>4 DEF AddPath, f
  <2>2. K \cup PathPairs(L, path) = J
    BY <1>4 DEF PathPairs
  <2> QED
    BY <1>3, <2>1, <2>2
<1>5. CASE path # <<>>
  <2>1. AddPath(g, path) = AddEdge(h, g.nodes[1].id, path[1])
    BY <1>5 DEF AddPath, f
  <2>2. g.nodes[1].id = L
    BY DEF GraphOf, NodesOf
  <2>3. Len(path) \in Nat /\ 1 \in 1..Len(path) /\ \A i \in 1..Len(path) : path[i] \in Nat
    BY <1>5, FirstThere, ElementOfSeq
  <2>4. path[1] \in Ids
    BY <2>3 DEF Ids
  <2>5. J \in SUBSET Edge
    <3>1. \A i \in 1..Len(path) - 1 : path[i] \in Nat /\ path[i + 1] \in Nat
      BY <2>3
    <3> QED
      BY <3>1 DEF PairsTo, Edge, Ids
  <2> HIDE DEF h, J, G
  <2> DEFINE r == AddEdge(h, L, path[1])
  <2>6. r \in Graph /\ EdgesOf(r.edges, J \cup {<<L, path[1]>>}) /\ r.nodes = h.nodes
    BY <1>3, <2>4, <2>5, EdgeAdded DEF GraphOf
  <2>7. GraphOf(r, L, G, J \cup {<<L, path[1]>>})
    BY <1>3, <2>6 DEF GraphOf
  <2>8. K \cup PathPairs(L, path) = J \cup {<<L, path[1]>>}
    BY <1>5 DEF PathPairs, J
  <2> QED
    BY <2>1, <2>2, <2>7, <2>8 DEF G
<1> QED
  BY <1>4, <1>5

(* What the loop over the paths has made of g after each path.             *)
IsPathLoop(u, g, paths, n) ==
  u = [p \in 0..n |-> IF p = 0 THEN g ELSE AddPath(u[p - 1], paths[p])]

LEMMA PathLoopExists ==
  ASSUME NEW g, NEW paths, NEW n \in Nat
  PROVE  \E u : IsPathLoop(u, g, paths, n)
<1> DEFINE T == {k \in 0..n : \E u : IsPathLoop(u, g, paths, k)}
<1>1. 0 \in T
  <2> DEFINE u == [k \in 0..0 |-> g]
  <2>1. \A k \in 0..0 : k = 0
    OBVIOUS
  <2>2. u = [k \in 0..0 |-> IF k = 0 THEN g ELSE AddPath(u[k - 1], paths[k])]
    BY <2>1
  <2>3. IsPathLoop(u, g, paths, 0) /\ 0 \in 0..n
    BY <2>2 DEF IsPathLoop
  <2> QED
    BY <2>3
<1>2. ASSUME NEW k \in 0..n, k \in T, k < n PROVE k + 1 \in T
  <2>1. PICK u : IsPathLoop(u, g, paths, k)
    BY <1>2
  <2> DEFINE v == [i \in 0..k + 1 |-> IF i = k + 1 THEN AddPath(u[k], paths[i]) ELSE u[i]]
  <2>2. ASSUME NEW i \in 0..k + 1
        PROVE  v[i] = IF i = 0 THEN g ELSE AddPath(v[i - 1], paths[i])
    <3>1. CASE i = 0
      <4>1. i # k + 1 /\ i \in 0..k
        BY <3>1
      <4> QED
        BY <2>1, <3>1, <4>1 DEF IsPathLoop
    <3>2. CASE i # 0 /\ i # k + 1
      <4>1. i \in 0..k /\ i - 1 \in 0..k /\ i - 1 \in 0..k + 1 /\ i - 1 # k + 1
        BY <3>2
      <4>2. u[i] = AddPath(u[i - 1], paths[i])
        BY <2>1, <3>2, <4>1 DEF IsPathLoop
      <4> QED
        BY <3>2, <4>1, <4>2
    <3>3. CASE i = k + 1
      <4>1. i # 0 /\ i - 1 = k /\ k \in 0..k + 1 /\ k # k + 1
        BY <3>3
      <4> QED
        BY <3>3, <4>1
    <3> QED
      BY <3>1, <3>2, <3>3
  <2>3. v = [i \in 0..k + 1 |-> IF i = 0 THEN g ELSE AddPath(v[i - 1], paths[i])]
    BY <2>2
  <2>4. IsPathLoop(v, g, paths, k + 1)
    BY <2>3 DEF IsPathLoop
  <2>5. k + 1 \in 0..n
    BY <1>2
  <2> QED
    BY <2>4, <2>5
<1> HIDE DEF T
<1>3. 0..n \subseteq T
  BY <1>1, <1>2, UpTo
<1> QED
  BY <1>3 DEF T

StartGraph(L) == [nodes |-> <<[id |-> L, group |-> "local"]>>, edges |-> <<>>, prev |-> NoAs]

LEMMA PathLoop ==
  ASSUME NEW data, Len(data.paths) \in Nat
  PROVE  \E u : /\ IsPathLoop(u, StartGraph(LocalAs(data)), data.paths, Len(data.paths))
                /\ BuildAsGraph(data) = [nodes |-> u[Len(data.paths)].nodes,
                                         edges |-> u[Len(data.paths)].edges]
<1> DEFINE u == CHOOSE v : IsPathLoop(v, StartGraph(LocalAs(data)), data.paths, Len(data.paths))
<1>1. IsPathLoop(u, StartGraph(LocalAs(data)), data.paths, Len(data.paths))
  BY PathLoopExists
<1>2. BuildAsGraph(data) = [nodes |-> u[Len(data.paths)].nodes,
                            edges |-> u[Len(data.paths)].edges]
  BY DEF BuildAsGraph, IsPathLoop, StartGraph
<1> QED
  BY <1>1, <1>2

LEMMA LocalType ==
  ASSUME NEW data, data.local \in Seq(Ids)
  PROVE  LocalAs(data) \in Ids
<1> DEFINE given == {i \in DOMAIN data.local : data.local[i] # NoAs}
<1>1. DOMAIN data.local = 1..Len(data.local) /\ Len(data.local) \in Nat
  BY LenProperties
<1>2. \A i \in given : data.local[i] \in Ids
  BY <1>1, ElementOfSeq
<1>3. CASE given = {}
  BY <1>3 DEF LocalAs, Ids
<1>4. CASE given # {}
  <2> DEFINE i == CHOOSE i \in given : \A j \in given : i <= j
  <2>1. given \subseteq Nat
    BY <1>1
  <2>2. \E x \in given : \A j \in given : x <= j
    <3> HIDE DEF given
    <3> QED
      BY <1>4, <2>1, Least
  <2>3. i \in given
    <3> HIDE DEF given
    <3> QED
      BY <2>2
  <2>4. LocalAs(data) = data.local[i]
    BY <1>4 DEF LocalAs
  <2> HIDE DEF given, i
  <2> QED
    BY <1>2, <2>3, <2>4
<1> QED
  BY <1>3, <1>4

AllHops(paths, n)     == UNION {HopsTo(paths[p], Len(paths[p])) : p \in 1..n}
AllPairs(L, paths, n) == UNION {PathPairs(L, paths[p]) : p \in 1..n}

LEMMA PrefixTypes ==
  ASSUME NEW L \in Ids, NEW paths, NEW n \in Nat, \A p \in 1..n : paths[p] \in Seq(Nat),
         NEW k \in 0..n
  PROVE  AllHops(paths, k) \in SUBSET Ids /\ AllPairs(L, paths, k) \in SUBSET Edge
<1>1. ASSUME NEW p \in 1..n
      PROVE  /\ HopsTo(paths[p], Len(paths[p])) \subseteq Ids
             /\ PathPairs(L, paths[p]) \subseteq Edge
  <2> DEFINE path == paths[p]
             m == Len(path)
  <2>1. path \in Seq(Nat)
    OBVIOUS
  <2>2. m \in Nat /\ \A i \in 1..m : path[i] \in Nat /\ path[i] \in Ids
    <3> HIDE DEF path
    <3> QED
      BY <2>1, LenProperties, ElementOfSeq DEF Ids
  <2>3. \A i \in 1..m - 1 : i \in 1..m /\ i + 1 \in 1..m
    BY <2>2
  <2>4. path # <<>> => 1 \in 1..m
    <3> HIDE DEF path
    <3> QED
      BY <2>1, FirstThere
  <2> HIDE DEF path, m
  <2>5. HopsTo(path, m) \subseteq Ids
    BY <2>2 DEF HopsTo
  <2>6. PairsTo(path, m) \subseteq Edge
    BY <2>2, <2>3 DEF PairsTo, Edge
  <2>7. path # <<>> => <<L, path[1]>> \in Edge
    BY <2>2, <2>4 DEF Edge
  <2> QED
    BY <2>5, <2>6, <2>7 DEF PathPairs, path, m
<1>2. \A q \in 1..k : q \in 1..n
  OBVIOUS
<1>3. AllHops(paths, k) \subseteq Ids
  BY <1>1, <1>2 DEF AllHops
<1>4. AllPairs(L, paths, k) \subseteq Edge
  BY <1>1, <1>2 DEF AllPairs
<1> QED
  BY <1>3, <1>4

(* The loop over the paths.                                                *)
LEMMA PathsAdded ==
  ASSUME NEW data, data.local \in Seq(Ids), data.paths \in Seq(Seq(Nat))
  PROVE  \E g : /\ GraphOf(g, LocalAs(data), AllHops(data.paths, Len(data.paths)),
                           AllPairs(LocalAs(data), data.paths, Len(data.paths)))
                /\ BuildAsGraph(data) = [nodes |-> g.nodes, edges |-> g.edges]
<1> DEFINE L == LocalAs(data)
           paths == data.paths
           n == Len(paths)
           H(p) == AllHops(paths, p)
           K(p) == AllPairs(L, paths, p)
<1>1. L \in Ids /\ n \in Nat /\ \A p \in 1..n : paths[p] \in Seq(Nat)
  BY LocalType, LenProperties, ElementOfSeq
<1>2. PICK u : /\ IsPathLoop(u, StartGraph(L), paths, n)
               /\ BuildAsGraph(data) = [nodes |-> u[n].nodes, edges |-> u[n].edges]
  BY <1>1, PathLoop
<1> HIDE DEF L, n, paths
<1>4. \A p \in 0..n : H(p) \in SUBSET Ids /\ K(p) \in SUBSET Edge
  BY <1>1, PrefixTypes
<1>5. ASSUME NEW p \in 0..n, p < n
      PROVE  /\ H(p + 1) = H(p) \cup HopsTo(paths[p + 1], Len(paths[p + 1]))
             /\ K(p + 1) = K(p) \cup PathPairs(L, paths[p + 1])
  <2>1. 1..p + 1 = (1..p) \cup {p + 1}
    BY <1>1
  <2> QED
    BY <2>1 DEF AllHops, AllPairs
<1>6. H(0) = {} /\ K(0) = {}
  <2>1. 1..0 = {}
    OBVIOUS
  <2> QED
    BY <2>1 DEF AllHops, AllPairs
<1> DEFINE T == {p \in 0..n : GraphOf(u[p], L, H(p), K(p))}
<1>7. /\ u[0] = StartGraph(L)
      /\ \A p \in 0..n : p < n => u[p + 1] = AddPath(u[p], paths[p + 1])
  <2>1. 0 \in 0..n
    BY <1>1
  <2>2. u[0] = StartGraph(L)
    BY <1>2, <2>1 DEF IsPathLoop
  <2>3. ASSUME NEW p \in 0..n, p < n PROVE u[p + 1] = AddPath(u[p], paths[p + 1])
    <3>1. p + 1 \in 0..n /\ p + 1 # 0 /\ (p + 1) - 1 = p
      BY <1>1, <2>3
    <3> QED
      BY <1>2, <3>1 DEF IsPathLoop
  <2> QED
    BY <2>2, <2>3
<1> HIDE DEF H, K
<1>8. 0 \in T
  <2> DEFINE g == StartGraph(L)
             m == [id |-> L, group |-> "local"]
  <2>1. g \in Graph /\ g.nodes = <<m>> /\ g.edges = <<>>
    <3>1. m \in Node
      BY <1>1 DEF Node
    <3>2. <<m>> \in Seq(Node) /\ <<>> \in Seq(Edge) /\ NoAs \in Ids
      BY <3>1 DEF Ids
    <3> HIDE DEF m
    <3> QED
      BY <3>2 DEF StartGraph, Graph, m
  <2>2. Len(<<m>>) = 1 /\ <<m>>[1] = m /\ m.id = L /\ 1..1 = {1}
    OBVIOUS
  <2>3. NodesOf(<<m>>, L, {})
    BY <2>2 DEF NodesOf
  <2>4. EdgesOf(<<>>, {})
    BY DEF EdgesOf
  <2>5. GraphOf(g, L, {}, {})
    BY <2>1, <2>3, <2>4 DEF GraphOf
  <2>6. 0 \in 0..n
    BY <1>1
  <2> QED
    BY <1>6, <1>7, <2>5, <2>6
<1>9. ASSUME NEW p \in 0..n, p \in T, p < n PROVE p + 1 \in T
  <2>1. p + 1 \in 0..n /\ p + 1 \in 1..n
    BY <1>1, <1>9
  <2> DEFINE w == u[p]
             path == paths[p + 1]
  <2>2. path \in Seq(Nat) /\ GraphOf(w, L, H(p), K(p)) /\ u[p + 1] = AddPath(w, path)
    BY <1>1, <1>7, <1>9, <2>1
  <2>3. H(p) \in SUBSET Ids /\ K(p) \in SUBSET Edge
    BY <1>4
  <2> HIDE DEF w, path
  <2>4. GraphOf(AddPath(w, path), L, H(p) \cup HopsTo(path, Len(path)),
                K(p) \cup PathPairs(L, path))
    BY <1>1, <2>2, <2>3, PathAdded
  <2>5. GraphOf(u[p + 1], L, H(p + 1), K(p + 1))
    BY <1>5, <1>9, <2>2, <2>4 DEF path
  <2> QED
    BY <2>1, <2>5
<1> HIDE DEF T
<1>10. n \in T
  <2>1. 0..n \subseteq T
    BY <1>1, <1>8, <1>9, UpTo
  <2> QED
    BY <1>1, <2>1
<1>11. GraphOf(u[n], L, H(n), K(n))
  BY <1>10 DEF T
<1> QED
  BY <1>2, <1>11 DEF H, K, L, n, paths

-----------------------------------------------------------------------------
(* From there to IsAsGraph.                                                *)

(* What n numbers can be given to, one each and none left, has n elements. *)
LEMMA Counted ==
  ASSUME NEW n \in Nat, NEW S, NEW f \in [1..n -> S],
         \A i, j \in 1..n : f[i] = f[j] => i = j,
         \A x \in S : \E i \in 1..n : f[i] = x
  PROVE  Cardinality(S) = n
<1>1. f \in Bijection(1..n, S)
  BY DEF Bijection, Injection, Surjection, IsInjective
<1> QED
  BY <1>1, FS_CountingElements DEF ExistsBijection

LEMMA PairSize == \A a, b : Cardinality({a, b}) = 2 <=> a # b
<1> SUFFICES ASSUME NEW a, NEW b PROVE Cardinality({a, b}) = 2 <=> a # b
  OBVIOUS
<1>1. IsFiniteSet({a}) /\ Cardinality({a}) = 1
  BY FS_Singleton
<1>2. {a, b} = {a} \cup {b}
  OBVIOUS
<1>3. Cardinality({a, b}) = IF b \in {a} THEN Cardinality({a}) ELSE Cardinality({a}) + 1
  BY <1>1, <1>2, FS_AddElement
<1> QED
  BY <1>1, <1>3

(* The pairs of a path are the neighbours on its route.                    *)
LEMMA RoutePairs ==
  ASSUME NEW data, NEW p, data.paths[p] \in Seq(Nat), LocalAs(data) \in Ids
  PROVE  LET path == data.paths[p]
             r == Route(data, p)
         IN  /\ \A k \in 1..Len(path) : <<r[k], r[k + 1]>> \in PathPairs(LocalAs(data), path)
             /\ \A e \in PathPairs(LocalAs(data), path) :
                  \E k \in 1..Len(path) : e = <<r[k], r[k + 1]>>
<1> DEFINE L == LocalAs(data)
           path == data.paths[p]
           n == Len(path)
           r == Route(data, p)
<1>1. n \in Nat /\ path \in Seq(Ids)
  <2>1. path \in Seq(Nat)
    OBVIOUS
  <2>2. Nat \subseteq Ids
    BY DEF Ids
  <2> HIDE DEF path
  <2>3. n \in Nat
    BY <2>1, LenProperties
  <2>4. path \in Seq(Ids)
    BY <2>1, <2>2, SeqMonotonic
  <2> QED
    BY <2>3, <2>4
<1>2. <<L>> \in Seq(Ids) /\ Len(<<L>>) = 1 /\ <<L>>[1] = L
  OBVIOUS
<1>3. r = <<L>> \o path
  BY DEF Route
<1> HIDE DEF L, path, r
<1>4. r[1] = L /\ \A k \in 1..n : r[k + 1] = path[k]
  <2> DEFINE s == <<L>>
  <2>1. s \in Seq(Ids) /\ Len(s) = 1 /\ s[1] = L /\ r = s \o path
    BY <1>2, <1>3
  <2> HIDE DEF s
  <2>2. \A i \in 1..1 + n : r[i] = IF i <= 1 THEN s[i] ELSE path[i - 1]
    <3>1. \A i \in 1..Len(s) + Len(path) :
            (s \o path)[i] = IF i <= Len(s) THEN s[i] ELSE path[i - Len(s)]
      BY <1>1, <2>1, ConcatProperties
    <3> QED
      BY <2>1, <3>1
  <2>3. r[1] = L
    BY <1>1, <2>1, <2>2
  <2>4. ASSUME NEW k \in 1..n PROVE r[k + 1] = path[k]
    <3>1. k + 1 \in 1..1 + n /\ ~(k + 1 <= 1) /\ (k + 1) - 1 = k
      BY <1>1
    <3> QED
      BY <2>2, <3>1
  <2> QED
    BY <2>3, <2>4
<1>5. n = 0 <=> path = <<>>
  BY <1>1, EmptySeq
<1>6. ASSUME NEW k \in 1..n PROVE <<r[k], r[k + 1]>> \in PathPairs(L, path)
  <2>1. CASE k = 1
    <3>1. path # <<>> /\ r[k] = L /\ r[k + 1] = path[1]
      BY <1>4, <1>5, <2>1
    <3> QED
      BY <3>1 DEF PathPairs
  <2>2. CASE k # 1
    <3>1. k - 1 \in 1..n - 1 /\ k - 1 \in 1..n /\ (k - 1) + 1 = k
      BY <1>1, <2>2
    <3>2. r[k] = path[k - 1] /\ r[k + 1] = path[(k - 1) + 1]
      BY <1>4, <3>1
    <3>3. <<path[k - 1], path[(k - 1) + 1]>> \in PairsTo(path, n)
      BY <3>1 DEF PairsTo
    <3> QED
      BY <3>2, <3>3 DEF PathPairs
  <2> QED
    BY <2>1, <2>2
<1>7. ASSUME NEW e \in PathPairs(L, path)
      PROVE  \E k \in 1..n : e = <<r[k], r[k + 1]>>
  <2>1. CASE e \in PairsTo(path, n)
    <3>1. PICK i \in 1..n - 1 : e = <<path[i], path[i + 1]>>
      BY <2>1 DEF PairsTo
    <3>2. i \in 1..n /\ i + 1 \in 1..n
      BY <1>1, <3>1
    <3>3. r[i + 1] = path[i] /\ r[(i + 1) + 1] = path[i + 1]
      BY <1>4, <3>2
    <3> QED
      BY <3>1, <3>2, <3>3
  <2>2. CASE e \notin PairsTo(path, n)
    <3>1. path # <<>> /\ e = <<L, path[1]>>
      BY <2>2, <1>7 DEF PathPairs
    <3>2. 1 \in 1..n
      BY <1>1, <1>5, <3>1
    <3>3. r[1] = L /\ r[1 + 1] = path[1]
      BY <1>4, <3>2
    <3> QED
      BY <3>1, <3>2, <3>3
  <2> QED
    BY <2>1, <2>2
<1> QED
  BY <1>6, <1>7 DEF L, path, r

(* The links of a report are its pairs, without their direction.           *)
LEMMA LinksArePairs ==
  ASSUME NEW data, data.local \in Seq(Ids), data.paths \in Seq(Seq(Nat))
  PROVE  \A l : l \in Links(data) <=>
           \E e \in AllPairs(LocalAs(data), data.paths, Len(data.paths)) : l = {e[1], e[2]}
<1> DEFINE L == LocalAs(data)
           n == Len(data.paths)
           K == AllPairs(L, data.paths, n)
<1>1. L \in Ids /\ DOMAIN data.paths = 1..n /\ \A p \in 1..n : data.paths[p] \in Seq(Nat)
  BY LocalType, LenProperties, ElementOfSeq
<1>2. ASSUME NEW l, l \in Links(data) PROVE \E e \in K : l = {e[1], e[2]}
  <2>1. PICK p \in 1..n : \E k \in 1..Len(data.paths[p]) :
          l = {Route(data, p)[k], Route(data, p)[k + 1]}
    BY <1>1, <1>2 DEF Links
  <2>4. PICK k \in 1..Len(data.paths[p]) : l = {Route(data, p)[k], Route(data, p)[k + 1]}
    BY <2>1
  <2> DEFINE e == <<Route(data, p)[k], Route(data, p)[k + 1]>>
  <2>2. e \in PathPairs(L, data.paths[p])
    BY <1>1, RoutePairs
  <2>3. e \in K
    BY <2>2 DEF AllPairs
  <2> QED
    BY <2>3, <2>4
<1>3. ASSUME NEW e \in K PROVE {e[1], e[2]} \in Links(data)
  <2>1. PICK p \in 1..n : e \in PathPairs(L, data.paths[p])
    BY <1>3 DEF AllPairs
  <2>2. PICK k \in 1..Len(data.paths[p]) : e = <<Route(data, p)[k], Route(data, p)[k + 1]>>
    BY <1>1, <2>1, RoutePairs
  <2>3. {e[1], e[2]} = {Route(data, p)[k], Route(data, p)[k + 1]}
    BY <2>2
  <2> DEFINE M(q) == {{Route(data, q)[i], Route(data, q)[i + 1]}
                        : i \in 1..Len(data.paths[q])}
  <2>4. {e[1], e[2]} \in M(p)
    BY <2>3
  <2>5. Links(data) = UNION {M(q) : q \in DOMAIN data.paths}
    BY DEF Links
  <2> HIDE DEF M
  <2> QED
    BY <1>1, <2>4, <2>5
<1> QED
  BY <1>2, <1>3

LEMMA PairsAreEdges ==
  ASSUME NEW data, data.local \in Seq(Ids), data.paths \in Seq(Seq(Nat))
  PROVE  AllPairs(LocalAs(data), data.paths, Len(data.paths)) \subseteq Edge
<1>1. /\ LocalAs(data) \in Ids /\ Len(data.paths) \in Nat
      /\ \A p \in 1..Len(data.paths) : data.paths[p] \in Seq(Nat)
  BY LocalType, LenProperties, ElementOfSeq
<1>2. Len(data.paths) \in 0..Len(data.paths)
  BY <1>1
<1> QED
  BY <1>1, <1>2, PrefixTypes

LEMMA HopsAreHops ==
  ASSUME NEW data, data.paths \in Seq(Seq(Nat))
  PROVE  Hops(data) = AllHops(data.paths, Len(data.paths))
<1>1. /\ DOMAIN data.paths = 1..Len(data.paths)
      /\ \A p \in 1..Len(data.paths) : data.paths[p] \in Seq(Nat)
  BY LenProperties, ElementOfSeq
<1>2. ASSUME NEW p \in 1..Len(data.paths)
      PROVE  Range(data.paths[p]) = HopsTo(data.paths[p], Len(data.paths[p]))
  <2>1. DOMAIN data.paths[p] = 1..Len(data.paths[p])
    BY <1>1, LenProperties
  <2> QED
    BY <2>1 DEF Range, HopsTo
<1> QED
  BY <1>1, <1>2 DEF Hops, AllHops

(* The graph that buildAsGraph() makes (status.js:428-480) is the AS graph *)
(* of the report: each AS once, this router first and alone local, and one *)
(* edge for each two different neighbours.  This holds for every list of   *)
(* paths of any length, with any repetitions.                              *)
THEOREM AsGraphRight ==
  ASSUME NEW data, data.local \in Seq(Ids), data.paths \in Seq(Seq(Nat))
  PROVE  IsAsGraph(BuildAsGraph(data), data)
<1> DEFINE L == LocalAs(data)
           H == AllHops(data.paths, Len(data.paths))
           K == AllPairs(L, data.paths, Len(data.paths))
           b == BuildAsGraph(data)
<1>1. PICK g : GraphOf(g, L, H, K) /\ b = [nodes |-> g.nodes, edges |-> g.edges]
  BY PathsAdded
<1> DEFINE n == g.nodes
           s == g.edges
<1>2. n \in Seq(Node) /\ s \in Seq(Edge) /\ NodesOf(n, L, H) /\ EdgesOf(s, K)
  BY <1>1 DEF GraphOf, Graph
<1>3. b.nodes = n /\ b.edges = s
  BY <1>1
<1> HIDE DEF L, H, K, b, n, s
<1>4. /\ DOMAIN n = 1..Len(n) /\ Len(n) \in Nat
      /\ DOMAIN s = 1..Len(s) /\ Len(s) \in Nat /\ \A i \in 1..Len(s) : s[i] \in Edge
  BY <1>2, LenProperties, ElementOfSeq
<1>5. b.nodes[1] = [id |-> L, group |-> "local"]
  BY <1>2, <1>3 DEF NodesOf
<1>6. \A i \in 2..Len(b.nodes) : b.nodes[i].group = "peer"
  <2>1. \A i \in 2..Len(n) : i \in 1..Len(n) /\ i # 1
    BY <1>4
  <2> QED
    BY <1>2, <1>3, <2>1 DEF NodesOf
<1>7. NodeIds(b) = H \cup {L}
  <2>1. NodeIds(b) = {n[i].id : i \in 1..Len(n)}
    BY <1>3, <1>4 DEF NodeIds
  <2>2. 1 \in 1..Len(n) /\ n[1].id = L
    BY <1>2 DEF NodesOf
  <2>3. \A x \in H \cup {L} : \E i \in 1..Len(n) : n[i].id = x
    BY <1>2, <2>2 DEF NodesOf
  <2>4. \A i \in 1..Len(n) : n[i].id \in H \cup {L}
    BY <1>2 DEF NodesOf
  <2> QED
    BY <2>1, <2>3, <2>4
<1>8. Cardinality(NodeIds(b)) = Len(b.nodes)
  <2> DEFINE f == [i \in 1..Len(n) |-> n[i].id]
  <2>1. NodeIds(b) = {n[i].id : i \in 1..Len(n)}
    BY <1>3, <1>4 DEF NodeIds
  <2>2. f \in [1..Len(n) -> NodeIds(b)]
    BY <2>1
  <2>3. \A i, j \in 1..Len(n) : f[i] = f[j] => i = j
    BY <1>2 DEF NodesOf
  <2>4. \A x \in NodeIds(b) : \E i \in 1..Len(n) : f[i] = x
    BY <2>1
  <2> DEFINE c == Len(n)
  <2> DEFINE S == NodeIds(b)
  <2> HIDE DEF f
  <2>6. /\ c \in Nat /\ f \in [1..c -> S]
        /\ \A i, j \in 1..c : f[i] = f[j] => i = j
        /\ \A x \in S : \E i \in 1..c : f[i] = x
    BY <1>4, <2>2, <2>3, <2>4
  <2> HIDE DEF c, S
  <2>7. Cardinality(S) = c
    BY <2>6, Counted
  <2>5. Cardinality(NodeIds(b)) = c
    BY <2>7 DEF S
  <2> QED
    BY <1>3, <2>5 DEF c
<1> DEFINE linked == {{e[1], e[2]} : e \in Range(b.edges)}
<1>9. Range(b.edges) = {s[i] : i \in 1..Len(s)}
  BY <1>3, <1>4 DEF Range
<1>10. linked = {l \in Links(data) : Cardinality(l) = 2}
  <2>1. ASSUME NEW i \in 1..Len(s)
        PROVE  {s[i][1], s[i][2]} \in Links(data) /\ Cardinality({s[i][1], s[i][2]}) = 2
    <3>1. s[i][1] # s[i][2] /\ (s[i] \in K \/ Swap(s[i]) \in K)
      BY <1>2 DEF EdgesOf
    <3>2. {s[i][1], s[i][2]} = {Swap(s[i])[1], Swap(s[i])[2]}
      BY DEF Swap
    <3>3. \E e \in K : {s[i][1], s[i][2]} = {e[1], e[2]}
      BY <3>1, <3>2
    <3> QED
      BY <3>1, <3>3, LinksArePairs, PairSize DEF K, L
  <2>2. ASSUME NEW l \in Links(data), Cardinality(l) = 2
        PROVE  \E i \in 1..Len(s) : l = {s[i][1], s[i][2]}
    <3>1. PICK e \in K : l = {e[1], e[2]}
      BY LinksArePairs DEF K, L
    <3>2. e[1] # e[2]
      BY <2>2, <3>1, PairSize
    <3>3. e \in Edge
      BY PairsAreEdges DEF K, L
    <3>4. e = <<e[1], e[2]>> /\ e[1] \in Ids /\ e[2] \in Ids
      BY <3>3 DEF Edge
    <3>5. PICK i \in 1..Len(s) : s[i] = <<e[1], e[2]>> \/ s[i] = <<e[2], e[1]>>
      BY <1>2, <3>2, <3>4 DEF EdgesOf
    <3> QED
      BY <3>1, <3>5
  <2>3. linked = {{s[i][1], s[i][2]} : i \in 1..Len(s)}
    BY <1>9
  <2>4. \A l : l \in linked <=> \E i \in 1..Len(s) : l = {s[i][1], s[i][2]}
    BY <2>3
  <2> HIDE DEF linked
  <2>5. ASSUME NEW l, l \in linked PROVE l \in Links(data) /\ Cardinality(l) = 2
    <3>1. PICK i \in 1..Len(s) : l = {s[i][1], s[i][2]}
      BY <2>4, <2>5
    <3> QED
      BY <2>1, <3>1
  <2>6. ASSUME NEW l, l \in Links(data), Cardinality(l) = 2 PROVE l \in linked
    BY <2>2, <2>4, <2>6
  <2> QED
    BY <2>5, <2>6
<1>11. Cardinality(linked) = Len(b.edges)
  <2> DEFINE f == [i \in 1..Len(s) |-> {s[i][1], s[i][2]}]
  <2>1. linked = {{s[i][1], s[i][2]} : i \in 1..Len(s)}
    BY <1>9
  <2>2. f \in [1..Len(s) -> linked]
    BY <2>1
  <2>3. ASSUME NEW i \in 1..Len(s), NEW j \in 1..Len(s), f[i] = f[j] PROVE i = j
    <3>1. {s[i][1], s[i][2]} = {s[j][1], s[j][2]}
      BY <2>3
    <3>2. s[i] = <<s[i][1], s[i][2]>> /\ s[j] = <<s[j][1], s[j][2]>>
      BY <1>4 DEF Edge
    <3>3. \/ s[i][1] = s[j][1] /\ s[i][2] = s[j][2]
          \/ s[i][1] = s[j][2] /\ s[i][2] = s[j][1]
      BY <3>1
    <3>4. s[i] = s[j] \/ s[i] = Swap(s[j])
      BY <3>2, <3>3 DEF Swap
    <3> QED
      BY <1>2, <3>4 DEF EdgesOf
  <2>4. \A x \in linked : \E i \in 1..Len(s) : f[i] = x
    BY <2>1
  <2> DEFINE c == Len(s)
  <2> HIDE DEF f, linked, c
  <2>5. Cardinality(linked) = c
    BY <1>4, <2>2, <2>3, <2>4, Counted DEF c
  <2> QED
    BY <1>3, <2>5 DEF c
<1>12. NodeIds(b) = Hops(data) \cup {LocalAs(data)}
  BY <1>7, HopsAreHops DEF H, L
<1> HIDE DEF linked
<1>13. /\ {{e[1], e[2]} : e \in Range(b.edges)} = {l \in Links(data) : Cardinality(l) = 2}
       /\ Cardinality({{e[1], e[2]} : e \in Range(b.edges)}) = Len(b.edges)
  BY <1>10, <1>11 DEF linked
<1>14. IsAsGraph(b, data)
  BY <1>5, <1>6, <1>8, <1>12, <1>13 DEF IsAsGraph, L
<1> QED
  BY <1>14 DEF b

-----------------------------------------------------------------------------
(* The page.                                                               *)
(*                                                                         *)
(* A section is kept in a variable exactly while its protocol is in the    *)
(* last reply: what UpdateOspf goes by when it adds and removes sections.  *)
SectionsKept ==
  \A p \in Protos :
    ospfSections[p] # None <=> last \in AllReports /\ p \in last.ospf

(* The graph on the page was made from the last reply.                     *)
Drawn == topoBox = "net" => last \in AllReports /\ topoNet = BuildAsGraph(last)

IInv == TypeOK /\ PageMatches /\ OneReply /\ SectionsKept /\ Drawn

LEMMA Distinct ==
  /\ None \notin AllReports /\ Pending \notin AllReports /\ Down \notin AllReports
  /\ None # Pending /\ None # Down /\ Pending # Down
  /\ \A r \in AllReports : r.ospf \in SUBSET Protos /\ r.bfd \in BOOLEAN
BY StatusPageAssumption DEF AllReports, Report

LEMMA InitInv == Init => IInv
<1> SUFFICES ASSUME Init PROVE IInv
  OBVIOUS
<1>1. server \in Replies
  BY StatusPageAssumption DEF Init, Replies, AllReports
<1>2. calls \in [Slots -> Replies \cup {None, Pending}]
  BY DEF Init
<1>3. events \in 0..MaxEvents
  BY StatusPageAssumption DEF Init
<1>4. ospfBox \in [Protos -> Nat] /\ ospfSections \in [Protos -> AllReports \cup {None}]
  BY DEF Init
<1>5. tbl \in [Tables -> AllReports \cup {None}]
      /\ box \in [Tables -> {"loading", "unreachable", "empty", "table"}]
  BY DEF Init
<1>6. TypeOK
  BY <1>1, <1>2, <1>3, <1>4, <1>5 DEF Init, TypeOK
<1>7. last = None /\ None \notin AllReports /\ None # Down
  BY Distinct DEF Init
<1>8. PageMatches
  BY <1>7 DEF Init, PageMatches, TablesOnPage, SectionsOnPage
<1>9. OneReply
  BY <1>7 DEF Init, OneReply, Tables
<1>10. SectionsKept /\ Drawn
  BY <1>7 DEF Init, SectionsKept, Drawn
<1> QED
  BY <1>6, <1>8, <1>9, <1>10 DEF IInv

(* A reply with a report.                                                  *)
LEMMA TablesUpdated ==
  ASSUME IInv, NEW r \in AllReports, UpdateTables(r)
  PROVE  /\ tbl' \in [Tables -> AllReports \cup {None}]
         /\ box' \in [Tables -> {"loading", "unreachable", "empty", "table"}]
         /\ \A t \in Tables : /\ tbl'[t] # None <=> box'[t] = "table"
                              /\ tbl'[t] \in {None, r}
         /\ box'["daemon"] = "table"
<1>1. tbl \in [Tables -> AllReports \cup {None}]
      /\ box \in [Tables -> {"loading", "unreachable", "empty", "table"}]
      /\ \A t \in Tables : tbl[t] # None <=> box[t] = "table"
  BY DEF IInv, TypeOK, PageMatches, TablesOnPage
<1>2. r # None /\ ~Hidden("daemon", r) /\ "daemon" \in Tables
  BY Distinct DEF Hidden, Tables
<1>3. ASSUME NEW t \in Tables
      PROVE  /\ tbl'[t] = IF Hidden(t, r) THEN None ELSE r
             /\ box'[t] = IF Hidden(t, r)
                          THEN IF tbl[t] = None THEN box[t] ELSE "empty"
                          ELSE IF tbl[t] = None THEN "table" ELSE box[t]
  BY DEF UpdateTables
<1>4. ASSUME NEW t \in Tables
      PROVE  /\ tbl'[t] # None <=> box'[t] = "table"
             /\ tbl'[t] \in {None, r} /\ tbl'[t] \in AllReports \cup {None}
             /\ box'[t] \in {"loading", "unreachable", "empty", "table"}
             /\ ~Hidden(t, r) => box'[t] = "table"
  BY <1>1, <1>2, <1>3
<1>5. tbl' \in [Tables -> AllReports \cup {None}]
  <2>1. tbl' = [t \in Tables |-> tbl'[t]]
    BY DEF UpdateTables
  <2> QED
    BY <1>4, <2>1
<1>6. box' \in [Tables -> {"loading", "unreachable", "empty", "table"}]
  <2>1. box' = [t \in Tables |-> box'[t]]
    BY DEF UpdateTables
  <2> QED
    BY <1>4, <2>1
<1> QED
  BY <1>2, <1>4, <1>5, <1>6

LEMMA OspfUpdated ==
  ASSUME IInv, NEW r \in AllReports, UpdateOspf(r)
  PROVE  /\ ospfSections' \in [Protos -> AllReports \cup {None}]
         /\ ospfBox' \in [Protos -> Nat]
         /\ \A p \in Protos : /\ ospfSections'[p] # None <=> p \in r.ospf
                              /\ ospfSections'[p] \in {None, r}
                              /\ ospfBox'[p] = IF p \in r.ospf THEN 1 ELSE 0
<1>1. r # None
  BY Distinct
<1>2. ASSUME NEW p \in Protos
      PROVE  ospfBox[p] = IF ospfSections[p] # None THEN 1 ELSE 0
  BY DEF IInv, PageMatches, SectionsOnPage, SectionsKept
<1>3. ospfSections' \in [Protos -> AllReports \cup {None}]
      /\ \A p \in Protos : ospfSections'[p] = IF p \in r.ospf THEN r ELSE None
  BY DEF UpdateOspf
<1>4. ASSUME NEW p \in Protos
      PROVE  ospfBox'[p] = IF p \in r.ospf THEN 1 ELSE 0
  <2>1. ospfBox'[p] =
          CASE p \in r.ospf /\ ospfSections[p] = None -> ospfBox[p] + 1
            [] p \notin r.ospf /\ ospfSections[p] # None /\ ospfBox[p] > 0
                 -> ospfBox[p] - 1
            [] OTHER -> ospfBox[p]
    BY DEF UpdateOspf
  <2>2. CASE p \in r.ospf /\ ospfSections[p] = None
    BY <1>2, <2>1, <2>2
  <2>3. CASE p \notin r.ospf /\ ospfSections[p] # None
    BY <1>2, <2>1, <2>3
  <2>4. CASE ~(p \in r.ospf /\ ospfSections[p] = None)
             /\ ~(p \notin r.ospf /\ ospfSections[p] # None)
    BY <1>2, <2>1, <2>4
  <2> QED
    BY <2>2, <2>3, <2>4
<1>5. ospfBox' \in [Protos -> Nat]
  <2>1. ospfBox' = [p \in Protos |-> ospfBox'[p]]
    BY DEF UpdateOspf
  <2> QED
    BY <1>4, <2>1
<1> QED
  BY <1>1, <1>3, <1>4, <1>5

LEMMA TopoUpdated ==
  ASSUME IInv, NEW r, UpdateTopo(r)
  PROVE  /\ script' \in {"absent", "loading", "loaded"} /\ events' \in 0..MaxEvents
         /\ topoNet' = None \/ DOMAIN topoNet' = {"nodes", "edges"}
         /\ topoBox' \in {"empty", "loading", "error", "net"}
         /\ topoBox' = "net" => topoNet' = BuildAsGraph(r)
<1>1. /\ script \in {"absent", "loading", "loaded"} /\ events \in 0..MaxEvents
      /\ MaxEvents \in Nat
      /\ topoNet = None \/ DOMAIN topoNet = {"nodes", "edges"}
      /\ topoBox \in {"empty", "loading", "error", "net"}
  BY StatusPageAssumption DEF IInv, TypeOK
<1>2. CASE script # "loaded"
  BY <1>1, <1>2 DEF UpdateTopo
<1>3. CASE script = "loaded" /\ (~vis \/ TooSmall(BuildAsGraph(r)))
  BY <1>1, <1>3 DEF UpdateTopo
<1>4. CASE script = "loaded" /\ ~(~vis \/ TooSmall(BuildAsGraph(r)))
  <2>1. script' = script /\ Draw(BuildAsGraph(r))
    BY <1>4 DEF UpdateTopo
  <2>2. DOMAIN BuildAsGraph(r) = {"nodes", "edges"}
    BY DEF BuildAsGraph
  <2> DEFINE g == BuildAsGraph(r)
  <2> HIDE DEF g
  <2>3. CASE /\ topoNet' = g
             /\ topoBox' = (IF topoNet = None THEN "net" ELSE topoBox)
             /\ UNCHANGED events
    BY <1>1, <2>1, <2>2, <2>3 DEF g
  <2>4. CASE /\ events < MaxEvents /\ events' = events + 1
             /\ topoBox' = "error" /\ UNCHANGED topoNet
    BY <1>1, <2>1, <2>4
  <2> QED
    BY <2>1, <2>3, <2>4 DEF Draw, g
<1> QED
  BY <1>2, <1>3, <1>4

LEMMA RefreshInv == ASSUME IInv, NEW s \in Slots, Refresh(s) PROVE IInv'
<1> DEFINE r == calls[s]
<1>1. /\ r \in Replies /\ server' = server /\ vis' = vis /\ last' = r
      /\ server \in Replies /\ vis \in BOOLEAN
      /\ calls' \in [Slots -> Replies \cup {None, Pending}]
  <2>1. calls \in [Slots -> Replies \cup {None, Pending}]
    BY DEF IInv, TypeOK
  <2> QED
    BY <2>1 DEF IInv, TypeOK, Refresh, Arrives
<1>2. CASE r = Down
  <2>1. RenderUnreachable
    BY <1>2 DEF Refresh
  <2>2. /\ tbl' = [t \in Tables |-> None]
        /\ box' = [t \in Tables |-> IF t = "daemon" THEN "unreachable" ELSE "empty"]
        /\ ospfSections' = [p \in Protos |-> None] /\ ospfBox' = [p \in Protos |-> 0]
        /\ topoBox' = "empty" /\ UNCHANGED <<script, topoNet, events>>
    BY <2>1 DEF RenderUnreachable
  <2>3. tbl' \in [Tables -> AllReports \cup {None}]
        /\ box' \in [Tables -> {"loading", "unreachable", "empty", "table"}]
        /\ ospfSections' \in [Protos -> AllReports \cup {None}] /\ ospfBox' \in [Protos -> Nat]
    BY <2>2
  <2>4. TypeOK'
    BY <1>1, <2>2, <2>3 DEF IInv, TypeOK
  <2>5. last' = Down /\ Down \notin AllReports
    BY <1>1, <1>2, Distinct
  <2>6. PageMatches'
    BY <2>2, <2>5 DEF PageMatches, TablesOnPage, SectionsOnPage
  <2>7. OneReply'
    BY <2>2, <2>5 DEF OneReply, Tables
  <2>8. SectionsKept' /\ Drawn'
    BY <2>2, <2>5 DEF SectionsKept, Drawn
  <2> QED
    BY <2>4, <2>6, <2>7, <2>8 DEF IInv
<1>3. CASE r # Down
  <2>1. r \in AllReports
    BY <1>1, <1>3 DEF Replies
  <2>2. UpdateTables(r) /\ UpdateOspf(r) /\ UpdateTopo(r)
    BY <1>3 DEF Refresh
  <2> HIDE DEF r
  <2>3. /\ tbl' \in [Tables -> AllReports \cup {None}]
        /\ box' \in [Tables -> {"loading", "unreachable", "empty", "table"}]
        /\ \A t \in Tables : /\ tbl'[t] # None <=> box'[t] = "table"
                             /\ tbl'[t] \in {None, r}
        /\ box'["daemon"] = "table"
    BY <2>1, <2>2, TablesUpdated
  <2>4. /\ ospfSections' \in [Protos -> AllReports \cup {None}]
        /\ ospfBox' \in [Protos -> Nat]
        /\ \A p \in Protos : /\ ospfSections'[p] # None <=> p \in r.ospf
                             /\ ospfSections'[p] \in {None, r}
                             /\ ospfBox'[p] = IF p \in r.ospf THEN 1 ELSE 0
    BY <2>1, <2>2, OspfUpdated
  <2>5. /\ script' \in {"absent", "loading", "loaded"} /\ events' \in 0..MaxEvents
        /\ topoNet' = None \/ DOMAIN topoNet' = {"nodes", "edges"}
        /\ topoBox' \in {"empty", "loading", "error", "net"}
        /\ topoBox' = "net" => topoNet' = BuildAsGraph(r)
    BY <2>2, TopoUpdated
  <2>6. last' = r /\ last' # Down
    BY <1>1, <1>3 DEF r
  <2>7. TypeOK'
    BY <1>1, <2>3, <2>4, <2>5, <2>6 DEF TypeOK
  <2>8. PageMatches'
    BY <2>1, <2>3, <2>4, <2>6 DEF PageMatches, TablesOnPage, SectionsOnPage
  <2>9. OneReply'
    BY <2>3, <2>4, <2>6 DEF OneReply
  <2>10. SectionsKept' /\ Drawn'
    BY <2>1, <2>4, <2>5, <2>6 DEF SectionsKept, Drawn
  <2> QED
    BY <2>7, <2>8, <2>9, <2>10 DEF IInv
<1> QED
  BY <1>2, <1>3

(* Everything else leaves the page alone.                                  *)
LEMMA OthersInv ==
  ASSUME IInv,
         Tick \/ (\E s \in Slots : Serve(s) \/ Fail(s)) \/ Change \/ ScriptLoaded
         \/ ScriptFails \/ UNCHANGED vars
  PROVE  IInv'
<1>1. UNCHANGED <<tbl, box, ospfSections, ospfBox, topoNet, topoBox, last>>
  BY DEF Tick, Serve, Fail, Change, ScriptLoaded, ScriptFails, page, vars
<1>2. calls \in [Slots -> Replies \cup {None, Pending}] /\ server \in Replies
      /\ events \in 0..MaxEvents /\ MaxEvents \in Nat /\ vis \in BOOLEAN
      /\ script \in {"absent", "loading", "loaded"}
  BY StatusPageAssumption DEF IInv, TypeOK
<1>3. calls' \in [Slots -> Replies \cup {None, Pending}]
  BY <1>2 DEF Tick, Serve, Fail, Change, ScriptLoaded, ScriptFails, vars
<1>4. server' \in Replies
  BY <1>2 DEF Tick, Serve, Fail, Change, ScriptLoaded, ScriptFails, vars, Replies, AllReports
<1>5. events' \in 0..MaxEvents
  BY <1>2 DEF Tick, Serve, Fail, Change, ScriptLoaded, ScriptFails, vars
<1>6. vis' \in BOOLEAN /\ script' \in {"absent", "loading", "loaded"}
  BY <1>2 DEF Tick, Serve, Fail, Change, ScriptLoaded, ScriptFails, vars
<1>7. TypeOK'
  BY <1>1, <1>3, <1>4, <1>5, <1>6 DEF IInv, TypeOK
<1>8. PageMatches' /\ OneReply' /\ SectionsKept' /\ Drawn'
  BY <1>1 DEF IInv, PageMatches, TablesOnPage, SectionsOnPage, OneReply, SectionsKept, Drawn
<1> QED
  BY <1>7, <1>8 DEF IInv

LEMMA Always == Spec => []IInv
<1>1. IInv /\ [Next]_vars => IInv'
  BY RefreshInv, OthersInv DEF Next
<1> QED
  BY InitInv, <1>1, PTL DEF Spec

-----------------------------------------------------------------------------
(* The theorems.                                                           *)

(* The variables have their types.                                         *)
THEOREM TypeCorrect == Spec => []TypeOK
<1>1. IInv => TypeOK
  BY DEF IInv
<1> QED
  BY <1>1, Always, PTL

(* A table exists if and only if it is on the page, and the sections shown *)
(* are those of the protocols of the last reply, once each, after any      *)
(* replies in any order (status.js:177-287, 317-377).                      *)
THEOREM PageMatchesAlways == Spec => []PageMatches
<1>1. IInv => PageMatches
  BY DEF IInv
<1> QED
  BY <1>1, Always, PTL

(* Every part of the page is of one reply (status.js:379-392).             *)
THEOREM OneReplyAlways == Spec => []OneReply
<1>1. IInv => OneReply
  BY DEF IInv
<1> QED
  BY <1>1, Always, PTL

(* The graph on the page is the AS graph of the last reply, whatever BIRD  *)
(* reports (status.js:428-480, 521-554).                                   *)
THEOREM GraphRightAlways == Spec => []GraphRight
<1>1. \A r \in AllReports : IsAsGraph(BuildAsGraph(r), r)
  <2>1. \A r \in AllReports : r.local \in Seq(Ids) /\ r.paths \in Seq(Seq(Nat))
    BY StatusPageAssumption DEF AllReports, Report, Ids
  <2> QED
    BY <2>1, AsGraphRight
<1>2. IInv => GraphRight
  BY <1>1 DEF IInv, Drawn, GraphRight
<1> QED
  BY <1>2, Always, PTL

=============================================================================
