---- MODULE MCStatusPage ----
(* Instances of StatusPage for TLC. *)
EXTENDS StatusPage

MCReport(ospf, bfd, local, paths) ==
  [ospf |-> ospf, bfd |-> bfd, local |-> local, paths |-> paths]

\* Reports that differ in every part: no protocol at all, a graph of one node,
\* and two graphs.
MCReports ==
  {MCReport({}, FALSE, <<>>, <<>>),
   MCReport({"o1"}, TRUE, <<1>>, <<>>),
   MCReport({"o1", "o2"}, FALSE, <<1>>, <<<<2>>>>),
   MCReport({"o2"}, TRUE, <<NoAs, 1>>, <<<<2, 3>>, <<3, 2>>>>)}

\* All graphs of up to two paths with up to three hops and up to two hops.
MCPaths(n, k) == UNION {[1..m -> 1..n] : m \in 0..k}

MCFixedReports ==
  {MCReport({}, FALSE, l, ps) :
     l \in {<<>>, <<1>>}, ps \in {<<p, q>> : p \in MCPaths(3, 3), q \in MCPaths(3, 2)}}
====
