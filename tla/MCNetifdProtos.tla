---- MODULE MCNetifdProtos ----
(* Instances of NetifdProtos for TLC: a dummy interface with the address "A" *)
(* and two tunnels that end at it.                                           *)
EXTENDS NetifdProtos

MCAddr(d) == "A"

MCEntry ==
  [laddr |-> "A", peer |-> TRUE, listen |-> FALSE, port |-> None,
   ipproto |-> None, mode |-> None, bad |-> FALSE, sportBad |-> FALSE, by |-> "hand"]

\* The dummy with a good and a bad MAC address; one tunnel with every option
\* that matters, one at a time; the other with the same port or one of its own.
MCEntries(i) ==
  CASE i \in Dummies -> {MCEntry, [MCEntry EXCEPT !.bad = TRUE]}
    [] i \in Gre -> {MCEntry, [MCEntry EXCEPT !.port = 7000, !.ipproto = "name"]}
    [] OTHER -> {MCEntry,
                 [MCEntry EXCEPT !.mode = "ip6ip6"],
                 [MCEntry EXCEPT !.ipproto = "47"],
                 [MCEntry EXCEPT !.listen = TRUE],
                 [MCEntry EXCEPT !.listen = TRUE, !.peer = FALSE],
                 [MCEntry EXCEPT !.peer = FALSE],
                 [MCEntry EXCEPT !.laddr = None],
                 [MCEntry EXCEPT !.sportBad = TRUE]}

\* The dummy and one tunnel with plain configurations, the other tunnel with its
\* port or one of its own.
MCBootEntries(i) == IF i \in Gre THEN MCEntries(i) ELSE {MCEntry}
====
