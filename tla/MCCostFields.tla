---- MODULE MCCostFields ----
(* Instances of CostFields for TLC: the texts a user may type, and what BIRD *)
(* starts with (a cost may come, go or be missing later).                    *)
EXTENDS CostFields

MCTexts == {Blank, NaN, MaxCost + 1}
MCRouters == {[i \in Ifaces |-> 1]}
====
