--------------------------- MODULE MCBirdReconfig ---------------------------
(* Instances of BirdReconfig for TLC: configurations laid out in the ways   *)
(* of rpcd-mod-bird/test/fixtures, and in ways BIRD accepts besides.        *)
EXTENDS BirdReconfig

CONSTANTS a, b     \* two interfaces

(* An interface in a configuration, as lines.                              *)
Block(i, c) ==
  << <<Header(i), Open>>, <<Other>> >>
    \o (IF c = 0 THEN <<>> ELSE << <<Cost(c)>> >>) \o << <<Close>> >>
NextLine(i) == << <<Header(i)>>, <<Open>>, <<Other>>, <<Close>> >>

(* protocol ospf { area 0 { ... } }                                        *)
Ospf(x) == << <<Other, Open>>, <<Other, Open>> >> \o x \o << <<Close>>, <<Close>> >>

(* Each interface a block of its own lines, or a left out; and a text that *)
(* BIRD refuses.                                                           *)
MultiLine ==
  {Ospf(x \o y) : x \in {Block(a, 0), Block(a, 2), NextLine(a)},
                  y \in {<<>>, Block(b, 2)}}
Broken == Ospf(<< <<Bad>> >> \o Block(a, 0))
MCTexts == MultiLine \cup {Broken}

(* They have the layout under which BirdReconfig_proofs shows Applies and  *)
(* CarriedOver for every text.                                             *)
ASSUME LaidAssumption == \A t \in MCTexts : WellLaid(t)
=============================================================================
