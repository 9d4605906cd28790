---- MODULE MCVpnSticky ----
(* Instances of VpnSticky for TLC. *)
EXTENDS VpnSticky

MCFamily(s) == IF s = "lan4" THEN {4} ELSE IF s = "0/0" THEN {4} ELSE {4, 6}

\* "default" and 0.0.0.0/0 are one prefix to the kernel.
MCKey(s) == IF s = "0/0" THEN "default" ELSE s

MCEntry(i, m, p, t) == [name |-> i, mark |-> m, pref |-> p, table |-> t]
MCConfig(is, ps, on, six) == [ifaces |-> is, prefixes |-> ps, enabled |-> on, ipv6 |-> six]

\* Two interfaces, without IPv6; the second alone, with another mark and the table
\* of the first, and prefixes of both families; disabled; the first alone, the
\* default route in another spelling.
MCa == MCEntry("a", 1, 101, 201)
MCb == MCEntry("b", 2, 102, 202)
MCBoth == MCConfig(<<MCa, MCb>>, {}, TRUE, FALSE)
MCConfigs ==
  {MCBoth,
   MCConfig(<<MCEntry("b", 1, 102, 201)>>, {"default", "lan4"}, TRUE, TRUE),
   MCConfig(<<MCa, MCb>>, {}, FALSE, TRUE),
   MCConfig(<<MCa>>, {"0/0"}, TRUE, TRUE)}
MCBootConfigs == {MCBoth}
====
