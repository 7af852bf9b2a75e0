---------------------------- MODULE MCSendPath ----------------------------
(* The gateway, and two hosts behind one address that are alike.            *)
EXTENDS SendPath, TLC

CONSTANTS gw, h1, h2, m1, m2
MCHosts == {gw, h1, h2}
MCAnnounces == [h \in Hosts |-> {IF h = gw THEN m1 ELSE m2}]
Alike == Permutations({h1, h2})
=============================================================================
