--------------------------- MODULE MCProfileManager ---------------------------
(* A base profile and one profile for each class of semantic difference from  *)
(* it: resolver, peers, transport.                                            *)
EXTENDS ProfileManager, TLC

CONSTANTS t1, t2, p1, p2, d1, d2

Base == [transport |-> t1, peers |-> p1, dns |-> d1]
Supplied == {Base,
             [Base EXCEPT !.dns = d2],
             [Base EXCEPT !.peers = p2],
             [Base EXCEPT !.transport = t2, !.dns = d2]}
TransportSet == {t1, t2}
PeersSet == {p1, p2}
RevisionSymmetry == Permutations(Revision)
DnsSet == {d1, d2}
==============================================================================
