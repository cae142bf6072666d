------------------------------ MODULE MCSimDNS ------------------------------
(* Instances of SimDNS for TLC.                                            *)
EXTENDS SimDNS

CONSTANTS a, b, c, ip1, ip2

\* Two domains with an address, one without.
MCAddress == [n \in {a, b, c} |-> CASE n = a -> ip1 [] n = b -> ip2 [] n = c -> NO_IP]
MCQueries == {<<a>>, <<b, c>>}
=============================================================================
