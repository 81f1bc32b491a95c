--------------------------- MODULE MCTapfdServer ---------------------------
(* Small instances of TapfdServer. *)
EXTENDS TapfdServer, TLC

CONSTANTS s1, s2, c1, c2, k1, k2

\* One tap and, after it, one veth port: a second PREPARE finds a port it must give back.
MCKind == <<"tap", "veth">>

MCTap == <<"tap">>

Symmetry == Permutations(Servers) \union Permutations(Clients) \union Permutations(Conns)
=============================================================================
