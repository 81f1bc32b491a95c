---------------------------- MODULE MCPortSlots ----------------------------
(* Small instances of PortSlots. *)
EXTENDS PortSlots, TLC

CONSTANTS c1, c2, ipA, ipB, x, y

\* Two configurations with options of the same length: a stale options value
\* would pass the length check of the data plane.
MCOptLen == [k \in {x, y} |-> 4]

\* Two configurations with one address (the benchmark attaches every port with
\* the same one, so an address does not tell attachments apart), and a second
\* address for a provisional and a final request that differ.
MCRequests == {[ip |-> ipA, cfg |-> x], [ip |-> ipA, cfg |-> y], [ip |-> ipB, cfg |-> y]}

MCOneRequest == {[ip |-> ipA, cfg |-> x]}

MCOptLen1 == [k \in {x} |-> 4]

Symmetry == Permutations(Clients)
=============================================================================
