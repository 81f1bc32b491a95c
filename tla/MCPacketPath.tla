--------------------------- MODULE MCPacketPath ---------------------------
(* A small instance of PacketPath: one client that attaches one port again and again. *)
EXTENDS PacketPath

CONSTANTS c1, ipA, ipB, x, y

\* Options of equal length, so that a stale value would pass the length check.
MCOptLen == [k \in {x, y} |-> 4]

\* A provisional and a final request that differ in everything.
MCRequests == {[ip |-> ipA, cfg |-> x], [ip |-> ipB, cfg |-> y]}
=============================================================================
