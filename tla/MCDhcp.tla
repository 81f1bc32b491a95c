------------------------------ MODULE MCDhcp ------------------------------
(* A small instance of Dhcp. *)
EXTENDS Dhcp

CONSTANTS m1, m2

\* Enough addresses, one too few, a range that ends before it starts and a zero one.
MCPools == {<<5, 6>>, <<6, 6>>, <<6, 5>>, <<0, 3>>}
=============================================================================
