--------------------------- MODULE MCPortDevices ---------------------------
(* Small instances of PortDevices. *)
EXTENDS PortDevices, TLC

CONSTANTS i1, i2, i3, i4

\* What the commands have to cope with: netlink calls and map updates that
\* fail, and a process that dies.
MCFaults == FaultKinds \ {"delete"}

\* Indices are only compared, so they are interchangeable.
Symmetry == Permutations(Indices)
=============================================================================
