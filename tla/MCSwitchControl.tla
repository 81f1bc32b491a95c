-------------------------- MODULE MCSwitchControl --------------------------
(* Small instances of SwitchControl. *)
EXTENDS SwitchControl

CONSTANTS m1, m2, v

\* One manager runs the by-name commands one after another; a second process
\* opens the switch, waits and verifies.
MCOneManager == [p \in Procs |-> IF p = v THEN Verified ELSE ByName]

\* The manager alone.
MCAlone == [p \in Procs |-> {"start", "release", "stopreleased"}]

\* Two managers.
MCTwoManagers == [p \in Procs |-> {"start", "release", "stopreleased"}]
=============================================================================
