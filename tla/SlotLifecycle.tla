--------------------------- MODULE SlotLifecycle ---------------------------
(***************************************************************************)
(* What the slot table promises: the port state machine of docs/vswitch.md *)
(* ("Port states"), with the holder of every attachment.  A port has at    *)
(* most one holder, only the holder's own release frees it, and a port     *)
(* taken by management stays Reserved until management provisions it.      *)
(* PortSlots is shown to implement this specification.                     *)
(***************************************************************************)
CONSTANTS Slots, Clients, NoOne, Control

VARIABLES status, holder

lifeVars == <<status, holder>>

Init ==
    /\ status = [s \in Slots |-> "Reserved"]
    /\ holder = [s \in Slots |-> Control]

Change(s, from, to, who) ==
    /\ status[s] = from
    /\ status' = [status EXCEPT ![s] = to]
    /\ holder' = [holder EXCEPT ![s] = who]

Provision(s) == Change(s, "Reserved", "Free", NoOne)

Attach(s, c) == holder[s] = NoOne /\ Change(s, "Free", "Allocated", c)

Detach(s, c) == holder[s] = c /\ Change(s, "Allocated", "Free", NoOne)

Reserve(s) == Change(s, "Free", "Reserved", Control)

ForceReserve(s) == holder[s] \in Clients /\ Change(s, "Allocated", "Reserved", Control)

Next ==
    \E s \in Slots :
        \/ Provision(s) \/ Reserve(s) \/ ForceReserve(s)
        \/ \E c \in Clients : Attach(s, c) \/ Detach(s, c)

Spec == Init /\ [][Next]_lifeVars
=============================================================================
