---------------------------- MODULE HealthCheck ----------------------------
(***************************************************************************)
(* Status (pkg/vswitch/status.go) beside the commands of PortDevices.      *)
(*                                                                         *)
(* A health check takes no lock.  It reads the slots one by one, lists the *)
(* links of the switch namespace once, and compares the two; ProvisionPorts *)
(* and ReleasePorts change both meanwhile.  The order of the two readings  *)
(* is what keeps a port that is being provisioned from being reported as   *)
(* missing.                                                                *)
(*                                                                         *)
(* The context of a check is the map set it opened, so the model lets no   *)
(* new StartReserved begin before the check is over.                       *)
(***************************************************************************)
EXTENDS PortDevices

VARIABLES
    info,       \* slots with the management and transit indices written
    check       \* the check in progress

healthVars == <<info, check>>
allVars == <<vars, healthVars>>

\* at: next reading; slot: loop variable; ports: portsToCheck as <<slot, ifindex>>;
\* mgmt: hasMgmt and hasTransit (the two are written together); listed: the keys of
\* nsIfindexMap; missing, ready: the result.  Auxiliary: taken is the set of slots
\* that a command took over since they were read (Reserved, or their device gone),
\* partial that the dump was cut short, lost that the management or the transit
\* device is not there, not up or without filter.
NoCheck == [at |-> "none", slot |-> 0, ports |-> {}, mgmt |-> FALSE, listed |-> {},
            taken |-> {}, partial |-> FALSE, lost |-> FALSE, missing |-> {}, ready |-> FALSE]

\* The state of the check has its type.
HealthTypeOK ==
    /\ info \subseteq Slots
    /\ check.at \in {"none", "owner", "ifindex", "list", "sum", "report"}
    /\ check.slot \in 0 .. N_ports
    /\ check.ports \subseteq Slots \X (Indices \cup {0})
    /\ check.listed \subseteq Indices /\ check.missing \subseteq Slots
    /\ check.missing # {} => ~check.ready
    /\ \A s \in Slots : status[s] # "Reserved" => s \in info

HealthInit == Init /\ info = {} /\ check = NoCheck

-----------------------------------------------------------------------------

\* Variant: they are written once the port is open.
InfoAfterOpen ==
    IF mpc = "gone" /\ mpc' = "idle" THEN {}
    ELSE IF mpc = "pv_scan" THEN {s \in Slots : status[s] = "Free"} \cup info ELSE info

\* writeSlotDeviceInfo writes them with the interface index, for a reused link
\* too; new maps have none.
InfoAfter ==
    IF mpc = "gone" /\ mpc' = "idle" THEN {}
    ELSE IF mpc = "pv_info" /\ mpc' = "pv_mode" THEN info \cup {ms} ELSE info

\* The slots that have been read, and of these the ones a step takes over.
WasRead == {c[1] : c \in check.ports} \cup (IF check.at = "ifindex" THEN {check.slot} ELSE {})

Taken ==
    {s \in WasRead : \/ status'[s] = "Reserved" \/ ifindex'[s] # ifindex[s]
                     \/ ifindex[s] # 0 /\ link'[ifindex[s]] # link[ifindex[s]]}

\* A step of the commands or of Attach and Detach.  (A result that is ready to be
\* returned does not depend on them any more.)
ControlStep ==
    /\ check.at # "report" /\ Next
    /\ check.at # "none" => ~(mpc = "gone" /\ mpc' = "idle")
    /\ info' = InfoAfter
    /\ check' = IF check.at = "none" THEN check
                ELSE [check EXCEPT !.taken = @ \cup Taken]

\* Variant: the links are listed before the slots are read.
FollowingLinksFirst(at) ==
    CASE at = "none" -> "list" [] at = "owner" -> "sum" [] at = "list" -> "owner"

\* checkConditions: first the slots, then the links, then the sums.
Following(at) ==
    CASE at = "none" -> "owner" [] at = "owner" -> "list" [] at = "list" -> "sum"

\* Status is called on an open switch.
StatusBegin ==
    /\ check.at = "none" /\ mpc # "gone"
    /\ check' = [NoCheck EXCEPT !.at = Following("none")]
    /\ UNCHANGED <<vars, info>>

\* buildPortsToCheck: the owner word; a Reserved slot is left out.
ReadOwner ==
    /\ check.at = "owner"
    /\ check' =
        IF check.slot = N_ports THEN [check EXCEPT !.at = Following("owner"), !.slot = 0]
        ELSE IF status[check.slot] = "Reserved" THEN [check EXCEPT !.slot = @ + 1]
        ELSE [check EXCEPT !.at = "ifindex"]
    /\ UNCHANGED <<vars, info>>

\* buildPortsToCheck: then the interface indices of the slot.
ReadIfindex ==
    /\ check.at = "ifindex"
    /\ check' = [check EXCEPT !.at = "owner", !.slot = @ + 1,
                              !.ports = @ \cup {<<check.slot, ifindex[check.slot]>>},
                              !.mgmt = @ \/ check.slot \in info]
    /\ UNCHANGED <<vars, info>>

\* checkPortDevices: the ports whose index is 0 or not in the list.  Port links are
\* up from their creation and the block filter lives as long as the anchor.
Missing(listed) == {c[1] : c \in {d \in check.ports : d[2] \notin listed}}

\* Ready sums up the conditions of checkPortDevices and, if a slot named these
\* devices, of checkMgmtDevices and checkTransitDevice.
Summary(listed, lost, cut) ==
    [NoCheck EXCEPT !.at = "report", !.partial = cut, !.lost = lost,
                    !.missing = Missing(listed),
                    !.ready = Missing(listed) = {} /\ ~(check.mgmt /\ lost)]

\* One LinkList.  When the dump is interrupted, which needs a link to change while
\* it runs, the conditions are those of the part received; another error ends the
\* check.
ListLinks ==
    LET present == {i \in Indices : link[i] # NoLink} IN
    /\ check.at = "list"
    /\ \/ check' = [check EXCEPT !.at = Following("list"), !.listed = present]
       \/ /\ mpc \notin {"idle", "gone"}
          /\ \E part \in SUBSET present, lost \in BOOLEAN : check' = Summary(part, lost, TRUE)
       \/ check' = NoCheck
    /\ UNCHANGED <<vars, info>>

Summarize ==
    /\ check.at = "sum"
    /\ \E lost \in BOOLEAN : check' = Summary(check.listed, lost, FALSE)
    /\ UNCHANGED <<vars, info>>

\* The conditions are returned.
StatusReport ==
    /\ check.at = "report" /\ check' = NoCheck
    /\ UNCHANGED <<vars, info>>

StatusStep ==
    StatusBegin \/ ReadOwner \/ ReadIfindex \/ ListLinks \/ Summarize \/ StatusReport

HealthNext == ControlStep \/ StatusStep

HealthSpec == HealthInit /\ [][HealthNext]_allVars

-----------------------------------------------------------------------------
(* Properties. *)

\* The data plane serves the port: its link exists under its name and mode, carries
\* the TC block, and the reverse map leads back to the slot.
Wired(s) ==
    /\ ifindex[s] # 0 /\ link[ifindex[s]] = <<mode[s], s>>
    /\ ifindex[s] \in tc /\ rev[ifindex[s]] = s

Concluded == check.at = "sum" /\ check'.at = "report"

\* status.go: "By reading slots first, a non-Reserved slot guarantees its device
\* already exists."  A port is reported missing only if it really has no device, or
\* was taken over by a command after its slot was read, or the link dump was cut short:
\* never because it was being provisioned.
NoFalseAlarm ==
    [][Concluded =>
        \A s \in check'.missing : s \in check.taken \/ ~Wired(s)]_allVars

\* The loss of the management or of the transit device is never hidden by a port in
\* use: slots carry the indices of both before they are opened to attachment.
LossReported ==
    [][Concluded /\ check.ports # {} /\ check'.lost => ~check'.ready]_allVars
=============================================================================
