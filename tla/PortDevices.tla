---------------------------- MODULE PortDevices ----------------------------
(***************************************************************************)
(* The devices of the ports: ProvisionPorts (pkg/vswitch/provision.go) and *)
(* ReleasePorts, StopReleased (pkg/vswitch/stop.go).                       *)
(*                                                                         *)
(* A port is described in four places that are written one after another:  *)
(* the link in the switch namespace, its TC block, the slot item (Ifindex, *)
(* Mode) and the reverse map ifindex_to_slot that the data plane looks a   *)
(* packet's device up in.  The commands hold the exclusive control lock,   *)
(* so what they race with is Attach and Detach on the owner words, and     *)
(* what can come between two of their writes is an error return or a crash.*)
(*                                                                         *)
(* Of the owner word only its status matters here; PortSlots has the rest. *)
(***************************************************************************)
EXTENDS Naturals

CONSTANTS
    N_ports,        \* SwitchConfig.N_ports
    Indices,        \* the interface indices the kernel hands out, 0 is none
    Kinds,          \* port kinds that are provisioned, a subset of {"veth", "tap"}
    Faults,         \* what may go wrong, a subset of FaultKinds
    NoSlot, NoLink

FaultKinds == {"create", "clsact", "update", "delete", "dellink", "crash"}

ASSUME PortsAssumption == N_ports \in Nat \ {0}
ASSUME IndexAssumption == 0 \notin Indices
ASSUME KindAssumption == Kinds \subseteq {"veth", "tap"} /\ Kinds # {}
ASSUME FaultAssumption == Faults \subseteq FaultKinds
ASSUME NoneAssumption == NoSlot \notin Nat /\ NoLink \notin ({"veth", "tap"} \X Nat)

Slots == 0 .. N_ports - 1

VARIABLES
    status,         \* InnerIP of each slot: "Free", "Reserved" or "Allocated"
    ifindex, mode,  \* SlotItem.Ifindex (0: no device), SlotItem.Mode
    rev,            \* the map ifindex_to_slot
    link,           \* links of the switch namespace: <<kind, slot>> is the name
    tc,             \* links with the shared ingress block
    mpc, ms,        \* the command in progress, and its loop variable
    sel, kind,      \* ProvisionPorts: the selected ports and opts.Mode
    old, new, fresh, swap, \* oldIfindex, newIfindex, created or reused, isModeSwitch
    force, round, todo, seen \* ReleasePorts: opts.Force, round, portIfaces, innerIP

slotVars == <<ifindex, mode, rev>>
devVars == <<link, tc>>
provVars == <<sel, kind, old, new, fresh, swap>>
relVars == <<force, round, todo, seen>>
vars == <<status, slotVars, devVars, mpc, ms, provVars, relVars>>

ProvisionPCs == {"pv_scan", "pv_create", "pv_clsact", "pv_unmap", "pv_info", "pv_mode",
                 "pv_map", "pv_drop", "pv_droplink", "pv_free"}
ReleasePCs == {"rl_count", "rl_scan", "rl_cas", "rl_recount", "rl_all", "rl_allcas",
               "rl_collect", "rl_link", "rl_map", "rl_clear"}

TypeOK ==
    /\ status \in [Slots -> {"Free", "Reserved", "Allocated"}]
    /\ ifindex \in [Slots -> Indices \cup {0}]
    /\ mode \in [Slots -> {"veth", "tap"}]
    /\ rev \in [Indices -> Slots \cup {NoSlot}]
    /\ link \in [Indices -> (Kinds \X Slots) \cup {NoLink}]
    /\ tc \subseteq Indices
    /\ mpc \in {"idle", "gone"} \cup ProvisionPCs \cup ReleasePCs
    /\ ms \in 0 .. N_ports
    /\ sel \subseteq Slots /\ kind \in Kinds
    /\ old \in Indices \cup {0} /\ new \in Indices \cup {0}
    /\ fresh \in BOOLEAN /\ swap \in BOOLEAN /\ force \in BOOLEAN
    /\ round \in {1, 2} /\ todo \subseteq Slots
    /\ seen \in {"Free", "Allocated"}

AnyKind == CHOOSE k \in Kinds : TRUE

\* The table that StartReserved leaves (InitSlotReserved), in an empty namespace.
Init ==
    /\ status = [s \in Slots |-> "Reserved"]
    /\ ifindex = [s \in Slots |-> 0]
    /\ mode = [s \in Slots |-> "veth"]
    /\ rev = [i \in Indices |-> NoSlot]
    /\ link = [i \in Indices |-> NoLink] /\ tc = {}
    /\ mpc = "idle" /\ ms = 0 /\ sel = {} /\ kind = AnyKind
    /\ old = 0 /\ new = 0 /\ fresh = FALSE /\ swap = FALSE
    /\ force = FALSE /\ round = 1 /\ todo = {} /\ seen = "Free"

\* The command ends and its locals with it.
End(l) ==
    /\ mpc' = l /\ ms' = 0 /\ sel' = {} /\ kind' = AnyKind
    /\ old' = 0 /\ new' = 0 /\ fresh' = FALSE /\ swap' = FALSE
    /\ force' = FALSE /\ round' = 1 /\ todo' = {} /\ seen' = "Free"

\* The command returns, or its process dies.
Return == End("idle")

MGoto(l) == mpc' = l

-----------------------------------------------------------------------------
(* The lock-free calls, as far as they change the status of a port. *)

\* The CAS of Attach.
Attach(s) ==
    /\ mpc # "gone" /\ status[s] = "Free"
    /\ status' = [status EXCEPT ![s] = "Allocated"]
    /\ UNCHANGED <<slotVars, devVars, mpc, ms, provVars, relVars>>

\* The CAS of Detach, or of the rollback of an Attach that fails.
Detach(s) ==
    /\ mpc # "gone" /\ status[s] = "Allocated"
    /\ status' = [status EXCEPT ![s] = "Free"]
    /\ UNCHANGED <<slotVars, devVars, mpc, ms, provVars, relVars>>

\* reserve and reserve --force, under the control lock.
Reserve(s) ==
    /\ mpc = "idle" /\ status[s] # "Reserved"
    /\ status' = [status EXCEPT ![s] = "Reserved"]
    /\ UNCHANGED <<slotVars, devVars, mpc, ms, provVars, relVars>>

-----------------------------------------------------------------------------
(* ProvisionPorts. *)

\* The command starts: one port or all of them, in one mode.
ProvisionBegin ==
    /\ mpc = "idle" /\ MGoto("pv_scan")
    /\ kind' \in Kinds
    /\ sel' \in {{s} : s \in Slots} \cup {Slots}
    /\ UNCHANGED <<status, slotVars, devVars, ms, old, new, fresh, swap, relVars>>

\* The head of the loop: only a selected Reserved slot is provisioned.
ProvisionLoop(last) ==
    /\ mpc = "pv_scan"
    /\ \/ ms = last /\ Return
       \/ /\ ms < last /\ (ms \notin sel \/ status[ms] # "Reserved")
          /\ ms' = ms + 1
          /\ UNCHANGED <<mpc, provVars, relVars>>
       \/ /\ ms < last /\ ms \in sel /\ status[ms] = "Reserved"
          /\ old' = ifindex[ms]
          /\ swap' = (ifindex[ms] # 0 /\ mode[ms] # kind)
          /\ MGoto("pv_create")
          /\ UNCHANGED <<ms, sel, kind, new, fresh, relVars>>
    /\ UNCHANGED <<status, slotVars, devVars>>

ProvisionScan == ProvisionLoop(N_ports)

Named(k, s) == {i \in Indices : link[i] = <<k, s>>}

\* A link of the expected name is reused, otherwise one is created.
ProvisionCreate ==
    /\ mpc = "pv_create"
    /\ \/ /\ new' \in Named(kind, ms) /\ fresh' = FALSE
          /\ MGoto("pv_clsact")
          /\ UNCHANGED <<link, ms, sel, kind, old, swap, relVars>>
       \/ /\ Named(kind, ms) = {}
          /\ new' \in {i \in Indices : link[i] = NoLink} /\ fresh' = TRUE
          /\ link' = [link EXCEPT ![new'] = <<kind, ms>>]
          /\ MGoto("pv_clsact")
          /\ UNCHANGED <<ms, sel, kind, old, swap, relVars>>
       \/ "create" \in Faults /\ Return /\ UNCHANGED link
    /\ UNCHANGED <<status, slotVars, tc>>

\* The shared block is attached, also to a reused link.  If that fails, a new
\* tap is deleted again; a veth pair stays and is reused by the next call.
ProvisionClsact ==
    /\ mpc = "pv_clsact"
    /\ \/ /\ tc' = tc \cup {new} /\ MGoto("pv_unmap")
          /\ UNCHANGED <<link, ms, provVars, relVars>>
       \/ /\ "clsact" \in Faults /\ Return
          /\ link' = IF fresh /\ kind = "tap" THEN [link EXCEPT ![new] = NoLink] ELSE link
          /\ UNCHANGED tc
    /\ UNCHANGED <<status, slotVars>>

\* Delete entry i of the reverse map if it points to this slot; errors are ignored.
Unmap(i) ==
    IF i # 0 /\ rev[i] = ms
    THEN rev' = [rev EXCEPT ![i] = NoSlot] \/ ("delete" \in Faults /\ UNCHANGED rev)
    ELSE UNCHANGED rev

\* Variant: the stale entry is left for the insertion to replace.
ProvisionUnmapSkipped ==
    /\ mpc = "pv_unmap" /\ MGoto("pv_info")
    /\ UNCHANGED <<status, slotVars, devVars, ms, provVars, relVars>>

\* Step 1: the stale reverse entry goes first.
ProvisionUnmap ==
    /\ mpc = "pv_unmap" /\ MGoto("pv_info")
    /\ IF new # old THEN Unmap(old) ELSE UNCHANGED rev
    /\ UNCHANGED <<status, ifindex, mode, devVars, ms, provVars, relVars>>

\* Step 2: writeSlotDeviceInfo ...
ProvisionInfo ==
    /\ mpc = "pv_info" /\ MGoto("pv_mode")
    /\ ifindex' = [ifindex EXCEPT ![ms] = new]
    /\ UNCHANGED <<status, mode, rev, devVars, ms, provVars, relVars>>

\* ... and, in a second update, the mode.
ProvisionMode ==
    /\ mpc = "pv_mode" /\ MGoto("pv_map")
    /\ mode' = [mode EXCEPT ![ms] = kind]
    /\ UNCHANGED <<status, ifindex, rev, devVars, ms, provVars, relVars>>

AfterMap == IF swap THEN "pv_drop" ELSE "pv_free"

\* Variant: the reverse entry is inserted only for a slot that had no device.
ProvisionMapFirst ==
    /\ mpc = "pv_map" /\ MGoto(AfterMap)
    /\ rev' = IF old = 0 THEN [rev EXCEPT ![new] = ms] ELSE rev
    /\ UNCHANGED <<status, ifindex, mode, devVars, ms, provVars, relVars>>

\* Step 3: the new reverse entry, unless the index did not change.
ProvisionMap ==
    /\ mpc = "pv_map"
    /\ \/ /\ MGoto(AfterMap)
          /\ rev' = IF new # old THEN [rev EXCEPT ![new] = ms] ELSE rev
          /\ UNCHANGED <<ms, provVars, relVars>>
       \/ "update" \in Faults /\ new # old /\ Return /\ UNCHANGED rev
    /\ UNCHANGED <<status, ifindex, mode, devVars>>

\* Step 4, deleteOldSlotDeviceByIfindex: the reverse entry ...
ProvisionDrop ==
    /\ mpc = "pv_drop" /\ MGoto("pv_droplink")
    /\ Unmap(old)
    /\ UNCHANGED <<status, ifindex, mode, devVars, ms, provVars, relVars>>

\* Variant: the device of the previous mode is kept.
ProvisionDropLinkNot ==
    /\ mpc = "pv_droplink" /\ MGoto("pv_free")
    /\ UNCHANGED <<status, slotVars, devVars, ms, provVars, relVars>>

\* ... and the link; a failure is only logged.
ProvisionDropLink ==
    /\ mpc = "pv_droplink" /\ MGoto("pv_free")
    /\ \/ link' = [link EXCEPT ![old] = NoLink] /\ tc' = tc \ {old}
       \/ "dellink" \in Faults /\ UNCHANGED devVars
    /\ UNCHANGED <<status, slotVars, ms, provVars, relVars>>

\* CAS(Reserved -> Free), then the next slot unless opts.Count is reached.
ProvisionFree ==
    /\ mpc = "pv_free"
    /\ status' = [status EXCEPT ![ms] = "Free"]
    /\ \/ /\ MGoto("pv_scan") /\ ms' = ms + 1
          /\ old' = 0 /\ new' = 0 /\ fresh' = FALSE /\ swap' = FALSE
          /\ UNCHANGED <<sel, kind, relVars>>
       \/ Return
    /\ UNCHANGED <<slotVars, devVars>>

-----------------------------------------------------------------------------
(* ReleasePorts. *)

\* Safe mode counts the Allocated slots first; force mode starts to reserve.
ReleaseBegin ==
    /\ mpc = "idle"
    /\ force' \in BOOLEAN
    /\ MGoto(IF force' THEN "rl_scan" ELSE "rl_count")
    /\ UNCHANGED <<status, slotVars, devVars, ms, provVars, round, todo, seen>>

\* A step of a loop over the slots that leads to label l with loop variable n.
LoopTo(l, n) == MGoto(l) /\ ms' = n /\ UNCHANGED <<provVars, relVars>>

\* countAllocatedSlots of safe mode, slot by slot: one Allocated slot refuses.
ReleaseCount ==
    /\ mpc = "rl_count"
    /\ \/ ms = N_ports /\ LoopTo("rl_scan", 0)
       \/ ms \in Slots /\ status[ms] # "Allocated" /\ LoopTo("rl_count", ms + 1)
       \/ ms \in Slots /\ status[ms] = "Allocated" /\ Return
    /\ UNCHANGED <<status, slotVars, devVars>>

\* reserveFreeSlots: the load.  Allocated and Reserved slots are skipped.
ReleaseScan ==
    /\ mpc = "rl_scan"
    /\ \/ ms = N_ports /\ LoopTo("rl_collect", 0)
       \/ ms \in Slots /\ status[ms] = "Free" /\ LoopTo("rl_cas", ms)
       \/ ms \in Slots /\ status[ms] # "Free" /\ LoopTo("rl_scan", ms + 1)
    /\ UNCHANGED <<status, slotVars, devVars>>

\* reserveFreeSlots: CAS(Free -> Reserved).
ReleaseCAS ==
    /\ mpc = "rl_cas"
    /\ IF status[ms] = "Free"
       THEN status' = [status EXCEPT ![ms] = "Reserved"] /\ LoopTo("rl_scan", ms + 1)
       ELSE UNCHANGED status /\ LoopTo("rl_recount", 0)
    /\ UNCHANGED <<slotVars, devVars>>

\* After a lost CAS: an Allocated slot is ErrPortsInUse, which force mode
\* ignores; otherwise the scan starts over.
ReleaseRecount ==
    /\ mpc = "rl_recount"
    /\ \/ ms = N_ports /\ LoopTo("rl_scan", 0)
       \/ ms \in Slots /\ status[ms] # "Allocated" /\ LoopTo("rl_recount", ms + 1)
       \/ ms \in Slots /\ status[ms] = "Allocated" /\ force /\ LoopTo("rl_collect", 0)
       \/ ms \in Slots /\ status[ms] = "Allocated" /\ ~force /\ Return
    /\ UNCHANGED <<status, slotVars, devVars>>

\* Variant: the second round skips the Allocated slots as the first one does.
ReleaseAllFreeOnly ==
    /\ mpc = "rl_all"
    /\ \/ ms = N_ports /\ LoopTo("rl_collect", 0)
       \/ ms \in Slots /\ status[ms] # "Free" /\ LoopTo("rl_all", ms + 1)
       \/ /\ ms \in Slots /\ status[ms] = "Free"
          /\ MGoto("rl_allcas") /\ seen' = status[ms]
          /\ UNCHANGED <<ms, provVars, force, round, todo>>
    /\ UNCHANGED <<status, slotVars, devVars>>

\* reserveAllSlots: the load.
ReleaseAll ==
    /\ mpc = "rl_all"
    /\ \/ ms = N_ports /\ LoopTo("rl_collect", 0)
       \/ ms \in Slots /\ status[ms] = "Reserved" /\ LoopTo("rl_all", ms + 1)
       \/ /\ ms \in Slots /\ status[ms] # "Reserved"
          /\ MGoto("rl_allcas") /\ seen' = status[ms]
          /\ UNCHANGED <<ms, provVars, force, round, todo>>
    /\ UNCHANGED <<status, slotVars, devVars>>

\* reserveAllSlots: CAS(innerIP -> Reserved); a lost one starts over.  An
\* Allocated slot may also hold another address than the one loaded.
ReleaseAllCAS ==
    /\ mpc = "rl_allcas"
    /\ \/ /\ status[ms] = seen
          /\ status' = [status EXCEPT ![ms] = "Reserved"] /\ LoopTo("rl_all", ms + 1)
       \/ /\ status[ms] # seen \/ seen = "Allocated"
          /\ UNCHANGED status /\ LoopTo("rl_all", 0)
    /\ UNCHANGED <<slotVars, devVars>>

\* collectPortInterfaces takes every slot with a device.
ReleaseCollect ==
    /\ mpc = "rl_collect" /\ MGoto("rl_link")
    /\ todo' = {s \in Slots : ifindex[s] # 0}
    /\ UNCHANGED <<status, slotVars, devVars, ms, provVars, force, round, seen>>

\* deletePortInterfaces over portIfaces: the link goes first.  A link that is
\* gone is no error.  After the last item force mode starts its second round.
ReleaseLink ==
    /\ mpc = "rl_link"
    /\ \/ /\ ms \in todo /\ LoopTo("rl_map", ms)
          /\ link' = [link EXCEPT ![ifindex[ms]] = NoLink] /\ tc' = tc \ {ifindex[ms]}
       \/ /\ ms \in todo /\ "dellink" \in Faults /\ link[ifindex[ms]] # NoLink
          /\ Return /\ UNCHANGED devVars
       \/ ms \in Slots \ todo /\ LoopTo("rl_link", ms + 1) /\ UNCHANGED devVars
       \/ /\ ms = N_ports /\ force /\ round = 1
          /\ MGoto("rl_all") /\ ms' = 0 /\ round' = 2 /\ todo' = {}
          /\ UNCHANGED <<devVars, provVars, force, seen>>
       \/ ms = N_ports /\ ~(force /\ round = 1) /\ Return /\ UNCHANGED devVars
    /\ UNCHANGED <<status, slotVars>>

\* The reverse entry, whatever slot it points to.
ReleaseMap ==
    /\ mpc = "rl_map"
    /\ \/ LoopTo("rl_clear", ms) /\ rev' = [rev EXCEPT ![ifindex[ms]] = NoSlot]
       \/ "delete" \in Faults /\ rev[ifindex[ms]] # NoSlot /\ Return /\ UNCHANGED rev
    /\ UNCHANGED <<status, ifindex, mode, devVars>>

\* The slot points to no device any more.
ReleaseClear ==
    /\ mpc = "rl_clear" /\ LoopTo("rl_link", ms + 1)
    /\ ifindex' = [ifindex EXCEPT ![ms] = 0]
    /\ UNCHANGED <<status, mode, rev, devVars>>

-----------------------------------------------------------------------------
(* The ends of the switch. *)

\* StopReleased: every slot Reserved and without device, then the maps go.
StopReleased ==
    /\ mpc = "idle"
    /\ \A s \in Slots : status[s] = "Reserved" /\ ifindex[s] = 0
    /\ End("gone")
    /\ UNCHANGED <<status, slotVars, devVars>>

\* StartReserved creates new maps; the namespace is the one that was left.
StartReserved ==
    /\ mpc = "gone"
    /\ status' = [s \in Slots |-> "Reserved"]
    /\ ifindex' = [s \in Slots |-> 0]
    /\ mode' = [s \in Slots |-> "veth"]
    /\ rev' = [i \in Indices |-> NoSlot]
    /\ End("idle")
    /\ UNCHANGED devVars

\* The process of a command dies between two steps.
Crash ==
    /\ "crash" \in Faults
    /\ mpc \notin {"idle", "gone"}
    /\ Return
    /\ UNCHANGED <<status, slotVars, devVars>>

-----------------------------------------------------------------------------

Provision ==
    \/ ProvisionBegin \/ ProvisionScan \/ ProvisionCreate \/ ProvisionClsact
    \/ ProvisionUnmap \/ ProvisionInfo \/ ProvisionMode \/ ProvisionMap
    \/ ProvisionDrop \/ ProvisionDropLink \/ ProvisionFree

Release ==
    \/ ReleaseBegin \/ ReleaseCount \/ ReleaseScan \/ ReleaseCAS \/ ReleaseRecount
    \/ ReleaseAll \/ ReleaseAllCAS \/ ReleaseCollect \/ ReleaseLink \/ ReleaseMap
    \/ ReleaseClear

Next ==
    \/ \E s \in Slots : Attach(s) \/ Detach(s) \/ Reserve(s)
    \/ Provision \/ Release \/ StopReleased \/ StartReserved \/ Crash

Spec == Init /\ [][Next]_vars

-----------------------------------------------------------------------------
(* Properties. *)

\* The data plane can serve a port that is open to attachment: between
\* commands, a slot that is not Reserved and has a device points to a link of
\* its own name and mode, that link carries the TC block, and the reverse map
\* leads from it back to the slot.  (provision.go: "Failed slots stay Reserved
\* and can be retried by calling ProvisionPorts again".)
PortsWired ==
    mpc = "idle" =>
        \A s \in Slots : status[s] # "Reserved" /\ ifindex[s] # 0 =>
            /\ link[ifindex[s]] = <<mode[s], s>>
            /\ ifindex[s] \in tc
            /\ rev[ifindex[s]] = s

\* No device is lost: between commands every port link is the one its slot
\* points to.  A mode switch removes the link of the previous mode, and
\* ReleasePorts forgets no link.
NoOrphans ==
    mpc = "idle" =>
        \A i \in Indices, s \in Slots, k \in Kinds :
            link[i] = <<k, s>> => ifindex[s] = i /\ mode[s] = k

\* The reverse map never leads to a slot that has moved on to another device:
\* at every step of provisioning and release, whatever failed before and
\* whichever indices the kernel uses again, an entry points to a slot that
\* points back.
RevPointsBack ==
    \A i \in Indices, s \in Slots : rev[i] = s => ifindex[s] = i

\* ReleasePorts with force, when it succeeds, leaves what StopReleased demands:
\* whatever Attach and Detach did meanwhile and however earlier commands ended,
\* every slot is Reserved and without device.
ForceReleaseComplete ==
    [][mpc = "rl_link" /\ ms = N_ports /\ force /\ round = 2 =>
         \A s \in Slots : status'[s] = "Reserved" /\ ifindex'[s] = 0]_vars

\* The step deletes the link of a port that is not Reserved.
DeletesOpenPort ==
    /\ mpc = "rl_link" /\ ms \in todo /\ status[ms] # "Reserved"
    /\ link[ifindex[ms]] # NoLink /\ link'[ifindex[ms]] = NoLink

\* stop.go: "Safe mode (opts.Force == false): refuses if there are Allocated
\* ports, returning ErrPortsInUse."  No link of an attached port goes away.
SafeReleaseRefuses == [][~force => ~DeletesOpenPort]_vars

\* stop.go: "Both rounds reserve-then-delete."
ReserveThenDelete == [][force => ~DeletesOpenPort]_vars

\* provision.go: a link whose removal failed "just costs kernel memory until
\* 'stop' reaps it".  After StopReleased no port link is left.
StopReapsOrphans == mpc = "gone" => \A i \in Indices : link[i] = NoLink
=============================================================================
