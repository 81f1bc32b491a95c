------------------------- MODULE PortDevices_proofs -------------------------
(***************************************************************************)
(* PortDevices, for any number of ports and indices: the reverse map, what *)
(* a forced release leaves, the wiring of open ports, links that are lost; *)
(* and the health check that reads slots and links beside the commands.    *)
(*                                                                         *)
(* RevInv is what provisioning and release know of the slot they work on,  *)
(* WireInv adds links and TC blocks to it, Claimed whose a link is.        *)
(* HealthInv relates what the check has read to what commands did since.   *)
(***************************************************************************)
EXTENDS HealthCheck, TLAPS

\* Where in the loops the index variable names a slot.
AtSlot == {"pv_create", "pv_clsact", "pv_unmap", "pv_info", "pv_mode", "pv_map", "pv_drop",
           "pv_droplink", "pv_free", "rl_cas", "rl_allcas", "rl_map", "rl_clear"}

\* The values of a loop variable over the slots.
Positions == 0 .. N_ports

\* The types the argument needs.
Types ==
    /\ status \in [Slots -> {"Free", "Reserved", "Allocated"}]
    /\ ifindex \in [Slots -> Indices \cup {0}]
    /\ rev \in [Indices -> Slots \cup {NoSlot}]
    /\ ms \in Positions
    /\ sel \subseteq Slots /\ todo \subseteq Slots
    /\ old \in Indices \cup {0}
    /\ mpc \in AtSlot => ms \in Slots
    /\ mpc \in {"pv_clsact", "pv_unmap", "pv_info", "pv_mode", "pv_map"} => new \in Indices

\* What the command knows of the slot it is working on.
Progress ==
    /\ mpc \in {"pv_create", "pv_clsact", "pv_unmap", "pv_info"} => old = ifindex[ms]
    /\ mpc = "pv_info" /\ new # old => \A i \in Indices : rev[i] # ms
    /\ mpc \in {"pv_mode", "pv_map"} => ifindex[ms] = new
    /\ mpc \in {"rl_link", "rl_map", "rl_clear"} => \A s \in todo : s >= ms => ifindex[s] # 0
    /\ mpc \in {"rl_map", "rl_clear"} => ms \in todo
    /\ mpc = "rl_clear" => \A i \in Indices : rev[i] # ms

RevInv == Types /\ Progress /\ RevPointsBack

\* The second round of a forced release: behind the loop variable every slot is
\* Reserved, then all are; behind the deletion loop no slot has a device.
Sweep ==
    /\ mpc \in {"rl_count", "rl_scan", "rl_cas", "rl_recount"} \/ mpc \notin ReleasePCs => round = 1
    /\ mpc = "rl_collect" => ms = 0
    /\ mpc \in {"rl_all", "rl_allcas"} => \A s \in Slots : s < ms => status[s] = "Reserved"
    /\ mpc \in {"rl_collect", "rl_link", "rl_map", "rl_clear"} /\ round = 2 =>
         \A s \in Slots : status[s] = "Reserved"
    /\ mpc \in {"rl_link", "rl_map", "rl_clear"} =>
         \A s \in Slots : s < ms \/ s \notin todo => ifindex[s] = 0

SweepInv == Types /\ Sweep

\* Where the slot of the loop variable is being rewired, and where a device for it
\* has been found or made but not yet taken into the slot.
Rewiring == {"pv_info", "pv_mode", "pv_map", "rl_map", "rl_clear"}
Fetched == {"pv_clsact", "pv_unmap", "pv_info", "pv_mode", "pv_map"}

\* Links have distinct names.
OneName == \A i, j \in Indices : link[i] = link[j] /\ link[i] # NoLink => i = j

\* Every slot with a device is wired, but for the one being rewired.
Settled ==
    \A s \in Slots : ifindex[s] # 0 => (mpc \in Rewiring /\ s = ms) \/ Wired(s)

\* What ProvisionPorts and ReleasePorts know of the devices of the slot they work on:
\* the one that was found or made, the previous one, and the one that was deleted.
NewDevice ==
    /\ mpc \in Fetched => link[new] = <<kind, ms>>
    /\ mpc = "pv_clsact" /\ fresh => new # old
    /\ mpc \in Fetched \ {"pv_clsact"} => new \in tc
    /\ mpc \in {"pv_info", "pv_mode", "pv_map"} /\ new = old => rev[new] = ms
    /\ mpc \in {"pv_map", "pv_drop", "pv_droplink"} => mode[ms] = kind

OldDevice ==
    /\ mpc \in Fetched \cup {"pv_create"} => (swap => old # 0)
    /\ mpc \in {"pv_drop", "pv_droplink"} => swap /\ old # 0
    /\ mpc \in Fetched \cup {"pv_create", "pv_drop", "pv_droplink"} /\ old # 0 =>
         link[old] \in Kinds \X {ms} /\ (swap <=> link[old] # <<kind, ms>>)
    /\ mpc \in {"rl_map", "rl_clear"} => link[ifindex[ms]] = NoLink

WireTypes ==
    /\ mode \in [Slots -> {"veth", "tap"}]
    /\ link \in [Indices -> (Kinds \X Slots) \cup {NoLink}]
    /\ tc \subseteq Indices
    /\ kind \in Kinds

WireInv == WireTypes /\ OneName /\ Settled /\ NewDevice /\ OldDevice

\* A link belongs to the slot that points to it, or is the previous or the next
\* device of the slot that is being provisioned; a stopped switch has none.
Pending(i, s) ==
    \/ s = ms /\ i = new /\ mpc \in {"pv_clsact", "pv_unmap", "pv_info"}
    \/ s = ms /\ i = old /\ mpc \in {"pv_mode", "pv_map", "pv_drop", "pv_droplink"}

Claimed ==
    /\ \A i \in Indices, s \in Slots, k \in Kinds :
         link[i] = <<k, s>> => i = ifindex[s] \/ Pending(i, s)
    /\ mpc = "gone" => \A s \in Slots : ifindex[s] = 0

-----------------------------------------------------------------------------
(* Types. *)

\* A loop variable names a slot until it reaches the end.
LEMMA Loops ==
  /\ 0 \in Positions
  /\ \A n \in Slots : n \in Positions /\ n + 1 \in Positions
  /\ \A n \in Positions : (n # N_ports \/ n < N_ports) => n \in Slots
BY PortsAssumption DEF Slots, Positions

\* Types holds initially: the table of StartReserved.
LEMMA TypesInit == Init => Types
BY PortsAssumption DEF Init, Types, Slots, AtSlot, Positions

\* A command that ended.
Ended(l) == mpc' = l /\ ms' = 0 /\ sel' = {} /\ todo' = {} /\ old' = 0 /\ round' = 1

\* The command's locals are reset when it returns or dies.
LEMMA Ends == (Return => Ended("idle")) /\ \A l : End(l) => Ended(l)
BY Zenon DEF Return, End, Ended

\* Every step of a call and of ProvisionPorts keeps the types.
LEMMA TypesProvision ==
  ASSUME Types, Provision \/ \E s \in Slots : Attach(s) \/ Detach(s) \/ Reserve(s)
  PROVE  Types'
<1> USE Loops, Ends DEF Types, AtSlot, MGoto, slotVars, devVars, provVars, relVars, Ended
<1>1. CASE \E s \in Slots : Attach(s) \/ Detach(s) \/ Reserve(s)
  BY <1>1, ZenonT(60) DEF Attach, Detach, Reserve
<1>2. CASE ProvisionBegin
  BY <1>2 DEF ProvisionBegin
<1>3. CASE ProvisionScan
  BY <1>3, Zenon DEF ProvisionScan, ProvisionLoop
<1>4. CASE ProvisionCreate
  BY <1>4, Zenon DEF ProvisionCreate, Named
<1>5. CASE ProvisionClsact
  BY <1>5, Zenon DEF ProvisionClsact
<1>6. CASE ProvisionUnmap
  BY <1>6, Zenon DEF ProvisionUnmap, Unmap
<1>7. CASE ProvisionInfo
  BY <1>7, Zenon DEF ProvisionInfo
<1>8. CASE ProvisionMode
  BY <1>8, Zenon DEF ProvisionMode
<1>9. CASE ProvisionMap
  BY <1>9, Zenon DEF ProvisionMap, AfterMap
<1>10. CASE ProvisionDrop
  BY <1>10, Zenon DEF ProvisionDrop, Unmap
<1>11. CASE ProvisionDropLink
  BY <1>11, Zenon DEF ProvisionDropLink
<1>12. CASE ProvisionFree
  BY <1>12, Zenon DEF ProvisionFree
<1> QED
  BY <1>1, <1>2, <1>3, <1>4, <1>5, <1>6, <1>7, <1>8, <1>9, <1>10, <1>11, <1>12, Zenon DEF Provision

\* Every step of ReleasePorts and of the ends of the switch keeps the types.
LEMMA TypesRelease ==
  ASSUME Types, Release \/ StopReleased \/ StartReserved \/ Crash
  PROVE  Types'
<1> USE Loops, Ends DEF Types, AtSlot, MGoto, LoopTo,
                            slotVars, devVars, provVars, relVars, Ended
<1>1. CASE ReleaseBegin
  BY <1>1, Zenon DEF ReleaseBegin
<1>2. CASE ReleaseCount
  BY <1>2, Zenon DEF ReleaseCount
<1>3. CASE ReleaseScan
  BY <1>3, Zenon DEF ReleaseScan
<1>4. CASE ReleaseCAS
  BY <1>4 DEF ReleaseCAS
<1>5. CASE ReleaseRecount
  BY <1>5, Zenon DEF ReleaseRecount
<1>6. CASE ReleaseAll
  BY <1>6, Zenon DEF ReleaseAll
<1>7. CASE ReleaseAllCAS
  BY <1>7, ZenonT(60) DEF ReleaseAllCAS
<1>8. CASE ReleaseCollect
  BY <1>8, Zenon DEF ReleaseCollect
<1>9. CASE ReleaseLink
  BY <1>9, Zenon DEF ReleaseLink
<1>10. CASE ReleaseMap
  BY <1>10, Zenon DEF ReleaseMap
<1>11. CASE ReleaseClear
  BY <1>11, Zenon DEF ReleaseClear
<1>12. CASE StopReleased
  BY <1>12 DEF StopReleased
<1>13. CASE StartReserved
  BY <1>13 DEF StartReserved
<1>14. CASE Crash
  BY <1>14, Zenon DEF Crash
<1> QED
  BY <1>1, <1>2, <1>3, <1>4, <1>5, <1>6, <1>7, <1>8, <1>9, <1>10, <1>11, <1>12, <1>13, <1>14, Zenon
     DEF Release


-----------------------------------------------------------------------------
(* The reverse map. *)

\* No entry of the reverse map can be mistaken for a slot.
LEMMA NoSlotIsNone == NoSlot \notin Slots /\ 0 \notin Indices
BY NoneAssumption, IndexAssumption, PortsAssumption DEF Slots

\* A step that leaves the slots and the reverse map alone and ends in a label
\* of which Progress says nothing keeps both.
LEMMA RevFrame ==
  ASSUME RevPointsBack, ifindex' = ifindex, rev' = rev,
         mpc' \notin {"pv_create", "pv_clsact", "pv_unmap", "pv_info", "pv_mode", "pv_map",
                      "rl_link", "rl_map", "rl_clear"}
  PROVE  Progress' /\ RevPointsBack'
BY Zenon DEF Progress, RevPointsBack

\* The steps of the calls and of ProvisionPorts.  The stale entry is deleted
\* before the slot moves on, so no entry is left behind for the old index.
LEMMA RevProvision ==
  ASSUME "delete" \notin Faults, RevInv,
         Provision \/ \E s \in Slots : Attach(s) \/ Detach(s) \/ Reserve(s)
  PROVE  Progress' /\ RevPointsBack'
<1> USE Loops, Ends, NoSlotIsNone
    DEF RevInv, Types, AtSlot, Progress, MGoto, slotVars, devVars, provVars, relVars, Ended
<1>1. CASE \E s \in Slots : Attach(s) \/ Detach(s) \/ Reserve(s)
  BY <1>1 DEF Attach, Detach, Reserve, RevPointsBack
<1>2. CASE ProvisionBegin
  BY <1>2, RevFrame, Zenon DEF ProvisionBegin
<1>3. CASE ProvisionScan
  BY <1>3, Zenon DEF ProvisionScan, ProvisionLoop, RevPointsBack
<1>4. CASE ProvisionCreate
  BY <1>4, Zenon DEF ProvisionCreate, RevPointsBack
<1>5. CASE ProvisionClsact
  BY <1>5, Zenon DEF ProvisionClsact, RevPointsBack
<1>6. CASE ProvisionUnmap
  BY <1>6 DEF ProvisionUnmap, Unmap, RevPointsBack
<1>7. CASE ProvisionInfo
  BY <1>7 DEF ProvisionInfo, RevPointsBack
<1>8. CASE ProvisionMode
  BY <1>8, Zenon DEF ProvisionMode, RevPointsBack
<1>9. CASE ProvisionMap
  BY <1>9 DEF ProvisionMap, AfterMap, RevPointsBack
<1>10. CASE ProvisionDrop
  BY <1>10 DEF ProvisionDrop, Unmap, RevPointsBack
<1>11. CASE ProvisionDropLink
  BY <1>11, RevFrame, Zenon DEF ProvisionDropLink
<1>12. CASE ProvisionFree
  BY <1>12, RevFrame, Zenon DEF ProvisionFree
<1> QED
  BY <1>1, <1>2, <1>3, <1>4, <1>5, <1>6, <1>7, <1>8, <1>9, <1>10, <1>11, <1>12, Zenon DEF Provision

\* The steps of ReleasePorts and of the ends of the switch.  The entry of a
\* device is deleted before the slot forgets its index.
LEMMA RevRelease ==
  ASSUME "delete" \notin Faults, RevInv,
         Release \/ StopReleased \/ StartReserved \/ Crash
  PROVE  Progress' /\ RevPointsBack'
<1> USE Loops, Ends, NoSlotIsNone
    DEF RevInv, Types, AtSlot, Progress, MGoto, LoopTo, slotVars, devVars, provVars, relVars,
        Ended
<1>1. CASE ReleaseBegin
  BY <1>1, RevFrame, Zenon DEF ReleaseBegin
<1>2. CASE ReleaseCount
  BY <1>2, RevFrame, Zenon DEF ReleaseCount
<1>3. CASE ReleaseScan
  BY <1>3, RevFrame, Zenon DEF ReleaseScan
<1>4. CASE ReleaseCAS
  BY <1>4, RevFrame, Zenon DEF ReleaseCAS
<1>5. CASE ReleaseRecount
  BY <1>5, RevFrame, Zenon DEF ReleaseRecount
<1>6. CASE ReleaseAll
  BY <1>6, RevFrame, Zenon DEF ReleaseAll
<1>7. CASE ReleaseAllCAS
  BY <1>7, RevFrame, Zenon DEF ReleaseAllCAS
<1>8. CASE ReleaseCollect
  BY <1>8, Zenon DEF ReleaseCollect, RevPointsBack
<1>n. \A n \in Positions, s \in Slots : s >= n + 1 => s >= n /\ s # n
  BY DEF Positions, Slots
<1>9. CASE ReleaseLink
  <2>1. RevPointsBack'
    BY <1>9, Zenon DEF ReleaseLink, RevPointsBack
  <2>2. \/ ms \in todo /\ mpc' = "rl_map" /\ ms' = ms /\ todo' = todo
        \/ mpc' = "rl_link" /\ ms \in Slots \ todo /\ ms' = ms + 1 /\ todo' = todo
        \/ mpc' \in {"idle", "rl_all"}
    BY <1>9, Zenon DEF ReleaseLink
  <2>3. ifindex' = ifindex /\ mpc = "rl_link"
    BY <1>9, Zenon DEF ReleaseLink
  <2>4. Progress'
    BY <2>2, <2>3, <1>n, ZenonT(60)
  <2> QED
    BY <2>1, <2>4, Zenon
<1>10. CASE ReleaseMap
  BY <1>10 DEF ReleaseMap, RevPointsBack
<1>11. CASE ReleaseClear
  BY <1>11, <1>n DEF ReleaseClear, RevPointsBack
<1>12. CASE StopReleased
  BY <1>12, RevFrame DEF StopReleased
<1>13. CASE StartReserved
  BY <1>13 DEF StartReserved, RevPointsBack
<1>14. CASE Crash
  BY <1>14, RevFrame, Zenon DEF Crash
<1> QED
  BY <1>1, <1>2, <1>3, <1>4, <1>5, <1>6, <1>7, <1>8, <1>9, <1>10, <1>11, <1>12, <1>13, <1>14, Zenon
     DEF Release

\* Every step keeps the reverse map and what the commands know of it.
LEMMA RevStep ==
  ASSUME "delete" \notin Faults, RevInv, [Next]_vars
  PROVE  RevInv'
<1>1. CASE UNCHANGED vars
  BY <1>1, ZenonT(60) DEF RevInv, Types, Progress, RevPointsBack, vars, slotVars, devVars, provVars, relVars
<1>2. CASE Provision \/ \E s \in Slots : Attach(s) \/ Detach(s) \/ Reserve(s)
  BY <1>2, TypesProvision, RevProvision, Zenon DEF RevInv
<1>3. CASE Release \/ StopReleased \/ StartReserved \/ Crash
  BY <1>3, TypesRelease, RevRelease, Zenon DEF RevInv
<1> QED
  BY <1>1, <1>2, <1>3, Zenon DEF Next

\* The reverse map always leads to a slot that points back, provided only that
\* deleting a map entry that exists does not fail: whatever other steps fail,
\* wherever a command dies and whichever index the kernel uses again.
THEOREM ReverseMapPointsBack ==
  ASSUME "delete" \notin Faults
  PROVE  Spec => []RevPointsBack
<1>1. Init => RevInv
  <2>1. Init => Progress /\ RevPointsBack
    BY NoSlotIsNone DEF Init, Progress, RevPointsBack
  <2> QED
    BY <2>1, TypesInit, Zenon DEF RevInv
<1>2. RevInv /\ [Next]_vars => RevInv'
  BY RevStep, Zenon
<1>3. RevInv => RevPointsBack
  BY Zenon DEF RevInv
<1> QED
  BY <1>1, <1>2, <1>3, PTL DEF Spec

-----------------------------------------------------------------------------
(* A forced release. *)

\* Attach, Detach, reserve and ProvisionPorts do not disturb a forced release:
\* a Reserved slot cannot be claimed, and the commands exclude each other.
LEMMA SweepProvision ==
  ASSUME SweepInv, Provision \/ \E s \in Slots : Attach(s) \/ Detach(s) \/ Reserve(s)
  PROVE  Sweep'
<1> USE Loops, Ends
    DEF SweepInv, Types, AtSlot, Sweep, ReleasePCs, MGoto, slotVars, devVars, provVars, relVars,
        Ended
<1>1. CASE \E s \in Slots : Attach(s) \/ Detach(s) \/ Reserve(s)
  BY <1>1 DEF Attach, Detach, Reserve
<1>2. CASE ProvisionBegin
  BY <1>2, Zenon DEF ProvisionBegin
<1>3. CASE ProvisionScan
  BY <1>3, Zenon DEF ProvisionScan, ProvisionLoop
<1>4. CASE ProvisionCreate
  BY <1>4, Zenon DEF ProvisionCreate
<1>5. CASE ProvisionClsact
  BY <1>5, Zenon DEF ProvisionClsact
<1>6. CASE ProvisionUnmap
  BY <1>6, Zenon DEF ProvisionUnmap
<1>7. CASE ProvisionInfo
  BY <1>7, Zenon DEF ProvisionInfo
<1>8. CASE ProvisionMode
  BY <1>8, Zenon DEF ProvisionMode
<1>9. CASE ProvisionMap
  BY <1>9, Zenon DEF ProvisionMap, AfterMap
<1>10. CASE ProvisionDrop
  BY <1>10, Zenon DEF ProvisionDrop
<1>11. CASE ProvisionDropLink
  BY <1>11, Zenon DEF ProvisionDropLink
<1>12. CASE ProvisionFree
  BY <1>12, Zenon DEF ProvisionFree
<1> QED
  BY <1>1, <1>2, <1>3, <1>4, <1>5, <1>6, <1>7, <1>8, <1>9, <1>10, <1>11, <1>12, Zenon DEF Provision

\* The steps of ReleasePorts: the second round reserves slot by slot and then
\* clears slot by slot.
LEMMA SweepRelease ==
  ASSUME SweepInv, Release \/ StopReleased \/ StartReserved \/ Crash
  PROVE  Sweep'
<1> USE Loops, Ends
    DEF SweepInv, Types, AtSlot, Sweep, ReleasePCs, MGoto, LoopTo, slotVars, devVars, provVars,
        relVars, Ended
<1>n. \A n \in Positions, s \in Slots : (s < n + 1 => s < n \/ s = n) /\ ~(s < 0)
                                        /\ (n = N_ports => s < n)
  BY PortsAssumption DEF Positions, Slots
<1>1. CASE ReleaseBegin
  BY <1>1, Zenon DEF ReleaseBegin
<1>2. CASE ReleaseCount
  BY <1>2, Zenon DEF ReleaseCount
<1>3. CASE ReleaseScan
  BY <1>3 DEF ReleaseScan
<1>4. CASE ReleaseCAS
  BY <1>4, Zenon DEF ReleaseCAS
<1>5. CASE ReleaseRecount
  BY <1>5 DEF ReleaseRecount
<1>6. CASE ReleaseAll
  BY <1>6, <1>n DEF ReleaseAll
<1>7. CASE ReleaseAllCAS
  BY <1>7, <1>n DEF ReleaseAllCAS
<1>8. CASE ReleaseCollect
  BY <1>8, <1>n DEF ReleaseCollect
<1>9. CASE ReleaseLink
  BY <1>9, <1>n DEF ReleaseLink
<1>10. CASE ReleaseMap
  BY <1>10, Zenon DEF ReleaseMap
<1>11. CASE ReleaseClear
  BY <1>11, <1>n DEF ReleaseClear
<1>12. CASE StopReleased
  BY <1>12, Zenon DEF StopReleased
<1>13. CASE StartReserved
  BY <1>13, Zenon DEF StartReserved
<1>14. CASE Crash
  BY <1>14, Zenon DEF Crash
<1> QED
  BY <1>1, <1>2, <1>3, <1>4, <1>5, <1>6, <1>7, <1>8, <1>9, <1>10, <1>11, <1>12, <1>13, <1>14, Zenon
     DEF Release


\* ReleasePorts with force, when it returns after its second round, has left
\* every slot Reserved and without device, for any number of ports and with
\* Attach and Detach running meanwhile: StopReleased will not refuse.
THEOREM ForceReleases == Spec => ForceReleaseComplete
<1>1. Init => SweepInv
  <2>1. Init => Sweep
    BY Zenon DEF Init, Sweep, ReleasePCs
  <2> QED
    BY <2>1, TypesInit, Zenon DEF SweepInv
<1>2. SweepInv /\ [Next]_vars => SweepInv'
  <2> SUFFICES ASSUME SweepInv, [Next]_vars
               PROVE  SweepInv'
    OBVIOUS
  <2>1. CASE UNCHANGED vars
    BY <2>1, Zenon DEF SweepInv, Types, Sweep, vars, slotVars, devVars, provVars, relVars
  <2>2. CASE Provision \/ \E s \in Slots : Attach(s) \/ Detach(s) \/ Reserve(s)
    BY <2>2, TypesProvision, SweepProvision, Zenon DEF SweepInv
  <2>3. CASE Release \/ StopReleased \/ StartReserved \/ Crash
    BY <2>3, TypesRelease, SweepRelease, Zenon DEF SweepInv
  <2> QED
    BY <2>1, <2>2, <2>3, Zenon DEF Next
<1> DEFINE Swept ==
      mpc = "rl_link" /\ ms = N_ports /\ force /\ round = 2 =>
        \A s \in Slots : status'[s] = "Reserved" /\ ifindex'[s] = 0
<1>3. SweepInv /\ [Next]_vars => [Swept]_vars
  <2> SUFFICES ASSUME SweepInv, Next, mpc = "rl_link", ms = N_ports, round = 2,
                      NEW s \in Slots
               PROVE  status'[s] = "Reserved" /\ ifindex'[s] = 0
    BY Zenon
  <2>1. status[s] = "Reserved" /\ ifindex[s] = 0
    BY PortsAssumption DEF SweepInv, Sweep, Slots
  <2>2. CASE ReleaseLink \/ Crash
    BY <2>1, <2>2, Zenon DEF ReleaseLink, Crash, slotVars
  <2>3. CASE \E r \in Slots : Attach(r) \/ Detach(r) \/ Reserve(r)
    BY <2>1, <2>3, Zenon DEF Attach, Detach, Reserve, slotVars, SweepInv, Types
  <2>4. ~StopReleased /\ ~StartReserved /\ ~Provision /\ (Release => ReleaseLink)
    BY Zenon DEF Release, ReleaseBegin, ReleaseCount, ReleaseScan, ReleaseCAS, ReleaseRecount, ReleaseAll,
           ReleaseAllCAS, ReleaseCollect, ReleaseMap, ReleaseClear, StopReleased, StartReserved,
           Provision, ProvisionBegin, ProvisionScan, ProvisionLoop, ProvisionCreate,
           ProvisionClsact, ProvisionUnmap, ProvisionInfo, ProvisionMode, ProvisionMap,
           ProvisionDrop, ProvisionDropLink, ProvisionFree
  <2> QED
    BY <2>2, <2>3, <2>4, Zenon DEF Next
<1> QED
  BY <1>1, <1>2, <1>3, PTL DEF Spec, ForceReleaseComplete

-----------------------------------------------------------------------------
(* The wiring of the ports. *)

\* Sentinels are no names, and there is a kind for the locals of an idle command.
LEMMA Sentinels ==
  /\ 0 \notin Indices /\ AnyKind \in Kinds /\ Kinds \subseteq {"veth", "tap"}
  /\ \A k \in {"veth", "tap"}, s \in Slots : <<k, s>> # NoLink
BY NoneAssumption, IndexAssumption, KindAssumption, PortsAssumption DEF Slots, AnyKind

\* What the slots and devices are, without the owner words.
Wires == <<ifindex, mode, rev, link, tc>>

\* A step that changes no wire, between labels that say nothing of a particular slot,
\* keeps the wiring.
LEMMA WireFrame ==
  ASSUME WireInv, UNCHANGED Wires, kind' \in Kinds, mpc \notin Rewiring,
         mpc' \notin Rewiring \cup Fetched \cup {"pv_create", "pv_drop", "pv_droplink"}
  PROVE  WireInv'
<1>1. WireTypes' /\ OneName' /\ NewDevice' /\ OldDevice'
  BY Zenon DEF WireInv, WireTypes, OneName, NewDevice, OldDevice, Wires, Rewiring, Fetched
<1>2. Settled'
  BY Zenon DEF WireInv, Settled, Wired, Wires
<1> QED
  BY <1>1, <1>2, Zenon DEF WireInv

\* Attach, Detach and reserve change owner words only.
LEMMA WireCalls ==
  ASSUME WireInv, \E s \in Slots : Attach(s) \/ Detach(s) \/ Reserve(s)
  PROVE  WireInv'
<1>1. UNCHANGED <<ifindex, mode, rev, link, tc, mpc, ms, kind, old, new, fresh, swap>>
  BY Zenon DEF Attach, Detach, Reserve, slotVars, devVars, provVars
<1> QED
  BY <1>1, Zenon DEF WireInv, WireTypes, OneName, Settled, NewDevice, OldDevice, Wired

\* What the theorems on the wiring allow to fail: not the updates of the maps, nor
\* the process between two of them.
WireFaults == {"create", "clsact", "dellink"}

\* The steps of ProvisionPorts up to the first write: a slot that is being looked at
\* is still wired as before.
LEMMA WireProvisionFetch ==
  ASSUME RevInv, WireInv, ProvisionBegin \/ ProvisionScan \/ ProvisionCreate \/ ProvisionClsact
  PROVE  WireInv'
<1> USE Sentinels DEF MGoto, slotVars, devVars, provVars, relVars
<1>t. /\ old \in Indices \cup {0} /\ ifindex \in [Slots -> Indices \cup {0}]
      /\ mpc \in AtSlot => ms \in Slots
      /\ mpc \in Fetched => new \in Indices
      /\ mpc \in {"pv_create", "pv_clsact"} => old = ifindex[ms]
  BY Zenon DEF RevInv, Types, Progress, Fetched
<1>w. WireTypes /\ OneName /\ Settled /\ NewDevice /\ OldDevice
  BY Zenon DEF WireInv
<1>1. CASE ProvisionBegin
  BY <1>1, WireFrame, Zenon DEF ProvisionBegin, Wires, Rewiring, Fetched
<1>2. CASE ProvisionScan
  <2>1. UNCHANGED Wires /\ mpc = "pv_scan"
    BY <1>2, Zenon DEF ProvisionScan, ProvisionLoop, Wires
  <2>2. CASE mpc' # "pv_create"
    <3>1. kind' \in Kinds /\ mpc' \in {"idle", "pv_scan"}
      BY <1>2, <2>2, <1>w, Zenon DEF ProvisionScan, ProvisionLoop, Return, End, WireTypes
    <3> QED
      BY <2>1, <3>1, WireFrame, Zenon DEF Rewiring, Fetched
  <2>3. CASE mpc' = "pv_create"
    <3>1. /\ ms < N_ports /\ ms' = ms /\ kind' = kind /\ old' = ifindex[ms]
          /\ swap' = (ifindex[ms] # 0 /\ mode[ms] # kind)
      BY <1>2, <2>3, <2>1, Zenon DEF ProvisionScan, ProvisionLoop, Return, End
    <3>2. ms \in Slots
      BY <3>1, Loops, Zenon DEF RevInv, Types
    <3>3. WireTypes' /\ OneName' /\ Settled' /\ NewDevice'
      BY <1>w, <2>1, <2>3, <3>1, Zenon
         DEF WireTypes, OneName, Settled, Wired, NewDevice, Wires, Rewiring, Fetched
    <3>4. ifindex[ms] # 0 => link[ifindex[ms]] = <<mode[ms], ms>>
      BY <1>w, <2>1, <3>2, Zenon DEF Settled, Wired, Rewiring
    <3>5. ifindex[ms] # 0 => link[ifindex[ms]] \in Kinds \X {ms}
      BY <3>4, <3>2, <1>t, <1>w DEF WireTypes
    <3>6. <<mode[ms], ms>> # <<kind, ms>> <=> mode[ms] # kind
      OBVIOUS
    <3>7. OldDevice'
      <4>1. /\ mpc' = "pv_create" /\ link' = link /\ old' = ifindex[ms] /\ ms' = ms
            /\ kind' = kind /\ (swap' <=> ifindex[ms] # 0 /\ mode[ms] # kind)
        BY <2>1, <2>3, <3>1, Zenon DEF Wires
      <4> QED
        BY <4>1, <3>4, <3>5, <3>6, Zenon DEF OldDevice, Fetched
    <3> QED
      BY <3>3, <3>7, Zenon DEF WireInv
  <2> QED
    BY <2>2, <2>3, Zenon
<1>3. CASE ProvisionCreate
  <2>1. /\ mpc = "pv_create" /\ ms \in Slots
        /\ UNCHANGED <<ifindex, mode, rev, tc>>
    BY <1>3, <1>t, Zenon DEF ProvisionCreate, AtSlot
  <2>2. CASE Return /\ UNCHANGED link
    <3>1. UNCHANGED Wires /\ kind' \in Kinds /\ mpc' = "idle"
      BY <2>1, <2>2, Zenon DEF Wires, Return, End
    <3> QED
      BY <2>1, <3>1, WireFrame, Zenon DEF Rewiring, Fetched
  <2>3. CASE mpc' = "pv_clsact" /\ UNCHANGED <<ms, kind, old, swap>>
    <3>1. \/ new' \in Named(kind, ms) /\ fresh' = FALSE /\ link' = link
          \/ /\ new' \in Indices /\ link[new'] = NoLink /\ Named(kind, ms) = {}
             /\ link' = [link EXCEPT ![new'] = <<kind, ms>>]
      BY <1>3, <2>3, Zenon DEF ProvisionCreate, Return, End
    <3>2. new' \in Indices /\ link'[new'] = <<kind, ms>> /\ DOMAIN link = Indices
          /\ \A i \in Indices \ {new'} :
               (link'[i] = link[i] /\ link[i] # <<kind, ms>>) \/ link' = link
      BY <3>1, <1>w DEF Named, WireTypes
    <3>3. WireTypes'
      BY <1>w, <2>1, <2>3, <3>1 DEF WireTypes
    <3>4. OneName'
      BY <1>w, <3>1, <3>2 DEF OneName, Named, WireTypes
    <3>5. \A s \in Slots : ifindex[s] # 0 => Wired(s) /\ link[ifindex[s]] # NoLink
      <4>1. \A s \in Slots : ifindex[s] # 0 => Wired(s)
        BY <1>w, <2>1, Zenon DEF Settled, Rewiring
      <4> QED
        BY <4>1, <1>w DEF WireTypes, Wired
    <3>6. \A s \in Slots : ifindex[s] # 0 => link'[ifindex[s]] = link[ifindex[s]]
      BY <3>1, <3>5, <1>t, <1>w DEF WireTypes
    <3>7. Settled'
      BY <2>1, <3>5, <3>6, Zenon DEF Settled, Wired
    <3>8. NewDevice'
      <4>1. fresh' => new' # old
        BY <3>1, <3>5, <1>t, <2>1, Zenon
      <4> QED
        BY <2>3, <3>2, <4>1, Zenon DEF NewDevice, Fetched
    <3>9. OldDevice'
      BY <1>w, <1>t, <2>1, <2>3, <3>6, Zenon DEF OldDevice, Fetched
    <3> QED
      BY <3>3, <3>4, <3>7, <3>8, <3>9, Zenon DEF WireInv
  <2> QED
    BY <1>3, <2>2, <2>3, Zenon DEF ProvisionCreate
<1>4. CASE ProvisionClsact
  <2>1. /\ mpc = "pv_clsact" /\ ms \in Slots /\ new \in Indices /\ link[new] = <<kind, ms>>
        /\ UNCHANGED <<ifindex, mode, rev>>
    BY <1>4, <1>t, <1>w, Zenon DEF ProvisionClsact, AtSlot, Fetched, NewDevice
  <2>2. CASE mpc' = "pv_unmap" /\ tc' = tc \cup {new} /\ UNCHANGED <<link, ms, kind, old, new, swap>>
    <3>1. WireTypes' /\ OneName'
      BY <1>w, <2>1, <2>2, Zenon DEF WireTypes, OneName
    <3>2. Settled'
      BY <1>w, <2>1, <2>2, Zenon DEF Settled, Wired, Rewiring
    <3>3. NewDevice'
      BY <2>1, <2>2, Zenon DEF NewDevice, Fetched
    <3>4. OldDevice'
      BY <1>w, <2>1, <2>2, Zenon DEF OldDevice, Fetched
    <3> QED
      BY <3>1, <3>2, <3>3, <3>4, Zenon DEF WireInv
  <2>3. CASE /\ Return /\ UNCHANGED tc
             /\ link' = IF fresh /\ kind = "tap" THEN [link EXCEPT ![new] = NoLink] ELSE link
    <3>1. kind' \in Kinds /\ mpc' = "idle"
      BY <2>3, Zenon DEF Return, End
    <3>2. \A i \in Indices : link'[i] = link[i] \/ (i = new /\ fresh /\ link'[i] = NoLink)
      BY <2>3, <1>w DEF WireTypes
    <3>3. WireTypes'
      BY <1>w, <2>1, <2>3, <3>1 DEF WireTypes
    <3>4. OneName'
      BY <1>w, <3>2 DEF OneName
    <3>5. fresh => new # ifindex[ms]
      BY <1>w, <1>t, <2>1, Zenon DEF NewDevice
    <3>6. \A s \in Slots : ifindex[s] # 0 => Wired(s)
      BY <1>w, <2>1, Zenon DEF Settled, Rewiring
    <3>7. \A s \in Slots : ifindex[s] # 0 /\ ifindex[s] = new => s = ms
      BY <3>6, <2>1 DEF Wired
    <3>8. Settled'
      BY <3>2, <3>5, <3>6, <3>7, <2>1, <2>3, <1>t DEF Settled, Wired
    <3>9. NewDevice' /\ OldDevice'
      BY <3>1, Zenon DEF NewDevice, OldDevice, Fetched
    <3> QED
      BY <3>3, <3>4, <3>8, <3>9, Zenon DEF WireInv
  <2> QED
    BY <1>4, <2>2, <2>3, Zenon DEF ProvisionClsact
<1> QED
  BY <1>1, <1>2, <1>3, <1>4, Zenon

\* Steps 1 and 2 of ProvisionPorts: the slot leaves its old device for the new one.
LEMMA WireProvisionWrite ==
  ASSUME RevInv, WireInv, ProvisionUnmap \/ ProvisionInfo \/ ProvisionMode
  PROVE  WireInv'
<1> USE Sentinels DEF MGoto, slotVars, devVars, provVars, relVars
<1>w. WireTypes /\ OneName /\ Settled /\ NewDevice /\ OldDevice
  BY Zenon DEF WireInv
<1>1. /\ ms \in Slots /\ new \in Indices /\ mpc \in Fetched \ {"pv_clsact"}
      /\ link[new] = <<kind, ms>> /\ new \in tc
      /\ old \in Indices \cup {0} /\ ifindex \in [Slots -> Indices \cup {0}]
      /\ rev \in [Indices -> Slots \cup {NoSlot}]
      /\ UNCHANGED <<link, tc, ms, kind, old, new, swap>>
  BY <1>w, Zenon DEF RevInv, Types, AtSlot, Fetched, NewDevice, ProvisionUnmap, ProvisionInfo,
                     ProvisionMode
<1>2. OneName'
  BY <1>w, <1>1, Zenon DEF OneName
<1>3. OldDevice'
  BY <1>w, <1>1, Zenon DEF OldDevice, Fetched, ProvisionUnmap, ProvisionInfo, ProvisionMode
<1>4. WireTypes'
  BY <1>w, <1>1 DEF WireTypes, ProvisionUnmap, ProvisionInfo, ProvisionMode
<1>5. CASE ProvisionUnmap
  <2>1. /\ mpc = "pv_unmap" /\ mpc' = "pv_info" /\ ifindex' = ifindex /\ mode' = mode
        /\ old = ifindex[ms]
        /\ \A i \in Indices : rev'[i] = rev[i] \/ (i = old /\ rev[i] = ms /\ new # old)
    BY <1>1, <1>5 DEF ProvisionUnmap, Unmap, RevInv, Progress
  <2>2. Settled'
    <3> SUFFICES ASSUME NEW s \in Slots, ifindex[s] # 0, s # ms PROVE Wired(s)'
      BY <1>1, <2>1, Zenon DEF Settled, Rewiring
    <3>1. Wired(s)
      BY <1>w, <2>1, Zenon DEF Settled, Rewiring
    <3> QED
      BY <1>1, <2>1, <3>1 DEF Wired
  <2>3. NewDevice'
    <3>1. ifindex[ms] # 0 => rev[ifindex[ms]] = ms
      BY <1>w, <1>1, <2>1, Zenon DEF Settled, Rewiring, Wired
    <3>2. new = old => rev'[new] = ms
      BY <1>1, <2>1, <3>1
    <3> QED
      BY <1>1, <2>1, <3>2, Zenon DEF NewDevice, Fetched
  <2> QED
    BY <1>2, <1>3, <1>4, <2>2, <2>3, Zenon DEF WireInv
<1>6. CASE ProvisionInfo \/ ProvisionMode
  <2>1. /\ mpc \in {"pv_info", "pv_mode"} /\ mpc' \in {"pv_mode", "pv_map"} /\ rev' = rev
        /\ \A s \in Slots \ {ms} : ifindex'[s] = ifindex[s] /\ mode'[s] = mode[s]
        /\ mpc' = "pv_map" => mode'[ms] = kind
    BY <1>1, <1>6, <1>w DEF ProvisionInfo, ProvisionMode, WireTypes
  <2>2. Settled'
    <3> SUFFICES ASSUME NEW s \in Slots, ifindex'[s] # 0, s # ms PROVE Wired(s)'
      BY <1>1, <2>1, Zenon DEF Settled, Rewiring
    <3>1. Wired(s)
      BY <1>w, <2>1, Zenon DEF Settled
    <3> QED
      BY <1>1, <2>1, <3>1, Zenon DEF Wired
  <2>3. NewDevice'
    BY <1>w, <1>1, <2>1, Zenon DEF NewDevice, Fetched
  <2> QED
    BY <1>2, <1>3, <1>4, <2>2, <2>3, Zenon DEF WireInv
<1> QED
  BY <1>5, <1>6, Zenon

\* Steps 3 and 4 of ProvisionPorts: the entry of the new device completes the wiring,
\* and the previous device, which no slot uses any more, goes.
LEMMA WireProvisionClose ==
  ASSUME Faults \subseteq WireFaults, RevInv, WireInv,
         ProvisionMap \/ ProvisionDrop \/ ProvisionDropLink \/ ProvisionFree
  PROVE  WireInv'
<1> USE Sentinels DEF MGoto, slotVars, devVars, provVars, relVars
<1>w. WireTypes /\ OneName /\ Settled /\ NewDevice /\ OldDevice
  BY Zenon DEF WireInv
<1>t. /\ old \in Indices \cup {0} /\ ifindex \in [Slots -> Indices \cup {0}]
      /\ rev \in [Indices -> Slots \cup {NoSlot}]
      /\ mpc \in AtSlot => ms \in Slots
  BY Zenon DEF RevInv, Types
<1>1. CASE ProvisionMap
  <2>1. /\ mpc = "pv_map" /\ ms \in Slots /\ new \in Indices /\ ifindex[ms] = new
        /\ mode[ms] = kind /\ link[new] = <<kind, ms>> /\ new \in tc
    BY <1>1, <1>w, <1>t, Zenon DEF ProvisionMap, AtSlot, RevInv, Types, Progress, NewDevice, Fetched
  <2>2. /\ mpc' = AfterMap /\ UNCHANGED <<ifindex, mode, link, tc, ms, kind, old, new, swap>>
        /\ rev' = IF new # old THEN [rev EXCEPT ![new] = ms] ELSE rev
    BY <1>1, Zenon DEF ProvisionMap, WireFaults
  <2>3. rev'[new] = ms /\ \A i \in Indices \ {new} : rev'[i] = rev[i]
    BY <1>w, <1>t, <2>1, <2>2 DEF NewDevice
  <2>4. Settled'
    <3> SUFFICES ASSUME NEW s \in Slots, ifindex[s] # 0 PROVE Wired(s)'
      BY <2>2, Zenon DEF Settled
    <3>1. CASE s = ms
      BY <3>1, <2>1, <2>2, <2>3, Zenon DEF Wired
    <3>2. CASE s # ms
      <4>1. Wired(s)
        BY <1>w, <3>2, Zenon DEF Settled
      <4>2. ifindex[s] # new
        BY <2>1, <3>2, <4>1 DEF Wired
      <4> QED
        BY <1>t, <2>2, <2>3, <4>1, <4>2, Zenon DEF Wired
    <3> QED
      BY <3>1, <3>2, Zenon
  <2>5. WireTypes' /\ OneName' /\ NewDevice'
    BY <1>w, <2>1, <2>2, Zenon DEF WireTypes, OneName, NewDevice, Fetched, AfterMap
  <2>6. OldDevice'
    BY <1>w, <2>1, <2>2, Zenon DEF OldDevice, Fetched, AfterMap
  <2> QED
    BY <2>4, <2>5, <2>6, Zenon DEF WireInv
<1>2. ASSUME mpc \in {"pv_drop", "pv_droplink"}
      PROVE  /\ ms \in Slots /\ old \in Indices /\ \A s \in Slots : ifindex[s] # 0 => ifindex[s] # old
             /\ \A s \in Slots : ifindex[s] # 0 => Wired(s)
  <2>1. /\ ms \in Slots /\ old \in Indices /\ mode[ms] = kind
        /\ link[old] \in Kinds \X {ms} /\ link[old] # <<kind, ms>>
    BY <1>2, <1>w, <1>t, Zenon DEF AtSlot, NewDevice, OldDevice
  <2>2. \A s \in Slots : ifindex[s] # 0 => Wired(s)
    BY <1>2, <1>w, Zenon DEF Settled, Rewiring
  <2> QED
    BY <2>1, <2>2 DEF Wired
<1>3. CASE ProvisionDrop
  <2>1. /\ mpc = "pv_drop" /\ mpc' = "pv_droplink"
        /\ UNCHANGED <<ifindex, mode, link, tc, ms, kind, old, new, swap>>
        /\ \A i \in Indices : rev'[i] = rev[i] \/ i = old
    BY <1>3, <1>t DEF ProvisionDrop, Unmap
  <2>2. Settled'
    <3> SUFFICES ASSUME NEW s \in Slots, ifindex[s] # 0 PROVE Wired(s)'
      BY <2>1, Zenon DEF Settled
    <3>1. Wired(s) /\ ifindex[s] # old /\ ifindex[s] \in Indices
      BY <1>2, <1>t, <2>1
    <3> QED
      BY <2>1, <3>1, Zenon DEF Wired
  <2>3. WireTypes' /\ OneName' /\ NewDevice'
    BY <1>w, <2>1, Zenon DEF WireTypes, OneName, NewDevice, Fetched
  <2>4. OldDevice'
    BY <1>w, <2>1, Zenon DEF OldDevice, Fetched
  <2> QED
    BY <2>2, <2>3, <2>4, Zenon DEF WireInv
<1>4. CASE ProvisionDropLink
  <2>1. /\ mpc = "pv_droplink" /\ mpc' = "pv_free" /\ UNCHANGED <<ifindex, mode, rev, kind>>
        /\ link' = [link EXCEPT ![old] = NoLink] \/ link' = link
        /\ tc' = tc \ {old} \/ tc' = tc
    BY <1>4, Zenon DEF ProvisionDropLink
  <2>2. \A i \in Indices : i # old => link'[i] = link[i] /\ (i \in tc => i \in tc')
    BY <2>1, <1>w DEF WireTypes
  <2>3. Settled'
    <3> SUFFICES ASSUME NEW s \in Slots, ifindex[s] # 0 PROVE Wired(s)'
      BY <2>1, Zenon DEF Settled
    <3>1. Wired(s) /\ ifindex[s] # old /\ ifindex[s] \in Indices
      BY <1>2, <1>t, <2>1
    <3> QED
      BY <2>1, <2>2, <3>1, Zenon DEF Wired
  <2>4. WireTypes'
    BY <1>w, <2>1 DEF WireTypes
  <2>5. OneName'
    BY <1>w, <1>2, <2>1 DEF OneName, WireTypes
  <2>6. NewDevice' /\ OldDevice'
    BY <2>1, Zenon DEF NewDevice, OldDevice, Fetched
  <2> QED
    BY <2>3, <2>4, <2>5, <2>6, Zenon DEF WireInv
<1>5. CASE ProvisionFree
  <2>1. UNCHANGED Wires /\ mpc = "pv_free" /\ mpc' \in {"pv_scan", "idle"} /\ kind' \in Kinds
    BY <1>5, <1>w, Zenon DEF ProvisionFree, Wires, Return, End, WireTypes
  <2> QED
    BY <2>1, WireFrame, Zenon DEF Rewiring, Fetched
<1> QED
  BY <1>1, <1>3, <1>4, <1>5, Zenon

\* The loops of ReleasePorts that touch owner words only.
ReleaseLoops ==
    \/ ReleaseBegin \/ ReleaseCount \/ ReleaseScan \/ ReleaseCAS \/ ReleaseRecount
    \/ ReleaseAll \/ ReleaseAllCAS \/ ReleaseCollect

\* They change no wire and end where nothing is said of a particular slot.
LEMMA LoopsKeepWires ==
  ASSUME kind \in Kinds, ReleaseLoops
  PROVE  /\ UNCHANGED Wires /\ kind' \in Kinds
         /\ mpc \in {"idle", "rl_count", "rl_scan", "rl_cas", "rl_recount", "rl_all",
                     "rl_allcas", "rl_collect"}
         /\ mpc' \in {"idle", "rl_count", "rl_scan", "rl_cas", "rl_recount", "rl_all",
                      "rl_allcas", "rl_collect", "rl_link"}
<1> USE Sentinels DEF MGoto, LoopTo, Return, End, Wires, slotVars, devVars, provVars, relVars
<1>1. CASE ReleaseBegin \/ ReleaseCount \/ ReleaseScan \/ ReleaseCAS
  BY <1>1, Zenon DEF ReleaseBegin, ReleaseCount, ReleaseScan, ReleaseCAS
<1>2. CASE ReleaseRecount \/ ReleaseAll \/ ReleaseAllCAS \/ ReleaseCollect
  BY <1>2, Zenon DEF ReleaseRecount, ReleaseAll, ReleaseAllCAS, ReleaseCollect
<1> QED
  BY <1>1, <1>2, Zenon DEF ReleaseLoops

\* The steps of ReleasePorts and of the ends of the switch: link, reverse entry and
\* slot of a device go one after another, and no other slot has a part of them.
LEMMA WireRelease ==
  ASSUME Faults \subseteq WireFaults, RevInv, WireInv,
         Release \/ StopReleased \/ StartReserved \/ Crash
  PROVE  WireInv'
<1> USE Sentinels DEF MGoto, LoopTo, slotVars, devVars, provVars, relVars
<1>w. WireTypes /\ OneName /\ Settled /\ NewDevice /\ OldDevice
  BY Zenon DEF WireInv
<1>t. /\ ifindex \in [Slots -> Indices \cup {0}] /\ rev \in [Indices -> Slots \cup {NoSlot}]
      /\ mpc \in AtSlot => ms \in Slots
      /\ todo \subseteq Slots
      /\ mpc \in {"rl_link", "rl_map", "rl_clear"} /\ ms \in todo => ifindex[ms] # 0
      /\ mpc \in {"rl_map", "rl_clear"} => ms \in todo
  <2>1. ms \in todo => ms >= ms
    BY DEF RevInv, Types, Slots
  <2> QED
    BY <2>1, Zenon DEF RevInv, Types, Progress
<1>1. CASE ReleaseLoops
  <2>1. mpc' \notin Rewiring \cup Fetched \cup {"pv_create", "pv_drop", "pv_droplink"}
        /\ mpc \notin Rewiring /\ UNCHANGED Wires /\ kind' \in Kinds
    BY <1>1, <1>w, LoopsKeepWires, Zenon DEF WireTypes, Rewiring, Fetched
  <2> QED
    BY <2>1, WireFrame, Zenon
<1>2. CASE ReleaseLink
  <2>1. mpc = "rl_link" /\ UNCHANGED <<ifindex, mode, rev>>
    BY <1>2, Zenon DEF ReleaseLink
  <2>2. CASE UNCHANGED Wires /\ kind' \in Kinds /\ mpc' \in {"rl_link", "rl_all", "idle"}
    BY <2>1, <2>2, WireFrame, Zenon DEF Rewiring, Fetched
  <2>3. CASE /\ ms \in todo /\ mpc' = "rl_map" /\ ms' = ms /\ kind' = kind
             /\ link' = [link EXCEPT ![ifindex[ms]] = NoLink] /\ tc' = tc \ {ifindex[ms]}
    <3>1. ms \in Slots /\ ifindex[ms] \in Indices
      BY <1>t, <2>1, <2>3
    <3>2. \A i \in Indices : i # ifindex[ms] => link'[i] = link[i] /\ (i \in tc => i \in tc')
      BY <2>3, <1>w DEF WireTypes
    <3>3. Wired(ms)
      BY <1>w, <3>1, <2>1, Zenon DEF Settled, Rewiring
    <3>4. Settled'
      <4> SUFFICES ASSUME NEW s \in Slots, ifindex[s] # 0, s # ms PROVE Wired(s)'
        BY <2>1, <2>3, Zenon DEF Settled, Rewiring
      <4>1. Wired(s) /\ ifindex[s] \in Indices
        BY <1>w, <1>t, <2>1 DEF Settled, Rewiring
      <4>2. ifindex[s] # ifindex[ms]
        BY <4>1, <3>3 DEF Wired
      <4> QED
        BY <2>1, <3>2, <4>1, <4>2, Zenon DEF Wired
    <3>5. WireTypes'
      <4>1. mode' \in [Slots -> {"veth", "tap"}] /\ kind' \in Kinds
        BY <1>w, <2>1, <2>3, Zenon DEF WireTypes
      <4>2. link' \in [Indices -> (Kinds \X Slots) \cup {NoLink}] /\ tc' \subseteq Indices
        BY <1>w, <2>3, Zenon DEF WireTypes
      <4> QED
        BY <4>1, <4>2, Zenon DEF WireTypes
    <3>6. OneName'
      BY <1>w, <3>1, <2>3 DEF OneName, WireTypes
    <3>7. link'[ifindex[ms]] = NoLink
      BY <2>3, <3>1, <1>w DEF WireTypes
    <3>8. NewDevice' /\ OldDevice'
      BY <2>1, <2>3, <3>7, Zenon DEF NewDevice, OldDevice, Fetched
    <3> QED
      BY <3>4, <3>5, <3>6, <3>8, Zenon DEF WireInv
  <2>4. \/ UNCHANGED Wires /\ kind' \in Kinds /\ mpc' \in {"rl_link", "rl_all", "idle"}
        \/ /\ ms \in todo /\ mpc' = "rl_map" /\ ms' = ms /\ kind' = kind
           /\ link' = [link EXCEPT ![ifindex[ms]] = NoLink] /\ tc' = tc \ {ifindex[ms]}
    BY <1>2, <1>w, Zenon DEF ReleaseLink, Return, End, Wires, WireTypes
  <2> QED
    BY <2>2, <2>3, <2>4, Zenon
<1>3. CASE ReleaseMap
  <2>1. /\ mpc = "rl_map" /\ mpc' = "rl_clear" /\ ms \in Slots /\ ifindex[ms] \in Indices
        /\ link[ifindex[ms]] = NoLink
        /\ UNCHANGED <<ifindex, mode, link, tc, ms, kind>>
        /\ rev' = [rev EXCEPT ![ifindex[ms]] = NoSlot]
    BY <1>3, <1>t, <1>w DEF ReleaseMap, AtSlot, OldDevice, WireFaults
  <2>2. Settled'
    <3> SUFFICES ASSUME NEW s \in Slots, ifindex[s] # 0, s # ms PROVE Wired(s)'
      BY <2>1, Zenon DEF Settled, Rewiring
    <3>1. Wired(s) /\ ifindex[s] \in Indices
      BY <1>w, <1>t, <2>1 DEF Settled
    <3>2. ifindex[s] # ifindex[ms]
      BY <1>w, <3>1, <2>1 DEF Wired, WireTypes
    <3>3. rev'[ifindex[s]] = rev[ifindex[s]]
      BY <1>t, <2>1, <3>1, <3>2
    <3> QED
      BY <2>1, <3>1, <3>3, Zenon DEF Wired
  <2>3. WireTypes' /\ OneName' /\ NewDevice' /\ OldDevice'
    BY <1>w, <2>1, Zenon DEF WireTypes, OneName, NewDevice, OldDevice, Fetched
  <2> QED
    BY <2>2, <2>3, Zenon DEF WireInv
<1>4. CASE ReleaseClear
  <2>1. /\ mpc = "rl_clear" /\ mpc' = "rl_link" /\ ms \in Slots
        /\ UNCHANGED <<mode, rev, link, tc, kind>>
        /\ ifindex' = [ifindex EXCEPT ![ms] = 0]
    BY <1>4, <1>t, Zenon DEF ReleaseClear, AtSlot
  <2>2. Settled'
    <3> SUFFICES ASSUME NEW s \in Slots, ifindex'[s] # 0 PROVE Wired(s)'
      BY Zenon DEF Settled
    <3>1. s # ms /\ ifindex'[s] = ifindex[s]
      BY <1>t, <2>1
    <3>2. Wired(s)
      BY <1>w, <2>1, <3>1, Zenon DEF Settled
    <3> QED
      BY <2>1, <3>1, <3>2 DEF Wired
  <2>3. WireTypes' /\ OneName' /\ NewDevice' /\ OldDevice'
    BY <1>w, <2>1, Zenon DEF WireTypes, OneName, NewDevice, OldDevice, Fetched
  <2> QED
    BY <2>2, <2>3, Zenon DEF WireInv
<1>5. CASE StopReleased
  BY <1>5, WireFrame, Zenon DEF StopReleased, End, Wires, Rewiring, Fetched
<1>6. CASE StartReserved
  <2>1. /\ mpc' = "idle" /\ kind' \in Kinds /\ UNCHANGED <<link, tc>>
        /\ mode' = [s \in Slots |-> "veth"] /\ ifindex' = [s \in Slots |-> 0]
    BY <1>6, Zenon DEF StartReserved, End
  <2>2. WireTypes'
    BY <1>w, <2>1 DEF WireTypes
  <2>3. OneName' /\ NewDevice' /\ OldDevice'
    BY <1>w, <2>1, Zenon DEF OneName, NewDevice, OldDevice, Fetched
  <2>4. Settled'
    BY <2>1 DEF Settled
  <2> QED
    BY <2>2, <2>3, <2>4, Zenon DEF WireInv
<1>7. ~Crash
  BY Zenon DEF Crash, WireFaults
<1> QED
  BY <1>1, <1>2, <1>3, <1>4, <1>5, <1>6, <1>7, Zenon DEF Release, ReleaseLoops

\* Every step keeps the wiring.
LEMMA WireStep ==
  ASSUME Faults \subseteq WireFaults, RevInv, WireInv, [Next]_vars
  PROVE  WireInv'
<1>1. CASE UNCHANGED vars
  BY <1>1, Zenon DEF WireInv, WireTypes, OneName, Settled, NewDevice, OldDevice, Wired,
                     vars, slotVars, devVars, provVars
<1>2. CASE Provision
  BY <1>2, WireProvisionFetch, WireProvisionWrite, WireProvisionClose, Zenon DEF Provision
<1>3. CASE \E s \in Slots : Attach(s) \/ Detach(s) \/ Reserve(s)
  BY <1>3, WireCalls, Zenon
<1>4. CASE Release \/ StopReleased \/ StartReserved \/ Crash
  BY <1>4, WireRelease, Zenon
<1> QED
  BY <1>1, <1>2, <1>3, <1>4, Zenon DEF Next

\* The table and the namespace a switch starts with.
LEMMA WireInit == Init => RevInv /\ WireInv
<1>1. Init => WireTypes /\ NewDevice /\ OldDevice
  BY Sentinels DEF Init, WireTypes, NewDevice, OldDevice, Fetched
<1>2. Init => OneName /\ Settled
  BY DEF Init, OneName, Settled
<1>3. Init => Progress /\ RevPointsBack
  BY NoSlotIsNone DEF Init, Progress, RevPointsBack
<1> QED
  BY <1>1, <1>2, <1>3, TypesInit, Zenon DEF RevInv, WireInv

\* Between commands every port with a device is wired, whether it is open or not, for
\* any number of ports and indices: creating a link, attaching the block and deleting
\* a link may fail, and indices may be reused.  The updates of the maps must not: the
\* retry of a port whose reverse entry could not be written opens it without one.
THEOREM PortsServed ==
  ASSUME Faults \subseteq WireFaults
  PROVE  Spec => []PortsWired
<1>0. "delete" \notin Faults
  BY Zenon DEF WireFaults
<1>1. Init => RevInv /\ WireInv
  BY WireInit, Zenon
<1>2. (RevInv /\ WireInv) /\ [Next]_vars => (RevInv /\ WireInv)'
  <2> SUFFICES ASSUME RevInv, WireInv, [Next]_vars
               PROVE  RevInv' /\ WireInv'
    BY Zenon
  <2>1. RevInv'
    BY <1>0, RevStep, Zenon
  <2>2. WireInv'
    BY WireStep, Zenon
  <2> QED
    BY <2>1, <2>2, Zenon
<1>3. WireInv => PortsWired
  BY Zenon DEF WireInv, Settled, PortsWired, Wired, Rewiring
<1> QED
  BY <1>1, <1>2, <1>3, PTL DEF Spec

-----------------------------------------------------------------------------
(* No link is forgotten. *)

\* Where a command has a device in hand that its slot does not point to.
InHand == {"pv_clsact", "pv_unmap", "pv_info", "pv_mode", "pv_map", "pv_drop", "pv_droplink"}

\* A step that makes no link and takes none from its slot, of a command with empty hands.
LEMMA ClaimFrame ==
  ASSUME Claimed, ifindex' = ifindex, mpc \notin InHand,
         \A i \in Indices, s \in Slots, k \in Kinds : link'[i] = <<k, s>> => link[i] = <<k, s>>,
         mpc' = "gone" => \A s \in Slots : ifindex[s] = 0
  PROVE  Claimed'
  BY Zenon DEF Claimed, Pending, InHand

\* ProvisionPorts: a link is made for the slot, enters it, and the one it replaces goes.
LEMMA ClaimProvision ==
  ASSUME Faults \subseteq {"create"}, RevInv, WireInv, Claimed, Provision
  PROVE  Claimed'
<1> USE Sentinels DEF MGoto, slotVars, devVars, provVars, relVars
<1>w. WireTypes /\ OneName /\ Settled /\ NewDevice /\ OldDevice
  BY Zenon DEF WireInv
<1>t. /\ old \in Indices \cup {0} /\ ifindex \in [Slots -> Indices \cup {0}]
      /\ mpc \in AtSlot => ms \in Slots
      /\ mpc \in Fetched => new \in Indices
  BY Zenon DEF RevInv, Types, Fetched
<1>1. CASE ProvisionBegin \/ ProvisionScan \/ ProvisionFree
  <2>1. mpc \notin InHand /\ UNCHANGED <<link, ifindex>> /\ mpc' # "gone"
    BY <1>1, Zenon DEF ProvisionBegin, ProvisionScan, ProvisionLoop, ProvisionFree, Return, End, InHand
  <2> QED
    BY <2>1, ClaimFrame, Zenon
<1>2. CASE ProvisionCreate
  <2>1. mpc = "pv_create" /\ ifindex' = ifindex /\ mpc' \in {"idle", "pv_clsact"}
        /\ (link' # link => /\ mpc' = "pv_clsact" /\ new' \in Indices /\ ms' = ms
                            /\ link' = [link EXCEPT ![new'] = <<kind, ms>>])
    BY <1>2, Zenon DEF ProvisionCreate, Return, End
  <2>2. CASE link' = link
    BY <2>1, <2>2, ClaimFrame, Zenon DEF InHand
  <2>3. CASE link' # link
    <3>1. ASSUME NEW i \in Indices, NEW s \in Slots, NEW k \in Kinds, link'[i] = <<k, s>>
          PROVE  i = ifindex[s] \/ (s = ms /\ i = new')
      <4>1. CASE i = new'
        BY <4>1, <2>1, <2>3, <3>1, <1>w DEF WireTypes
      <4>2. CASE i # new'
        <5>1. link[i] = <<k, s>>
          BY <4>2, <2>1, <2>3, <3>1, <1>w DEF WireTypes
        <5> QED
          BY <5>1, <2>1, Zenon DEF Claimed, Pending
      <4> QED
        BY <4>1, <4>2
    <3> QED
      BY <2>1, <2>3, <3>1, Zenon DEF Claimed, Pending
  <2> QED
    BY <2>2, <2>3
<1>3. CASE ProvisionClsact \/ ProvisionUnmap \/ ProvisionMode \/ ProvisionDrop
  <2>1. UNCHANGED <<link, ifindex, ms, old, new>>
        /\ \/ mpc = "pv_clsact" /\ mpc' = "pv_unmap"
           \/ mpc = "pv_unmap" /\ mpc' = "pv_info"
           \/ mpc = "pv_mode" /\ mpc' = "pv_map"
           \/ mpc = "pv_drop" /\ mpc' = "pv_droplink"
    BY <1>3, Zenon DEF ProvisionClsact, ProvisionUnmap, ProvisionMode, ProvisionDrop
  <2> QED
    BY <2>1, Zenon DEF Claimed, Pending
<1>4. CASE ProvisionInfo
  <2>1. /\ mpc = "pv_info" /\ mpc' = "pv_mode" /\ ms \in Slots /\ old = ifindex[ms]
        /\ UNCHANGED <<link, ms, old, new>>
        /\ ifindex' = [ifindex EXCEPT ![ms] = new]
    BY <1>4, <1>t, Zenon DEF ProvisionInfo, AtSlot, RevInv, Progress
  <2>2. ifindex'[ms] = new /\ \A s \in Slots : s # ms => ifindex'[s] = ifindex[s]
    BY <1>t, <2>1
  <2>3. /\ \A i \in Indices, s \in Slots : Pending(i, s) => s = ms /\ i = new
        /\ \A i \in Indices, s \in Slots : s = ms /\ i = old => Pending(i, s)'
    BY <2>1, Zenon DEF Pending
  <2>4. ASSUME NEW i \in Indices, NEW s \in Slots, NEW k \in Kinds, link[i] = <<k, s>>
        PROVE  i = ifindex'[s] \/ Pending(i, s)'
    <3>1. i = ifindex[s] \/ (s = ms /\ i = new)
      BY <2>3, <2>4, Zenon DEF Claimed
    <3> QED
      BY <2>1, <2>2, <2>3, <3>1, Zenon
  <2> QED
    BY <2>1, <2>4, Zenon DEF Claimed
<1>5. CASE ProvisionMap
  <2>1. /\ mpc = "pv_map" /\ mpc' = AfterMap /\ ifindex[ms] = new /\ new \in Indices
        /\ link[new] = <<kind, ms>>
        /\ UNCHANGED <<link, ifindex, ms, old, new>>
    BY <1>5, <1>w, <1>t, Zenon DEF ProvisionMap, NewDevice, Fetched, RevInv, Progress
  <2>2. old # 0 /\ ~swap => old = new
    <3>1. old # 0 /\ ~swap => link[old] = link[new] /\ link[old] # NoLink
      <4>1. old # 0 /\ ~swap => link[old] = <<kind, ms>>
        BY <2>1, <1>w, Zenon DEF OldDevice, Fetched
      <4>2. link[new] # NoLink
        BY <2>1, <1>t, <1>w, Zenon DEF WireTypes, AtSlot
      <4> QED
        BY <2>1, <4>1, <4>2, Zenon
    <3> QED
      BY <2>1, <3>1, <1>w, <1>t, Zenon DEF OneName
  <2>3. /\ \A i \in Indices, s \in Slots : Pending(i, s) => s = ms /\ i = old
        /\ \A i \in Indices, s \in Slots : s = ms /\ i = old /\ swap => Pending(i, s)'
        /\ mpc' # "gone"
    BY <2>1, Zenon DEF Pending, AfterMap
  <2>4. ASSUME NEW i \in Indices, NEW s \in Slots, NEW k \in Kinds, link[i] = <<k, s>>
        PROVE  i = ifindex[s] \/ Pending(i, s)'
    <3>1. i = ifindex[s] \/ (s = ms /\ i = old)
      BY <2>3, <2>4, Zenon DEF Claimed
    <3> QED
      BY <2>1, <2>2, <2>3, <3>1, Zenon
  <2> QED
    BY <2>1, <2>3, <2>4, Zenon DEF Claimed
<1>6. CASE ProvisionDropLink
  <2>1. /\ mpc = "pv_droplink" /\ mpc' = "pv_free" /\ ifindex' = ifindex
        /\ link' = [link EXCEPT ![old] = NoLink] /\ old \in Indices
    BY <1>6, <1>w, <1>t, Zenon DEF ProvisionDropLink, OldDevice
  <2>2. ASSUME NEW i \in Indices, NEW s \in Slots, NEW k \in Kinds, link'[i] = <<k, s>>
        PROVE  i # old /\ link[i] = <<k, s>>
    BY <2>1, <2>2, <1>w DEF WireTypes
  <2>3. \A i \in Indices, s \in Slots : Pending(i, s) => i = old
    BY <2>1, Zenon DEF Pending
  <2>4. ASSUME NEW i \in Indices, NEW s \in Slots, NEW k \in Kinds, link'[i] = <<k, s>>
        PROVE  i = ifindex[s]
    BY <2>2, <2>3, <2>4, Zenon DEF Claimed
  <2> QED
    BY <2>1, <2>4, Zenon DEF Claimed
<1> QED
  BY <1>1, <1>2, <1>3, <1>4, <1>5, <1>6, Zenon DEF Provision

\* ReleasePorts and the ends of the switch: a slot is cleared when its link is gone,
\* and the maps go when every slot is clear.
LEMMA ClaimRelease ==
  ASSUME Faults \subseteq {"create"}, RevInv, WireInv, Claimed,
         Release \/ StopReleased \/ StartReserved \/ Crash
  PROVE  Claimed'
<1> USE Sentinels DEF MGoto, LoopTo, slotVars, devVars, provVars, relVars
<1>w. WireTypes /\ OldDevice
  BY Zenon DEF WireInv
<1>t. /\ ifindex \in [Slots -> Indices \cup {0}]
      /\ mpc \in AtSlot => ms \in Slots
  BY Zenon DEF RevInv, Types
<1>1. CASE ReleaseLoops
  <2>1. mpc \notin InHand /\ UNCHANGED <<link, ifindex>> /\ mpc' # "gone"
    BY <1>1, <1>w, LoopsKeepWires, Zenon DEF WireTypes, InHand, Wires
  <2> QED
    BY <2>1, ClaimFrame, Zenon
<1>2. CASE ReleaseLink
  <2>1. /\ mpc = "rl_link" /\ ifindex' = ifindex /\ mpc' # "gone"
        /\ link' = link \/ link' = [link EXCEPT ![ifindex[ms]] = NoLink]
    BY <1>2, Zenon DEF ReleaseLink, Return, End
  <2>2. \A i \in Indices, s \in Slots, k \in Kinds : link'[i] = <<k, s>> => link[i] = <<k, s>>
    <3> SUFFICES ASSUME NEW i \in Indices, NEW s \in Slots, NEW k \in Kinds, link'[i] = <<k, s>>
                 PROVE  link[i] = <<k, s>>
      OBVIOUS
    <3> QED
      BY <2>1, <1>w DEF WireTypes
  <2> QED
    BY <2>1, <2>2, ClaimFrame, Zenon DEF InHand
<1>3. CASE ReleaseMap
  <2>1. mpc = "rl_map" /\ UNCHANGED <<link, ifindex>> /\ mpc' # "gone"
    BY <1>3, Zenon DEF ReleaseMap, Return, End
  <2> QED
    BY <2>1, ClaimFrame, Zenon DEF InHand
<1>4. CASE ReleaseClear
  <2>1. /\ mpc = "rl_clear" /\ mpc' = "rl_link" /\ ms \in Slots /\ link' = link
        /\ ifindex' = [ifindex EXCEPT ![ms] = 0] /\ link[ifindex[ms]] = NoLink
    BY <1>4, <1>t, <1>w, Zenon DEF ReleaseClear, AtSlot, OldDevice
  <2>2. ASSUME NEW i \in Indices, NEW s \in Slots, NEW k \in Kinds, link[i] = <<k, s>>
        PROVE  i = ifindex'[s]
    <3>1. i = ifindex[s]
      BY <2>1, <2>2, Zenon DEF Claimed, Pending
    <3>2. s # ms
      <4>1. <<k, s>> # NoLink
        BY Zenon
      <4> QED
        BY <2>1, <2>2, <3>1, <4>1
    <3> QED
      BY <1>t, <2>1, <3>1, <3>2
  <2> QED
    BY <2>1, <2>2, Zenon DEF Claimed, Pending
<1>5. CASE StopReleased
  <2>1. mpc = "idle" /\ UNCHANGED <<link, ifindex>> /\ \A s \in Slots : ifindex[s] = 0
    BY <1>5, Zenon DEF StopReleased
  <2> QED
    BY <2>1, ClaimFrame, Zenon DEF InHand
<1>6. CASE StartReserved
  <2>1. mpc = "gone" /\ mpc' = "idle" /\ link' = link /\ ifindex' = [s \in Slots |-> 0]
    BY <1>6, Zenon DEF StartReserved, End
  <2>2. \A s \in Slots : ifindex'[s] = ifindex[s]
    BY <2>1, Zenon DEF Claimed
  <2> QED
    BY <2>1, <2>2, Zenon DEF Claimed, Pending
<1>7. ~Crash
  BY Zenon DEF Crash
<1> QED
  BY <1>1, <1>2, <1>3, <1>4, <1>5, <1>6, <1>7, Zenon DEF Release, ReleaseLoops

\* Between commands no port link is lost, for any number of ports and indices: every
\* one is the link its slot points to, in the mode of the slot.  Creation may fail; a
\* failed attachment of the block or deletion may leave a link behind.
THEOREM NoLinkForgotten ==
  ASSUME Faults \subseteq {"create"}
  PROVE  Spec => []NoOrphans
<1>0. "delete" \notin Faults /\ Faults \subseteq WireFaults
  BY Zenon DEF WireFaults
<1>1. Init => RevInv /\ WireInv /\ Claimed
  <2>1. Init => Claimed
    <3> SUFFICES ASSUME Init PROVE Claimed
      OBVIOUS
    <3>1. \A i \in Indices, s \in Slots, k \in Kinds : link[i] # <<k, s>>
      BY Sentinels DEF Init
    <3>2. mpc # "gone"
      BY DEF Init
    <3> QED
      BY <3>1, <3>2, Zenon DEF Claimed
  <2> QED
    BY <2>1, WireInit, Zenon
<1>2. (RevInv /\ WireInv /\ Claimed) /\ [Next]_vars => (RevInv /\ WireInv /\ Claimed)'
  <2> SUFFICES ASSUME RevInv, WireInv, Claimed, [Next]_vars
               PROVE  RevInv' /\ WireInv' /\ Claimed'
    BY Zenon
  <2>1. RevInv' /\ WireInv'
    BY <1>0, RevStep, WireStep, Zenon
  <2>2. Claimed'
    <3>1. CASE UNCHANGED vars
      BY <3>1, Zenon DEF Claimed, Pending, vars, slotVars, devVars, provVars
    <3>2. CASE \E s \in Slots : Attach(s) \/ Detach(s) \/ Reserve(s)
      <4>1. UNCHANGED <<link, ifindex, mpc, ms, old, new>>
        BY <3>2, Zenon DEF Attach, Detach, Reserve, slotVars, devVars, provVars
      <4> QED
        BY <4>1, Zenon DEF Claimed, Pending
    <3> QED
      BY <3>1, <3>2, ClaimProvision, ClaimRelease, Zenon DEF Next
  <2> QED
    BY <2>1, <2>2, Zenon
<1>3. WireInv /\ Claimed => NoOrphans
  <2> SUFFICES ASSUME WireInv, Claimed, mpc = "idle",
                      NEW i \in Indices, NEW s \in Slots, NEW k \in Kinds, link[i] = <<k, s>>
               PROVE  ifindex[s] = i /\ mode[s] = k
    BY Zenon DEF NoOrphans
  <2>1. ifindex[s] = i
    BY Zenon DEF Claimed, Pending
  <2>2. i # 0
    BY Sentinels, Zenon
  <2>3. link[i] = <<mode[s], s>>
    BY <2>1, <2>2, Zenon DEF WireInv, Settled, Wired, Rewiring
  <2> QED
    BY <2>1, <2>3
<1> QED
  BY <1>1, <1>2, <1>3, PTL DEF Spec

-----------------------------------------------------------------------------
(* The health check, beside commands that may fail in every way. *)

\* The types of the mode of a slot and of the kind a command provisions.
ModeTypes == mode \in [Slots -> {"veth", "tap"}] /\ kind \in Kinds

\* Every step of the commands keeps their types, and the modes of the slots.
LEMMA TypesStep ==
  ASSUME Types, ModeTypes, Next
  PROVE  Types' /\ ModeTypes'
<1> USE Sentinels DEF MGoto, LoopTo, slotVars, devVars, provVars, relVars
<1>1. Types'
  BY TypesProvision, TypesRelease, Zenon DEF Next
<1>2. \/ mode' = mode \/ mode' = [mode EXCEPT ![ms] = kind] \/ mode' = [s \in Slots |-> "veth"]
  <2>1. CASE Provision
    BY <2>1, Zenon DEF Provision, ProvisionBegin, ProvisionScan, ProvisionLoop, ProvisionCreate,
       ProvisionClsact, ProvisionUnmap, ProvisionInfo, ProvisionMode, ProvisionMap, ProvisionDrop,
       ProvisionDropLink, ProvisionFree
  <2>2. CASE ReleaseLoops
    BY <2>2, LoopsKeepWires, Zenon DEF Wires, ModeTypes
  <2>3. CASE ReleaseLink \/ ReleaseMap \/ ReleaseClear \/ StopReleased \/ StartReserved \/ Crash
    BY <2>3, Zenon DEF ReleaseLink, ReleaseMap, ReleaseClear, StopReleased, StartReserved, Crash
  <2>4. CASE \E s \in Slots : Attach(s) \/ Detach(s) \/ Reserve(s)
    BY <2>4, Zenon DEF Attach, Detach, Reserve
  <2> QED
    BY <2>1, <2>2, <2>3, <2>4, Zenon DEF Next, Release, ReleaseLoops
<1>3. kind' \in Kinds
  <2>1. CASE Provision
    BY <2>1, Zenon DEF Provision, ProvisionBegin, ProvisionScan, ProvisionLoop, ProvisionCreate,
       ProvisionClsact, ProvisionUnmap, ProvisionInfo, ProvisionMode, ProvisionMap, ProvisionDrop,
       ProvisionDropLink, ProvisionFree, Return, End, ModeTypes
  <2>2. CASE ReleaseLoops
    BY <2>2, LoopsKeepWires, Zenon DEF ModeTypes
  <2>3. CASE ReleaseLink \/ ReleaseMap \/ ReleaseClear \/ StopReleased \/ StartReserved \/ Crash
    BY <2>3, Zenon DEF ReleaseLink, ReleaseMap, ReleaseClear, StopReleased, StartReserved, Crash,
       Return, End, ModeTypes
  <2>4. CASE \E s \in Slots : Attach(s) \/ Detach(s) \/ Reserve(s)
    BY <2>4, Zenon DEF Attach, Detach, Reserve, ModeTypes
  <2> QED
    BY <2>1, <2>2, <2>3, <2>4, Zenon DEF Next, Release, ReleaseLoops
<1> QED
  BY <1>1, <1>2, <1>3 DEF ModeTypes

\* The steps of ProvisionPorts behind writeSlotDeviceInfo.
Written == {"pv_mode", "pv_map", "pv_drop", "pv_droplink", "pv_free"}

\* Slots carry the indices of the management and transit devices before they open.
Informed ==
    /\ \A s \in Slots : status[s] # "Reserved" => s \in info
    /\ mpc \in Written => ms \in info

\* A port is opened by the last step of ProvisionPorts only, and new maps are closed.
LEMMA OpenedLast ==
  ASSUME Types, Next, NEW s \in Slots, status'[s] # "Reserved"
  PROVE  /\ status[s] # "Reserved" \/ (mpc = "pv_free" /\ s = ms)
         /\ ~(mpc = "gone" /\ mpc' = "idle")
<1> USE DEF MGoto, LoopTo, slotVars, devVars, provVars, relVars
<1>s. status \in [Slots -> {"Free", "Reserved", "Allocated"}] /\ (mpc \in AtSlot => ms \in Slots)
  BY Zenon DEF Types
<1>1. CASE Provision
  <2>1. mpc # "gone" /\ (status' = status \/ (mpc = "pv_free" /\ status' = [status EXCEPT ![ms] = "Free"]))
    BY <1>1, Zenon DEF Provision, ProvisionBegin, ProvisionScan, ProvisionLoop, ProvisionCreate,
       ProvisionClsact, ProvisionUnmap, ProvisionInfo, ProvisionMode, ProvisionMap, ProvisionDrop,
       ProvisionDropLink, ProvisionFree
  <2> QED
    BY <1>s, <2>1
<1>2. CASE Release \/ Crash
  <2>1. mpc # "gone" /\ (status' = status \/ status' = [status EXCEPT ![ms] = "Reserved"])
    BY <1>2, Zenon DEF Release, ReleaseBegin, ReleaseCount, ReleaseScan, ReleaseCAS, ReleaseRecount,
       ReleaseAll, ReleaseAllCAS, ReleaseCollect, ReleaseLink, ReleaseMap, ReleaseClear, Crash
  <2> QED
    BY <1>s, <2>1
<1>3. CASE StopReleased
  BY <1>3, Zenon DEF StopReleased
<1>4. ~StartReserved
  BY Zenon DEF StartReserved
<1>5. CASE \E t \in Slots : Attach(t) \/ Detach(t) \/ Reserve(t)
  <2>1. PICK t \in Slots : Attach(t) \/ Detach(t) \/ Reserve(t)
    BY <1>5, Zenon
  <2>2. mpc # "gone"
    BY <2>1 DEF Attach, Detach, Reserve
  <2>3. status[s] # "Reserved"
    BY <1>s, <2>1 DEF Attach, Detach, Reserve
  <2> QED
    BY <2>2, <2>3, Zenon
<1> QED
  BY <1>1, <1>2, <1>3, <1>4, <1>5, Zenon DEF Next

\* Behind writeSlotDeviceInfo the command stays with its slot.
LEMMA WrittenFollows ==
  ASSUME Next, mpc' \in Written
  PROVE  ms' = ms /\ (mpc \in Written \/ (mpc = "pv_info" /\ mpc' = "pv_mode")) /\ mpc # "gone"
<1> USE DEF MGoto, LoopTo, Written, slotVars, devVars, provVars, relVars
<1>1. CASE Provision
  <2>1. CASE ProvisionBegin \/ ProvisionScan \/ ProvisionCreate \/ ProvisionClsact \/ ProvisionUnmap
    BY <2>1, Zenon DEF ProvisionBegin, ProvisionScan, ProvisionLoop, ProvisionCreate, ProvisionClsact,
       ProvisionUnmap, Return, End
  <2>2. CASE ProvisionInfo \/ ProvisionMode \/ ProvisionMap \/ ProvisionDrop \/ ProvisionDropLink
    BY <2>2, Zenon DEF ProvisionInfo, ProvisionMode, ProvisionMap, ProvisionDrop, ProvisionDropLink,
       Return, End
  <2>3. CASE ProvisionFree
    BY <2>3, Zenon DEF ProvisionFree, Return, End
  <2> QED
    BY <1>1, <2>1, <2>2, <2>3, Zenon DEF Provision
<1>2. ~(Release \/ Crash \/ StopReleased \/ StartReserved)
  BY Zenon DEF Release, ReleaseBegin, ReleaseCount, ReleaseScan, ReleaseCAS, ReleaseRecount,
     ReleaseAll, ReleaseAllCAS, ReleaseCollect, ReleaseLink, ReleaseMap, ReleaseClear, Crash,
     StopReleased, StartReserved, Return, End
<1>3. CASE \E t \in Slots : Attach(t) \/ Detach(t) \/ Reserve(t)
  BY <1>3, Zenon DEF Attach, Detach, Reserve
<1> QED
  BY <1>1, <1>2, <1>3, Zenon DEF Next

\* The commands keep the slots informed, and no slot is forgotten but with its maps.
LEMMA InformedStep ==
  ASSUME Types, Informed, Next, info' = InfoAfter
  PROVE  Informed' /\ (info \subseteq info' \/ (mpc = "gone" /\ mpc' = "idle"))
<1>1. info \subseteq info' \/ (mpc = "gone" /\ mpc' = "idle")
  BY DEF InfoAfter
<1>2. ASSUME NEW s \in Slots, status'[s] # "Reserved"
      PROVE  s \in info'
  <2>1. /\ status[s] # "Reserved" \/ (mpc = "pv_free" /\ s = ms)
        /\ ~(mpc = "gone" /\ mpc' = "idle")
    BY <1>2, OpenedLast, Zenon
  <2>2. s \in info
    BY <2>1, Zenon DEF Informed, Written
  <2> QED
    BY <1>1, <2>1, <2>2, Zenon
<1>3. ASSUME mpc' \in Written
      PROVE  ms' \in info'
  <2>1. ms' = ms /\ (mpc \in Written \/ (mpc = "pv_info" /\ mpc' = "pv_mode")) /\ mpc # "gone"
    BY <1>3, WrittenFollows, Zenon
  <2>2. CASE mpc \in Written
    BY <1>1, <2>1, <2>2, Zenon DEF Informed
  <2>3. CASE mpc = "pv_info" /\ mpc' = "pv_mode"
    BY <2>1, <2>3 DEF InfoAfter
  <2> QED
    BY <2>1, <2>2, <2>3, Zenon
<1> QED
  BY <1>1, <1>2, <1>3, Zenon DEF Informed

\* What a check knows.  A slot that was read and that no command took over since has
\* the device that was read, and once the links are listed the list says whether that
\* device exists; a slot that is read carries the management and transit indices.
CheckTypes ==
    check \in [at : {"none", "owner", "ifindex", "list", "sum", "report"}, slot : Positions,
               ports : SUBSET (Slots \X (Indices \cup {0})), mgmt : BOOLEAN,
               listed : SUBSET Indices, taken : SUBSET Slots, partial : BOOLEAN,
               lost : BOOLEAN, missing : SUBSET Slots, ready : BOOLEAN]

StillAsRead ==
    \A s \in Slots, d \in Indices \cup {0} :
        <<s, d>> \in check.ports /\ s \notin check.taken =>
            /\ ifindex[s] = d
            /\ check.at = "sum" /\ d # 0 => (d \in check.listed <=> link[d] # NoLink)

ReadInformed ==
    /\ check.at = "ifindex" => check.slot \in Slots /\ check.slot \in info
    /\ check.ports # {} => check.mgmt
    /\ check.at = "none" => check = NoCheck

HealthInv == Types /\ ModeTypes /\ Informed /\ CheckTypes /\ StillAsRead /\ ReadInformed

\* A step of the commands beside the check.
LEMMA ControlKeepsCheck ==
  ASSUME HealthInv, ControlStep
  PROVE  HealthInv'
<1>1. /\ Types /\ ModeTypes /\ Informed /\ CheckTypes /\ StillAsRead /\ ReadInformed
      /\ Next /\ info' = InfoAfter
  BY Zenon DEF HealthInv, ControlStep
<1>2. Types' /\ ModeTypes' /\ Informed'
  BY <1>1, TypesStep, InformedStep, Zenon
<1>3. CASE check' = check /\ check.at = "none"
  <2>1. check.ports = {} /\ check'.ports = {}
    BY <1>1, <1>3 DEF ReadInformed, NoCheck
  <2> QED
    BY <1>1, <1>2, <1>3, <2>1 DEF HealthInv, CheckTypes, StillAsRead, ReadInformed
<1>4. CASE check.at # "none" /\ check' = [check EXCEPT !.taken = @ \cup Taken]
  <2>1. Taken \subseteq Slots
    BY <1>1 DEF Taken, WasRead, CheckTypes, ReadInformed
  <2>2. CheckTypes'
    BY <1>1, <1>4, <2>1 DEF CheckTypes
  <2>3. /\ check'.at = check.at /\ check'.slot = check.slot /\ check'.ports = check.ports
        /\ check'.mgmt = check.mgmt /\ check'.listed = check.listed
        /\ check'.taken = check.taken \cup Taken
    BY <1>1, <1>4 DEF CheckTypes
  <2>4. ~(mpc = "gone" /\ mpc' = "idle")
    BY <1>4, Zenon DEF ControlStep
  <2>5. info \subseteq info'
    BY <1>1, <2>4, InformedStep, Zenon
  <2>6. ReadInformed'
    BY <1>1, <1>4, <2>3, <2>5, Zenon DEF ReadInformed
  <2>7. StillAsRead'
    <3> SUFFICES ASSUME NEW s \in Slots, NEW d \in Indices \cup {0},
                        <<s, d>> \in check.ports, s \notin check'.taken
                 PROVE  /\ ifindex'[s] = d
                        /\ check.at = "sum" /\ d # 0 => (d \in check.listed <=> link'[d] # NoLink)
      BY <2>3, Zenon DEF StillAsRead
    <3>1. s \in WasRead /\ s \notin Taken /\ s \notin check.taken
      BY <2>3 DEF WasRead
    <3>2. ifindex'[s] = ifindex[s] /\ (ifindex[s] # 0 => link'[ifindex[s]] = link[ifindex[s]])
      BY <3>1, Zenon DEF Taken
    <3>3. ifindex[s] = d /\ (check.at = "sum" /\ d # 0 => (d \in check.listed <=> link[d] # NoLink))
      BY <1>1, <3>1, Zenon DEF StillAsRead
    <3> QED
      BY <3>2, <3>3, Zenon
  <2> QED
    BY <1>2, <2>2, <2>6, <2>7, Zenon DEF HealthInv
<1> QED
  BY <1>3, <1>4, Zenon DEF ControlStep

\* A step of the check itself.
LEMMA StatusKeepsCheck ==
  ASSUME HealthInv, StatusStep
  PROVE  HealthInv'
<1>1. /\ Types /\ ModeTypes /\ Informed /\ CheckTypes /\ StillAsRead /\ ReadInformed
  BY Zenon DEF HealthInv
<1>2. UNCHANGED <<status, ifindex, mode, rev, link, tc, mpc, ms, sel, kind, old, new, fresh, swap,
                  force, round, todo, seen, info>>
  BY Zenon DEF StatusStep, StatusBegin, ReadOwner, ReadIfindex, ListLinks, Summarize,
     StatusReport, vars, slotVars, devVars, provVars, relVars
<1>3. Types' /\ ModeTypes' /\ Informed'
  BY <1>1, <1>2, ZenonT(60) DEF Types, ModeTypes, Informed
<1>4. NoCheck \in [at : {"none", "owner", "ifindex", "list", "sum", "report"}, slot : Positions,
                   ports : SUBSET (Slots \X (Indices \cup {0})), mgmt : BOOLEAN,
                   listed : SUBSET Indices, taken : SUBSET Slots, partial : BOOLEAN,
                   lost : BOOLEAN, missing : SUBSET Slots, ready : BOOLEAN]
  BY Loops DEF NoCheck
<1>5. CASE StatusBegin
  <2>1. check' = [NoCheck EXCEPT !.at = "owner"]
    BY <1>5 DEF StatusBegin, Following
  <2>2. CheckTypes' /\ check'.ports = {} /\ check'.at = "owner"
    BY <1>4, <2>1, Zenon DEF CheckTypes, NoCheck
  <2> QED
    BY <1>3, <2>2 DEF HealthInv, StillAsRead, ReadInformed
<1>6. CASE ReadOwner
  <2>1. /\ check.at = "owner"
        /\ \/ check' = [check EXCEPT !.at = "list", !.slot = 0]
           \/ check.slot # N_ports /\ check' = [check EXCEPT !.slot = @ + 1]
           \/ /\ check.slot # N_ports /\ status[check.slot] # "Reserved"
              /\ check' = [check EXCEPT !.at = "ifindex"]
    BY <1>6 DEF ReadOwner, Following
  <2>2. check.slot # N_ports => check.slot \in Slots
    BY <1>1, Loops DEF CheckTypes
  <2>3. CheckTypes'
    BY <1>1, <2>1, <2>2, Loops, Zenon DEF CheckTypes
  <2>4. /\ check'.at \in {"owner", "list", "ifindex"} /\ check'.ports = check.ports
        /\ check'.taken = check.taken /\ check'.mgmt = check.mgmt
        /\ check'.at = "ifindex" => /\ check'.slot = check.slot /\ check.slot \in Slots
                                    /\ status[check.slot] # "Reserved"
    BY <1>1, <2>1, <2>2, Zenon DEF CheckTypes
  <2>5. StillAsRead' /\ ReadInformed'
    BY <1>1, <1>2, <2>4, Zenon DEF StillAsRead, ReadInformed, Informed
  <2> QED
    BY <1>3, <2>3, <2>5, Zenon DEF HealthInv
<1>7. CASE ReadIfindex
  <2>1. check.at = "ifindex" /\ check.slot \in Slots /\ check.slot \in info
    BY <1>1, <1>7, Zenon DEF ReadIfindex, ReadInformed
  <2>2. check' = [check EXCEPT !.at = "owner", !.slot = @ + 1,
                               !.ports = @ \cup {<<check.slot, ifindex[check.slot]>>},
                               !.mgmt = @ \/ check.slot \in info]
    BY <1>7, Zenon DEF ReadIfindex
  <2>3. ifindex[check.slot] \in Indices \cup {0}
    BY <1>1, <2>1, Zenon DEF Types
  <2>4. /\ check'.at = "owner" /\ check'.mgmt = TRUE
        /\ check'.ports = check.ports \cup {<<check.slot, ifindex[check.slot]>>}
        /\ check'.taken = check.taken
    BY <1>1, <2>1, <2>2, Zenon DEF CheckTypes
  <2>5. CheckTypes'
    <3>1. /\ check.slot + 1 \in Positions
          /\ check.ports \in SUBSET (Slots \X (Indices \cup {0}))
          /\ <<check.slot, ifindex[check.slot]>> \in Slots \X (Indices \cup {0})
          /\ (check.mgmt \/ check.slot \in info) \in BOOLEAN
      BY <1>1, <2>1, <2>3, Loops, Zenon DEF CheckTypes
    <3>2. check.ports \cup {<<check.slot, ifindex[check.slot]>>} \in SUBSET (Slots \X (Indices \cup {0}))
      BY <3>1, Zenon
    <3> QED
      BY <1>1, <2>2, <3>1, <3>2, Zenon DEF CheckTypes
  <2>6. ReadInformed'
    BY <2>4 DEF ReadInformed
  <2>7. StillAsRead'
    BY <1>1, <1>2, <2>4 DEF StillAsRead
  <2> QED
    BY <1>3, <2>5, <2>6, <2>7, Zenon DEF HealthInv
<1>8. CASE check' = NoCheck
  <2>1. CheckTypes'
    BY <1>4, <1>8, Zenon DEF CheckTypes
  <2>2. check'.ports = {} /\ check'.at = "none"
    BY <1>8 DEF NoCheck
  <2> QED
    BY <1>3, <1>8, <2>1, <2>2 DEF HealthInv, StillAsRead, ReadInformed
<1>9. CASE \E part \in SUBSET Indices, lost \in BOOLEAN, cut \in BOOLEAN : check' = Summary(part, lost, cut)
  <2>1. PICK part \in SUBSET Indices, lost \in BOOLEAN, cut \in BOOLEAN : check' = Summary(part, lost, cut)
    BY <1>9
  <2>2. Missing(part) \subseteq Slots
    BY <1>1 DEF Missing, CheckTypes
  <2>3. CheckTypes'
    BY <1>4, <2>1, <2>2, Zenon DEF CheckTypes, Summary
  <2>4. check'.ports = {} /\ check'.at = "report"
    BY <2>1 DEF Summary, NoCheck
  <2> QED
    BY <1>3, <2>3, <2>4 DEF HealthInv, StillAsRead, ReadInformed
<1>10. CASE /\ check.at = "list"
            /\ check' = [check EXCEPT !.at = "sum", !.listed = {i \in Indices : link[i] # NoLink}]
  <2>1. CheckTypes'
    BY <1>1, <1>10, Zenon DEF CheckTypes
  <2>2. /\ check'.at = "sum" /\ check'.ports = check.ports /\ check'.taken = check.taken
        /\ check'.mgmt = check.mgmt /\ check'.listed = {i \in Indices : link[i] # NoLink}
    BY <1>1, <1>10 DEF CheckTypes
  <2>3. StillAsRead'
    BY <1>1, <1>2, <2>2, Zenon DEF StillAsRead
  <2>4. ReadInformed'
    BY <1>1, <2>2, Zenon DEF ReadInformed
  <2> QED
    BY <1>3, <2>1, <2>3, <2>4, Zenon DEF HealthInv
<1>11. CASE ListLinks
  <2>1. Following("list") = "sum"
    BY DEF Following
  <2>2. SUBSET {i \in Indices : link[i] # NoLink} \subseteq SUBSET Indices
    OBVIOUS
  <2> QED
    BY <1>8, <1>9, <1>10, <1>11, <2>1, <2>2, Zenon DEF ListLinks
<1>12. CASE Summarize
  <2>1. check.listed \in SUBSET Indices
    BY <1>1 DEF CheckTypes
  <2> QED
    BY <1>9, <1>12, <2>1, Zenon DEF Summarize
<1> QED
  BY <1>5, <1>6, <1>7, <1>8, <1>11, <1>12, Zenon DEF StatusStep, StatusReport

\* A check stands where no command has run.
LEMMA HealthInit0 == HealthInit => HealthInv
<1> SUFFICES ASSUME HealthInit PROVE HealthInv
  OBVIOUS
<1>1. Types /\ ModeTypes
  BY TypesInit, Sentinels DEF HealthInit, Init, ModeTypes
<1>2. Informed
  BY DEF HealthInit, Init, Informed, Written
<1>3. check = NoCheck
  BY DEF HealthInit
<1>4. CheckTypes
  BY <1>3, Loops DEF CheckTypes, NoCheck
<1>5. StillAsRead /\ ReadInformed
  BY <1>3 DEF StillAsRead, ReadInformed, NoCheck
<1> QED
  BY <1>1, <1>2, <1>4, <1>5, Zenon DEF HealthInv

\* Every step of the commands and of the check.
LEMMA HealthStep == HealthInv /\ [HealthNext]_allVars => HealthInv'
<1> SUFFICES ASSUME HealthInv, [HealthNext]_allVars PROVE HealthInv'
  OBVIOUS
<1>1. CASE UNCHANGED allVars
  <2>1. UNCHANGED <<status, ifindex, mode, rev, link, tc, mpc, ms, sel, kind, old, new, fresh, swap,
                    force, round, todo, seen, info, check>>
    BY <1>1, Zenon DEF allVars, healthVars, vars, slotVars, devVars, provVars, relVars
  <2>2. Types' /\ ModeTypes' /\ Informed'
    BY <2>1, ZenonT(60) DEF HealthInv, Types, ModeTypes, Informed
  <2>3. CheckTypes' /\ StillAsRead' /\ ReadInformed'
    BY <2>1, ZenonT(60) DEF HealthInv, CheckTypes, StillAsRead, ReadInformed
  <2> QED
    BY <2>2, <2>3, Zenon DEF HealthInv
<1> QED
  BY <1>1, ControlKeepsCheck, StatusKeepsCheck, Zenon DEF HealthNext

\* The result of a check follows from the last reading only in its last step.
LEMMA Concludes ==
  ASSUME HealthInv, [HealthNext]_allVars, Concluded
  PROVE  \E lost \in BOOLEAN : check' = Summary(check.listed, lost, FALSE)
<1>1. check.at = "sum" /\ check'.at = "report" /\ CheckTypes
  BY Zenon DEF Concluded, HealthInv
<1>2. ~UNCHANGED allVars
  BY <1>1, Zenon DEF allVars, healthVars
<1>3. ~ControlStep
  BY <1>1 DEF ControlStep, CheckTypes
<1> QED
  BY <1>1, <1>2, <1>3, Zenon DEF HealthNext, StatusStep, StatusBegin, ReadOwner, ReadIfindex, ListLinks,
     Summarize, StatusReport

\* However the commands interleave with the two readings, and whatever fails in them, a
\* completed check reports a port missing only if a command took it over or it is not
\* wired: the slots are read before the links.
THEOREM CheckIsFair == HealthSpec => NoFalseAlarm
<1>1. ASSUME HealthInv, [HealthNext]_allVars, Concluded
      PROVE  \A s \in check'.missing : s \in check.taken \/ ~Wired(s)
  <2> SUFFICES ASSUME NEW s \in check'.missing, s \notin check.taken, Wired(s) PROVE FALSE
    BY Zenon
  <2>1. /\ Types /\ ModeTypes /\ CheckTypes /\ StillAsRead /\ check.at = "sum"
    BY <1>1, Zenon DEF HealthInv, Concluded
  <2>2. check'.missing = Missing(check.listed)
    BY <1>1, Concludes, Zenon DEF Summary, NoCheck
  <2>3. PICK d \in check.ports : d[2] \notin check.listed /\ s = d[1]
    BY <2>2 DEF Missing
  <2>4. s \in Slots /\ d[2] \in Indices \cup {0} /\ <<s, d[2]>> \in check.ports
    BY <2>1, <2>3 DEF CheckTypes
  <2>5. ifindex[s] = d[2] /\ (d[2] # 0 => link[d[2]] = NoLink)
    BY <2>1, <2>3, <2>4, Zenon DEF StillAsRead
  <2>6. <<mode[s], s>> # NoLink
    BY <2>1, <2>4, Sentinels, Zenon DEF ModeTypes
  <2> QED
    BY <2>5, <2>6, Zenon DEF Wired
<1>2. HealthInv /\ [HealthNext]_allVars =>
        [Concluded => \A s \in check'.missing : s \in check.taken \/ ~Wired(s)]_allVars
  BY <1>1, Zenon
<1> QED
  BY <1>2, HealthInit0, HealthStep, PTL DEF HealthSpec, NoFalseAlarm

\* A completed check that read a port in use cannot miss the loss of the management or
\* of the transit device.
THEOREM LossIsSeen == HealthSpec => LossReported
<1>1. ASSUME HealthInv, [HealthNext]_allVars, Concluded, check.ports # {}, check'.lost
      PROVE  ~check'.ready
  <2>1. check.mgmt
    BY <1>1, Zenon DEF HealthInv, ReadInformed
  <2>2. PICK lost \in BOOLEAN : check' = Summary(check.listed, lost, FALSE)
    BY <1>1, Concludes, Zenon
  <2>3. check'.lost = lost /\ check'.ready = (Missing(check.listed) = {} /\ ~(check.mgmt /\ lost))
    BY <2>2 DEF Summary, NoCheck
  <2> QED
    BY <1>1, <2>1, <2>3, Zenon
<1>2. HealthInv /\ [HealthNext]_allVars =>
        [Concluded /\ check.ports # {} /\ check'.lost => ~check'.ready]_allVars
  BY <1>1, Zenon
<1> QED
  BY <1>2, HealthInit0, HealthStep, PTL DEF HealthSpec, LossReported
=============================================================================
