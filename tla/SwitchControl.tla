--------------------------- MODULE SwitchControl ---------------------------
(***************************************************************************)
(* The life of one switch name: StartReserved with its rollback            *)
(* (pkg/vswitch/lifecycle.go), ProvisionPorts, ReleasePorts and            *)
(* StopReleased (stop.go), Reserve, Stats, ForceCleanup (errors.go), Open  *)
(* (context.go) and the control lock (flock.go).                           *)
(*                                                                         *)
(* The name is the pin directory.  The lock is a flock on the inode that   *)
(* the name led to when the command opened it, and StopReleased, a failed  *)
(* Start and ForceCleanup remove the directory while others hold it open   *)
(* or wait for its lock.  After the lock every command looks the name up   *)
(* again.  Only Reserve and Stats compare what they find with what they    *)
(* had opened.                                                             *)
(*                                                                         *)
(* A Start that makes the directory is numbered by it; the number also     *)
(* names the map set it loads and the devices it creates, so an interface  *)
(* index is never used twice.  Of the port devices it only matters here    *)
(* whether there are any: PortDevices has them one by one.                 *)
(***************************************************************************)
EXTENDS Naturals, FiniteSets

CONSTANTS
    Procs,      \* processes that run commands
    Commands,   \* Commands[p]: the commands p runs
    N_planes,   \* len(cfg.MgmtExtracts)
    MaxStarts,  \* bound: pin directories made
    MaxFaults,  \* bound: calls to the kernel that fail
    MaxCrashes, \* bound: processes killed inside a command
    NoOne

ByName == {"start", "provision", "release", "stopreleased"}
Verified == {"reserve", "stats"}

ASSUME CommandAssumption == Commands \in [Procs -> SUBSET (ByName \cup Verified)]
ASSUME BoundAssumption == {N_planes, MaxStarts, MaxFaults, MaxCrashes} \subseteq Nat
ASSUME NoOneAssumption == NoOne \notin Procs

Starts == 1 .. MaxStarts
Planes == 0 .. N_planes - 1

\* Interface indices of management devices: the plane and the Start that made it.
Index == Planes \X Starts

VARIABLES
    dir, made,      \* the directory of the name (0: none), directories made so far
    pin,            \* the map sets pinned in it as slots_v2 and as the other maps
    mset,           \* what each map set holds
    holder, shared, \* flock of each directory: exclusive holder, shared holders
    dummy, mgmt, transit, \* the Start that made <sw>-dummy and <sw>-m<i>, or moved
                    \* the transit device into the switch namespace (0: none)
    proc,           \* the command each process is in
    faults, crashes,
    excused         \* auxiliary: Starts of which something may stay behind

fsVars == <<dir, made, pin>>
lockVars == <<holder, shared>>
devVars == <<dummy, mgmt, transit>>
histVars == <<faults, crashes, excused>>
vars == <<fsVars, mset, lockVars, devVars, proc, histVars>>

NoPins == [slots |-> 0, rest |-> 0]

\* meta: the metadata is written; ports: the slots are as loaded ("free", no
\* devices), Reserved without devices ("none"), or provisioned ("ready");
\* mgmt: the management interface indices the slots hold.
Loaded == [meta |-> FALSE, ports |-> "free", mgmt |-> {}]

\* fd: the directory opened for the lock; ctx: the map set opened; sid: the Start
\* itself; dummyDevCreated .. callerNs: cleanupState; plane: loop variable.
\* gone: auxiliary, ctx was unpinned since it was verified.
Idle == [pc |-> "idle", cmd |-> "none", fd |-> 0, ctx |-> 0, sid |-> 0,
         dummyDevCreated |-> FALSE, mgmtIfindexes |-> {}, transitMoved |-> FALSE,
         callerNs |-> FALSE, plane |-> 0, gone |-> FALSE]

StartPCs == {"netns", "pinSlots", "pinRest", "dummy", "filter", "config", "slots",
             "mgmtAdd", "mgmtIndex", "mgmtConf", "services", "move", "transitConf",
             "undoTransit", "undoDummy", "undoMgmt", "undoPins"}
StopPCs == {"validate", "delMgmt", "moveBack", "delDummy", "unpin"}
PCs == {"idle", "open", "flock", "openSwitch", "verify", "corrupted", "existing",
        "provision", "release", "reserve", "read", "report"} \cup StartPCs \cup StopPCs

\* The state has its type: the lock of a directory has one writer or readers.
TypeOK ==
    /\ dir \in 0 .. made /\ made \in 0 .. MaxStarts
    /\ pin \in [slots : 0 .. made, rest : 0 .. made]
    /\ mset \in [Starts -> [meta : BOOLEAN, ports : {"free", "none", "ready"},
                            mgmt : SUBSET Index]]
    /\ holder \in [Starts -> Procs \cup {NoOne}]
    /\ shared \in [Starts -> SUBSET Procs]
    /\ \A d \in Starts : holder[d] # NoOne => shared[d] = {}
    /\ {dummy, transit} \subseteq 0 .. made
    /\ mgmt \in [Planes -> 0 .. made]
    /\ \A p \in Procs :
        /\ proc[p].pc \in PCs /\ {proc[p].fd, proc[p].ctx, proc[p].sid} \subseteq 0 .. made
        /\ proc[p].mgmtIfindexes \subseteq Index /\ proc[p].plane \in 0 .. N_planes
        /\ proc[p].callerNs => proc[p].pc \in {"transitConf", "undoTransit"}
    /\ faults \in 0 .. MaxFaults /\ crashes \in 0 .. MaxCrashes
    /\ excused \subseteq 1 .. made

Init ==
    /\ dir = 0 /\ made = 0 /\ pin = NoPins
    /\ mset = [d \in Starts |-> Loaded]
    /\ holder = [d \in Starts |-> NoOne] /\ shared = [d \in Starts |-> {}]
    /\ dummy = 0 /\ transit = 0 /\ mgmt = [i \in Planes |-> 0]
    /\ proc = [p \in Procs |-> Idle]
    /\ faults = 0 /\ crashes = 0 /\ excused = {}

At(p, pc) == proc[p].pc = pc

Go(p, pc) == proc' = [proc EXCEPT ![p].pc = pc]

\* One call to the kernel fails.
Fault == faults < MaxFaults /\ faults' = faults + 1

NoFault == faults' = faults

\* An error return: because of what the code finds, or because the call fails.
Errs(cause) == (cause /\ NoFault) \/ (~cause /\ Fault)

\* lock.Release (deferred), and the return of the command.
Release(p) ==
    /\ holder' = [d \in Starts |-> IF holder[d] = p THEN NoOne ELSE holder[d]]
    /\ shared' = [d \in Starts |-> shared[d] \ {p}]

Return(p) == proc' = [proc EXCEPT ![p] = Idle] /\ Release(p)

\* bpfUnpinMaps: os.RemoveAll of the name, whatever directory it now is.
UnpinMaps(p, next) ==
    /\ dir' = 0 /\ pin' = NoPins /\ UNCHANGED made
    /\ proc' = [q \in Procs |->
            IF q = p THEN next
            ELSE [proc[q] EXCEPT !.gone = @ \/ (proc[q].pc \in {"read", "reserve"}
                                                /\ proc[q].ctx = pin.slots)]]

-----------------------------------------------------------------------------
(* The lock and Open. *)

\* A command begins.  StartReserved makes the directory or finds it; the other
\* by-name commands go for the lock; Reserve and Stats open the switch first.
Begin(p, c) ==
    /\ At(p, "idle") /\ c \in Commands[p]
    /\ LET new == c = "start" /\ dir = 0
       IN  /\ new => made < MaxStarts
           /\ dir' = IF new THEN made + 1 ELSE dir
           /\ made' = IF new THEN made + 1 ELSE made
           /\ proc' = [proc EXCEPT ![p] = [Idle EXCEPT !.cmd = c,
                   !.pc = IF c \in Verified THEN "openSwitch" ELSE "open",
                   !.sid = IF new THEN made + 1 ELSE 0]]
    /\ UNCHANGED <<pin, mset, lockVars, devVars, histVars>>

\* acquireSwitchLock: os.Open of the name.
OpenLock(p) ==
    /\ At(p, "open")
    /\ \/ dir = 0 /\ Return(p)
       \/ /\ dir # 0
          /\ proc' = [proc EXCEPT ![p].fd = dir, ![p].pc = "flock"]
          /\ UNCHANGED lockVars
    /\ UNCHANGED <<fsVars, mset, devVars, histVars>>

AfterLock(p) ==
    IF proc[p].cmd \in Verified THEN "verify"
    ELSE IF proc[p].sid # 0 THEN "netns" ELSE "openSwitch"

\* flock on the opened directory.  LOCK_EX waits; Stats asks for LOCK_SH|LOCK_NB
\* and returns ErrStatsUnavailable when the lock is taken.
Flock(p) ==
    LET d == proc[p].fd IN
    /\ At(p, "flock")
    /\ \/ /\ proc[p].cmd # "stats" /\ holder[d] = NoOne /\ shared[d] = {}
          /\ holder' = [holder EXCEPT ![d] = p] /\ UNCHANGED shared
          /\ Go(p, AfterLock(p))
       \/ /\ proc[p].cmd = "stats" /\ holder[d] = NoOne
          /\ shared' = [shared EXCEPT ![d] = @ \cup {p}] /\ UNCHANGED holder
          /\ Go(p, AfterLock(p))
       \/ proc[p].cmd = "stats" /\ holder[d] # NoOne /\ Return(p)
    /\ UNCHANGED <<fsVars, mset, devVars, histVars>>

AfterOpen(p) ==
    CASE proc[p].cmd = "start" -> "existing"
      [] proc[p].cmd = "stopreleased" -> "validate"
      [] proc[p].cmd \in Verified -> "open"
      [] OTHER -> proc[p].cmd

\* openSwitch: all the pins, the configuration and the metadata, the mmap.  Any
\* failure once the directory exists is ErrSwitchCorrupted.
OpenSwitch(p) ==
    LET whole == pin.slots # 0 /\ pin.rest # 0 /\ mset[pin.rest].meta IN
    /\ At(p, "openSwitch")
    /\ \/ dir = 0 /\ Return(p) /\ NoFault
       \/ /\ whole /\ NoFault
          /\ proc' = [proc EXCEPT ![p].ctx = pin.slots, ![p].pc = AfterOpen(p)]
          /\ UNCHANGED lockVars
       \/ /\ dir # 0 /\ Errs(~whole)
          /\ Release(p)
          /\ proc' = [proc EXCEPT ![p] =
                  IF proc[p].cmd \in {"release", "stopreleased"}
                  THEN [Idle EXCEPT !.pc = "corrupted"] ELSE Idle]
    /\ UNCHANGED <<fsVars, mset, devVars, crashes, excused>>

\* Variant: the context is used without looking at what is pinned now.
VerifyBlind(p) ==
    /\ At(p, "verify")
    /\ Go(p, IF proc[p].cmd = "stats" THEN "read" ELSE "reserve")
    /\ UNCHANGED <<fsVars, mset, lockVars, devVars, histVars>>

\* verifyCurrentSwitch after the lock is taken.
Verify(p) ==
    /\ At(p, "verify")
    /\ \/ /\ pin.slots = proc[p].ctx
          /\ Go(p, IF proc[p].cmd = "stats" THEN "read" ELSE "reserve")
          /\ UNCHANGED lockVars
       \/ pin.slots # proc[p].ctx /\ Return(p)
    /\ UNCHANGED <<fsVars, mset, devVars, histVars>>

\* Variant: the second verification is left out.
ReadOnce(p) ==
    /\ At(p, "read") /\ Go(p, "report")
    /\ UNCHANGED <<fsVars, mset, lockVars, devVars, histVars>>

\* Stats: the counters are read, then the map identity is verified again.
Read(p) ==
    /\ At(p, "read")
    /\ \/ pin.slots = proc[p].ctx /\ Go(p, "report") /\ UNCHANGED lockVars
       \/ pin.slots # proc[p].ctx /\ Return(p)
    /\ UNCHANGED <<fsVars, mset, devVars, histVars>>

\* The commands whose effect on the slots is in PortSlots (Reserve), and the ones
\* that only read: an existing switch is reported, an observation is returned.
Finish(p) ==
    /\ proc[p].pc \in {"reserve", "report", "existing"}
    /\ Return(p)
    /\ UNCHANGED <<fsVars, mset, devVars, histVars>>

-----------------------------------------------------------------------------
(* StartReserved. *)

\* A step of Start fails, and the rollback begins.
Fails(p, cause) ==
    /\ Errs(cause)
    /\ Go(p, "undoTransit")

\* The namespaces, validateTransitDeviceEarly (the transit device is looked up in
\* the caller's namespace and must be down), and the BPF objects.
Prepare(p) ==
    /\ At(p, "netns")
    /\ \/ transit = 0 /\ NoFault /\ Go(p, "pinSlots")
       \/ Fails(p, transit # 0)
    /\ UNCHANGED <<fsVars, mset, lockVars, devVars, crashes, excused>>

\* PinMaps: slots_v2 first, then the seven others; a pin never replaces one.
PinMap(p, m, from, to) ==
    /\ At(p, from)
    /\ \/ /\ dir # 0 /\ pin[m] = 0
          /\ pin' = [pin EXCEPT ![m] = proc[p].sid] /\ NoFault /\ Go(p, to)
       \/ Fails(p, dir = 0 \/ pin[m] # 0) /\ UNCHANGED pin
    /\ UNCHANGED <<dir, made, mset, lockVars, devVars, crashes, excused>>

PinMaps(p) == PinMap(p, "slots", "pinSlots", "pinRest") \/ PinMap(p, "rest", "pinRest", "dummy")

\* CreateDummyLink: an existing link of that name is an error.
CreateDummyLink(p) ==
    /\ At(p, "dummy")
    /\ \/ dummy = 0 /\ dummy' = proc[p].sid /\ NoFault /\ Go(p, "filter")
       \/ Fails(p, dummy # 0) /\ UNCHANGED dummy
    /\ UNCHANGED <<fsVars, mset, lockVars, mgmt, transit, crashes, excused>>

\* The rest of the closure (clsact with the block, block filter).  Only after it
\* is dummyDevCreated set: when it fails, the device stays.
BlockFilter(p) ==
    /\ At(p, "filter")
    /\ \/ /\ NoFault /\ UNCHANGED excused
          /\ proc' = [proc EXCEPT ![p].dummyDevCreated = TRUE, ![p].pc = "config"]
       \/ Fails(p, dummy = 0) /\ excused' = excused \cup {proc[p].sid}
    /\ UNCHANGED <<fsVars, mset, lockVars, devVars, crashes>>

\* UpdateSwitchConfig and UpdateSwitchMetadata: from here on Open succeeds.
WriteConfig(p) ==
    /\ At(p, "config")
    /\ \/ NoFault /\ mset' = [mset EXCEPT ![proc[p].sid].meta = TRUE] /\ Go(p, "slots")
       \/ Fault /\ Go(p, "undoTransit") /\ UNCHANGED mset
    /\ UNCHANGED <<fsVars, lockVars, devVars, crashes, excused>>

AfterPlane(i) == IF i < N_planes THEN "mgmtAdd" ELSE "services"

\* The mmap, and InitSlotReserved of every slot.
InitSlotsReserved(p) ==
    /\ At(p, "slots")
    /\ \/ /\ NoFault /\ mset' = [mset EXCEPT ![proc[p].sid].ports = "none"]
          /\ Go(p, AfterPlane(0))
       \/ Fault /\ Go(p, "undoTransit") /\ UNCHANGED mset
    /\ UNCHANGED <<fsVars, lockVars, devVars, crashes, excused>>

\* createMgmtPlanes, one plane: CreateVethPairs,
MgmtAdd(p) ==
    LET i == proc[p].plane IN
    /\ At(p, "mgmtAdd")
    /\ \/ /\ mgmt[i] = 0
          /\ mgmt' = [mgmt EXCEPT ![i] = proc[p].sid] /\ NoFault /\ Go(p, "mgmtIndex")
       \/ Fails(p, mgmt[i] # 0) /\ UNCHANGED mgmt
    /\ UNCHANGED <<fsVars, mset, lockVars, dummy, transit, crashes, excused>>

\* then its end is brought up and its index looked up, and only then is the pair
\* in mgmtIfindexes: when one of the two fails, the pair stays,
MgmtIndex(p) ==
    LET i == proc[p].plane IN
    /\ At(p, "mgmtIndex")
    /\ \/ /\ mgmt[i] # 0 /\ NoFault /\ UNCHANGED excused
          /\ proc' = [proc EXCEPT ![p].mgmtIfindexes = @ \cup {<<i, mgmt[i]>>},
                                  ![p].pc = "mgmtConf"]
       \/ Fails(p, mgmt[i] = 0) /\ excused' = excused \cup {proc[p].sid}
    /\ UNCHANGED <<fsVars, mset, lockVars, devVars, crashes>>

\* then TC is attached, and the peer gets its address and the return routes.
MgmtConf(p) ==
    /\ At(p, "mgmtConf")
    /\ \/ /\ NoFault
          /\ proc' = [proc EXCEPT ![p].plane = @ + 1, ![p].pc = AfterPlane(proc[p].plane + 1)]
       \/ Fault /\ Go(p, "undoTransit")
    /\ UNCHANGED <<fsVars, mset, lockVars, devVars, crashes, excused>>

\* WriteMgmtServices and validateMTUSlowPath.
Services(p) ==
    /\ At(p, "services")
    /\ \/ NoFault /\ Go(p, "move")
       \/ Fault /\ Go(p, "undoTransit")
    /\ UNCHANGED <<fsVars, mset, lockVars, devVars, crashes, excused>>

\* Variant: transitMoved is only set once the device is configured.
MoveTransitUnmarked(p) ==
    /\ At(p, "move")
    /\ \/ /\ transit = 0 /\ transit' = proc[p].sid /\ NoFault
          /\ proc' = [proc EXCEPT ![p].callerNs = TRUE, ![p].pc = "transitConf"]
       \/ Fails(p, transit # 0) /\ UNCHANGED transit
    /\ UNCHANGED <<fsVars, mset, lockVars, dummy, mgmt, crashes, excused>>

\* configureTransitDevice: the move; callerNs is only kept when it succeeds.
MoveTransit(p) ==
    /\ At(p, "move")
    /\ \/ /\ transit = 0 /\ transit' = proc[p].sid /\ NoFault
          /\ proc' = [proc EXCEPT ![p].callerNs = TRUE, ![p].transitMoved = TRUE,
                                  ![p].pc = "transitConf"]
       \/ Fails(p, transit # 0) /\ UNCHANGED transit
    /\ UNCHANGED <<fsVars, mset, lockVars, dummy, mgmt, crashes, excused>>

\* MTU, up, DHCP with its updates of the configuration and the metadata, TC.  With
\* the last step StartReserved returns the new switch.
ConfigureTransit(p) ==
    /\ At(p, "transitConf")
    /\ \/ NoFault /\ Return(p)
       \/ Fails(p, transit = 0) /\ UNCHANGED lockVars
    /\ UNCHANGED <<fsVars, mset, devVars, crashes, excused>>

Build(p) ==
    \/ Prepare(p) \/ PinMaps(p) \/ CreateDummyLink(p) \/ BlockFilter(p)
    \/ WriteConfig(p) \/ InitSlotsReserved(p)
    \/ MgmtAdd(p) \/ MgmtIndex(p) \/ MgmtConf(p)
    \/ Services(p) \/ MoveTransit(p) \/ ConfigureTransit(p)

\* cleanup: an operation that fails three times (retryCleanup) is logged and
\* skipped; what it was to remove stays.
Undone(p) ==
    \/ NoFault /\ UNCHANGED excused
    \/ Fault /\ excused' = excused \cup {proc[p].sid}

UndoTransit(p) ==
    /\ At(p, "undoTransit")
    /\ \/ proc[p].transitMoved /\ proc[p].callerNs /\ transit # 0 /\ Undone(p)
          /\ transit' = IF faults' = faults THEN 0 ELSE transit
       \/ ~(proc[p].transitMoved /\ proc[p].callerNs /\ transit # 0)
          /\ NoFault /\ UNCHANGED <<transit, excused>>
    /\ proc' = [proc EXCEPT ![p].callerNs = FALSE, ![p].pc = "undoDummy"]
    /\ UNCHANGED <<fsVars, mset, lockVars, dummy, mgmt, crashes>>

\* By name: whichever device has it.
UndoDummy(p) ==
    /\ At(p, "undoDummy")
    /\ \/ proc[p].dummyDevCreated /\ dummy # 0 /\ Undone(p)
          /\ dummy' = IF faults' = faults THEN 0 ELSE dummy
       \/ ~(proc[p].dummyDevCreated /\ dummy # 0) /\ NoFault /\ UNCHANGED <<dummy, excused>>
    /\ Go(p, "undoMgmt")
    /\ UNCHANGED <<fsVars, mset, lockVars, mgmt, transit, crashes>>

\* By interface index, in the order of creation.
UndoMgmt(p) ==
    LET due == {x \in proc[p].mgmtIfindexes : mgmt[x[1]] = x[2]} IN
    /\ At(p, "undoMgmt")
    /\ \/ /\ due = {} /\ Go(p, "undoPins") /\ NoFault /\ UNCHANGED <<mgmt, excused>>
       \/ \E x \in due :
            /\ \A y \in due : x[1] <= y[1]
            /\ Undone(p)
            /\ mgmt' = IF faults' = faults THEN [mgmt EXCEPT ![x[1]] = 0] ELSE mgmt
            /\ proc' = [proc EXCEPT ![p].mgmtIfindexes = @ \ {x}]
    /\ UNCHANGED <<fsVars, mset, lockVars, dummy, transit, crashes>>

UndoPins(p) ==
    /\ At(p, "undoPins")
    /\ \/ UnpinMaps(p, Idle) /\ NoFault /\ Release(p)
       \/ Fault /\ Return(p) /\ UNCHANGED fsVars
    /\ UNCHANGED <<mset, devVars, crashes, excused>>

Cleanup(p) == UndoTransit(p) \/ UndoDummy(p) \/ UndoMgmt(p) \/ UndoPins(p)

-----------------------------------------------------------------------------
(* ProvisionPorts, ReleasePorts, StopReleased and ForceCleanup. *)

\* The management devices are looked up by name and their indices go into the
\* slots with the port devices; without one of them nothing is provisioned.
ProvisionPorts(p) ==
    LET c == proc[p].ctx
        found == \A i \in Planes : mgmt[i] # 0
    IN  /\ At(p, "provision")
        /\ \/ /\ found /\ NoFault
              /\ mset' = [mset EXCEPT ![c].ports = "ready", ![c].mgmt = {<<i, mgmt[i]>> : i \in Planes}]
           \/ Errs(~found) /\ UNCHANGED mset
        /\ Return(p)
        /\ UNCHANGED <<fsVars, devVars, crashes, excused>>

\* Every slot Reserved and without a device, or an error return.
ReleasePorts(p) ==
    /\ At(p, "release")
    /\ \/ NoFault /\ mset' = [mset EXCEPT ![proc[p].ctx].ports = "none"]
       \/ Fault /\ UNCHANGED mset
    /\ Return(p)
    /\ UNCHANGED <<fsVars, devVars, crashes, excused>>

\* validateAllReleased, and the management indices collected from the slots.
Validate(p) ==
    LET c == proc[p].ctx IN
    /\ At(p, "validate")
    /\ \/ /\ mset[c].ports = "none"
          /\ proc' = [proc EXCEPT ![p].mgmtIfindexes = mset[c].mgmt, ![p].pc = "delMgmt"]
          /\ UNCHANGED lockVars
       \/ mset[c].ports # "none" /\ Return(p)
    /\ UNCHANGED <<fsVars, mset, devVars, histVars>>

\* stopCommonCleanup.  An error returns with the switch still pinned.
StopFails(p) == Fault /\ Return(p)

\* The management devices the slots name are deleted; then the slots forget them.
DelMgmt(p) ==
    LET c == proc[p].ctx
        due == {x \in proc[p].mgmtIfindexes : mgmt[x[1]] = x[2]}
    IN  /\ At(p, "delMgmt")
        /\ \/ /\ due = {} /\ NoFault /\ Go(p, "moveBack")
              /\ mset' = [mset EXCEPT ![c].mgmt = {}] /\ UNCHANGED <<mgmt, lockVars>>
           \/ \E x \in due :
                /\ mgmt' = [mgmt EXCEPT ![x[1]] = 0] /\ NoFault
                /\ proc' = [proc EXCEPT ![p].mgmtIfindexes = @ \ {x}]
                /\ UNCHANGED <<mset, lockVars>>
           \/ due # {} /\ StopFails(p) /\ UNCHANGED <<mset, mgmt>>
        /\ UNCHANGED <<fsVars, dummy, transit, crashes, excused>>

\* The transit device goes back; when it is not there, that is no error.
MoveBack(p) ==
    /\ At(p, "moveBack")
    /\ \/ transit' = 0 /\ NoFault /\ Go(p, "delDummy") /\ UNCHANGED lockVars
       \/ StopFails(p) /\ UNCHANGED transit
    /\ UNCHANGED <<fsVars, mset, dummy, mgmt, crashes, excused>>

\* Variant: the block anchor is left to the next Start.
DelDummySkipped(p) ==
    /\ At(p, "delDummy") /\ Go(p, "unpin")
    /\ UNCHANGED <<fsVars, mset, lockVars, devVars, histVars>>

\* The block anchor, by name.
DelDummy(p) ==
    /\ At(p, "delDummy")
    /\ \/ dummy' = 0 /\ NoFault /\ Go(p, "unpin") /\ UNCHANGED lockVars
       \/ StopFails(p) /\ UNCHANGED dummy
    /\ UNCHANGED <<fsVars, mset, mgmt, transit, crashes, excused>>

\* UnpinMaps.  A switch that was never provisioned has no management index in
\* its slots: its management devices stay.
Unpin(p) ==
    LET c == proc[p].ctx IN
    /\ At(p, "unpin")
    /\ \/ /\ UnpinMaps(p, Idle) /\ NoFault /\ Release(p)
          /\ excused' = IF \E i \in Planes : mgmt[i] = c THEN excused \cup {c} ELSE excused
       \/ StopFails(p) /\ UNCHANGED <<fsVars, excused>>
    /\ UNCHANGED <<mset, devVars, crashes>>

StopReleased(p) == Validate(p) \/ DelMgmt(p) \/ MoveBack(p) \/ DelDummy(p) \/ Unpin(p)

\* `stop` that met ErrSwitchCorrupted: with --force-clean it calls ForceCleanup,
\* which takes no lock and leaves the devices; otherwise it returns the error.
ForceCleanup(p) ==
    /\ At(p, "corrupted")
    /\ \/ /\ dir # 0 /\ UnpinMaps(p, Idle)
          /\ excused' = (excused \cup {dir, pin.slots, pin.rest}) \ {0}
       \/ proc' = [proc EXCEPT ![p] = Idle] /\ UNCHANGED <<fsVars, excused>>
    /\ UNCHANGED <<mset, lockVars, devVars, faults, crashes>>

\* The process is killed; the kernel releases its lock.
Crash(p) ==
    /\ ~At(p, "idle") /\ crashes < MaxCrashes /\ crashes' = crashes + 1
    /\ Return(p)
    /\ UNCHANGED <<fsVars, mset, devVars, faults, excused>>

Step(p) ==
    \/ OpenLock(p) \/ Flock(p) \/ OpenSwitch(p) \/ Verify(p) \/ Read(p) \/ Finish(p)
    \/ Build(p) \/ Cleanup(p)
    \/ ProvisionPorts(p) \/ ReleasePorts(p) \/ StopReleased(p) \/ ForceCleanup(p)

Next == \E p \in Procs : Step(p) \/ Crash(p) \/ \E c \in Commands[p] : Begin(p, c)

Spec == Init /\ [][Next]_vars

-----------------------------------------------------------------------------
(* Properties. *)

\* Nothing is left without a name to find it by: a device of the switch, and the
\* transit device in the switch namespace, belong to the Start whose directory is
\* there, so that `stop` can remove them.  The exceptions are the ones the code
\* knows of or logs: the two windows of the rollback, a cleanup call that fails, a
\* forced cleanup, and StopReleased of a switch that was never provisioned.
NothingStranded ==
    \A s \in {dummy, transit} \cup {mgmt[i] : i \in Planes} : s \in {0, dir} \cup excused

\* Start finds what Stop and the rollback of an earlier Start left: when no call to
\* the kernel failed and nothing was excused, it never meets a leftover device, a
\* pin or a transit device that is still away, and so never rolls back.
RestartSucceeds ==
    \A p \in Procs : At(p, "undoTransit") => faults > 0 \/ excused # {}

\* Reserve and Stats, which opened the switch before they waited for the lock, only
\* use it while it is the one pinned under the name and while they hold the lock of
\* its directory, whatever stopped and started in between; a forced cleanup is the
\* exception.
VerifiedIsCurrent ==
    \A p \in Procs : proc[p].pc \in {"reserve", "read"} =>
        \/ proc[p].ctx = pin.slots /\ proc[p].fd = dir
        \/ proc[p].ctx \in excused

\* An observation that Stats returns was read from a switch that stayed pinned from
\* the first verification to the last, also under ForceCleanup, which takes no lock.
ObservationStands ==
    \A p \in Procs : At(p, "report") => ~proc[p].gone

\* StopReleased cleans up "mgmt devices, transit device, dummy device, and BPF maps"
\* (stop.go): when it has removed the directory, no device of that Start is left.
StopRemovesDevices ==
    \A s \in 1 .. made : s # dir =>
        s \notin {dummy, transit} \cup {mgmt[i] : i \in Planes}

\* The control lock makes Start, ProvisionPorts, ReleasePorts and StopReleased
\* exclusive: none of them works on a switch that a Start is still building.
ControlExclusive ==
    \A p, q \in Procs : proc[p].pc \in StartPCs \ {"netns", "pinSlots"} =>
        ~(proc[q].pc \in StopPCs \cup {"provision", "release"} /\ proc[q].ctx = proc[p].sid)

=============================================================================
