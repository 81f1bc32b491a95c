----------------------------- MODULE PortSlots -----------------------------
(***************************************************************************)
(* The slot table of a switch, shared by lock-free attachment calls and by *)
(* management commands.                                                    *)
(*                                                                         *)
(* Attach, SetPortUp and Detach (pkg/vswitch/attach.go, port_up.go) run    *)
(* without any lock in many processes.  They synchronise only through the  *)
(* CAS operations on SlotItem.InnerIP (pkg/internal/bpfmap/cas.go).        *)
(* Reserve and ProvisionPorts hold the exclusive flock of the switch, so   *)
(* one of them at a time runs; they race with the lock-free calls.         *)
(*                                                                         *)
(* One step is one access to shared state: an atomic load, store or CAS,   *)
(* one UpdateSlotFields callback, one map syscall, one device move.        *)
(* Validation of arguments touches nothing shared and is merged into the   *)
(* step that follows it.                                                   *)
(*                                                                         *)
(* The caller contract is the one of docs/vswitch.md ("Control-operation   *)
(* concurrency", "Deferred port activation"): a client orders the calls of *)
(* its own attachment, and management reopens a Reserved port only across  *)
(* a strict boundary, here: when no client still has a call or a handle on *)
(* that port (Quiet).                                                      *)
(***************************************************************************)
EXTENDS Naturals

CONSTANTS
    N_ports,        \* SwitchConfig.N_ports
    Clients,        \* processes that attach, activate and detach ports
    IPs,            \* inner addresses that are not ownership sentinels
    Configs,        \* transit fields, options and generation of a request
    OptLen,         \* length of the marshalled opaque options of a config
    LocatorLen,     \* length of the generated TLV locator, 0 without TLV
    Requests,       \* the requests clients make
    Modes,          \* device kinds that ProvisionPorts is called with
    Free, Reserved, \* the ownership sentinels 0 and 0xFFFFFFFF
    NoConfig,       \* the zero value of transit fields and options
    Unpublished,    \* the generation ^uint32(0)
    NoOne, Control  \* owners of a Free and of a Reserved slot

ASSUME PortsAssumption == N_ports \in Nat \ {0}
ASSUME SentinelAssumption == Free # Reserved /\ Free \notin IPs /\ Reserved \notin IPs
ASSUME OwnerAssumption == NoOne # Control /\ NoOne \notin Clients /\ Control \notin Clients
ASSUME ConfigAssumption == NoConfig \notin Configs /\ Unpublished \notin Configs \cup {NoConfig}
ASSUME LengthAssumption == OptLen \in [Configs -> Nat] /\ LocatorLen \in Nat
ASSUME RequestAssumption == Requests \subseteq [ip : IPs, cfg : Configs]
ASSUME ModeAssumption == Modes \subseteq {"veth", "tap"}

Slots == 0 .. N_ports - 1
PortFUp == 1
NoReq == [ip |-> Free, cfg |-> NoConfig]

VARIABLES
    innerIP, flags, statsReady, generation, transit, optsLen,
                    \* the mmapped SlotItem array, field by field
    opts,           \* the geneve_opts map
    dev,            \* the device: "none", "tap", or where the veth end is
    owner, want,    \* auxiliary: who won the slot, what it is promised
    pc,             \* the point of its call each client is at
    slot, req, cur, \* its slot, its request, the address it compares with
    mpc, mslot, mcur \* the same for the command that holds the control lock

ownVars == <<innerIP, owner, want>>
fieldVars == <<flags, statsReady, generation, transit, optsLen>>
tables == <<ownVars, fieldVars, opts, dev>>
clientVars == <<pc, slot, req, cur>>
mgmtVars == <<mpc, mslot, mcur>>
vars == <<tables, clientVars, mgmtVars>>

IsSlotAllocated(ip) == ip \notin {Free, Reserved}

AttachPCs == {"at_ready", "at_reset", "at_opts", "at_move", "at_moved", "at_check",
              "at_publish", "at_stats", "at_up", "at_rollback"}
PortUpPCs == {"up_check", "up_opts", "up_recheck", "up_fields", "up_cas",
              "up_verify", "up_store"}
DetachPCs == {"de_move", "de_check", "de_down", "de_opts", "de_cas"}

\* At rest a client has no port ("idle"), a port whose Attach returned ("held"),
\* or one that a failed or killed call left for it to detach ("partial").
RestPCs == {"idle", "held", "partial"}

\* The client has won a slot and has not yet given it up.
Engaged(c) == pc[c] \in {"held", "partial"} \cup AttachPCs \cup PortUpPCs \cup DetachPCs

\* The strict boundary of a Reserved -> Free transition.
Quiet(s) == \A c \in Clients : ~(Engaged(c) /\ slot[c] = s)

TypeOK ==
    /\ innerIP \in [Slots -> IPs \cup {Free, Reserved}]
    /\ flags \in [Slots -> {0, PortFUp}]
    /\ statsReady \in [Slots -> {0, 1}]
    /\ generation \in [Slots -> Configs \cup {Unpublished, NoConfig}]
    /\ transit \in [Slots -> Configs \cup {NoConfig}]
    /\ optsLen \in [Slots -> Nat]
    /\ opts \in [Slots -> Configs \cup {NoConfig}]
    /\ dev \in [Slots -> {"none", "tap", "port", "sandbox"}]
    /\ owner \in [Slots -> Clients \cup {NoOne, Control}]
    /\ want \in [Slots -> [ip : IPs \cup {Free}, cfg : Configs \cup {NoConfig},
                           gen : Configs \cup {NoConfig}]]
    /\ pc \in [Clients -> RestPCs \cup {"claim", "scan"} \cup AttachPCs \cup PortUpPCs \cup DetachPCs]
    /\ slot \in [Clients -> Slots]
    /\ req \in [Clients -> Requests \cup {NoReq}]
    /\ cur \in [Clients -> IPs \cup {Free}]
    /\ mpc \in {"idle", "rs_ready", "fo_read", "fo_cas", "fo_clean", "pr_down", "pr_free"}
    /\ mslot \in Slots
    /\ mcur \in IPs \cup {Free}

\* The table StartReserved leaves: every slot Reserved, no device yet.
Init ==
    /\ innerIP = [s \in Slots |-> Reserved]
    /\ flags = [s \in Slots |-> 0]
    /\ statsReady = [s \in Slots |-> 0]
    /\ generation = [s \in Slots |-> NoConfig]
    /\ transit = [s \in Slots |-> NoConfig]
    /\ optsLen = [s \in Slots |-> 0]
    /\ opts = [s \in Slots |-> NoConfig]
    /\ dev = [s \in Slots |-> "none"]
    /\ owner = [s \in Slots |-> Control]
    /\ want = [s \in Slots |-> [ip |-> Free, cfg |-> NoConfig, gen |-> NoConfig]]
    /\ pc = [c \in Clients |-> "idle"]
    /\ slot = [c \in Clients |-> 0]
    /\ req = [c \in Clients |-> NoReq]
    /\ cur = [c \in Clients |-> Free]
    /\ mpc = "idle" /\ mslot = 0 /\ mcur = Free

-----------------------------------------------------------------------------
(* Control flow of a client. *)

\* Continue the call at another point.
Goto(c, l) == pc' = [pc EXCEPT ![c] = l] /\ UNCHANGED <<slot, req, cur>>

\* The call returns and the client has no port.
Return(c) ==
    /\ pc' = [pc EXCEPT ![c] = "idle"]
    /\ slot' = [slot EXCEPT ![c] = 0]
    /\ req' = [req EXCEPT ![c] = NoReq]
    /\ cur' = [cur EXCEPT ![c] = Free]

\* The call returns and the client keeps the port handle.
Hold(c, l) ==
    /\ pc' = [pc EXCEPT ![c] = l]
    /\ req' = [req EXCEPT ![c] = NoReq]
    /\ cur' = [cur EXCEPT ![c] = Free]
    /\ UNCHANGED slot

\* The takeover test of the calls: the owner word is not the expected address.
TakenOver(c) == innerIP[slot[c]] # cur[c]

\* A step of a call that stores fields of the slot item and nothing else.
Store(c, from, to) ==
    /\ pc[c] = from
    /\ Goto(c, to)
    /\ UNCHANGED <<ownVars, opts, dev, mgmtVars>>

-----------------------------------------------------------------------------
(* CAS operations of MmappedSlots.  Each is the one atomic access. *)

\* A winning CAS sets the owner word.
Swap(s, ip, who) ==
    /\ innerIP' = [innerIP EXCEPT ![s] = ip]
    /\ owner' = [owner EXCEPT ![s] = who]

\* Variant: a slot that already has the requested address counts as won.
TryAllocateSameAddress(s, ip, who) == innerIP[s] \in {Free, ip} /\ Swap(s, ip, who)

\* CAS(Free -> ip).  The StatsReady store that follows it is a step of its own.
TryAllocate(s, ip, who) == innerIP[s] = Free /\ Swap(s, ip, who)

\* CAS(current -> Free), won or lost.
TryRelease(s, current) ==
    IF innerIP[s] = current THEN Swap(s, Free, NoOne) ELSE UNCHANGED <<innerIP, owner>>

\* CAS(current -> Reserved).
TryReserve(s, current) == innerIP[s] = current /\ Swap(s, Reserved, Control)

-----------------------------------------------------------------------------
(* Attach. *)

\* Variant: a contender writes the transit fields before it wins the CAS.
AttachBeginWritesEarly(c) ==
    /\ pc[c] = "idle"
    /\ \E r \in Requests, s \in Slots :
         /\ req' = [req EXCEPT ![c] = r]
         /\ cur' = [cur EXCEPT ![c] = r.ip]
         /\ slot' = [slot EXCEPT ![c] = s]
         /\ transit' = [transit EXCEPT ![s] = r.cfg]
    /\ pc' = [pc EXCEPT ![c] = "claim"]
    /\ UNCHANGED <<ownVars, flags, statsReady, generation, optsLen, opts, dev, mgmtVars>>

\* A request for port s, or for any port (FindFreeSlot scans from slot 0).
AttachBegin(c) ==
    /\ pc[c] = "idle"
    /\ \E r \in Requests :
         /\ req' = [req EXCEPT ![c] = r]
         /\ cur' = [cur EXCEPT ![c] = r.ip]
    /\ \/ /\ \E s \in Slots : slot' = [slot EXCEPT ![c] = s]
          /\ pc' = [pc EXCEPT ![c] = "claim"]
       \/ /\ slot' = [slot EXCEPT ![c] = 0]
          /\ pc' = [pc EXCEPT ![c] = "scan"]
    /\ UNCHANGED <<tables, mgmtVars>>

\* The CAS that acquires ownership.
AttachClaim(c) ==
    /\ pc[c] \in {"claim", "scan"}
    /\ TryAllocate(slot[c], cur[c], c)
    /\ want' = [want EXCEPT ![slot[c]] =
                  [ip |-> req[c].ip, cfg |-> req[c].cfg, gen |-> req[c].cfg]]
    /\ Goto(c, "at_ready")
    /\ UNCHANGED <<fieldVars, opts, dev, mgmtVars>>

\* Where a lost CAS leads: on to slot n, or to the error return.
LostCAS(c, onward, n) ==
    /\ pc[c] \in {"claim", "scan"}
    /\ innerIP[slot[c]] # Free
    /\ IF onward THEN slot' = [slot EXCEPT ![c] = n] /\ UNCHANGED <<pc, req, cur>>
                 ELSE Return(c)
    /\ UNCHANGED <<tables, mgmtVars>>

\* Variant: the scan runs one slot past the table.
AttachLostOffByOne(c) == LostCAS(c, pc[c] = "scan" /\ slot[c] < N_ports, slot[c] + 1)

\* Variant: the scan starts over instead of failing after the last slot.
AttachLostWraps(c) == LostCAS(c, pc[c] = "scan", (slot[c] + 1) % N_ports)

\* An explicit request fails with ErrPortAllocated; a scan goes on to the next
\* slot and fails after the last one.
AttachLost(c) == LostCAS(c, pc[c] = "scan" /\ slot[c] + 1 < N_ports, slot[c] + 1)

\* The StatsReady store of TryAllocate, after the CAS.
AttachReady(c) ==
    /\ Store(c, "at_ready", "at_reset")
    /\ statsReady' = [statsReady EXCEPT ![slot[c]] = 0]
    /\ UNCHANGED <<flags, generation, transit, optsLen>>

\* The first mmap update: down, unpublished, options hint zero, and every
\* retained transit field overwritten.
AttachReset(c) ==
    /\ Store(c, "at_reset", "at_opts")
    /\ statsReady' = [statsReady EXCEPT ![slot[c]] = 0]
    /\ flags' = [flags EXCEPT ![slot[c]] = 0]
    /\ generation' = [generation EXCEPT ![slot[c]] = Unpublished]
    /\ optsLen' = [optsLen EXCEPT ![slot[c]] = 0]
    /\ transit' = [transit EXCEPT ![slot[c]] = req[c].cfg]

\* The whole fixed-size options value is written.  An unprovisioned tap slot or
\* a failing map update leads to the rollback.
AttachOpts(c) ==
    /\ pc[c] = "at_opts"
    /\ \/ opts' = [opts EXCEPT ![slot[c]] = req[c].cfg] /\ Goto(c, "at_move")
       \/ UNCHANGED opts /\ Goto(c, "at_rollback")
    /\ UNCHANGED <<ownVars, fieldVars, dev, mgmtVars>>

\* validateAttachMTU runs only for a non-zero wire length.
MTUMayFail(cfg) == OptLen[cfg] + LocatorLen # 0

\* MTU validation and, for veth with a target namespace, the device move.  The
\* move fails when a namespace is gone or the device is not in the port
\* namespace; SkipDevice and an empty ToNetNS leave the device alone.
AttachMove(c) ==
    LET s == slot[c] IN
    /\ pc[c] = "at_move"
    /\ \/ UNCHANGED dev /\ Goto(c, "at_check")
       \/ dev[s] = "port" /\ dev' = [dev EXCEPT ![s] = "sandbox"] /\ Goto(c, "at_moved")
       \/ (MTUMayFail(req[c].cfg) \/ dev[s] # "tap") /\ UNCHANGED dev /\ Goto(c, "at_rollback")
    /\ UNCHANGED <<ownVars, fieldVars, opts, mgmtVars>>

\* An observed takeover ends the call; nothing is rolled back.
AttachCheck(c) ==
    /\ pc[c] \in {"at_moved", "at_check"}
    /\ IF TakenOver(c) THEN Return(c) ELSE Goto(c, "at_publish")
    /\ UNCHANGED <<tables, mgmtVars>>

\* The second mmap update: options hint and attachment generation.
AttachPublish(c) ==
    /\ Store(c, "at_publish", "at_stats")
    /\ optsLen' = [optsLen EXCEPT ![slot[c]] = OptLen[req[c].cfg]]
    /\ generation' = [generation EXCEPT ![slot[c]] = req[c].cfg]
    /\ UNCHANGED <<flags, statsReady, transit>>

\* ResetStats may fail; only its success makes the counters readable.
AttachStats(c) ==
    /\ Store(c, "at_stats", "at_up")
    /\ statsReady' = [statsReady EXCEPT ![slot[c]] = 1] \/ UNCHANGED statsReady
    /\ UNCHANGED <<flags, generation, transit, optsLen>>

\* Dataplane-up is the last store; AdminDown leaves it out.
AttachUp(c) ==
    /\ pc[c] = "at_up"
    /\ flags' = [flags EXCEPT ![slot[c]] = PortFUp] \/ UNCHANGED flags
    /\ Hold(c, "held")
    /\ UNCHANGED <<ownVars, statsReady, generation, transit, optsLen, opts, dev, mgmtVars>>

\* Variant: the rollback stores Free instead of comparing first.
AttachRollbackStore(c) ==
    /\ pc[c] = "at_rollback"
    /\ Swap(slot[c], Free, NoOne)
    /\ Return(c)
    /\ UNCHANGED <<want, fieldVars, opts, dev, mgmtVars>>

\* rollbackClaim: release the claim unless management has taken it over.
AttachRollback(c) ==
    /\ pc[c] = "at_rollback"
    /\ TryRelease(slot[c], cur[c])
    /\ Return(c)
    /\ UNCHANGED <<want, fieldVars, opts, dev, mgmtVars>>

-----------------------------------------------------------------------------
(* SetPortUp. *)

\* The call of a completed attachment with its final request: the address is
\* loaded, then the up bit.  A port that is not attached or already up is
\* refused (no state changes).  The two loads are one step: the first check
\* that follows compares with the loaded address again.
PortUpBegin(c) ==
    /\ pc[c] = "held"
    /\ IsSlotAllocated(innerIP[slot[c]])
    /\ flags[slot[c]] # PortFUp
    /\ \E r \in Requests : req' = [req EXCEPT ![c] = r]
    /\ cur' = [cur EXCEPT ![c] = innerIP[slot[c]]]
    /\ pc' = [pc EXCEPT ![c] = "up_check"]
    /\ UNCHANGED <<tables, slot, mgmtVars>>

\* A takeover check of SetPortUp: before and after the map syscall, and after
\* the address CAS.
PortUpCheck(c) ==
    /\ \/ pc[c] = "up_check" /\ ~TakenOver(c) /\ Goto(c, "up_opts")
       \/ pc[c] = "up_recheck" /\ ~TakenOver(c) /\ Goto(c, "up_fields")
       \/ pc[c] = "up_verify" /\ ~TakenOver(c) /\ Goto(c, "up_store")
       \/ pc[c] \in {"up_check", "up_recheck", "up_verify"} /\ TakenOver(c) /\ Hold(c, "held")
    /\ UNCHANGED <<tables, mgmtVars>>

\* MTU validation fails before anything is written.
PortUpInvalid(c) ==
    /\ pc[c] = "up_check"
    /\ MTUMayFail(req[c].cfg)
    /\ Hold(c, "held")
    /\ UNCHANGED <<tables, mgmtVars>>

\* The options map syscall, which may fail.
PortUpOpts(c) ==
    /\ pc[c] = "up_opts"
    /\ \/ opts' = [opts EXCEPT ![slot[c]] = req[c].cfg] /\ Goto(c, "up_recheck")
       \/ UNCHANGED opts /\ Hold(c, "held")
    /\ UNCHANGED <<ownVars, fieldVars, dev, mgmtVars>>

\* Variant: SetPortUp patches the options hint and keeps the transit fields.
PortUpFieldsPatch(c) ==
    /\ Store(c, "up_fields", "up_cas")
    /\ optsLen' = [optsLen EXCEPT ![slot[c]] = OptLen[req[c].cfg]]
    /\ UNCHANGED <<flags, statsReady, generation, transit>>

\* Options hint and transit fields of the final request.
PortUpFields(c) ==
    /\ Store(c, "up_fields", "up_cas")
    /\ optsLen' = [optsLen EXCEPT ![slot[c]] = OptLen[req[c].cfg]]
    /\ transit' = [transit EXCEPT ![slot[c]] = req[c].cfg]
    /\ UNCHANGED <<flags, statsReady, generation>>

\* A winning address change within Allocated.
CommitAddress(c) ==
    LET s == slot[c] IN
    /\ innerIP' = [innerIP EXCEPT ![s] = req[c].ip]
    /\ want' = [want EXCEPT ![s] = [ip |-> req[c].ip, cfg |-> req[c].cfg, gen |-> @.gen]]
    /\ pc' = [pc EXCEPT ![c] = "up_verify"]
    /\ cur' = [cur EXCEPT ![c] = req[c].ip]
    /\ UNCHANGED <<slot, req>>

\* Variant: the final address is stored without comparing.
PortUpCommitStore(c) ==
    /\ pc[c] = "up_cas"
    /\ CommitAddress(c)
    /\ UNCHANGED <<owner, fieldVars, opts, dev, mgmtVars>>

\* TryUpdateInnerIP: CAS(current -> newIP).
PortUpCommit(c) ==
    /\ pc[c] = "up_cas"
    /\ IF TakenOver(c) THEN Hold(c, "held") /\ UNCHANGED <<innerIP, want>> ELSE CommitAddress(c)
    /\ UNCHANGED <<owner, fieldVars, opts, dev, mgmtVars>>

\* The publication.
PortUpStore(c) ==
    /\ pc[c] = "up_store"
    /\ flags' = [flags EXCEPT ![slot[c]] = PortFUp]
    /\ Hold(c, "held")
    /\ UNCHANGED <<ownVars, statsReady, generation, transit, optsLen, opts, dev, mgmtVars>>

-----------------------------------------------------------------------------
(* Detach. *)

\* The address is loaded; a Free or Reserved port is not attached, and the
\* client has no use for its handle any more.
DetachBegin(c) ==
    /\ pc[c] \in {"held", "partial"}
    /\ IF IsSlotAllocated(innerIP[slot[c]])
       THEN /\ cur' = [cur EXCEPT ![c] = innerIP[slot[c]]]
            /\ pc' = [pc EXCEPT ![c] = "de_move"]
            /\ UNCHANGED <<slot, req>>
       ELSE Return(c)
    /\ UNCHANGED <<tables, mgmtVars>>

\* The idempotent move back.  It is skipped for tap and with SkipDevice; a
\* failure is an error return that leaves the attachment as it is.
DetachMove(c) ==
    LET s == slot[c] IN
    /\ pc[c] = "de_move"
    /\ \/ UNCHANGED dev /\ Goto(c, "de_check")
       \/ dev[s] = "sandbox" /\ dev' = [dev EXCEPT ![s] = "port"] /\ Goto(c, "de_check")
       \/ dev[s] # "tap" /\ UNCHANGED dev /\ Hold(c, "partial")
    /\ UNCHANGED <<ownVars, fieldVars, opts, mgmtVars>>

\* An observed takeover is respected.
DetachCheck(c) ==
    /\ pc[c] = "de_check"
    /\ IF TakenOver(c) THEN Return(c) ELSE Goto(c, "de_down")
    /\ UNCHANGED <<tables, mgmtVars>>

\* Publication is revoked after all fallible work.
DetachDown(c) ==
    /\ Store(c, "de_down", "de_opts")
    /\ flags' = [flags EXCEPT ![slot[c]] = 0]
    /\ UNCHANGED <<statsReady, generation, transit, optsLen>>

\* The options hint is cleared.
DetachOpts(c) ==
    /\ Store(c, "de_opts", "de_cas")
    /\ optsLen' = [optsLen EXCEPT ![slot[c]] = 0]
    /\ UNCHANGED <<flags, statsReady, generation, transit>>

\* The release CAS is the last access; a lost one finds a takeover.
DetachRelease(c) ==
    /\ pc[c] = "de_cas"
    /\ TryRelease(slot[c], cur[c])
    /\ Return(c)
    /\ UNCHANGED <<want, fieldVars, opts, dev, mgmtVars>>

-----------------------------------------------------------------------------
(* The process of a client dies inside a call.  The mmapped table keeps what *)
(* was stored.  The owner of the attachment knows that the outcome is        *)
(* unknown: it retries a SetPortUp, and detaches otherwise.                  *)

Crash(c) ==
    /\ \/ pc[c] \in {"claim", "scan"} /\ Return(c)
       \/ pc[c] \in AttachPCs \cup DetachPCs /\ Hold(c, "partial")
       \/ pc[c] \in PortUpPCs /\ Hold(c, "held")
    /\ UNCHANGED <<tables, mgmtVars>>

-----------------------------------------------------------------------------
(* Management commands, serialised by the exclusive flock. *)

MGoto(l) == mpc' = l /\ UNCHANGED <<mslot, mcur>>

MStart(l, s) == mpc = "idle" /\ mpc' = l /\ mslot' = s /\ UNCHANGED mcur

MReturn == mpc' = "idle" /\ mslot' = 0 /\ mcur' = Free

\* reserve without --force: CAS(Free -> Reserved) through TryAllocate.
ReserveFree(s) ==
    /\ MStart("rs_ready", s)
    /\ TryAllocate(s, Reserved, Control)
    /\ UNCHANGED <<want, fieldVars, opts, dev, clientVars>>

\* The StatsReady store of TryAllocate.
ReserveReady ==
    /\ mpc = "rs_ready"
    /\ statsReady' = [statsReady EXCEPT ![mslot] = 0]
    /\ MReturn
    /\ UNCHANGED <<ownVars, flags, generation, transit, optsLen, opts, dev, clientVars>>

\* reserve --force enters its CAS loop.
ForceBegin(s) == MStart("fo_read", s) /\ UNCHANGED <<tables, clientVars>>

\* The load of the loop; "already_reserved" ends it.
ForceRead ==
    /\ mpc = "fo_read"
    /\ IF innerIP[mslot] = Reserved
       THEN MReturn
       ELSE mpc' = "fo_cas" /\ mcur' = innerIP[mslot] /\ UNCHANGED mslot
    /\ UNCHANGED <<tables, clientVars>>

\* A won CAS of the loop: an attachment that was taken over is cleaned up.
ForceWin ==
    /\ TryReserve(mslot, mcur)
    /\ IF IsSlotAllocated(mcur) THEN MGoto("fo_clean") ELSE MReturn

\* Variant: a lost CAS is retried with the address loaded before.
ForceCASStale ==
    /\ mpc = "fo_cas"
    /\ ForceWin
    /\ UNCHANGED <<want, fieldVars, opts, dev, clientVars>>

\* The CAS of the loop.  Losing it leads back to the load.
ForceCAS ==
    /\ mpc = "fo_cas"
    /\ \/ ForceWin
       \/ innerIP[mslot] # mcur /\ MGoto("fo_read") /\ UNCHANGED <<innerIP, owner>>
    /\ UNCHANGED <<want, fieldVars, opts, dev, clientVars>>

\* The control-owned cleanup after the CAS.
ForceClean ==
    /\ mpc = "fo_clean"
    /\ flags' = [flags EXCEPT ![mslot] = 0]
    /\ optsLen' = [optsLen EXCEPT ![mslot] = 0]
    /\ MReturn
    /\ UNCHANGED <<ownVars, statsReady, generation, transit, opts, dev, clientVars>>

\* ProvisionPorts on a Reserved slot: the device of the requested kind is
\* created or reused, the slot points at it, a device of the other kind goes
\* away.  A veth pair that exists is reused where its sandbox end is.
ProvisionDevice(s) ==
    /\ MStart("pr_down", s)
    /\ innerIP[s] = Reserved
    /\ Quiet(s)
    /\ \E mode \in Modes :
         dev' = [dev EXCEPT ![s] = CASE mode = "tap" -> "tap"
                                     [] mode = "veth" /\ @ = "sandbox" -> "sandbox"
                                     [] OTHER -> "port"]
    /\ UNCHANGED <<ownVars, fieldVars, opts, clientVars>>

\* Variant: TryUnreserve does not clear the publication.
UnreserveKeepsUp ==
    /\ mpc = "pr_down"
    /\ innerIP[mslot] = Reserved
    /\ MGoto("pr_free")
    /\ UNCHANGED <<tables, clientVars>>

\* TryUnreserve: the load finds Reserved, publication is cleared.
UnreserveDown ==
    /\ mpc = "pr_down"
    /\ innerIP[mslot] = Reserved
    /\ flags' = [flags EXCEPT ![mslot] = 0]
    /\ MGoto("pr_free")
    /\ UNCHANGED <<ownVars, statsReady, generation, transit, optsLen, opts, dev, clientVars>>

\* TryUnreserve: CAS(Reserved -> Free).
UnreserveFree ==
    /\ mpc = "pr_free"
    /\ innerIP[mslot] = Reserved
    /\ Swap(mslot, Free, NoOne)
    /\ MReturn
    /\ UNCHANGED <<want, fieldVars, opts, dev, clientVars>>

\* The management process dies and the kernel releases its flock, or the
\* command returns an error before its last step.
MgmtCrash == mpc # "idle" /\ MReturn /\ UNCHANGED <<tables, clientVars>>

-----------------------------------------------------------------------------

AttachStep(c) ==
    \/ AttachClaim(c) \/ AttachLost(c) \/ AttachReady(c) \/ AttachReset(c)
    \/ AttachOpts(c) \/ AttachMove(c) \/ AttachCheck(c) \/ AttachPublish(c)
    \/ AttachStats(c) \/ AttachUp(c) \/ AttachRollback(c)

PortUpStep(c) ==
    \/ PortUpCheck(c) \/ PortUpInvalid(c) \/ PortUpOpts(c) \/ PortUpFields(c)
    \/ PortUpCommit(c) \/ PortUpStore(c)

DetachStep(c) ==
    \/ DetachMove(c) \/ DetachCheck(c) \/ DetachDown(c) \/ DetachOpts(c)
    \/ DetachRelease(c)

\* A call in progress runs on; what a client calls next is its own choice.
CallStep(c) == AttachStep(c) \/ PortUpStep(c) \/ DetachStep(c)

ClientNext(c) == AttachBegin(c) \/ PortUpBegin(c) \/ DetachBegin(c) \/ CallStep(c)

CommandStep == ReserveReady \/ ForceRead \/ ForceCAS \/ ForceClean \/ UnreserveDown \/ UnreserveFree

MgmtNext ==
    CommandStep \/ \E s \in Slots : ReserveFree(s) \/ ForceBegin(s) \/ ProvisionDevice(s)

CrashFreeNext == (\E c \in Clients : ClientNext(c)) \/ MgmtNext

Next == CrashFreeNext \/ (\E c \in Clients : Crash(c)) \/ MgmtCrash

Spec == Init /\ [][Next]_vars

\* No process dies: what remains is the interleaving of the calls.
CrashFreeSpec == Init /\ [][CrashFreeNext]_vars

\* A process inside a call or a command is scheduled; nothing else is promised.
FairSpec == Spec /\ (\A c \in Clients : WF_vars(CallStep(c))) /\ WF_vars(CommandStep)

-----------------------------------------------------------------------------
(* Properties. *)

\* At most one client is past a winning CAS on a port: between the claim in
\* Attach and the end of Detach, a failure or a takeover, no other client
\* believes it has the port.
OneClaimant ==
    \A c, d \in Clients : Engaged(c) /\ Engaged(d) /\ slot[c] = slot[d] => c = d

\* A Free slot is dataplane-down (cas.go, TryAllocate: "Free slots are
\* dataplane-down on current switches"), whatever crashed or was taken over.
FreeIsDown == \A s \in Slots : innerIP[s] = Free => flags[s] = 0

\* Publication is complete: an attached port that is up shows the data plane
\* the address, transit fields, options, options hint and generation of the
\* latest request of its owner, and no leftover of an earlier attachment or of
\* the provisional configuration that SetPortUp replaced.
UpIsComplete ==
    \A s \in Slots :
        IsSlotAllocated(innerIP[s]) /\ flags[s] = PortFUp =>
            /\ innerIP[s] = want[s].ip
            /\ transit[s] = want[s].cfg
            /\ opts[s] = want[s].cfg
            /\ optsLen[s] = OptLen[want[s].cfg]
            /\ generation[s] = want[s].gen

\* Everything a call stores for a slot.
Stored(s) == <<innerIP[s], flags[s], statsReady[s], generation[s], transit[s],
               optsLen[s], opts[s], dev[s]>>

\* A call writes only to a slot its client won: a contender that lost the CAS
\* writes nothing (attach.go: "Contenders must not write any attachment fields
\* before winning it"), and after the release CAS the old owner writes nothing
\* into the slot, Free or attached again.  The one exception is a late store
\* of a call that management has just taken over.
NoForeignWrite ==
    [][\A c \in Clients, s \in Slots :
         pc'[c] # pc[c] /\ Stored(s)' # Stored(s) =>
             /\ slot[c] = s
             /\ owner[s] \in {c, Control} \/ owner'[s] = c]_vars

\* A takeover is not undone (docs/vswitch.md): a Reserved port leaves that
\* state only by TryUnreserve in ProvisionPorts, never by a rollback, a release
\* or an address change of a call that was in progress.
TakeoverNotUndone ==
    [][\A s \in Slots :
         innerIP[s] = Reserved /\ innerIP'[s] # Reserved =>
             mpc = "pr_free" /\ mslot = s /\ innerIP'[s] = Free]_vars

\* The status of a port as the documentation names it.
Status(ip) == CASE ip = Free -> "Free" [] ip = Reserved -> "Reserved" [] OTHER -> "Allocated"

Lifecycle == INSTANCE SlotLifecycle WITH
    status <- [s \in Slots |-> Status(innerIP[s])],
    holder <- owner

\* The slot table implements the port state machine of docs/vswitch.md: every
\* step of a call or a command is one of its transitions, by the port's holder.
ImplementsLifecycle == Lifecycle!Spec

\* A call returns: no sequence of takeovers, lost CAS races and failures keeps
\* an Attach (its scan included), a SetPortUp or a Detach running for ever.
CallsReturn == \A c \in Clients : pc[c] \notin RestPCs ~> pc[c] \in RestPCs

\* reserve --force is lock-free: its CAS loop ends, or other processes change
\* owner words for ever.
ForceReserveProgress ==
    \/ []<>(mpc \notin {"fo_read", "fo_cas"})
    \/ []<><<\E s \in Slots : innerIP'[s] # innerIP[s]>>_vars

\* common.h, publication flags: "Zero is fail-closed and is retained by Free/Reserved
\* slots".  Read at rest: with no management command and no call in progress on
\* the port, a Reserved port is down.
ReservedIsDown ==
    \A s \in Slots :
        innerIP[s] = Reserved /\ mpc = "idle" /\ Quiet(s) => flags[s] = 0

\* docs/vswitch.md, Port states: "Failed operations attempt to undo their own
\* claim or device movement".  An Attach that fails after it moved the veth end
\* has it back in the port namespace.
FailedAttachReturnsDevice ==
    [][\A c \in Clients :
         pc[c] = "at_moved" /\ pc'[c] = "idle" => dev'[slot[c]] = "port"]_vars

=============================================================================
