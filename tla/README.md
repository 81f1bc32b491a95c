# Verification of the connector virtual switch

TLA+ models of `connector` (`src/`), its control plane, data plane and servers,
the TLC runs that check them on small instances, and TLAPS proofs of the main results for every
size. Paths below are relative to the repository.

## The system

A switch is a set of pinned BPF maps, a TC program on every port device and a
few devices in a switch namespace. Short-lived processes (`connector-ctl`) and
one long-lived server operate on it through shared memory and map syscalls.

| Part | State | Operations |
|---|---|---|
| Slot table (`pkg/internal/bpfmap`) | one `SlotItem` per port, mmapped; `InnerIP` is the owner word: 0 Free, 0xFFFFFFFF Reserved, else Allocated | CAS helpers, field updates |
| Attachment calls (`attach.go`, `port_up.go`) | none of their own | Attach, SetPortUp, Detach: no lock, in any number of processes |
| Management commands (`attach.go`, `provision.go`, `stop.go`, `lifecycle.go`) | links, TC blocks, reverse map `ifindex_to_slot` | Reserve, ProvisionPorts, ReleasePorts, StopReleased, StartReserved: one at a time under a flock |
| Control lock, identity (`flock.go`, `context.go`, `loader.go`, `errors.go`) | pin directory, map ids | acquire, Open, verifyCurrentSwitch, unpin, ForceCleanup |
| Observation (`status.go`, `bpfmap/stats.go`) | counters with generations | Status, Stats, ResetStats |
| Data plane (`bpf/`) | reads slots, options, reverse map; writes counters | three TC programs |
| Encodings (`geneve.go`, `config.go`, `mac.go`, `slot.go`) | none | options, locators, MTU, addresses, MACs |
| TAPFD server and protocol (`cmd/connector-ctl`, `pkg/tapfd`) | connections, descriptors | PREPARE, OPEN, SET_PORT_UP, RELEASE |
| Serve loop (`serve.go`, `pkg/daemon`) | failure count, tickers | health check, watchdog, exit |
| DHCP (`pkg/dhcp`) | pool, leases | server and client |

What is hard: the attachment calls race with each other and with every
management command; a takeover (`reserve --force`, a forced release) may come
between any two of their steps; a process may die anywhere and the table keeps
what it wrote; a port is described in several places that are written one after
another; the address that identifies an attachment need not be unique.

The properties that make it correct: one owner per port; nobody but the owner
(or management) writes a slot; no Free port is published to the data plane and a
published one is complete; a takeover is never undone; the calls end; the device
a port points to, the reverse map and the owner word agree when a port opens;
release and stop leave nothing behind. `PROJECT.json` lists the hazards with
their lines and the properties that would catch each.

## Modules

| Module | What it is |
|---|---|
| `PortSlots` | the slot table, the attachment calls and the management commands that race with them |
| `SlotLifecycle` | abstract specification: the port state machine of `docs/vswitch.md` with the holder of each port |
| `PacketPath` | `PortSlots` composed with packets of the three TC programs, the counters and Stats |
| `PortDevices` | ProvisionPorts, ReleasePorts, StopReleased and StartReserved over links, TC blocks, slot items and the reverse map |
| `HealthCheck` | `PortDevices` composed with Status |
| `SwitchControl` | the life of a switch name: Start and its rollback, stop, forced cleanup, Open, the control lock |
| `Forwarding` | what Start and Attach accept and what the data plane makes of a packet and its reply |
| `TapfdServer` | `serve` with its TAPFD/1 listener, the descriptor helpers and their clients |
| `Dhcp` | DHCP server and client over an unreliable network |
| `MC…` | values of the constants for TLC |
| `PortSlotsInv`, `PortSlots_proofs` | the inductive invariant of `PortSlots` and its preservation by the calls; the theorems |
| `PacketPath_proofs`, `PortDevices_proofs`, `SwitchControl_proofs`, `Forwarding_proofs`, `TapfdServer_proofs`, `Dhcp_proofs` | invariants and theorems of these modules (`PortDevices_proofs` also of `HealthCheck`) |

An operator introduced by "Variant:" is a deliberate defect: the definition after
it, replaced by it, makes the property it is paired with in `PROJECT.json` fail.
No specification uses one.

How the modules fit: `PortSlots` and `PortDevices` look at the same slots, one
from the side of the callers that race, the other from the side of the devices.
Both take for granted that management commands exclude each other;
`SwitchControl` has the lock that is to provide this, and shows where it does
not. `TapfdServer` uses the attachment calls as single steps, which `PortSlots`
splits into their accesses. `Forwarding` has the arithmetic that `PortSlots` and
`PacketPath` treat as tokens.

### PortSlots

The variables `innerIP`, `flags`, `statsReady`, `generation`, `transit`,
`optsLen` are fields of `SlotItem` per slot (`transit` stands for gateway, VNI
and MAC together, since they are always written together), `opts` is the map
`geneve_opts`, `dev` says which device a slot has and where its veth end is.
Each client has a program counter `pc`, the slot it works on, its request and
the address it compares with; `mpc`, `mslot`, `mcur` are the same for the one
command that holds the control lock. `owner` and `want` are auxiliary: who won
the slot and what it asked for. No guard reads them.

A step is one access to shared state: an atomic load, store or CAS, one
`UpdateSlotFields` callback, one map syscall, one device move. Argument checks
touch nothing shared and belong to the step that follows. The actions follow the
calls in order: `AttachBegin` to `AttachUp` and `AttachRollback`, `PortUpBegin`
to `PortUpStore`, `DetachBegin` to `DetachRelease`, `ReserveFree`,
`ForceBegin` to `ForceClean`, `ProvisionDevice` to `UnreserveFree`. `Crash` and
`MgmtCrash` end a process anywhere.

The caller contract is that of `docs/vswitch.md`, "Control-operation
concurrency" and "Deferred port activation". A client orders the calls on its
own attachment. Management reopens a Reserved port only when no client still has a call or a handle on it: the
document's "Reserved→Free is a management action with strict entry/exit
boundaries", the guard `Quiet(s)` of `ProvisionDevice`. The document excludes a
request that survives a reopening, so the model does too. A ReleasePorts is, for
the owner words, a sequence of reserve steps; its `reserveAllSlots` does not
clear `Flags`, which is what a `reserve --force` leaves that dies before
`ForceClean` (`MgmtCrash`).

### PortDevices

`status` is the owner word reduced to Free, Reserved, Allocated; `ifindex` and
`mode` are slot fields; `rev` is `ifindex_to_slot`; `link` maps an interface
index to the name of the link (kind and slot) or none; `tc` are the links with
the ingress block. The rest are the locals of the running command. The kernel
may hand out any unused index, so indices are reused. Provisioning follows
`provision.go` step by step: `ProvisionCreate`, `ProvisionClsact`,
`ProvisionUnmap` (step 1), `ProvisionInfo` and `ProvisionMode` (2),
`ProvisionMap` (3), `ProvisionDrop` and `ProvisionDropLink` (4),
`ProvisionFree`. Release follows `stop.go`: count, scan, CAS and recount of
`reserveFreeSlots`, `reserveAllSlots`, collect, and per device link, reverse
entry, slot. `Faults` selects what may fail: creating a link, attaching the
block, updating or deleting a map entry, deleting a link, the process. Attach,
Detach and Reserve appear by their effect on the owner word.

The management and transit fields that `writeSlotDeviceInfo` also writes are in
`HealthCheck`, the tail of StopReleased in `SwitchControl`. Not modelled: a
switch namespace that has disappeared.

### SlotLifecycle

Five transitions with their holder: Provision, Attach, Detach, Reserve,
ForceReserve. `PortSlots` implements it under `status <- Status(innerIP)`,
`holder <- owner` (`ImplementsLifecycle`).

### PacketPath

Extends `PortSlots`; every step of the calls is a step here. `stats` is the
counter map with its instance number, `reset` the two map calls of ResetStats
inside Attach, `pkt` a packet in flight, `rd` a Stats call. A packet of nx, mx or
transit captures the instance, looks at the owner word, loads the publication bit
and reads the fields, one access per step, and counts itself last under the spin
lock (`switch_kern.c`, `stats.h`). Stats reads as in `status.go`: two locked
counter reads around the identity. The address dependency of `published_value`
orders the reads of the data plane, so program order is the order of the steps.
There is one packet and one Stats call at a time, each beginning anywhere.

### HealthCheck

Extends `PortDevices`. `info` are the slots with management and transit indices,
`check` the locals of checkConditions: owner words and indices slot by slot, one
link dump, then the comparison. Every step of a command may fall between two
readings. A context belongs to one map set, so no new StartReserved begins
before the check is over. The checks run against commands without faults.

### SwitchControl

`dir` is the pin directory that the name leads to, numbered by the Start that
made it; `holder` and `shared` are the flock of each directory inode, including
removed ones; `pin` and `mset` the pinned maps and their content; `dummy`,
`mgmt`, `transit` the devices; `proc` the command each process is in, with the
`cleanupState` of a Start. A command opens the directory, waits for its lock, and
opens the switch by name (Start of an existing name, ProvisionPorts,
ReleasePorts, StopReleased), or opens first and verifies after (Reserve, Stats).
Start goes through `netns`, `pinSlots`, … `transitConf`; an error goes to
`undoTransit`, and the rollback undoes what the state says was reached. Every
call to the kernel may fail (`MaxFaults`), every process may die (`MaxCrashes`),
and ForceCleanup works without the lock. `excused` collects the Starts of which
the code knows or logs that something stays: it is a history variable that only
properties read.

### Forwarding

One journey: `Start` (the checks of `start.go`, `config.go`, `geneve.go`,
`lifecycle.go`), `Attach` (`attach.go`, `geneve.go`), `Send` (`tc_ingress_nx`),
`Reply` by a gateway or a service, possibly under the identity of another
attachment, and `Return` (`tc_ingress_mx`, `tc_ingress_transit`); also `AskArp`
and `StartAgain` (validateConfigMatch). Text is a token with its parsed value or
`Malformed`, options are lengths and types, MACs are three numbers. Widths are
those of the code except `AddrBits`, the bits of an IPv4 address, which is small
because TLC's integers have 32 bits; 12 of them are the slot, as in the code. The
`ASSUME`s give what may be asked and sent its Go and header types; the checks of
the code have to do the rest.

### TapfdServer

`srv` are the processes of `serve` (start, serving, the deferred calls in their
order, the provisioning and accept goroutines, the health counters), `path` the
socket the listen path names, also of a dead process, `conn` a connection with
its handler or a helper process, `client` what a client knows and holds. A
handler is split where others may come between: Attach, the write of the reply,
the rollback when it fails, opening the queue, reading the metadata, sending the
descriptors. A client may close its end at any time, before or after the reply
was written. `Message` and `RecvFdsWithNetns` are the descriptor protocol of
`pkg/tapfd`.

### Dhcp

`pool` is ipPool, `srv` the server object with listener, closed flag and watcher
goroutine, `client` the attempts of Request, `net` the messages sent: reading one
again is a duplicate, never reading it a loss. Allocate runs under the mutex and
is one step. `Restart` begins with an empty pool, as leases are kept in memory.

## Runs

| Run | Bounds | Shows |
|---|---|---|
| `port_one` | 1 port, 2 clients, 2 addresses, 3 requests, both kinds, crashes | TypeOK, OneClaimant, FreeIsDown, UpIsComplete, NoForeignWrite, TakeoverNotUndone, ImplementsLifecycle |
| `port_live` | 2 ports, 1 client, management, crashes, fairness | CallsReturn, ForceReserveProgress |
| `devices` | 2 ports, both kinds, 4 indices, all faults but a failing map delete | RevPointsBack, ForceReleaseComplete |
| `health` | 2 ports, both kinds, 3 indices, no faults, Status anywhere | PortsWired, NoOrphans, NoFalseAlarm, LossReported |
| `packets` | 1 port, 1 client attaching twice, management, all programs, Stats | PublishedOnly, CountersAreOwn, ReportIsExact |
| `forwarding` | boundary values of every checked range | AcceptedIsForwarded, ReturnsToSender, ServiceTransparent, EncapFits, MacsNameDevices, StartRepeats |
| `switch` | a manager and a verifying process, 3 starts, 2 planes, 2 faults, 1 crash | NothingStranded, RestartSucceeds, VerifiedIsCurrent, ObservationStands |
| `tapfd` | 2 serves, 2 clients, 2 connections, a tap and a veth port, 1 death | HolderKeepsPort, NoLeakedPort, HandoffFaithful, NoUseAfterClose, ServingIsReachable |
| `tapfd_live` | 1 serve, 1 client, 2 connections, failing health check, fairness | RequestsAnswered, ShutdownCompletes, BrokenServeExits |
| `dhcp` | 2 clients, 1 retry, 1 restart, 4 pools, fairness | NoSharedLease, LeaseIsRecorded, PoolIsExact, ServeStops |

Two runs show that the code does not do what a comment or a document says; the
findings in `PROJECT.json` quote the lines.

| Run | Statement | What happens |
|---|---|---|
| `stop_leftover` | StopReleased "cleans up mgmt devices, transit device, dummy device, and BPF maps" (`stop.go`) | a switch that was started reserved and never provisioned keeps its management devices, and no later Start of the name succeeds |
| `control_exclusive` | management operations are "Exclusive among management operations" (`docs/vswitch.md`) | a command that waited for the lock of a removed directory works on the switch that a Start is building |

### Further configurations

These are kept beside the runs. The first three repeat a run's question on
another instance and pass: `PortSlots_two.cfg` (two ports),
`PortDevices_clean.cfg`, `PortDevices_release.cfg`. The others end in a
counterexample each; they document behaviour that a comment or a document
describes differently, found by the same models.

| Configuration | Statement | What happens |
|---|---|---|
| `PortSlots_reserved_down.cfg` | "Zero is fail-closed and is retained by Free/Reserved slots" (`bpf/common.h`) | the up store of an Attach lands after a takeover and its cleanup |
| `PortSlots_failed_attach.cfg` | failed operations undo "their own claim or device movement" (`docs/vswitch.md`) | a takeover after the device move leaves the device in the sandbox |
| `PortDevices_retry.cfg` | "Failed slots … can be retried" (`provision.go`) | the retry after a failed reverse-map update opens the port without reverse entry |
| `PortDevices_safe.cfg` | safe release "refuses if there are Allocated ports" (`stop.go`) | an Attach between count and scan loses its device |
| `PortDevices_rounds.cfg` | "Both rounds reserve-then-delete" (`stop.go`) | round 1 deletes devices of attached ports |
| `PortDevices_orphan.cfg` | an orphan stays "until 'stop' reaps it" (`provision.go`) | stop deletes only links that slots point to |
| `PacketPath_report.cfg` | "its counters cannot be queried as a live attachment" (`docs/vswitch-operations.md`) | Attach stores the generation before ResetStats: a Stats in between, begun under the previous attachment, gives its counters under the new generation |
| `PacketPath_stale.cfg` | "A stale generation follows the same non-match path" (`switch_kern.c`) | mx compares the generation before the gate: a reply to the previous attachment passes when a new one is published in between |

### Bounds

- `port_one`, `port_live`, `packets`. Interference is between two clients on one
  slot, or one client and management, so two clients and one port contain every
  pattern. Two addresses and three requests make equal addresses with different
  configurations, and different addresses, both happen. Option lengths are equal
  so that a stale value could not be told by its length. In `packets` one client
  attaches twice: a packet or a Stats call concerns the attachment it began
  under and the next one. A second port is needed only where a scan meets another
  slot (`port_live`, `PortSlots_two.cfg`).
- `devices`, `health`. Four indices let two ports have an old and a new device at
  once; the kernel hands freed indices out again. `health` has three, so that an
  index is reused while a mode switch is under way.
- `switch`. Three starts are a switch, its successor and one that meets what the
  second left; two faults let a cleanup call fail after the failure that caused
  it; two planes let the loop over planes fail in the middle.
- `tapfd`. Two clients race for one tap port; the veth port behind it is the one
  a PREPARE has to give back. Two serves are a predecessor and its successor.
- `dhcp`. Two clients; pools with an address for each, with one too few, reversed
  and zero. One retry and one restart make every message of an earlier attempt or
  run arrive late.
- `forwarding`. Requests vary the transit and the management side separately, as
  no check relates the two. Every range has its ends and a value on either side.

Clients, connections, serves and indices are symmetric: they are only compared.
Symmetry is not used with liveness.

Deadlock is checked in `port_one`, `port_live`, `devices`, `health` and
`packets`. The others may stop: a journey is over, the bounds on starts, deaths or
restarts are used up, or all clients have their lease.

### Fairness

Weak fairness only, of steps that a scheduler or a timer brings about.

- `port_live`: the next step of a call or command in progress. A runnable process
  is scheduled, and no step waits for anybody. Nothing is assumed about which
  calls are made or which CAS is won.
- `tapfd_live`: each handler goroutine (a read ends at its deadline at the
  latest, `tapfd_server.go`), and the goroutines and tickers of a running
  `serve`. Clients, signals and failures owe nothing.
- `dhcp`: the goroutines of the server. Clients, network and signals owe nothing.

## Proofs

From the named `ASSUME`s only (at least one port, sentinels that are not
addresses or names, lengths that are numbers, requests and packets of their
types), for every value of the constants.

- `PortSlots_proofs`: `TypeCorrect`, `Exclusive` (OneClaimant), `FreeDown`
  (FreeIsDown), `PublishedComplete` (UpIsComplete), `OwnWritesOnly`
  (NoForeignWrite), `TakeoverStays` (TakeoverNotUndone), `Refines`
  (ImplementsLifecycle).

  None of the invariants is inductive alone. `IInv` (`PortSlotsInv`) adds the
  relation between owner word and owner (Free iff nobody, Reserved iff
  management, else a client), that an engaged client's slot is owned by it or by
  management, that the comparison address of a call is the owner word while the
  client still owns the slot, and how much of the request has been stored at
  each point of each call. OneClaimant rests on the first two: a CAS from Free
  finds no owner, so no engaged client. UpIsComplete rests on the last: the up
  bit is off from the first update to the last store. FreeIsDown needs `Quiet`:
  between the Flags store and the CAS of TryUnreserve no call can still store
  up. `PortSlotsInv` proves preservation, one step per action.

- `PacketPath_proofs`: `OnlyPublishedLeaves` (PublishedOnly), `OwnPacketsCounted`
  (CountersAreOwn), `ReportsAreExact` (ReportIsExact), `PathTypeCorrect`, for any
  ports, clients, programs and claims, with the packet and the Stats call at any
  point of calls and commands; assumed: Stats is asked about ports of the switch.
  A step of `PacketPath` is a crash-free step of `PortSlots` or leaves its
  variables alone, so `IInv` carries over. `PathInv` adds what `IInv` says of an
  owner only and the readers need also of a client that has lost its slot
  (`ClaimInv`: down while the call prepares, generation and request agree once it
  is settled); when the configuration of a slot is final, that is, nobody writes
  it before the next claim (`Final`); that the counter instance of a slot is
  older than the claim until ResetStats has written and belongs to the latest
  claim once confirmed (`ResetInv`, `CounterInv`); that a packet whose captured
  instance is still there is not older than the counters (`PacketInv`); and what
  Stats may conclude after each load, as long as the slot was not claimed anew
  (`ReadInv`: up makes the configuration final, ready makes the counters those
  of the attachment). `PlaneSteps` gathers what one step of a call or command
  may do to all this; the invariants of the readers follow from it without
  looking at the calls again.

- `PortDevices_proofs`: `ReverseMapPointsBack` (RevPointsBack), under the
  assumption that deleting an existing map entry does not fail, and
  `ForceReleases` (ForceReleaseComplete) without it. The first uses what the
  command knows at each label: the old index is still the slot's index until
  step 2, and after step 1 no entry leads to the slot. The second uses how far
  the loops have come: behind the loop variable every slot is Reserved, then
  without device. The assumption is needed: the code ignores the error of the
  delete in step 1, after which an entry can lead to a slot that has moved on.

  `PortsServed` (PortsWired) allows the creation of a link, the attachment of the
  block and the deletion of a link to fail, not the map updates nor the process
  (`PortDevices_retry.cfg` shows why). `WireInv` says that link names are distinct,
  that every slot with a device is wired but for the one being rewired, and what
  is known of its new and old device. `NoLinkForgotten` (NoOrphans) allows only
  the creation to fail: the code leaves a link behind when the block cannot be
  attached or a deletion fails. `Claimed` says that a link is the device of its
  slot or the next or previous one of the slot in work.

  `CheckIsFair` (NoFalseAlarm) and `LossIsSeen` (LossReported) are about
  `HealthCheck`, with every fault. `HealthInv` says that a slot read as in use is
  still wired as it was read, or a command has taken it since (`StillAsRead`), and
  that slots in use carry the management and transit indices (`Informed`).

- `SwitchControl_proofs`: `ObservationSound` (ObservationStands), for any number
  of processes, planes, starts, failing calls and crashes. `Inv` says that map
  sets are numbered by their Start, that a Start which has not pinned its set is
  the only one that knows it (nobody can have opened it), and that a set which
  was unpinned under a reader is not pinned. So what is gone stays gone, and
  the second verification of Stats finds out. The lock plays no part in it:
  ForceCleanup does not take it.

  `DevicesHaveAName` (NothingStranded), `StartFindsNothingLeft` (RestartSucceeds)
  and `LockKeepsCurrent` (VerifiedIsCurrent) assume `OneManager`: one process runs
  the commands that go by name, any number of others Reserve and Stats. With two
  the statements are false (`control_exclusive`). `ManagerInv` says for each point
  of Start, rollback, stop and forced cleanup which of directory, pins, dummy,
  management planes and transit device exist and are recorded in the
  `cleanupState`, so that what is left is either under the name or excused.
  `LockInv` says which lock a process holds at each point of its command, and that
  the set it has opened is not newer than the directory it locked: a verification
  that succeeds under the lock shows that both are current, and whoever unpins or
  removes the directory needs its lock first, a forced cleanup excepted.

- `TapfdServer_proofs`: `HolderSafe` (HolderKeepsPort), `NoLeak` (NoLeakedPort),
  `HandoffSafe` (HandoffFaithful), `HandleSafe` (NoUseAfterClose). `PInv` has the
  claims on ports: a client that was told of a port, a handler or helper that
  attached one and has not answered, a reply on its way and a RELEASE that has
  not been served each claim it; a claimed port is attached for the claimant
  (`Owned`), no two claim one (`Distinct`), and an attached port is claimed or
  excused (`Covered`). `Asked` and `Waits` relate a request to what its client
  knew when it made it, `Stages` a handler's progress to its operation. `SInv`
  counts handlers to their serve: it is past Close's wait only when it has none,
  and the handle is closed after that. `PathIsServed` (ServingIsReachable) needs
  that a serve which is starting or closing excludes another that serves
  (`ReachInv`).

- `Dhcp_proofs`: `NeverShared` (NoSharedLease), `LeaseRecorded`
  (LeaseIsRecorded), `PoolExact` (PoolIsExact), `SocketClosed` and `TypeCorrect`,
  for any clients, retries and restarts and every pool that does not end at the
  last address (`NoPoolAtEnd`: with that pool `next` wraps to 0). `IInv` says that
  what was given out lies below `next`, one address per client, as many as `next`
  has advanced; that every acknowledgement in the network and every lease, of the
  present run of the server, is the recorded address of its client, and those of
  one run are distinct; and that a request of the current attempt names the offer
  that was selected.

- `Forwarding_proofs`: `AcceptedLeaves` (AcceptedIsForwarded), `RepliesReturn`
  (ReturnsToSender), `ServicesAreTransparent` (ServiceTransparent), `PacketsFit`
  (EncapFits), `AddressesAgree` (MacsNameDevices) and `StartIsRepeatable`
  (StartRepeats), for every request, attachment, packet and reply of the types
  that the assumptions in `Forwarding` state, so for every value between the
  boundary values of the run, and for 13 to 32 address bits. `JourneyInv`
  remembers what each step has established: the running configuration passed the
  checks of Start, the attachment those of Attach, a frame in flight is the
  encoding of its packet, a delivered one was decoded from such a frame.
  `AcceptedFields` and `AcceptedRanges` say what the checks leave of a request
  (parsing, flags and defaults keep the other fields, sizes fit their headers),
  `FloatingDecodes`, `LocatorDecodes` and `ServiceInverse` that each decoder of
  the data plane inverts its encoder in those ranges, `FloatingIdentifies` that
  no other slot or generation shares an address, `MacsAgree` and `MacsDistinct`
  that Go and C compute one port address, which is none of the switch's own. The sum of option lengths is
  followed by a least counterexample (`WireLengths`), the order of the naturals
  being well-founded; no induction scheme is instantiated.

Every safety property of the passing runs has its theorem. Only model-checked are
the liveness properties, which with ENABLED are out of the prover's reach
(CallsReturn, ForceReserveProgress, RequestsAnswered, ShutdownCompletes,
BrokenServeExits, ServeStops); and the cases that a theorem above excludes by an
assumption and the run includes, up to its bounds.

## Limits, and what is not modelled

Of the modelled parts:

- The caller contract of `PortSlots` (`Quiet`, ordered calls of one client) is the
  document's; a caller that breaks it is not covered.
- `SwitchControl`: a Start that dies after writing its metadata leaves a switch
  that opens and is only half built; the properties ask no more of it than that
  its name still leads to what it made. Addresses and routes of devices are calls
  that may fail, without state. Two processes that both manage are only in
  `control_exclusive`; the `switch` run has one manager.
- `TapfdServer`: RELEASE names a port and no attachment, so a client that repeats
  one whose reply was lost could detach the next owner; the clients of the model
  send it once. A serve
  that starts while its predecessor is still in Close could lose its path to the
  other's `os.Remove`; the model starts it after that. Watchdog notifications
  change nothing that the program reads.
- `Dhcp`: leases are kept in memory, so a restarted server may give an address
  again: uniqueness is per run of the server. There is one server at a time.
- `HealthCheck`: an interrupted link dump yields any part of the links; NoFalseAlarm
  and LossReported are about complete dumps.
- `Forwarding`: more than three management CIDRs are truncated to three in a slot,
  as in the code; properties are about the ones that are kept. `--mtu` is not
  passed on to devices that exist already. Byte offsets, checksums, fragments and
  malformed headers of packets are not modelled.

Not modelled at all: flag parsing and printing of the command line, and
`tapfd_get.go`, a client for one request; reading YAML and JSON; the conversion of
a DHCP lease into the configuration of the transit device (ToTransitConfig);
netlink and namespace wrappers, whose effects and failures are steps of their
callers; generated bindings; release scripts. They have no state of their own, or
none that two steps of the program could disagree about.
