---------------------------- MODULE PacketPath ----------------------------
(***************************************************************************)
(* Packets and statistics readers beside the calls of PortSlots.           *)
(*                                                                         *)
(* The TC programs (bpf/switch_kern.c) take no lock against the control    *)
(* plane.  A packet captures the counter instance of its slot, looks at    *)
(* the owner word, loads the publication bit and only then reads the       *)
(* fields it forwards with; it counts itself last, under the spin lock of  *)
(* the counters (bpf/stats.h).  Stats (pkg/vswitch/status.go) brackets the *)
(* identity it reports between two locked counter reads.                   *)
(*                                                                         *)
(* The address dependency of published_value makes the reads that follow   *)
(* the publication load happen after it, so program order is the order of  *)
(* the steps here.  There is one packet and one Stats call at a time; each  *)
(* may begin at any point of any call.                                     *)
(***************************************************************************)
EXTENDS PortSlots, Sequences

CONSTANTS
    Programs,   \* TC programs that see packets: nx, mx, transit
    Queried,    \* slots that Stats is called for
    Together,   \* bound: whether a packet and a Stats call overlap
    MaxAttach   \* bound: claims of a slot, hence counter instances

ASSUME ProgramAssumption == Programs \subseteq {"nx", "mx", "transit"}
ASSUME TogetherAssumption == Together \in BOOLEAN
ASSUME MaxAttachAssumption == MaxAttach \in Nat
ASSUME QueriedAssumption == Queried \subseteq Slots

VARIABLES
    stats,      \* the stats map: number of the counter instance; auxiliary: whose
                \* it is, the generation of that attachment, whose packets it counted
    reset,      \* progress of ResetStats in the Attach of each client
    att,        \* auxiliary: number of the latest claim of each slot
    pkt,        \* the packet in flight
    rd          \* the Stats call in progress

pathVars == <<stats, reset, att, pkt, rd>>
allVars == <<vars, pathVars>>

NoReset == [at |-> "none", gen |-> 0]

\* cap: captured instance; to: generation or VNI the packet carries; ip: inner
\* address; hint: options length.  Auxiliary: at is the attachment whose
\* publication opened the gate, live that it has not been revoked since, mixed
\* that a value read while live was not the one its owner asked for.
NoPacket == [stage |-> "none", prog |-> "nx", slot |-> 0, cap |-> 0, to |-> NoConfig,
             ip |-> Free, hint |-> 0, at |-> 0, live |-> FALSE, mixed |-> FALSE]

\* at: next read; first, ip, gen: values read.  Auxiliary: began is the attachment
\* when the call began, of and tag the one whose counters were read and its
\* generation.
NoRead == [at |-> 0, slot |-> 0, first |-> 0, ip |-> Free, gen |-> NoConfig,
           began |-> 0, of |-> 0, tag |-> NoConfig]

\* The state this module adds has its type.
PathTypeOK ==
    /\ stats \in [Slots -> [gen : 0 .. MaxAttach, of : 0 .. MaxAttach,
                           tag : Configs \cup {NoConfig}, counted : SUBSET (1 .. MaxAttach)]]
    /\ reset \in [Clients -> [at : {"none", "read", "done"}, gen : Nat]]
    /\ att \in [Slots -> 0 .. MaxAttach]
    /\ pkt.stage \in {"none", "match", "own", "gate", "fields", "opts", "count"}
    /\ rd.at \in 0 .. 12

PathInit ==
    /\ Init
    /\ stats = [s \in Slots |-> [gen |-> 0, of |-> 0, tag |-> NoConfig, counted |-> {}]]
    /\ reset = [c \in Clients |-> NoReset]
    /\ att = [s \in Slots |-> 0]
    /\ pkt = NoPacket
    /\ rd = NoRead

-----------------------------------------------------------------------------
(* The control plane: every step of PortSlots, with ResetStats in detail. *)

\* A client wins a slot in this step.
Claims(s) == owner[s] = NoOne /\ owner'[s] \in Clients

\* Attach confirms the counters only after a ResetStats that succeeded.
ConfirmsReset(c) ==
    pc[c] = "at_stats" /\ pc'[c] = "at_up" =>
        (statsReady'[slot[c]] = 1 <=> reset[c].at = "done")

ControlStep ==
    /\ CrashFreeNext
    /\ \A s \in Slots : Claims(s) => att[s] < MaxAttach
    /\ \A c \in Clients : ConfirmsReset(c)
    /\ att' = [s \in Slots |-> IF Claims(s) THEN att[s] + 1 ELSE att[s]]
    /\ reset' = [c \in Clients |-> IF pc'[c] = "at_stats" THEN reset[c] ELSE NoReset]
    /\ pkt' = [pkt EXCEPT !.live = @ /\ flags'[pkt.slot] = PortFUp
                                     /\ IsSlotAllocated(innerIP'[pkt.slot])]
    /\ UNCHANGED <<stats, rd>>

\* ResetStats, first half: the locked read of the previous instance.
ResetRead(c) ==
    /\ pc[c] = "at_stats" /\ reset[c].at = "none"
    /\ reset' = [reset EXCEPT ![c] = [at |-> "read", gen |-> stats[slot[c]].gen]]
    /\ UNCHANGED <<vars, stats, att, pkt, rd>>

\* ResetStats, second half: the locked write of the next, empty instance.
ResetWrite(c) ==
    /\ pc[c] = "at_stats" /\ reset[c].at = "read"
    /\ stats' = [stats EXCEPT ![slot[c]] =
                    [gen |-> reset[c].gen + 1, of |-> att[slot[c]],
                     tag |-> generation[slot[c]], counted |-> {}]]
    /\ reset' = [reset EXCEPT ![c].at = "done"]
    /\ UNCHANGED <<vars, att, pkt, rd>>

-----------------------------------------------------------------------------
(* A packet in one of the TC programs. *)

PacketStep(stage, next) ==
    /\ pkt.stage = stage
    /\ pkt' = next
    /\ UNCHANGED <<vars, reset, att, rd>>

\* TC_ACT_OK or TC_ACT_SHOT: the switch does not forward the packet.
Refuse == NoPacket

\* The program finds its slot (nx by ifindex, mx and transit by the number in
\* the packet) and captures the counter instance.
PacketArrive(prog, s, k) ==
    /\ dev[s] # "none"
    /\ Together \/ rd.at = 0
    /\ prog = "nx" <=> k = NoConfig
    /\ PacketStep("none", [NoPacket EXCEPT !.stage = IF prog = "mx" THEN "match" ELSE "own",
                             !.prog = prog, !.slot = s, !.to = k, !.cap = stats[s].gen])
    /\ UNCHANGED stats

\* mx: the generation of the floating address is the slot's.
PacketMatch ==
    /\ PacketStep("match", IF generation[pkt.slot] = pkt.to
                           THEN [pkt EXCEPT !.stage = "own"] ELSE Refuse)
    /\ UNCHANGED stats

\* is_slot_free: the owner word is neither Free nor Reserved.
PacketOwn ==
    LET ip == innerIP[pkt.slot] IN
    /\ PacketStep("own", IF ~IsSlotAllocated(ip) THEN Refuse
                         ELSE [pkt EXCEPT !.stage = "gate", !.ip = IF pkt.prog = "mx" THEN ip ELSE Free])
    /\ UNCHANGED stats

\* slot_publication_token: a port that is not up drops the packet.
PacketGate ==
    /\ PacketStep("gate", IF flags[pkt.slot] # PortFUp THEN Refuse
                          ELSE [pkt EXCEPT !.stage = "fields", !.at = att[pkt.slot],
                                           !.live = IsSlotAllocated(innerIP[pkt.slot])])
    /\ UNCHANGED stats

\* The packet goes on with a value; ok says that it is the owner's.
Forward(stage, ok) == [pkt EXCEPT !.stage = stage, !.mixed = @ \/ (pkt.live /\ ~ok)]

\* nx: generation, transit fields and options hint; an unpublished generation is
\* out of range.
FieldsNX ==
    LET s == pkt.slot IN
    IF generation[s] = Unpublished THEN Refuse
    ELSE [Forward(IF optsLen[s] > 0 THEN "opts" ELSE "count",
                  /\ generation[s] = want[s].gen
                  /\ transit[s] = want[s].cfg
                  /\ optsLen[s] = OptLen[want[s].cfg]) EXCEPT !.hint = optsLen[s]]

\* Variant: mx forwards to the address it saw before the gate.
FieldsMXProvisional == Forward("count", pkt.ip = want[pkt.slot].ip)

\* mx: the inner address is read again after the gate.
FieldsMX == [Forward("count", innerIP[pkt.slot] = want[pkt.slot].ip) EXCEPT !.ip = innerIP[pkt.slot]]

\* transit: gateway and VNI of the packet are those of the slot.
FieldsTransit ==
    IF transit[pkt.slot] # pkt.to THEN Refuse
    ELSE Forward("count", transit[pkt.slot] = want[pkt.slot].cfg)

PacketFields ==
    /\ PacketStep("fields", CASE pkt.prog = "nx" -> FieldsNX
                              [] pkt.prog = "mx" -> FieldsMX
                              [] OTHER -> FieldsTransit)
    /\ UNCHANGED stats

\* nx: the options value, whose own length must agree with the hint.
PacketOpts ==
    LET v == opts[pkt.slot] IN
    /\ PacketStep("opts", IF v \in Configs /\ OptLen[v] = pkt.hint
                          THEN Forward("count", v = want[pkt.slot].cfg) ELSE Refuse)
    /\ UNCHANGED stats

\* Variant: a packet is counted in whatever instance is current.
PacketCountAnyInstance ==
    /\ PacketStep("count", NoPacket)
    /\ stats' = [stats EXCEPT ![pkt.slot].counted = @ \cup {pkt.at}]

\* update_stats_*: counted only in the instance captured first; then redirected.
PacketCount ==
    /\ PacketStep("count", NoPacket)
    /\ stats' = IF pkt.cap # 0 /\ stats[pkt.slot].gen = pkt.cap
                THEN [stats EXCEPT ![pkt.slot].counted = @ \cup {pkt.at}]
                ELSE stats

PacketNext ==
    \/ \E prog \in Programs, s \in Slots, k \in Configs \cup {NoConfig} : PacketArrive(prog, s, k)
    \/ PacketMatch \/ PacketOwn \/ PacketGate \/ PacketFields \/ PacketOpts \/ PacketCount

-----------------------------------------------------------------------------
(* Stats of one port, by a process that holds the shared lock. *)

\* The loads of Stats in order: the allocation test, ready(), the first counter
\* read, address and generation, the second counter read, ready() again, and
\* address and generation again.
StatsReads == <<"alloc", "up", "ready", "first", "ip", "gen", "second",
                "up", "ready", "ip_again", "gen_again">>

StatsBegin(s) ==
    /\ rd.at = 0
    /\ Together \/ pkt.stage = "none"
    /\ rd' = [NoRead EXCEPT !.at = 1, !.slot = s, !.began = att[s]]
    /\ UNCHANGED <<vars, stats, reset, att, pkt>>

\* What Stats requires of a load to go on, but for ready().
IdentityAccepted(op) ==
    LET s == rd.slot IN
    CASE op \in {"alloc", "ip"} -> IsSlotAllocated(innerIP[s])
      [] op = "first"           -> stats[s].gen # 0
      [] op = "second"          -> stats[s].gen = rd.first
      [] op = "ip_again"        -> innerIP[s] = rd.ip
      [] op = "gen_again"       -> generation[s] = rd.gen
      [] OTHER                  -> TRUE

\* Variant: ready() looks at the publication only.
ReadAcceptedUnconfirmed(op) ==
    IdentityAccepted(op) /\ (op = "up" => flags[rd.slot] = PortFUp)

\* ready() is two loads: the publication and the confirmed reset.
ReadAccepted(op) ==
    /\ IdentityAccepted(op)
    /\ op = "up" => flags[rd.slot] = PortFUp
    /\ op = "ready" => statsReady[rd.slot] = 1

\* What the load leaves in the local variables of Stats.
ReadResult(op) ==
    LET s == rd.slot
        r == [rd EXCEPT !.at = @ + 1] IN
    CASE op = "first"  -> [r EXCEPT !.first = stats[s].gen]
      [] op = "ip"     -> [r EXCEPT !.ip = innerIP[s]]
      [] op = "gen"    -> [r EXCEPT !.gen = generation[s]]
      [] op = "second" -> [r EXCEPT !.of = stats[s].of, !.tag = stats[s].tag]
      [] OTHER         -> r

\* One load; ErrStatsUnavailable or ErrPortNotAttached ends the call.
StatsRead ==
    /\ rd.at \in DOMAIN StatsReads
    /\ rd' = IF ReadAccepted(StatsReads[rd.at]) THEN ReadResult(StatsReads[rd.at]) ELSE NoRead
    /\ UNCHANGED <<vars, stats, reset, att, pkt>>

\* All checks passed: the port is reported.
StatsReport ==
    /\ rd.at = Len(StatsReads) + 1
    /\ rd' = NoRead
    /\ UNCHANGED <<vars, stats, reset, att, pkt>>

StatsNext == (\E s \in Queried : StatsBegin(s)) \/ StatsRead \/ StatsReport

-----------------------------------------------------------------------------

PathNext ==
    \/ ControlStep
    \/ \E c \in Clients : ResetRead(c) \/ ResetWrite(c)
    \/ PacketNext
    \/ StatsNext

PathSpec == PathInit /\ [][PathNext]_allVars

-----------------------------------------------------------------------------
(* Properties. *)

\* A packet that is about to leave, and whose port has stayed published since
\* the gate, carries only the request its owner published: nx the generation,
\* transit fields and options, mx the final inner address, never a provisional
\* value that SetPortUp replaced or a leftover of an earlier attachment.
PublishedOnly == pkt.stage = "count" => ~pkt.mixed

\* docs/vswitch.md, Maps: "A successful reset prevents an already-executing old
\* packet from writing retained values into the new instance".  The counters of
\* a port that is up and confirmed hold packets of its current attachment only.
CountersAreOwn ==
    \A s \in Slots :
        IsSlotAllocated(innerIP[s]) /\ flags[s] = PortFUp /\ statsReady[s] = 1 =>
            stats[s].counted \subseteq {att[s]}

\* A Stats call during which the port was not attached anew reports the address
\* and the generation its owner published, with the counters of that attachment,
\* whatever SetPortUp, Detach, a takeover or a failed reset did meanwhile.
ReportIsExact ==
    rd.at = Len(StatsReads) + 1 /\ att[rd.slot] = rd.began =>
        /\ rd.ip = want[rd.slot].ip
        /\ rd.gen = want[rd.slot].gen
        /\ rd.of = rd.began

\* docs/vswitch-operations.md, vswitch stats: "Detach does not erase the map, but
\* its counters cannot be queried as a live attachment".  A report does not give
\* the counters of one attachment under the generation of another.
ReportOfOneAttachment == rd.at = Len(StatsReads) + 1 => rd.gen = rd.tag

\* switch_kern.c, tc_ingress_mx: "A stale generation follows the same non-match
\* path as any address that does not identify the current slot attachment".  A
\* reply addressed to one attachment is not delivered to another one.
StaleReplyNotDelivered ==
    pkt.stage = "count" /\ pkt.prog = "mx" /\ pkt.live =>
        pkt.to = want[pkt.slot].gen
=============================================================================
