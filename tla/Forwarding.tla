---------------------------- MODULE Forwarding ----------------------------
(***************************************************************************)
(* What the switch does to one packet and to its reply.                    *)
(*                                                                         *)
(* A start request becomes a switch configuration (cmd/connector-ctl/      *)
(* start.go, pkg/vswitch/config.go, geneve.go, lifecycle.go, slot.go), an  *)
(* Attach writes one slot (attach.go), and the TC programs of              *)
(* bpf/switch_kern.c encode the slot into every frame and recover it from  *)
(* every reply.  The module follows one journey: start, attach, a packet   *)
(* of the sandbox, a reply from outside, the delivery.  Concurrency is the  *)
(* subject of PortSlots and PacketPath; here the slot does not change.      *)
(*                                                                         *)
(* Numbers have the widths of the code, except that addresses have         *)
(* AddrBits bits, so that a checker with 32-bit integers can hold them.    *)
(* Text that does not parse is the value Malformed.                        *)
(***************************************************************************)
EXTENDS Integers, Sequences, FiniteSetsExt

CONSTANTS
    AddrBits,       \* bits of an IPv4 address (32 in the code)
    Requests,       \* start requests: flags or a configuration file, parsed into tokens
    Attachments,    \* requests of Attach
    Packets,        \* frames a sandbox sends
    Strays,         \* attachment identities a reply may carry besides the right one
    Malformed       \* a token that does not parse

ASSUME AddrBitsAssumption == AddrBits \in 13 .. 32

\* Constants of bpf/common.h, config.go and geneve.go.
MaxPorts == 4096
MaxGenerationBits == AddrBits - 12
MaxMgmtCIDRPerSlot == 3
MaxGeneveOptsLen == 64
TLVLocatorLen == 8
GenevePort == 6081
DefaultGenevePortBase == 50000
DefaultPortMTU == 1500
GeneveOverhead(c) == IF c.encapEth THEN 64 ELSE 50

AddrMax == 2 ^ AddrBits - 1
MaxUint8 == 255
MaxUint16 == 65535

\* What the parsers of flags and files, the types of the Go structures and the
\* headers leave possible; text that does not parse is Malformed.
MACs == Nat \X (0 .. MaxUint8) \X (0 .. MaxUint8)

MgmtRoutes == [ip : Nat, size : Nat]

MgmtServices == [vip : Nat, vport : Nat, target : Nat, tport : Nat]

ASSUME RequestsAssumption ==
    Requests \subseteq
        [file : BOOLEAN, numPorts : Nat, mac : MACs, portMAC : {"fixed", "per-port", "custom"},
         customMAC : MACs \cup {Malformed}, base : Nat \cup {Malformed}, bits : Nat,
         extracts : Seq(Seq(MgmtRoutes \cup {Malformed})),
         services : Seq(MgmtServices \cup {Malformed}), transit : BOOLEAN,
         locator : {"port", "vni", "tlv", Malformed}, portBase : 0 .. MaxUint16,
         tlv : [class : Nat, type : Nat, set : BOOLEAN] \cup {Malformed}, defaulted : BOOLEAN,
         encapEth : BOOLEAN, MTU : Int, devMTU : Nat \cup {Malformed}, devMTUAuto : BOOLEAN,
         existingMTU : Nat, names : Nat]

ASSUME AttachmentsAssumption ==
    Attachments \subseteq
        [slot : Nat, ip : Nat, gen : Nat, vni : Nat, gateway : Nat,
         opts : Seq([class : Nat, type : Nat, len : Nat])]

ASSUME PacketsAssumption ==
    Packets \subseteq [proto : {"tcp", "udp", "icmp", "ip6", "arp", "other"}, dst : Nat,
                       dport : Nat, len : Nat]

ASSUME StraysAssumption ==
    Strays \subseteq [slot : 0 .. MaxPorts - 1, gen : Nat, gateway : Nat, vni : Nat]

NoTLV == [class |-> 0, type |-> 0, set |-> FALSE]
NoSwitch == [numPorts |-> 0]
NoAttachment == [slot |-> 0]
NoFrame == [at |-> "none"]
Stack == [at |-> "stack"]       \* TC_ACT_OK: left to the network stack

VARIABLES
    phase,      \* how far the journey is
    request,    \* the start request the switch was built from
    cfg,        \* struct switch_config, with the MTU of the transit device
    att,        \* the attached slot
    sent,       \* the packet of the sandbox
    frame       \* where that packet, or its reply, is now

vars == <<phase, request, cfg, att, sent, frame>>

-----------------------------------------------------------------------------
(* MAC addresses: <<first four bytes, fifth byte, sixth byte>>. *)

ZeroMAC == <<0, 0, 0>>

\* (switch_mac[4] ^ 0x80) & 0x80
Flipped(m) == IF m[2] >= 128 THEN 0 ELSE 128

PortMAC(m, slot) == <<m[1], Flipped(m) + slot \div 256, slot % 256>>

MgmtMAC(m, i) == LET id == 32752 + i IN <<m[1], Flipped(m) + id \div 256, id % 256>>

\* GetPortMAC, the address a provisioned device gets.
DeviceMAC(c, slot) == IF c.portMAC = ZeroMAC THEN PortMAC(c.mac, slot) ELSE c.portMAC

\* Variant: only the low byte of the slot number is used.
get_port_macLow(c, slot) ==
    IF c.portMAC = ZeroMAC THEN <<c.mac[1], Flipped(c.mac), slot % 256>> ELSE c.portMAC

\* The same in the TC programs, where slot_id >> 8 is cut to a byte.
get_port_mac(c, slot) ==
    IF c.portMAC = ZeroMAC
    THEN <<c.mac[1], Flipped(c.mac) + ((slot \div 256) % 256), slot % 256>>
    ELSE c.portMAC

-----------------------------------------------------------------------------
(* Start: parsing and validation. *)

\* A route is an address and a size; a bare address is a route of size one.
ParseMgmtExtract(items) ==
    IF items = <<>> \/ Malformed \in Range(items) THEN Malformed
    ELSE [i \in DOMAIN items |->
            IF items[i].size = 0 THEN [items[i] EXCEPT !.size = 1] ELSE items[i]]

ParseMgmtService(s) ==
    IF s # Malformed /\ {s.vport, s.tport} \subseteq 1 .. MaxUint16 THEN s ELSE Malformed

ParsePortMAC(r) == CASE r.portMAC = "fixed" -> PortMAC(r.mac, 1)
                     [] r.portMAC = "per-port" -> ZeroMAC
                     [] OTHER -> r.customMAC

Parsed(r) ==
    [r EXCEPT !.extracts = [i \in DOMAIN r.extracts |-> ParseMgmtExtract(r.extracts[i])],
              !.services = [i \in DOMAIN r.services |-> ParseMgmtService(r.services[i])],
              !.portMAC = ParsePortMAC(r)]

\* Without --config, the transit options count only with a transit device.
FromFlags(r) ==
    IF r.transit THEN Parsed(r) ELSE [Parsed(r) EXCEPT !.devMTU = 0, !.devMTUAuto = FALSE]

\* applyGeneveDefaults: a base of zero is an omitted one.
applyGeneveDefaults(c) ==
    IF c.portBase = 0 THEN [c EXCEPT !.portBase = DefaultGenevePortBase, !.defaulted = TRUE]
    ELSE c

ToConfig(r) == applyGeneveDefaults(Parsed(r))

buildConfig(r) == IF r.file THEN ToConfig(r) ELSE FromFlags(r)

\* An error of any parser ends buildConfig.
ParseFails(c) ==
    \/ Malformed \in {c.base, c.locator, c.tlv, c.devMTU, c.portMAC}
    \/ Malformed \in Range(c.extracts) \cup Range(c.services)

Covers(route, ip) == ip \div route.size = route.ip \div route.size

Routed(c, ip) == \E e \in Range(c.extracts) : \E sr \in Range(e) : Covers(sr, ip)

Target(s) == <<s.target, s.tport>>

\* Variant: two services may share a target.
validateMgmtServicesShared(c) ==
    /\ c.services # <<>> => c.extracts # <<>>
    /\ \A i \in DOMAIN c.services : Routed(c, c.services[i].vip)

validateMgmtServices(c) ==
    /\ c.services # <<>> => c.extracts # <<>>
    /\ \A i \in DOMAIN c.services :
         /\ Routed(c, c.services[i].vip)
         /\ \A j \in 1 .. i - 1 : Target(c.services[j]) # Target(c.services[i])

validateGeneve(c) ==
    CASE c.locator = "port" -> c.tlv = NoTLV /\ c.portBase + c.numPorts - 1 <= MaxUint16
      [] c.locator = "vni"  -> c.tlv = NoTLV /\ c.portBase = DefaultGenevePortBase
      [] c.locator = "tlv"  -> c.tlv # NoTLV /\ c.portBase = DefaultGenevePortBase

\* Size of the window of floating addresses: every slot in every generation.
Span(bits) == MaxPorts * 2 ^ bits

validateBase(c) ==
    /\ c.numPorts \in 1 .. MaxPorts
    /\ c.bits <= MaxGenerationBits
    /\ c.base + Span(c.bits) - 1 <= AddrMax
    /\ Len(c.extracts) <= MaxMgmtCIDRPerSlot
    /\ validateMgmtServices(c)
    /\ validateGeneve(c)
    /\ c.MTU \in 0 .. MaxUint16

OptionsReserve(c) ==
    IF c.devMTUAuto THEN MaxGeneveOptsLen ELSE IF c.locator = "tlv" THEN TLVLocatorLen ELSE 0

\* The MTU the transit device ends up with, or zero when Start refuses.
resolveTransitMTU(c, portMTU) ==
    LET required == portMTU + GeneveOverhead(c) + OptionsReserve(c)
        wanted == IF c.devMTU > 0 THEN c.devMTU ELSE c.existingMTU
    IN IF c.devMTUAuto THEN required ELSE IF wanted < required THEN 0 ELSE wanted

\* With --mtu before anything is created, otherwise from the devices of the
\* management planes or the default the ports will get.
transitMTU(c) == resolveTransitMTU(c, IF c.MTU > 0 THEN c.MTU ELSE DefaultPortMTU)

\* UpdateSwitchConfig, with the services of WriteMgmtServices and the device MTU.
SwitchConfig(c) ==
    [numPorts |-> c.numPorts, mac |-> c.mac, portMAC |-> c.portMAC, base |-> c.base,
     bits |-> c.bits, locator |-> c.locator, portBase |-> c.portBase, tlv |-> c.tlv,
     encapEth |-> c.encapEth, extracts |-> c.extracts, services |-> c.services,
     transit |-> c.transit, MTU |-> IF c.transit THEN transitMTU(c) ELSE 0, names |-> c.names]

Start(r) ==
    LET c == applyGeneveDefaults(buildConfig(r))
    IN /\ phase = "idle"
       /\ IF ParseFails(buildConfig(r)) \/ ~ validateBase(c) \/ (c.transit /\ transitMTU(c) = 0)
          THEN phase' = "refused" /\ UNCHANGED <<request, cfg>>
          ELSE phase' = "started" /\ request' = r /\ cfg' = SwitchConfig(c)
       /\ UNCHANGED <<att, sent, frame>>

\* Variant: an omitted port base matches whatever is in force.
validateConfigMatchLoose(c, r) ==
    /\ <<c.numPorts, c.base, c.bits, c.names, c.transit, c.locator>>
           = <<r.numPorts, r.base, r.bits, r.names, r.transit, r.locator>>
    /\ r.locator = "port" => r.defaulted \/ r.portBase = c.portBase
    /\ r.locator = "tlv" => r.tlv = c.tlv

\* r.defaulted /\ c.portBase = 0 matches a switch of an older release.
validateConfigMatch(c, r) ==
    /\ <<c.numPorts, c.base, c.bits, c.names, c.transit, c.locator>>
           = <<r.numPorts, r.base, r.bits, r.names, r.transit, r.locator>>
    /\ r.locator = "port" => (r.defaulted /\ c.portBase = 0) \/ r.portBase = c.portBase
    /\ r.locator = "tlv" => r.tlv = c.tlv

\* Start of a switch that exists: frame records the second request and the verdict.
StartAgain(r) ==
    LET c == applyGeneveDefaults(buildConfig(r))
    IN /\ phase = "started"
       /\ ~ ParseFails(buildConfig(r)) /\ validateBase(c)
       /\ phase' = "again"
       /\ frame' = [at |-> IF validateConfigMatch(cfg, c) THEN "reopened" ELSE "mismatch",
                    request |-> r, config |-> c]
       /\ UNCHANGED <<request, cfg, att, sent>>

-----------------------------------------------------------------------------
(* Attach: the checks before the slot is claimed and the budget after. *)

\* Variant: the width of the VNI does not depend on the locator.
validateTransitGeneveVNIWide(c, vni) == vni < 2 ^ 24

validateTransitGeneveVNI(c, vni) == vni < IF c.locator = "vni" THEN MaxPorts ELSE 2 ^ 24

\* Bytes of the options on the wire, a header of four before each; the sum is by
\* index, a form the induction of Forwarding_proofs can follow.
WireLen(opts) ==
    LET upTo[n \in 0 .. Len(opts)] == IF n = 0 THEN 0 ELSE upTo[n - 1] + 4 + opts[n].len
    IN upTo[Len(opts)]

TotalLen(c, opts) == WireLen(opts) + IF c.locator = "tlv" THEN TLVLocatorLen ELSE 0

CriticalBit(type) == type >= 128

\* Variant: the generated locator is not counted.
marshalGeneveOptionsOpaque(c, opts) ==
    /\ \A i \in DOMAIN opts : opts[i].len % 4 = 0
    /\ WireLen(opts) <= MaxGeneveOptsLen

\* marshalGeneveOptions succeeds.
marshalGeneveOptions(c, opts) ==
    /\ \A i \in DOMAIN opts :
         /\ opts[i].len % 4 = 0
         /\ ~ (c.locator = "tlv" /\ opts[i].class = c.tlv.class
                                 /\ opts[i].type % 128 = c.tlv.type % 128)
    /\ WireLen(opts) <= MaxGeneveOptsLen
    /\ TotalLen(c, opts) <= MaxGeneveOptsLen

validateAttachmentAddresses(a) == a.ip \notin {0, AddrMax}

GenerationInRange(c, gen) == IF c.bits = 0 THEN gen = 0 ELSE gen < 2 ^ c.bits

\* Variant: the options are left out of the budget.
validateAttachMTUBase(c, opts) ==
    c.transit => DefaultPortMTU + GeneveOverhead(c) <= c.MTU

\* Provisioned ports have the default MTU whatever --mtu says.
validateAttachMTU(c, opts) ==
    c.transit => DefaultPortMTU + GeneveOverhead(c) + TotalLen(c, opts) <= c.MTU

Attach(a) ==
    /\ phase = "started"
    /\ IF /\ validateTransitGeneveVNI(cfg, a.vni)
          /\ marshalGeneveOptions(cfg, a.opts)
          /\ validateAttachmentAddresses(a)
          /\ GenerationInRange(cfg, a.gen)
          /\ a.slot < cfg.numPorts
          /\ TotalLen(cfg, a.opts) # 0 => validateAttachMTU(cfg, a.opts)
       THEN phase' = "attached" /\ att' = a
       ELSE phase' = "refused" /\ UNCHANGED att
    /\ UNCHANGED <<request, cfg, sent, frame>>

-----------------------------------------------------------------------------
(* tc_ingress_nx. *)

\* The routes of all planes in order; the slot has room for the first three.
mgmt_cidrs(c) ==
    LET routes(i) ==
            [j \in DOMAIN c.extracts[i] |-> [route |-> c.extracts[i][j], plane |-> i - 1]]
        upTo[n \in 0 .. Len(c.extracts)] == IF n = 0 THEN <<>> ELSE upTo[n - 1] \o routes(n)
        all == upTo[Len(c.extracts)]
    IN SubSeq(all, 1, Min({Len(all), MaxMgmtCIDRPerSlot}))

\* Index of the first route that covers the address, or zero.
match_mgmt_cidr(c, ip) ==
    LET I == {i \in DOMAIN mgmt_cidrs(c) : Covers(mgmt_cidrs(c)[i].route, ip)}
    IN IF I = {} THEN 0 ELSE Min(I)

Plane(c, ip) == mgmt_cidrs(c)[match_mgmt_cidr(c, ip)].plane

\* floating_ip_base + (generation << 12) + slot_id
FloatingIP(c, slot, gen) == (c.base + gen * MaxPorts + slot) % 2 ^ AddrBits

\* The maps that WriteMgmtServices fills, a later service over an earlier one;
\* each entry exists for TCP and for UDP.  An address that has no entry is kept.
mgmt_svc_fwd(c, proto, end) ==
    LET i == Max({0} \cup {j \in DOMAIN c.services :
                             <<c.services[j].vip, c.services[j].vport>> = end})
    IN IF i = 0 \/ proto \notin {"tcp", "udp"} THEN end ELSE Target(c.services[i])

mgmt_svc_rev(c, proto, end) ==
    LET i == Max({0} \cup {j \in DOMAIN c.services : Target(c.services[j]) = end})
    IN IF i = 0 \/ proto \notin {"tcp", "udp"} THEN end
       ELSE <<c.services[i].vip, c.services[i].vport>>

IPv4 == {"tcp", "udp", "icmp"}

NxArp(c, p) ==
    [at |-> "answer", about |-> p.dst,
     mac |-> IF match_mgmt_cidr(c, p.dst) # 0 THEN MgmtMAC(c.mac, Plane(c, p.dst)) ELSE c.mac]

NxMgmt(c, a, p) ==
    [at |-> "mgmt", plane |-> Plane(c, p.dst), proto |-> p.proto,
     src |-> FloatingIP(c, a.slot, a.gen),
     end |-> mgmt_svc_fwd(c, p.proto, <<p.dst, p.dport>>)]

\* The locator of a slot on the wire.  In the VNI the slot lies above the twelve
\* bits that validateTransitGeneveVNI leaves to the attachment.
WireLocator(c, slot, vni) ==
    [port |-> IF c.locator = "port" THEN (c.portBase + slot) % (MaxUint16 + 1) ELSE GenevePort,
     vni  |-> (IF c.locator = "vni" THEN slot * MaxPorts + vni ELSE vni) % 2 ^ 24,
     slot |-> IF c.locator = "tlv" THEN slot ELSE 0]

\* The hint and the total are checked again before anything is written.
OptionsUsable(c, a) ==
    /\ WireLen(a.opts) <= MaxGeneveOptsLen /\ WireLen(a.opts) % 4 = 0
    /\ TotalLen(c, a.opts) <= MaxGeneveOptsLen

\* Outer IP, UDP and GENEVE headers, the options, and an inner Ethernet header.
EncapLen(c, a) == 36 + TotalLen(c, a.opts) + IF c.encapEth THEN 14 ELSE 0

CriticalFlag(c, opts) ==
    \/ \E o \in Range(opts) : CriticalBit(o.type)
    \/ c.locator = "tlv" /\ CriticalBit(c.tlv.type)

NxTransit(c, a, p) ==
    IF ~ c.transit \/ a.gateway = 0 \/ ~ OptionsUsable(c, a) THEN Stack
    ELSE [at |-> "wire", gateway |-> a.gateway, loc |-> WireLocator(c, a.slot, a.vni),
          optLen |-> TotalLen(c, a.opts), critical |-> CriticalFlag(c, a.opts),
          teb |-> c.encapEth, proto |-> p.proto, len |-> p.len + EncapLen(c, a)]

Nx(c, a, p) ==
    IF a.gen >= 2 ^ c.bits THEN Stack
    ELSE IF p.proto = "arp" THEN NxArp(c, p)
    ELSE IF p.proto \in IPv4 /\ match_mgmt_cidr(c, p.dst) # 0 THEN NxMgmt(c, a, p)
    ELSE IF p.proto \in IPv4 \cup {"ip6"} THEN NxTransit(c, a, p)
    ELSE Stack

Send(p) ==
    /\ phase = "attached"
    /\ phase' = "sent" /\ sent' = p /\ frame' = Nx(cfg, att, p)
    /\ UNCHANGED <<request, cfg, att>>

-----------------------------------------------------------------------------
(* The reply.  Whoever answers uses what it was sent: a gateway the locator   *)
(* alone, without the opaque options, and a service the floating address.    *)

\* Identity: slot and generation on the management side, slot, gateway and VNI on
\* the transit side.
Own == [slot |-> att.slot, gen |-> att.gen, gateway |-> att.gateway, vni |-> att.vni]

\* Identities that other attachments of this switch could have.
Identities == {Own} \cup {i \in Strays : /\ validateTransitGeneveVNI(cfg, i.vni)
                                          /\ GenerationInRange(cfg, i.gen)}

WireReply(i, teb) ==
    [at |-> "wireReply", gateway |-> i.gateway, loc |-> WireLocator(cfg, i.slot, i.vni),
     optLen |-> IF cfg.locator = "tlv" THEN TLVLocatorLen ELSE 0,
     critical |-> cfg.locator = "tlv" /\ CriticalBit(cfg.tlv.type),
     teb |-> teb, proto |-> frame.proto,
     own |-> <<i.slot, i.gateway, i.vni>> = <<att.slot, att.gateway, att.vni>>]

\* The blocks, numbered, that createMgmtPlanes routes back to the switch.
floatingReturnNets(c) ==
    {c.base \div Span(c.bits), (c.base + Span(c.bits) - 1) \div Span(c.bits)}

\* The host of a service sends to addresses of these blocks through the management device.
ReturnRoute(c, ip) == ip \div Span(c.bits) \in floatingReturnNets(c)

MgmtReply(i) ==
    [at |-> "mgmtReply", dst |-> FloatingIP(cfg, i.slot, i.gen), end |-> frame.end,
     proto |-> frame.proto, own |-> <<i.slot, i.gen>> = <<att.slot, att.gen>>]

Reply ==
    /\ phase = "sent" /\ phase' = "replied"
    /\ \E i \in Identities, teb \in BOOLEAN :
         \/ frame.at = "wire" /\ frame' = WireReply(i, teb)
         \/ frame.at = "mgmt" /\ frame' = MgmtReply(i)
    /\ UNCHANGED <<request, cfg, att, sent>>

-----------------------------------------------------------------------------
(* tc_ingress_mx and tc_ingress_transit.  Only the slot of att is in use. *)

\* The slot and generation a floating address stands for; slot -1 for none.
DecodeFloating(c, ip) ==
    LET identity == ip - c.base
    IN IF \/ ip < c.base
          \/ identity \div MaxPorts >= 2 ^ c.bits
          \/ identity % MaxPorts >= c.numPorts
       THEN [slot |-> -1, gen |-> 0]
       ELSE [slot |-> identity % MaxPorts, gen |-> identity \div MaxPorts]

\* The address is that of the slot's current attachment.
Identifies(c, a, ip) == DecodeFloating(c, ip) = [slot |-> a.slot, gen |-> a.gen]

Mx(c, a, f) ==
    IF ~ Identifies(c, a, f.dst) THEN [at |-> "stack", own |-> f.own]
    ELSE [at |-> "port", from |-> "mgmt", slot |-> a.slot, own |-> f.own, proto |-> f.proto,
          end |-> mgmt_svc_rev(c, f.proto, f.end), mac |-> get_port_mac(c, a.slot)]

\* An ARP question on a management plane.
MxArp(c, a, ip) ==
    [at |-> "answer", about |-> ip,
     mac |-> IF Identifies(c, a, ip) THEN get_port_mac(c, a.slot) ELSE c.mac]

AskArp ==
    /\ phase = "attached" /\ phase' = "asked"
    /\ \E i \in Identities : frame' = MxArp(cfg, att, FloatingIP(cfg, i.slot, i.gen))
    /\ UNCHANGED <<request, cfg, att, sent>>

\* Return frames carry no option, or exactly the locator.
StrictFraming(c, f) ==
    IF c.locator = "tlv"
    THEN f.optLen = TLVLocatorLen /\ f.critical = CriticalBit(c.tlv.type)
    ELSE f.optLen = 0 /\ ~ f.critical

\* The slot and VNI a return frame names; slot -1 when the frame is not accepted.
DecodeLocator(c, f) ==
    IF ~ StrictFraming(c, f) \/ (c.locator # "port" /\ f.loc.port # GenevePort)
    THEN [slot |-> -1, vni |-> 0]
    ELSE CASE c.locator = "port" -> [slot |-> f.loc.port - c.portBase, vni |-> f.loc.vni]
           [] c.locator = "vni" -> [slot |-> f.loc.vni \div MaxPorts, vni |-> f.loc.vni % MaxPorts]
           [] c.locator = "tlv" -> [slot |-> f.loc.slot, vni |-> f.loc.vni]

\* The protocol of the inner frame is kept with and without inner Ethernet header.
Transit(c, a, f) ==
    IF DecodeLocator(c, f) # [slot |-> a.slot, vni |-> a.vni] \/ f.gateway # a.gateway
    THEN [at |-> "stack", own |-> f.own]
    ELSE [at |-> "port", from |-> "wire", slot |-> a.slot, own |-> f.own, proto |-> f.proto,
          mac |-> get_port_mac(c, a.slot)]

Return ==
    /\ phase = "replied" /\ phase' = "done"
    /\ frame' = IF frame.at = "wireReply" THEN Transit(cfg, att, frame)
                ELSE IF ReturnRoute(cfg, frame.dst) THEN Mx(cfg, att, frame)
                ELSE [at |-> "unrouted", own |-> frame.own]
    /\ UNCHANGED <<request, cfg, att, sent>>

-----------------------------------------------------------------------------
Init ==
    /\ phase = "idle" /\ request = NoSwitch /\ cfg = NoSwitch
    /\ att = NoAttachment /\ sent = NoFrame /\ frame = NoFrame

Next ==
    \/ \E r \in Requests : Start(r) \/ StartAgain(r)
    \/ \E a \in Attachments : Attach(a)
    \/ \E p \in Packets : Send(p)
    \/ AskArp \/ Reply \/ Return

Spec == Init /\ [][Next]_vars

-----------------------------------------------------------------------------
\* The state has its type: what was accepted has the ranges of the fields that hold it.
TypeOK ==
    /\ phase \in {"idle", "refused", "started", "again", "attached", "sent", "asked",
                  "replied", "done"}
    /\ cfg.numPorts \in 0 .. MaxPorts
    /\ att.slot \in 0 .. MaxPorts - 1
    /\ frame.at \in {"none", "reopened", "mismatch", "answer", "stack", "mgmt", "wire",
                     "mgmtReply", "wireReply", "unrouted", "port"}

\* What Start and Attach accept, the data plane forwards: once a slot is attached
\* with a gateway, no IP packet of the sandbox meets one of the defensive returns
\* of tc_ingress_nx (options too long, unknown locator, generation out of range)
\* and is silently left to the stack.
AcceptedIsForwarded ==
    phase = "sent" /\ cfg.transit /\ att.gateway # 0 /\ sent.proto \in IPv4 \cup {"ip6"}
        => frame.at \in {"wire", "mgmt"}

\* A reply that uses the address it was given finds a route back to the switch and
\* reaches the device of the slot that sent the packet, whatever the locator, the
\* port base, the number of ports, the floating base (aligned or not) and the
\* generation; one for another slot, generation, gateway or VNI is not delivered:
\* encoding in tc_ingress_nx and decoding in tc_ingress_mx and tc_ingress_transit
\* are inverse for every accepted configuration.
ReturnsToSender ==
    phase = "done" =>
        IF frame.own
        THEN frame.at = "port" /\ frame.slot = att.slot /\ frame.proto = sent.proto
        ELSE frame.at \in {"stack", "unrouted"}

\* The sandbox addressed a service's target itself, not through its VIP.
BareTarget ==
    LET end == <<sent.dst, sent.dport>>
    IN /\ mgmt_svc_fwd(cfg, sent.proto, end) = end
       /\ mgmt_svc_rev(cfg, sent.proto, end) # end

\* The stateless service translation is invisible to the sandbox: the answer comes
\* from the address and port it addressed, for a VIP as for any other destination
\* that is not itself the target of a service.
ServiceTransparent ==
    phase = "done" /\ frame.own /\ frame.at = "port" /\ ~ BareTarget
        => (frame.from = "mgmt" => frame.end = <<sent.dst, sent.dport>>)

\* The MTU checks of Start and Attach leave room for the encapsulation: a packet
\* that fits its port fits the transit device once encapsulated.  (A --mtu below
\* the MTU of the provisioned ports is only noticed by an Attach with options.)
EncapFits ==
    phase = "sent" /\ frame.at = "wire" /\ sent.len <= DefaultPortMTU
        => \/ frame.len <= cfg.MTU
           \/ request.MTU \in 1 .. DefaultPortMTU - 1 /\ frame.optLen = 0

\* MAC addresses agree across Go and C and name one device: a delivered frame
\* carries the address its port device was created with, and ARP on a management
\* plane gives that address for the current floating address, one no management
\* device and not the switch itself has, and the switch's own for any other.
MacsNameDevices ==
    /\ phase = "done" /\ frame.at = "port" => frame.mac = DeviceMAC(cfg, att.slot)
    /\ phase = "asked" =>
         IF frame.about = FloatingIP(cfg, att.slot, att.gen)
         THEN /\ frame.mac = DeviceMAC(cfg, att.slot)
              /\ request.portMAC \in {"fixed", "per-port"} =>
                   frame.mac \notin {cfg.mac} \cup {MgmtMAC(cfg.mac, i) : i \in 0 .. 2}
         ELSE frame.mac = cfg.mac

\* Start is idempotent and safe to repeat: the request a switch was started with
\* opens it again, and a request that opens it names the same slots in the same
\* way on the wire and in floating addresses.
StartRepeats ==
    phase = "again" =>
        /\ frame.request = request => frame.at = "reopened"
        /\ frame.at = "reopened" =>
             /\ frame.config.numPorts = cfg.numPorts
             /\ \A s \in {0, cfg.numPorts - 1} :
                  /\ WireLocator(frame.config, s, 0) = WireLocator(cfg, s, 0)
                  /\ FloatingIP(frame.config, s, 0) = FloatingIP(cfg, s, 0)

=============================================================================
