------------------------- MODULE Forwarding_proofs -------------------------
(***************************************************************************)
(* The properties of Forwarding for every request, attachment, packet and   *)
(* reply that the parsers and the headers can produce.                      *)
(*                                                                         *)
(* The state is a journey, so the inductive invariant JourneyInv says, for  *)
(* each phase, from which validated inputs the current frame was made.  The *)
(* properties are then facts about the encoders and decoders under what     *)
(* Start and Attach validated: no overflow in a floating address, a port    *)
(* number or a VNI, room for the options, targets that occur once.          *)
(***************************************************************************)
EXTENDS Forwarding, TLAPS, WellFoundedInduction, NaturalsInduction

-----------------------------------------------------------------------------
(* The inductive invariant. *)

\* Start accepted r; c is the configuration it completed and validated.
Accepts(r, c) ==
    /\ ~ ParseFails(buildConfig(r)) /\ c = applyGeneveDefaults(buildConfig(r))
    /\ validateBase(c)

\* Attach accepted a on a switch with configuration c.
Admits(c, a) ==
    /\ validateTransitGeneveVNI(c, a.vni)
    /\ marshalGeneveOptions(c, a.opts)
    /\ GenerationInRange(c, a.gen)
    /\ a.slot < c.numPorts
    /\ TotalLen(c, a.opts) # 0 => validateAttachMTU(c, a.opts)

Started ==
    /\ request \in Requests
    /\ LET c == applyGeneveDefaults(buildConfig(request))
       IN Accepts(request, c) /\ (c.transit => transitMTU(c) # 0) /\ cfg = SwitchConfig(c)

\* A second request that could be parsed and validated, and the verdict on it.
Judged ==
    /\ frame.request \in Requests /\ Accepts(frame.request, frame.config)
    /\ frame.at = IF validateConfigMatch(cfg, frame.config) THEN "reopened" ELSE "mismatch"

\* f is a reply from identity i to a packet that left through the transit device.
FromWire(f, i) ==
    /\ f.at = "wireReply" /\ f.gateway = i.gateway /\ f.loc = WireLocator(cfg, i.slot, i.vni)
    /\ f.optLen = IF cfg.locator = "tlv" THEN TLVLocatorLen ELSE 0
    /\ f.critical = (cfg.locator = "tlv" /\ CriticalBit(cfg.tlv.type))
    /\ f.proto = sent.proto
    /\ f.own = (<<i.slot, i.gateway, i.vni>> = <<att.slot, att.gateway, att.vni>>)

\* f is a reply from identity i to a packet that left through a management device.
FromMgmt(f, i) ==
    /\ f.at = "mgmtReply" /\ f.dst = FloatingIP(cfg, i.slot, i.gen)
    /\ f.end = mgmt_svc_fwd(cfg, sent.proto, <<sent.dst, sent.dport>>)
    /\ f.proto = sent.proto
    /\ f.own = (<<i.slot, i.gen>> = <<att.slot, att.gen>>)

\* Where a reply ends: at the port if it answers the attachment, nowhere otherwise.
Delivered(f) ==
    \/ ~ f.own /\ f.at \in {"stack", "unrouted"}
    \/ /\ f.own /\ f.at = "port" /\ f.slot = att.slot /\ f.proto = sent.proto
       /\ f.mac = get_port_mac(cfg, att.slot)
       /\ f.from = "mgmt" =>
            f.end = mgmt_svc_rev(cfg, sent.proto,
                        mgmt_svc_fwd(cfg, sent.proto, <<sent.dst, sent.dport>>))

JourneyInv ==
    /\ phase \in {"idle", "refused", "started", "again", "attached", "sent", "asked",
                  "replied", "done"}
    /\ phase \notin {"idle", "refused"} => Started
    /\ phase = "again" => Judged
    /\ phase \in {"attached", "sent", "asked", "replied", "done"} =>
         att \in Attachments /\ Admits(cfg, att)
    /\ phase \in {"sent", "replied", "done"} => sent \in Packets
    /\ phase = "sent" => frame = Nx(cfg, att, sent)
    /\ phase = "asked" =>
         \E i \in Identities : frame = MxArp(cfg, att, FloatingIP(cfg, i.slot, i.gen))
    /\ phase = "replied" => \E i \in Identities : FromWire(frame, i) \/ FromMgmt(frame, i)
    /\ phase = "done" => Delivered(frame)
-----------------------------------------------------------------------------
(* Numbers. *)

\* A non-empty set of natural numbers has a least element: induction over the
\* length of an option list and over the index of a service rests on it.
LEMMA Least == ASSUME NEW T \in SUBSET Nat, T # {} PROVE \E x \in T : \A y \in T : x <= y
<1>1. \E x \in T : \A y \in T : ~(<<y, x>> \in OpToRel(<, Nat))
  BY NatLessThanWellFounded, WFMin, Zenon
<1>2. PICK x \in T : \A y \in T : ~(<<y, x>> \in OpToRel(<, Nat))
  BY <1>1, Zenon
<1>3. \A y \in T : ~(y < x)
  BY <1>2, Zenon DEF OpToRel
<1> QED
  BY <1>3


\* The powers of two the code shifts by are positive; each is computed by the solver.
LEMMA Powers ==
  ASSUME NEW n \in 0 .. 32
  PROVE  2 ^ n \in Nat \ {0}
<1>1. /\ 2 ^ 0 \in Nat \ {0} /\ 2 ^ 1 \in Nat \ {0} /\ 2 ^ 2 \in Nat \ {0} /\ 2 ^ 3 \in Nat \ {0}
      /\ 2 ^ 4 \in Nat \ {0} /\ 2 ^ 5 \in Nat \ {0} /\ 2 ^ 6 \in Nat \ {0} /\ 2 ^ 7 \in Nat \ {0}
      /\ 2 ^ 8 \in Nat \ {0} /\ 2 ^ 9 \in Nat \ {0} /\ 2 ^ 10 \in Nat \ {0} /\ 2 ^ 11 \in Nat \ {0}
      /\ 2 ^ 12 \in Nat \ {0} /\ 2 ^ 13 \in Nat \ {0} /\ 2 ^ 14 \in Nat \ {0} /\ 2 ^ 15 \in Nat \ {0}
      /\ 2 ^ 16 \in Nat \ {0} /\ 2 ^ 17 \in Nat \ {0} /\ 2 ^ 18 \in Nat \ {0} /\ 2 ^ 19 \in Nat \ {0}
      /\ 2 ^ 20 \in Nat \ {0} /\ 2 ^ 21 \in Nat \ {0} /\ 2 ^ 22 \in Nat \ {0} /\ 2 ^ 23 \in Nat \ {0}
      /\ 2 ^ 24 \in Nat \ {0} /\ 2 ^ 25 \in Nat \ {0} /\ 2 ^ 26 \in Nat \ {0} /\ 2 ^ 27 \in Nat \ {0}
      /\ 2 ^ 28 \in Nat \ {0} /\ 2 ^ 29 \in Nat \ {0} /\ 2 ^ 30 \in Nat \ {0} /\ 2 ^ 31 \in Nat \ {0}
      /\ 2 ^ 32 \in Nat \ {0}
  OBVIOUS
<1>2. \/ n = 0 \/ n = 1 \/ n = 2 \/ n = 3 \/ n = 4 \/ n = 5 \/ n = 6 \/ n = 7
      \/ n = 8 \/ n = 9 \/ n = 10 \/ n = 11 \/ n = 12 \/ n = 13 \/ n = 14 \/ n = 15
      \/ n = 16 \/ n = 17 \/ n = 18 \/ n = 19 \/ n = 20 \/ n = 21 \/ n = 22 \/ n = 23
      \/ n = 24 \/ n = 25 \/ n = 26 \/ n = 27 \/ n = 28 \/ n = 29 \/ n = 30 \/ n = 31
      \/ n = 32
  OBVIOUS
<1> QED
  BY <1>1, <1>2, Zenon

\* Quotient and remainder by any positive number.
LEMMA Division ==
  ASSUME NEW x \in Nat, NEW d \in Nat \ {0}
  PROVE  /\ x \div d \in Nat /\ x % d \in 0 .. d - 1
         /\ x = d * (x \div d) + (x % d)
  OBVIOUS

\* A number that is smaller than the modulus is kept.
LEMMA ModSmall ==
  ASSUME NEW x \in Nat, NEW d \in Nat, x < d
  PROVE  x % d = x
  OBVIOUS

\* Multiples of d that differ, differ by at least d.
LEMMA Multiples ==
  ASSUME NEW p \in Nat, NEW q \in Nat, NEW d \in Nat \ {0}, p < q
  PROVE  d * p + d <= d * q /\ d * p \in Nat /\ d * q \in Nat
  OBVIOUS

\* Two addresses less than a window apart lie in the same or in adjacent blocks:
\* the blocks of the ends of a window cover it (floatingReturnNets).
LEMMA BlocksCover ==
  ASSUME NEW x \in Nat, NEW y \in Nat, NEW d \in Nat \ {0}, x <= y, y <= x + d - 1
  PROVE  y \div d \in {x \div d, (x + d - 1) \div d}
<1> DEFINE z == x + d - 1
           a == x \div d
           b == y \div d
           c == z \div d
<1>1. z \in Nat
  OBVIOUS
<1>2. /\ a \in Nat /\ b \in Nat /\ c \in Nat
      /\ d * a <= x /\ x < d * a + d
      /\ d * b <= y /\ y < d * b + d
      /\ d * c <= z /\ z < d * c + d
      /\ d * a \in Nat /\ d * b \in Nat /\ d * c \in Nat
  <2>1. \A u \in Nat : u \div d \in Nat /\ d * (u \div d) <= u /\ u < d * (u \div d) + d
                       /\ d * (u \div d) \in Nat
    BY Division
  <2> QED
    BY <1>1, <2>1, Zenon
<1>3. \A p, q \in Nat : p < q => d * p + d <= d * q
  BY Multiples
<1> HIDE DEF a, b, c
<1>4. a <= b /\ b <= c
  <2>1. ~ b < a
    BY <1>2, <1>3
  <2>2. ~ c < b
    BY <1>2, <1>3
  <2> QED
    BY <2>1, <2>2, <1>2
<1>5. c <= a + 1
  <2>1. a + 1 < c => d * (a + 1) + d <= d * c
    BY <1>2, <1>3
  <2>2. d * (a + 1) = d * a + d
    BY <1>2
  <2>3. ~ a + 1 < c
    BY <2>1, <2>2, <1>2
  <2> QED
    BY <2>3, <1>2
<1>6. b \in {a, c}
  BY <1>2, <1>4, <1>5
<1> QED
  BY <1>6 DEF a, b, c

\* Slot and generation, packed as in a floating address or in a VNI, and unpacked.
LEMMA Packing ==
  ASSUME NEW slot \in 0 .. MaxPorts - 1, NEW gen \in Nat
  PROVE  /\ (gen * MaxPorts + slot) \div MaxPorts = gen
         /\ (gen * MaxPorts + slot) % MaxPorts = slot
  BY DEF MaxPorts
-----------------------------------------------------------------------------
(* The length of an option list. *)

\* g sums up the options of opts, up to each index until k.
Sums(opts, k, g) == g = [n \in 0 .. k |-> IF n = 0 THEN 0 ELSE g[n - 1] + 4 + opts[n].len]

\* The recursion of WireLen defines a function, for a list of any length.
LEMMA SumsExist ==
  ASSUME NEW opts, NEW m \in Nat
  PROVE  \E g : Sums(opts, m, g)
<1> DEFINE Bad == {k \in Nat : ~ \E g : Sums(opts, k, g)}
<1>1. SUFFICES ASSUME Bad # {} PROVE FALSE
  BY Zenon
<1>2. PICK k \in Bad : \A j \in Bad : k <= j
  BY <1>1, Least, Zenon
<1>3. CASE k = 0
  <2>1. Sums(opts, 0, [n \in 0 .. 0 |-> 0])
    BY DEF Sums
  <2> QED
    BY <2>1, <1>2, <1>3
<1>4. CASE k # 0
  <2>1. k \in Nat /\ k - 1 \in Nat /\ k - 1 \notin Bad
    BY <1>2, <1>4
  <2>2. PICK g : Sums(opts, k - 1, g)
    BY <2>1
  <2> DEFINE h == [n \in 0 .. k |-> IF n = k THEN g[k - 1] + 4 + opts[k].len ELSE g[n]]
  <2>3. \A n \in 0 .. k : h[n] = IF n = 0 THEN 0 ELSE h[n - 1] + 4 + opts[n].len
    <3> TAKE n \in 0 .. k
    <3>1. \A i \in 0 .. k - 1 : g[i] = IF i = 0 THEN 0 ELSE g[i - 1] + 4 + opts[i].len
      BY <2>2, Zenon DEF Sums
    <3>2. CASE n = k
      BY <2>1, <3>2, <1>4
    <3>3. CASE n # k
      <4>1. n \in 0 .. k - 1 /\ n \in 0 .. k
        BY <3>3, <2>1
      <4>2. h[n] = g[n]
        BY <4>1, <3>3, Zenon
      <4>3. n # 0 => n - 1 \in 0 .. k /\ n - 1 # k
        BY <4>1
      <4>4. n # 0 => h[n - 1] = g[n - 1]
        BY <4>3, Zenon
      <4> QED
        BY <4>1, <4>2, <4>4, <3>1, Zenon
    <3> QED
      BY <3>2, <3>3
  <2>4. Sums(opts, k, h)
    BY <2>3, Zenon DEF Sums
  <2> QED
    BY <2>4, <1>2
<1> QED
  BY <1>3, <1>4

\* The elements of a sequence are where its type says.
LEMMA SequenceElements ==
  ASSUME NEW S, NEW s \in Seq(S)
  PROVE  /\ Len(s) \in Nat /\ DOMAIN s = 1 .. Len(s)
         /\ \A i \in 1 .. Len(s) : s[i] \in S
  OBVIOUS

\* A header of four bytes keeps a length a multiple of four.
LEMMA FourMore ==
  ASSUME NEW u \in Nat, NEW v \in Nat
  PROVE  u + 4 + v \in Nat /\ (u % 4 = 0 /\ v % 4 = 0 => (u + 4 + v) % 4 = 0)
  OBVIOUS

\* The wire length of a list of options is a number, and a multiple of four if the
\* length of every option is (what marshalGeneveOptions checks, and tc_ingress_nx again).
LEMMA WireLengths ==
  ASSUME NEW opts \in Seq([class : Nat, type : Nat, len : Nat])
  PROVE  /\ WireLen(opts) \in Nat
         /\ (\A i \in DOMAIN opts : opts[i].len % 4 = 0) => WireLen(opts) % 4 = 0
<1> DEFINE m == Len(opts)
           g == CHOOSE f : Sums(opts, m, f)
           Words == \A i \in DOMAIN opts : opts[i].len % 4 = 0
           Good(k) == g[k] \in Nat /\ (Words => g[k] % 4 = 0)
           Bad == {k \in 0 .. m : ~ Good(k)}
<1>1. m \in Nat /\ DOMAIN opts = 1 .. m /\ \A i \in 1 .. m : opts[i].len \in Nat
  <2>1. m \in Nat /\ DOMAIN opts = 1 .. m
    OBVIOUS
  <2>2. \A i \in 1 .. m : opts[i] \in [class : Nat, type : Nat, len : Nat]
    BY SequenceElements, Zenon
  <2> QED
    BY <2>1, <2>2
<1>2. WireLen(opts) = g[m]
  BY Zenon DEF WireLen, Sums
<1>3. Sums(opts, m, g)
  BY <1>1, SumsExist, Zenon
<1>4. \A n \in 0 .. m : g[n] = IF n = 0 THEN 0 ELSE g[n - 1] + 4 + opts[n].len
  BY <1>3, Zenon DEF Sums
<1> HIDE DEF g, m
<1>5. Bad = {}
  <2>1. SUFFICES ASSUME Bad # {} PROVE FALSE
    BY Zenon
  <2>2. Bad \in SUBSET Nat
    BY <1>1
  <2>3. PICK k \in Bad : \A j \in Bad : k <= j
    BY <2>1, <2>2, Least, Zenon
  <2>4. k \in 0 .. m /\ ~ Good(k)
    BY <2>3
  <2>5. k # 0
    BY <2>4, <1>4
  <2>6. k - 1 \in 0 .. m /\ k \in 1 .. m /\ ~ k <= k - 1
    BY <2>4, <2>5, <1>1
  <2>7. Good(k - 1)
    BY <2>3, <2>6, Zenon
  <2>8. g[k] = g[k - 1] + 4 + opts[k].len
    BY <2>4, <2>5, <1>4, Zenon
  <2>9. opts[k].len \in Nat /\ (Words => opts[k].len % 4 = 0)
    BY <2>6, <1>1, Zenon
  <2>10. g[k] \in Nat /\ (Words => g[k] % 4 = 0)
    <3> HIDE DEF Words
    <3> QED
      BY <2>7, <2>8, <2>9, FourMore, Zenon
  <2> QED
    BY <2>4, <2>10, Zenon
<1>6. Good(m)
  BY <1>1, <1>5
<1> QED
  BY <1>2, <1>6, Zenon
-----------------------------------------------------------------------------
(* What an accepted configuration is. *)

Fields == {"file", "numPorts", "mac", "portMAC", "customMAC", "base", "bits", "extracts",
           "services", "transit", "locator", "portBase", "tlv", "defaulted", "encapEth",
           "MTU", "devMTU", "devMTUAuto", "existingMTU", "names"}

IsRecord(c) == c = [f \in Fields |-> c[f]]

\* The fields that no parser, flag or default changes.
Verbatim == Fields \ {"extracts", "services", "portMAC", "devMTU", "devMTUAuto",
                      "portBase", "defaulted"}

\* c is r after parsing, with flags or a file, and with or without defaults.
Kept(r, c) ==
    /\ IsRecord(c)
    /\ \A f \in Verbatim : c[f] = r[f]
    /\ c.portMAC = ParsePortMAC(r)
    /\ c.services = [i \in DOMAIN r.services |-> ParseMgmtService(r.services[i])]
    /\ c.devMTU \in {r.devMTU, 0} /\ c.devMTUAuto \in {r.devMTUAuto, FALSE}
    /\ c.portBase \in {r.portBase, DefaultGenevePortBase}

\* Parsed rewrites routes, services and the port address.
LEMMA ParsedKeeps ==
  ASSUME NEW r, IsRecord(r), NEW c, c = Parsed(r)
  PROVE  Kept(r, c)
<1> DEFINE s == [i \in DOMAIN r.services |-> ParseMgmtService(r.services[i])]
           m == ParsePortMAC(r)
<1>1. PICK e : c = [r EXCEPT !.extracts = e, !.services = s, !.portMAC = m]
  BY Zenon DEF Parsed
<1> HIDE DEF s, m
<1>2. IsRecord(c)
  BY <1>1, Zenon DEF IsRecord
<1>3. c.services = s /\ c.portMAC = m
  BY <1>1, Zenon DEF IsRecord, Fields
<1>4. \A f \in Fields \ {"extracts", "services", "portMAC"} : c[f] = r[f]
  BY <1>1, Zenon DEF IsRecord
<1>5. c.devMTU = r.devMTU /\ c.devMTUAuto = r.devMTUAuto /\ c.portBase = r.portBase
  BY <1>4 DEF Fields
<1>6. \A f \in Verbatim : c[f] = r[f]
  BY <1>4 DEF Verbatim
<1> QED
  BY <1>2, <1>3, <1>5, <1>6, Zenon DEF Kept, s, m

\* Without a transit device the flags drop its options.
LEMMA FlagsKeep ==
  ASSUME NEW r, IsRecord(r), NEW c, c = FromFlags(r)
  PROVE  Kept(r, c)
<1> DEFINE p == Parsed(r)
<1>1. Kept(r, p)
  BY ParsedKeeps
<1>2. c = p \/ c = [p EXCEPT !.devMTU = 0, !.devMTUAuto = FALSE]
  BY DEF FromFlags
<1> HIDE DEF p
<1>3. CASE c = [p EXCEPT !.devMTU = 0, !.devMTUAuto = FALSE]
  <2>1. IsRecord(p)
    BY <1>1 DEF Kept
  <2>2. IsRecord(c)
    BY <1>3, <2>1, Zenon DEF IsRecord
  <2>3. c.devMTU = 0 /\ c.devMTUAuto = FALSE
    BY <1>3, <2>1, Zenon DEF IsRecord, Fields
  <2>4. \A f \in Fields \ {"devMTU", "devMTUAuto"} : c[f] = p[f]
    BY <1>3, <2>1, Zenon DEF IsRecord
  <2>5. c.portMAC = p.portMAC /\ c.services = p.services /\ c.portBase = p.portBase
    BY <2>4 DEF Fields
  <2>6. \A f \in Verbatim : c[f] = p[f]
    BY <2>4 DEF Verbatim
  <2> QED
    BY <1>1, <2>2, <2>3, <2>5, <2>6, Zenon DEF Kept
<1> QED
  BY <1>1, <1>2, <1>3

\* applyGeneveDefaults replaces a port base of zero.
LEMMA DefaultsKeep ==
  ASSUME NEW r, NEW p, Kept(r, p), NEW c, c = applyGeneveDefaults(p)
  PROVE  Kept(r, c) /\ (c.portBase = p.portBase \/ c.portBase = DefaultGenevePortBase)
         /\ c.portBase # 0
<1>1. IsRecord(p)
  BY DEF Kept
<1>2. CASE p.portBase # 0
  BY <1>2 DEF applyGeneveDefaults
<1>3. CASE c = [p EXCEPT !.portBase = DefaultGenevePortBase, !.defaulted = TRUE]
  <2>2. IsRecord(c)
    BY <1>3, <1>1, Zenon DEF IsRecord
  <2>3. c.portBase = DefaultGenevePortBase
    BY <1>3, <1>1 DEF IsRecord, Fields
  <2>4. \A f \in Fields \ {"portBase", "defaulted"} : c[f] = p[f]
    BY <1>3, <1>1, Zenon DEF IsRecord
  <2>5. /\ c.portMAC = p.portMAC /\ c.services = p.services
        /\ c.devMTU = p.devMTU /\ c.devMTUAuto = p.devMTUAuto
    BY <2>4 DEF Fields
  <2>6. \A f \in Verbatim : c[f] = p[f]
    BY <2>4 DEF Verbatim
  <2>7. DefaultGenevePortBase # 0
    BY DEF DefaultGenevePortBase
  <2> QED
    BY <2>2, <2>3, <2>5, <2>6, <2>7, Zenon DEF Kept
<1> QED
  BY <1>2, <1>3 DEF applyGeneveDefaults
\* The constants of the code, as equations.
LEMMA Sizes ==
  /\ MaxPorts = 4096 /\ MaxUint8 = 255 /\ MaxUint16 = 65535 /\ DefaultGenevePortBase = 50000
  /\ DefaultPortMTU = 1500 /\ MaxGeneveOptsLen = 64 /\ TLVLocatorLen = 8 /\ GenevePort = 6081
  /\ 2 ^ 24 = 16777216 /\ 2 ^ 0 = 1
  BY SMT DEF MaxPorts, MaxUint8, MaxUint16, DefaultGenevePortBase, DefaultPortMTU,
             MaxGeneveOptsLen, TLVLocatorLen, GenevePort

\* MAX_PORTS is a number: all that most arguments need of it.
LEMMA PortsNat == MaxPorts \in Nat
  BY SMT DEF MaxPorts

\* A request has the fields of a request.
LEMMA RequestFields ==
  ASSUME NEW r \in Requests
  PROVE  /\ IsRecord(r)
         /\ r.numPorts \in Nat /\ r.mac \in MACs /\ r.portMAC \in {"fixed", "per-port", "custom"}
         /\ r.base \in Nat \cup {Malformed} /\ r.bits \in Nat
         /\ r.services \in Seq(MgmtServices \cup {Malformed})
         /\ r.transit \in BOOLEAN /\ r.locator \in {"port", "vni", "tlv", Malformed}
         /\ r.portBase \in 0 .. MaxUint16
         /\ r.encapEth \in BOOLEAN /\ r.MTU \in Int /\ r.devMTU \in Nat \cup {Malformed}
         /\ r.devMTUAuto \in BOOLEAN /\ r.existingMTU \in Nat
  BY RequestsAssumption, Zenon DEF IsRecord, Fields

\* Start, by flags or by a file, keeps what was asked for and fills in the port base.
LEMMA BuildKeeps ==
  ASSUME NEW r \in Requests, NEW c, c = applyGeneveDefaults(buildConfig(r))
  PROVE  /\ Kept(r, c) /\ Kept(r, buildConfig(r))
         /\ c.portBase \in 1 .. MaxUint16
<1>1. IsRecord(r) /\ r.portBase \in 0 .. MaxUint16
  BY RequestFields, Zenon
<1>2. Kept(r, Parsed(r))
  BY <1>1, ParsedKeeps, Zenon
<1>3. Kept(r, buildConfig(r))
  <2>1. CASE r.file
    BY <2>1, <1>2, DefaultsKeep, Zenon DEF buildConfig, ToConfig
  <2>2. CASE ~ r.file
    BY <2>2, <1>1, FlagsKeep, Zenon DEF buildConfig
  <2> QED
    BY <2>1, <2>2, Zenon
<1>4. Kept(r, c) /\ c.portBase # 0
  BY <1>3, DefaultsKeep, Zenon
<1>5. c.portBase = r.portBase \/ c.portBase = DefaultGenevePortBase
  BY <1>4, Zenon DEF Kept
<1>6. c.portBase \in 1 .. MaxUint16
  <2>1. /\ MaxUint16 \in Nat /\ DefaultGenevePortBase \in Nat
        /\ 1 <= DefaultGenevePortBase /\ DefaultGenevePortBase <= MaxUint16
    BY Sizes, SMT
  <2>2. DefaultGenevePortBase \in 1 .. MaxUint16
    BY <2>1
  <2>3. \A p \in 0 .. MaxUint16 : p # 0 => p \in 1 .. MaxUint16
    BY <2>1
  <2> QED
    BY <1>1, <1>4, <1>5, <2>2, <2>3, Zenon
<1> QED
  BY <1>3, <1>4, <1>6, Zenon

\* What was accepted could be parsed.
LEMMA AcceptedFields ==
  ASSUME NEW r \in Requests, NEW c, Accepts(r, c)
  PROVE  /\ Kept(r, c)
         /\ r.base # Malformed /\ r.locator # Malformed /\ c.devMTU \in Nat
<1>1. Kept(r, c) /\ Kept(r, buildConfig(r))
  BY BuildKeeps, Zenon DEF Accepts
<1> DEFINE b == buildConfig(r)
<1>2. b.base # Malformed /\ b.locator # Malformed /\ b.devMTU # Malformed
  BY Zenon DEF Accepts, ParseFails
<1>3. "base" \in Verbatim /\ "locator" \in Verbatim
  BY DEF Verbatim, Fields
<1>4. r.base # Malformed /\ r.locator # Malformed
  <2>1. b["base"] = r["base"] /\ b["locator"] = r["locator"]
    BY <1>1, <1>3, Zenon DEF Kept
  <2> QED
    BY <1>2, <2>1, Zenon
<1>5. c.devMTU \in {b.devMTU, 0}
  <2>1. IsRecord(b) /\ c = applyGeneveDefaults(b)
    BY <1>1, Zenon DEF Accepts, Kept
  <2> HIDE DEF b
  <2>2. c = b \/ c = [b EXCEPT !.portBase = DefaultGenevePortBase, !.defaulted = TRUE]
    BY <2>1, Zenon DEF applyGeneveDefaults
  <2>3. "devMTU" \in Fields /\ "devMTU" # "portBase" /\ "devMTU" # "defaulted"
    BY DEF Fields
  <2>4. c["devMTU"] = b["devMTU"]
    BY <2>1, <2>2, <2>3, Zenon DEF IsRecord
  <2> QED
    BY <2>4, Zenon
<1>6. c.devMTU \in Nat
  <2>1. b.devMTU \in {r.devMTU, 0} /\ r.devMTU \in Nat \cup {Malformed} /\ 0 \in Nat
    BY <1>1, RequestFields, Zenon DEF Kept
  <2> QED
    BY <2>1, <1>2, <1>5, Zenon
<1> QED
  BY <1>1, <1>4, <1>6, Zenon
\* The map value holds the fields of the configuration.
LEMMA SwitchFields ==
  ASSUME NEW c, NEW k, k = SwitchConfig(c)
  PROVE  /\ k.numPorts = c.numPorts /\ k.mac = c.mac /\ k.portMAC = c.portMAC
         /\ k.base = c.base /\ k.bits = c.bits /\ k.locator = c.locator
         /\ k.portBase = c.portBase /\ k.tlv = c.tlv /\ k.encapEth = c.encapEth
         /\ k.services = c.services /\ k.transit = c.transit /\ k.names = c.names
         /\ k.MTU = IF c.transit THEN transitMTU(c) ELSE 0
  BY Zenon DEF SwitchConfig

\* The ranges of an accepted configuration.
Ranges(c) ==
    /\ c.numPorts \in 1 .. MaxPorts /\ c.mac \in MACs
    /\ c.base \in Nat /\ c.bits \in 0 .. 20 /\ c.base + Span(c.bits) - 1 <= AddrMax
    /\ c.locator \in {"port", "vni", "tlv"} /\ c.portBase \in 1 .. MaxUint16
    /\ c.locator = "port" => c.portBase + c.numPorts - 1 <= MaxUint16
    /\ c.transit \in BOOLEAN /\ c.encapEth \in BOOLEAN

\* The services of an accepted configuration: no two have the same target.
Unambiguous(c) ==
    /\ Len(c.services) \in Nat /\ DOMAIN c.services = 1 .. Len(c.services)
    /\ \A i, j \in 1 .. Len(c.services) :
         Target(c.services[i]) = Target(c.services[j]) => i = j

\* What validateBase and the parsers establish.
LEMMA AcceptedRanges ==
  ASSUME NEW r \in Requests, NEW c, Accepts(r, c)
  PROVE  Ranges(c)
<1>1. /\ Kept(r, c) /\ c.portBase \in 1 .. MaxUint16
      /\ r.base # Malformed /\ r.locator # Malformed
  BY BuildKeeps, AcceptedFields, Zenon DEF Accepts
<1>2. {"numPorts", "mac", "base", "bits", "locator", "transit", "encapEth"} \subseteq Verbatim
  BY DEF Verbatim, Fields
<1>3. /\ c["numPorts"] = r["numPorts"] /\ c["mac"] = r["mac"] /\ c["base"] = r["base"]
      /\ c["bits"] = r["bits"] /\ c["locator"] = r["locator"] /\ c["transit"] = r["transit"]
      /\ c["encapEth"] = r["encapEth"]
  BY <1>1, <1>2, Zenon DEF Kept
<1>4. /\ c.mac \in MACs /\ c.base \in Nat /\ c.bits \in Nat
      /\ c.locator \in {"port", "vni", "tlv"} /\ c.transit \in BOOLEAN /\ c.encapEth \in BOOLEAN
  BY <1>1, <1>3, RequestFields, Zenon
<1>5. /\ c.numPorts \in 1 .. MaxPorts /\ c.bits <= MaxGenerationBits
      /\ c.base + Span(c.bits) - 1 <= AddrMax /\ validateGeneve(c)
  BY Zenon DEF Accepts, validateBase
<1>6. c.bits \in 0 .. 20
  BY <1>4, <1>5, AddrBitsAssumption DEF MaxGenerationBits
<1>7. c.locator = "port" => c.portBase + c.numPorts - 1 <= MaxUint16
  BY <1>5, Zenon DEF validateGeneve
<1> QED
  BY <1>1, <1>4, <1>5, <1>6, <1>7, Zenon DEF Ranges

\* validateMgmtServices leaves no two services with one target.
LEMMA AcceptedServices ==
  ASSUME NEW r \in Requests, NEW c, Accepts(r, c)
  PROVE  Unambiguous(c)
<1>1. /\ c.services = [i \in DOMAIN r.services |-> ParseMgmtService(r.services[i])]
      /\ r.services \in Seq(MgmtServices \cup {Malformed})
  BY AcceptedFields, RequestFields, Zenon DEF Kept
<1>2. \A i \in DOMAIN c.services : \A j \in 1 .. i - 1 :
        Target(c.services[j]) # Target(c.services[i])
  BY Zenon DEF Accepts, validateBase, validateMgmtServices
<1> DEFINE n == Len(r.services)
<1>3. n \in Nat /\ DOMAIN r.services = 1 .. n
  BY <1>1, SequenceElements, Zenon
<1>4. DOMAIN c.services = 1 .. n
  BY <1>1, <1>3, Zenon
<1> HIDE DEF n
<1>5. Len(c.services) = n
  BY <1>1, <1>3
<1>6. ASSUME NEW i \in 1 .. n, NEW j \in 1 .. n, Target(c.services[i]) = Target(c.services[j])
      PROVE  i = j
  <2>1. i < j => i \in 1 .. j - 1
    BY <1>3
  <2>2. j < i => j \in 1 .. i - 1
    BY <1>3
  <2>3. ~ i < j /\ ~ j < i
    BY <1>2, <1>4, <1>6, <2>1, <2>2, Zenon
  <2> QED
    BY <2>3, <1>3
<1> QED
  BY <1>3, <1>4, <1>5, <1>6, Zenon DEF Unambiguous
-----------------------------------------------------------------------------
(* Floating addresses. *)

\* The window of an accepted configuration lies in the address space.
LEMMA Window ==
  ASSUME NEW c, Ranges(c)
  PROVE  /\ 2 ^ c.bits \in Nat \ {0} /\ 2 ^ AddrBits \in Nat \ {0}
         /\ Span(c.bits) = MaxPorts * 2 ^ c.bits /\ Span(c.bits) \in Nat \ {0}
         /\ c.base + Span(c.bits) <= 2 ^ AddrBits
<1>1. c.bits \in 0 .. 32 /\ c.base \in Nat /\ c.base + Span(c.bits) - 1 <= AddrMax
  BY DEF Ranges
<1>2. AddrBits \in 0 .. 32
  BY AddrBitsAssumption
<1> DEFINE p == 2 ^ c.bits
           q == 2 ^ AddrBits
<1>3. p \in Nat \ {0} /\ q \in Nat \ {0}
  BY <1>1, <1>2, Powers, Zenon
<1>4. Span(c.bits) = MaxPorts * p /\ AddrMax = q - 1
  BY Zenon DEF Span, AddrMax
<1> HIDE DEF p, q
<1>5. Span(c.bits) \in Nat \ {0}
  BY <1>3, <1>4, Sizes, SMT
<1>6. c.base + Span(c.bits) <= q
  BY <1>1, <1>3, <1>4, <1>5, SMT
<1> QED
  BY <1>3, <1>4, <1>5, <1>6, Zenon DEF p, q

\* The identities a switch with configuration c hands out.
Identity(c, slot, gen) ==
    slot \in 0 .. MaxPorts - 1 /\ gen \in Nat /\ GenerationInRange(c, gen)

\* A generation in range is below the limit the TC programs compare it with.
LEMMA GenerationBelow ==
  ASSUME NEW c, Ranges(c), NEW gen \in Nat, GenerationInRange(c, gen)
  PROVE  gen < 2 ^ c.bits
<1>1. CASE c.bits = 0
  <2>1. gen = 0
    BY <1>1, Zenon DEF GenerationInRange
  <2>2. 2 ^ c.bits = 1
    <3>1. 2 ^ 0 = 1
      BY SMT
    <3> QED
      BY <1>1, <3>1, Zenon
  <2> QED
    BY <2>1, <2>2, SMT
<1>2. CASE c.bits # 0
  BY <1>2, Zenon DEF GenerationInRange
<1> QED
  BY <1>1, <1>2

\* The sum does not wrap, and stays in the window.
LEMMA FloatingExact ==
  ASSUME NEW c, Ranges(c), NEW slot, NEW gen, Identity(c, slot, gen)
  PROVE  /\ FloatingIP(c, slot, gen) = c.base + (gen * MaxPorts + slot)
         /\ FloatingIP(c, slot, gen) \in Nat /\ c.base <= FloatingIP(c, slot, gen)
         /\ FloatingIP(c, slot, gen) <= c.base + Span(c.bits) - 1
<1> DEFINE p == 2 ^ c.bits
           q == 2 ^ AddrBits
           sp == Span(c.bits)
           x == c.base + gen * MaxPorts + slot
<1>1. slot \in 0 .. MaxPorts - 1 /\ gen \in Nat /\ gen < p
  BY GenerationBelow, Zenon DEF Identity
<1>2. p \in Nat \ {0} /\ q \in Nat \ {0} /\ sp = MaxPorts * p /\ c.base + sp <= q
  BY Window, Zenon
<1>3. c.base \in Nat
  BY Zenon DEF Ranges
<1>4. FloatingIP(c, slot, gen) = x % q
  BY Zenon DEF FloatingIP
<1> HIDE DEF p, q, sp
<1>5. slot \in Nat /\ slot <= MaxPorts - 1 /\ MaxPorts \in Nat
  BY <1>1, PortsNat
<1>6. x \in Nat /\ c.base <= x /\ x <= c.base + sp - 1 /\ x = c.base + (gen * MaxPorts + slot)
  <2> DEFINE z == gen * MaxPorts
             m == MaxPorts
  <2>1. m \in Nat \ {0}
    BY SMT DEF MaxPorts
  <2>2. m * gen + m <= m * p /\ m * gen \in Nat
    BY <1>1, <1>2, <2>1, Multiples, Zenon
  <2>3. z = m * gen
    BY <1>1, <2>1
  <2>4. sp = m * p /\ slot <= m - 1
    BY <1>2, <1>5, Zenon
  <2>5. x = c.base + z + slot
    OBVIOUS
  <2> HIDE DEF x, z, m
  <2>6. z + m <= sp /\ z \in Nat
    BY <2>2, <2>3, <2>4, Zenon
  <2>7. x \in Nat /\ c.base <= x /\ x <= c.base + sp - 1 /\ x = c.base + (z + slot)
    <3>1. sp \in Int
      BY <1>2, <2>1, <2>4
    <3> QED
      BY <1>3, <1>5, <2>1, <2>4, <2>5, <2>6, <3>1
  <2> QED
    BY <2>7, Zenon DEF z
<1> HIDE DEF x
<1>7. x < q
  BY <1>2, <1>3, <1>6, SMT
<1>8. x % q = x
  BY <1>2, <1>6, <1>7, ModSmall
<1> QED
  BY <1>4, <1>6, <1>8, Zenon DEF sp, x

\* tc_ingress_mx recovers slot and generation, and nothing else, from an address.
LEMMA FloatingDecodes ==
  ASSUME NEW c, Ranges(c), NEW slot, NEW gen, Identity(c, slot, gen)
  PROVE  DecodeFloating(c, FloatingIP(c, slot, gen)) =
           IF slot < c.numPorts THEN [slot |-> slot, gen |-> gen] ELSE [slot |-> -1, gen |-> 0]
<1> DEFINE ip == FloatingIP(c, slot, gen)
           identity == ip - c.base
<1>1. /\ ip = c.base + (gen * MaxPorts + slot) /\ ip \in Nat /\ c.base <= ip
  BY FloatingExact, Zenon
<1>2. slot \in 0 .. MaxPorts - 1 /\ gen \in Nat /\ gen < 2 ^ c.bits /\ 2 ^ c.bits \in Nat
  BY GenerationBelow, Window, Zenon DEF Identity
<1>3. c.base \in Nat /\ c.numPorts \in Nat /\ MaxPorts \in Nat
  <2>1. c.base \in Nat /\ c.numPorts \in 1 .. MaxPorts
    BY Zenon DEF Ranges
  <2> QED
    BY <2>1, PortsNat
<1>4. slot \in Nat
  BY <1>2, <1>3
<1> HIDE DEF ip
<1>5. identity = gen * MaxPorts + slot
  <2>1. gen * MaxPorts \in Nat
    BY <1>2, <1>3
  <2> QED
    BY <1>1, <1>3, <1>4, <2>1
<1>6. identity \div MaxPorts = gen /\ identity % MaxPorts = slot
  BY <1>2, <1>5, Packing, Zenon
<1>7. ~ ip < c.base /\ ~ gen >= 2 ^ c.bits
  BY <1>1, <1>2, <1>3, SMT
<1>8. slot < c.numPorts <=> ~ slot >= c.numPorts
  BY <1>3, <1>4
<1>9. DecodeFloating(c, ip) = IF slot >= c.numPorts THEN [slot |-> -1, gen |-> 0]
                              ELSE [slot |-> slot, gen |-> gen]
  BY <1>6, <1>7, Zenon DEF DecodeFloating
<1> QED
  BY <1>8, <1>9, Zenon DEF ip

\* An address identifies the attachment it was made for, and no other.
LEMMA FloatingIdentifies ==
  ASSUME NEW c, Ranges(c), NEW slot, NEW gen, Identity(c, slot, gen),
         NEW a, Identity(c, a.slot, a.gen), a.slot < c.numPorts
  PROVE  Identifies(c, a, FloatingIP(c, slot, gen)) <=> (slot = a.slot /\ gen = a.gen)
<1>1. a.slot \in Nat
  <2>1. a.slot \in 0 .. MaxPorts - 1
    BY Zenon DEF Identity
  <2> QED
    BY <2>1, PortsNat
<1>2. CASE slot < c.numPorts
  <2>1. DecodeFloating(c, FloatingIP(c, slot, gen)) = [slot |-> slot, gen |-> gen]
    BY <1>2, FloatingDecodes, Zenon
  <2> QED
    BY <2>1 DEF Identifies
<1>3. CASE ~ slot < c.numPorts
  <2>1. DecodeFloating(c, FloatingIP(c, slot, gen)) = [slot |-> -1, gen |-> 0]
    BY <1>3, FloatingDecodes, Zenon
  <2>2. a.slot # -1
    BY <1>1
  <2>3. slot # a.slot
    BY <1>3, Zenon
  <2>4. [slot |-> -1, gen |-> 0] # [slot |-> a.slot, gen |-> a.gen]
    BY <2>2
  <2> QED
    BY <2>1, <2>3, <2>4, Zenon DEF Identifies
<1> QED
  BY <1>2, <1>3

\* Every address of the window has a route back to the switch, aligned or not.
LEMMA FloatingRouted ==
  ASSUME NEW c, Ranges(c), NEW slot, NEW gen, Identity(c, slot, gen)
  PROVE  ReturnRoute(c, FloatingIP(c, slot, gen))
<1> DEFINE ip == FloatingIP(c, slot, gen)
           sp == Span(c.bits)
<1>1. ip \in Nat /\ c.base <= ip /\ ip <= c.base + sp - 1
  BY FloatingExact, Zenon
<1>2. c.base \in Nat /\ sp \in Nat \ {0}
  BY Window, Zenon DEF Ranges
<1> HIDE DEF ip, sp
<1>3. ip \div sp \in {c.base \div sp, (c.base + sp - 1) \div sp}
  BY <1>1, <1>2, BlocksCover, Zenon
<1> QED
  BY <1>3, Zenon DEF ReturnRoute, floatingReturnNets, ip, sp
-----------------------------------------------------------------------------
(* Locators on the wire. *)

\* A reply that carries the locator and nothing else passes tc_ingress_transit.
LEMMA StrictReply ==
  ASSUME NEW c, NEW f,
         f.optLen = IF c.locator = "tlv" THEN TLVLocatorLen ELSE 0,
         f.critical = (c.locator = "tlv" /\ CriticalBit(c.tlv.type))
  PROVE  StrictFraming(c, f)
<1>1. CASE c.locator = "tlv"
  BY <1>1 DEF StrictFraming, CriticalBit
<1>2. CASE c.locator # "tlv"
  BY <1>2, Zenon DEF StrictFraming
<1> QED
  BY <1>1, <1>2

\* The fields of a locator.
LEMMA LocatorFields ==
  ASSUME NEW c, NEW slot, NEW vni
  PROVE  LET loc == WireLocator(c, slot, vni)
         IN /\ loc.port = IF c.locator = "port" THEN (c.portBase + slot) % (MaxUint16 + 1)
                                                ELSE GenevePort
            /\ loc.vni = (IF c.locator = "vni" THEN slot * MaxPorts + vni ELSE vni) % 2 ^ 24
            /\ loc.slot = IF c.locator = "tlv" THEN slot ELSE 0
  BY Zenon DEF WireLocator

\* 2 ^ 24 is what twelve bits of slot and twelve bits of VNI need.
LEMMA VNIWidth ==
  2 ^ 24 \in Nat /\ 2 ^ 24 = MaxPorts * MaxPorts /\ MaxPorts <= 2 ^ 24
  BY Sizes, SMT

\* Outside the VNI locator the VNI is carried as it is.
LEMMA VNIKept ==
  ASSUME NEW c, NEW vni \in Nat, validateTransitGeneveVNI(c, vni), c.locator # "vni"
  PROVE  vni % 2 ^ 24 = vni
<1>1. vni < 2 ^ 24
  BY Zenon DEF validateTransitGeneveVNI
<1> DEFINE w == 2 ^ 24
<1>2. w \in Nat /\ vni < w
  BY <1>1, VNIWidth, Zenon
<1> HIDE DEF w
<1>3. vni % w = vni
  BY <1>2, ModSmall
<1> QED
  BY <1>3, Zenon DEF w

\* The port locator: the port range of a switch ends at 65535 or before.
LEMMA PortLocates ==
  ASSUME NEW c, Ranges(c), c.locator = "port", NEW slot \in 0 .. MaxPorts - 1,
         NEW s \in Nat, s < c.numPorts
  PROVE  ((c.portBase + slot) % (MaxUint16 + 1)) - c.portBase = s <=> slot = s
<1>1. /\ c.portBase \in 1 .. MaxUint16 /\ c.numPorts \in 1 .. MaxPorts
      /\ c.portBase + c.numPorts - 1 <= MaxUint16
  BY Zenon DEF Ranges
<1> DEFINE b == c.portBase
           n == c.numPorts
           w == MaxUint16 + 1
<1>2. MaxUint16 \in Nat /\ MaxPorts \in Nat /\ MaxPorts <= MaxUint16
  BY SMT DEF MaxUint16, MaxPorts
<1>3. /\ b \in Nat /\ 1 <= b /\ b < w /\ n \in Nat /\ b + n <= w /\ slot \in Nat /\ slot < w
      /\ w \in Nat
  BY <1>1, <1>2
<1> HIDE DEF b, n, w
<1>4. (b + slot) % w = IF b + slot < w THEN b + slot ELSE (b + slot) - w
  <2>1. CASE b + slot < w
    BY <1>3, <2>1, ModSmall
  <2>2. CASE ~ b + slot < w
    <3> DEFINE y == b + slot
    <3>1. y \in Nat /\ y >= w /\ y < w + w /\ w \in Nat \ {0}
      BY <1>3, <2>2
    <3> HIDE DEF y
    <3>2. y % w = y - w
      BY <3>1
    <3> QED
      BY <2>2, <3>2, Zenon DEF y
  <2> QED
    BY <2>1, <2>2
<1>5. s < n
  BY DEF n
<1>6. ((b + slot) % w) - b = s <=> slot = s
  BY <1>3, <1>4, <1>5
<1> QED
  BY <1>6 DEF b, w

\* The VNI locator: slot and VNI have twelve bits each.
LEMMA VNILocates ==
  ASSUME NEW slot \in 0 .. MaxPorts - 1, NEW vni \in Nat, vni < MaxPorts
  PROVE  LET v == (slot * MaxPorts + vni) % 2 ^ 24
         IN v \div MaxPorts = slot /\ v % MaxPorts = vni
<1> DEFINE x == slot * MaxPorts + vni
           w == 2 ^ 24
<1>1. slot \in Nat /\ slot < MaxPorts /\ vni \in 0 .. MaxPorts - 1
  BY PortsNat
<1>2. w \in Nat /\ w = MaxPorts * MaxPorts
  BY VNIWidth, Zenon
<1> HIDE DEF w
<1>3. x \in Nat /\ x < w
  <2>1. slot \in Nat /\ slot < MaxPorts
    BY <1>1
  <2>2. slot * MaxPorts \in Nat /\ slot * MaxPorts + MaxPorts <= w
    BY <1>2, <2>1, PortsNat, SMT
  <2> QED
    BY <1>2, <2>1, <2>2, PortsNat
<1>4. x % w = x
  BY <1>2, <1>3, ModSmall
<1>5. x \div MaxPorts = slot /\ x % MaxPorts = vni
  BY <1>1, Packing
<1> QED
  BY <1>4, <1>5, Zenon DEF w

\* The frame is taken for one of slot s with VNI v.
Names(c, f, s, v) == DecodeLocator(c, f) = [slot |-> s, vni |-> v]

\* A return frame names the slot and the VNI its locator was made for, and no other
\* slot of the switch: an encoder of tc_ingress_nx and its decoder are inverse.
LEMMA LocatorDecodes ==
  ASSUME NEW c, Ranges(c), NEW slot \in 0 .. MaxPorts - 1, NEW vni \in Nat,
         validateTransitGeneveVNI(c, vni), NEW f, StrictFraming(c, f),
         f.loc = WireLocator(c, slot, vni), NEW s \in Nat, s < c.numPorts, NEW v
  PROVE  Names(c, f, s, v) <=> (slot = s /\ vni = v)
<1> DEFINE p == (c.portBase + slot) % (MaxUint16 + 1)
           y == (IF c.locator = "vni" THEN slot * MaxPorts + vni ELSE vni) % 2 ^ 24
<1>1. /\ f.loc.port = IF c.locator = "port" THEN p ELSE GenevePort
      /\ f.loc.vni = y
      /\ f.loc.slot = IF c.locator = "tlv" THEN slot ELSE 0
  BY LocatorFields
<1>2. CASE c.locator = "port"
  <2>1. y = vni
    BY <1>2, VNIKept, Zenon
  <2>2. DecodeLocator(c, f) = [slot |-> p - c.portBase, vni |-> vni]
    <3>1. f.loc.port = p /\ f.loc.vni = vni
      BY <1>1, <1>2, <2>1
    <3> QED
      BY <1>2, <3>1, Zenon DEF DecodeLocator
  <2>3. p - c.portBase = s <=> slot = s
    BY <1>2, PortLocates, Zenon
  <2> HIDE DEF p
  <2> DEFINE d == p - c.portBase
  <2> HIDE DEF d
  <2>4. [slot |-> d, vni |-> vni] = [slot |-> s, vni |-> v] <=> (d = s /\ vni = v)
    OBVIOUS
  <2> QED
    BY <2>2, <2>3, <2>4, Zenon DEF d, Names
<1>3. CASE c.locator = "vni"
  <2>1. vni < MaxPorts
    BY <1>3, Zenon DEF validateTransitGeneveVNI
  <2>2. y \div MaxPorts = slot /\ y % MaxPorts = vni
    BY <1>3, <2>1, VNILocates, Zenon
  <2>3. c.locator # "port" /\ f.loc.port = GenevePort
    BY <1>1, <1>3
  <2>4. DecodeLocator(c, f) = [slot |-> y \div MaxPorts, vni |-> y % MaxPorts]
    BY <1>1, <1>3, <2>3, Zenon DEF DecodeLocator
  <2>5. [slot |-> slot, vni |-> vni] = [slot |-> s, vni |-> v] <=> (slot = s /\ vni = v)
    OBVIOUS
  <2> QED
    BY <2>2, <2>4, <2>5, Zenon DEF Names
<1>4. CASE c.locator = "tlv"
  <2>1. c.locator # "port" /\ c.locator # "vni" /\ f.loc.port = GenevePort /\ f.loc.slot = slot
    BY <1>1, <1>4
  <2>2. y = vni
    BY <2>1, VNIKept, Zenon
  <2>3. DecodeLocator(c, f) = [slot |-> slot, vni |-> vni]
    BY <1>1, <1>4, <2>1, <2>2, Zenon DEF DecodeLocator
  <2>4. [slot |-> slot, vni |-> vni] = [slot |-> s, vni |-> v] <=> (slot = s /\ vni = v)
    OBVIOUS
  <2> QED
    BY <2>3, <2>4, Zenon DEF Names
<1> QED
  BY <1>2, <1>3, <1>4, Zenon DEF Ranges
-----------------------------------------------------------------------------
(* Services and MAC addresses. *)

\* Max picks the greatest of a set of indices.
LEMMA Greatest ==
  ASSUME NEW n \in Nat, NEW I \in SUBSET (0 .. n), I # {}
  PROVE  Max(I) \in I /\ \A y \in I : Max(I) >= y
<1> DEFINE U == {u \in Nat : \A i \in I : i <= u}
<1>1. U \in SUBSET Nat /\ n \in U
  OBVIOUS
<1>2. PICK u \in U : \A w \in U : u <= w
  BY <1>1, Least, Zenon
<1>3. u \in I
  <2>1. SUFFICES ASSUME u \notin I PROVE FALSE
    OBVIOUS
  <2>2. PICK i \in I : TRUE
    BY Zenon
  <2>3. u - 1 \in Nat /\ \A j \in I : j <= u - 1
    BY <1>2, <2>1, <2>2
  <2> QED
    BY <1>2, <2>3
<1>4. \A y \in I : u >= y
  BY <1>2
<1> QED
  BY <1>3, <1>4, Zenon DEF Max

\* The greatest of zero and some indices is zero only if there are none.
LEMMA LastIndex ==
  ASSUME NEW n \in Nat, NEW I \in SUBSET (1 .. n)
  PROVE  Max({0} \cup I) \in I \/ (Max({0} \cup I) = 0 /\ I = {})
<1> DEFINE m == Max({0} \cup I)
<1>1. {0} \cup I \in SUBSET (0 .. n)
  OBVIOUS
<1>2. m \in {0} \cup I /\ \A y \in {0} \cup I : m >= y
  BY <1>1, Greatest, Zenon
<1>3. m # 0 => m \in I
  BY <1>2, Zenon
<1> HIDE DEF m
<1>4. m = 0 => I = {}
  BY <1>2
<1>5. m \in I \/ (m = 0 /\ I = {})
  BY <1>3, <1>4, Zenon
<1> QED
  BY <1>5, Zenon DEF m

\* The answer of a service comes back under the address the packet was sent to, unless
\* that address is the target of a service and was not translated.
LEMMA ServiceInverse ==
  ASSUME NEW c, Unambiguous(c), NEW proto, NEW end,
         mgmt_svc_fwd(c, proto, end) # end \/ mgmt_svc_rev(c, proto, end) = end
  PROVE  mgmt_svc_rev(c, proto, mgmt_svc_fwd(c, proto, end)) = end
<1>1. CASE mgmt_svc_fwd(c, proto, end) = end
  BY <1>1, Zenon
<1>2. CASE mgmt_svc_fwd(c, proto, end) # end
  <2> DEFINE I == {k \in DOMAIN c.services :
                     <<c.services[k].vip, c.services[k].vport>> = end}
             i == Max({0} \cup I)
             t == Target(c.services[i])
             J == {k \in DOMAIN c.services : Target(c.services[k]) = t}
             j == Max({0} \cup J)
  <2>1. Len(c.services) \in Nat /\ DOMAIN c.services = 1 .. Len(c.services)
    BY Zenon DEF Unambiguous
  <2>2. I \in SUBSET (1 .. Len(c.services)) /\ J \in SUBSET (1 .. Len(c.services))
    BY <2>1, Zenon
  <2>3. i # 0 /\ proto \in {"tcp", "udp"} /\ mgmt_svc_fwd(c, proto, end) = t
    BY <1>2, Zenon DEF mgmt_svc_fwd
  <2>4. i \in I
    <3> HIDE DEF I
    <3> QED
      BY <2>1, <2>2, <2>3, LastIndex, Zenon
  <2>5. i \in J /\ \A k \in J : k = i
    <3>1. i \in DOMAIN c.services
      BY <2>4, Zenon
    <3> HIDE DEF i
    <3> QED
      BY <2>1, <3>1, Zenon DEF Unambiguous
  <2>6. j = i
    <3> HIDE DEF i, J
    <3> QED
      BY <2>1, <2>2, <2>5, LastIndex, Zenon
  <2>7. mgmt_svc_rev(c, proto, t) = <<c.services[j].vip, c.services[j].vport>>
    <3>1. j # 0
      BY <2>3, <2>6, Zenon
    <3> QED
      BY <2>3, <3>1, Zenon DEF mgmt_svc_rev
  <2>8. <<c.services[i].vip, c.services[i].vport>> = end
    BY <2>4, Zenon
  <2> HIDE DEF i, j, t
  <2> QED
    BY <2>3, <2>6, <2>7, <2>8, Zenon
<1> QED
  BY <1>1, <1>2, Zenon

\* A slot number has four bits above the low byte.
LEMMA SlotBytes ==
  ASSUME NEW slot \in Nat, slot < MaxPorts
  PROVE  /\ slot \div 256 \in Nat /\ slot \div 256 < 16
         /\ (slot \div 256) % 256 = slot \div 256
  BY Sizes, SMT

\* Go and C give a port the same address.
LEMMA MacsAgree ==
  ASSUME NEW c, NEW slot \in Nat, slot < MaxPorts
  PROVE  get_port_mac(c, slot) = DeviceMAC(c, slot)
<1>1. (slot \div 256) % 256 = slot \div 256
  BY SlotBytes
<1> QED
  BY <1>1, SMT DEF get_port_mac, DeviceMAC, PortMAC

\* The fifth byte tells a port address from the switch's own and from those of the
\* management devices, which use identifiers from 0x7ff0.
LEMMA MacsDistinct ==
  ASSUME NEW m \in MACs, NEW slot \in Nat, slot < MaxPorts
  PROVE  PortMAC(m, slot) \notin {m} \cup {MgmtMAC(m, i) : i \in 0 .. 2}
<1>1. m[2] \in Nat
  <2>1. MaxUint8 \in Nat
    BY SMT DEF MaxUint8
  <2>2. m[2] \in 0 .. MaxUint8
    BY DEF MACs
  <2> QED
    BY <2>1, <2>2
<1> DEFINE q == slot \div 256
<1>2. q \in Nat /\ q < 16
  BY SlotBytes
<1> HIDE DEF q
<1>3. PortMAC(m, slot)[2] = Flipped(m) + q
  BY DEF PortMAC, q
<1>4. \A i \in 0 .. 2 : MgmtMAC(m, i)[2] = Flipped(m) + 127
  <2> TAKE i \in 0 .. 2
  <2>1. (32752 + i) \div 256 = 127
    BY SMT
  <2> QED
    BY <2>1, SMT DEF MgmtMAC
<1>5. Flipped(m) \in Nat /\ Flipped(m) + q # m[2] /\ Flipped(m) + q # Flipped(m) + 127
  <2>1. Flipped(m) = IF m[2] >= 128 THEN 0 ELSE 128
    BY DEF Flipped
  <2> QED
    BY <1>1, <1>2, <2>1, SMT
<1> QED
  BY <1>3, <1>4, <1>5

\* The address chosen by --port-mac fixed and per-port is none of the switch's own.
LEMMA DeviceDistinct ==
  ASSUME NEW r, NEW c, c.mac \in MACs, c.mac = r.mac, c.portMAC = ParsePortMAC(r),
         r.portMAC \in {"fixed", "per-port"}, NEW slot \in Nat, slot < MaxPorts
  PROVE  DeviceMAC(c, slot) \notin {c.mac} \cup {MgmtMAC(c.mac, i) : i \in 0 .. 2}
<1>1. CASE r.portMAC = "per-port"
  <2>1. c.portMAC = ZeroMAC
    BY <1>1 DEF ParsePortMAC
  <2>2. DeviceMAC(c, slot) = PortMAC(c.mac, slot)
    BY <2>1, Zenon DEF DeviceMAC
  <2> QED
    BY <2>2, MacsDistinct, Zenon
<1>2. CASE r.portMAC = "fixed"
  <2>1. c.portMAC = PortMAC(c.mac, 1)
    BY <1>2 DEF ParsePortMAC
  <2>2. PortMAC(c.mac, 1) # ZeroMAC
    BY SMT DEF PortMAC, ZeroMAC
  <2>3. DeviceMAC(c, slot) = PortMAC(c.mac, 1)
    BY <2>1, <2>2, Zenon DEF DeviceMAC
  <2>4. 1 \in Nat /\ 1 < MaxPorts
    BY Sizes, SMT
  <2> QED
    BY <2>3, <2>4, MacsDistinct, Zenon
<1> QED
  BY <1>1, <1>2
-----------------------------------------------------------------------------
(* Attachments. *)

\* The types of an Attach request, field by field.
LEMMA AttachFields ==
  ASSUME NEW a \in Attachments
  PROVE  /\ a.slot \in Nat /\ a.gen \in Nat /\ a.vni \in Nat /\ a.gateway \in Nat
         /\ a.opts \in Seq([class : Nat, type : Nat, len : Nat])
  BY AttachmentsAssumption, Zenon

\* The lengths tc_ingress_nx checks again are those Attach accepted.
LEMMA OptionsFit ==
  ASSUME NEW a \in Attachments, NEW c, Admits(c, a)
  PROVE  OptionsUsable(c, a) /\ TotalLen(c, a.opts) \in Nat
<1>1. a.opts \in Seq([class : Nat, type : Nat, len : Nat])
  BY AttachFields, Zenon
<1>2. WireLen(a.opts) \in Nat
  BY <1>1, WireLengths, Zenon
<1>3. /\ \A i \in DOMAIN a.opts : a.opts[i].len % 4 = 0
      /\ WireLen(a.opts) <= MaxGeneveOptsLen /\ TotalLen(c, a.opts) <= MaxGeneveOptsLen
  BY Zenon DEF Admits, marshalGeneveOptions
<1>4. WireLen(a.opts) % 4 = 0
  BY <1>1, <1>3, WireLengths, Zenon
<1>5. TotalLen(c, a.opts) = WireLen(a.opts) + IF c.locator = "tlv" THEN TLVLocatorLen ELSE 0
  BY Zenon DEF TotalLen
<1>6. TotalLen(c, a.opts) \in Nat
  BY <1>2, <1>5, Sizes, SMT
<1> QED
  BY <1>3, <1>4, <1>6, Zenon DEF OptionsUsable

\* The attachment and the other attachments have identities in range.
LEMMA IdentitiesInRange ==
  ASSUME Ranges(cfg), att \in Attachments, Admits(cfg, att), NEW i \in Identities
  PROVE  /\ Identity(cfg, i.slot, i.gen)
         /\ i.vni \in Nat /\ validateTransitGeneveVNI(cfg, i.vni)
<1>1. CASE i = Own
  <2>1. i.slot = att.slot /\ i.gen = att.gen /\ i.vni = att.vni
    BY <1>1, Zenon DEF Own
  <2>2. /\ att.slot \in Nat /\ att.gen \in Nat /\ att.vni \in Nat /\ att.slot < cfg.numPorts
        /\ GenerationInRange(cfg, att.gen) /\ validateTransitGeneveVNI(cfg, att.vni)
    BY AttachFields, Zenon DEF Admits
  <2>3. cfg.numPorts \in 1 .. MaxPorts
    BY Zenon DEF Ranges
  <2>4. att.slot \in 0 .. MaxPorts - 1
    BY <2>2, <2>3, PortsNat
  <2> QED
    BY <2>1, <2>2, <2>4, Zenon DEF Identity
<1>2. CASE i \in Strays /\ validateTransitGeneveVNI(cfg, i.vni) /\ GenerationInRange(cfg, i.gen)
  <2>1. i.slot \in 0 .. MaxPorts - 1 /\ i.gen \in Nat /\ i.vni \in Nat
    BY <1>2, StraysAssumption, Zenon
  <2> QED
    BY <1>2, <2>1, Zenon DEF Identity
<1> QED
  BY <1>1, <1>2, Zenon DEF Identities

\* tc_ingress_nx takes none of its defensive returns.
LEMMA NxForwards ==
  ASSUME NEW c, Ranges(c), c.transit, NEW a \in Attachments, Admits(c, a), a.gateway # 0,
         NEW p, p.proto \in IPv4 \cup {"ip6"}
  PROVE  Nx(c, a, p).at \in {"wire", "mgmt"}
<1>1. ~ a.gen >= 2 ^ c.bits
  <2>1. a.gen \in Nat /\ GenerationInRange(c, a.gen)
    BY AttachFields, Zenon DEF Admits
  <2>2. a.gen < 2 ^ c.bits /\ 2 ^ c.bits \in Nat
    BY <2>1, GenerationBelow, Window, Zenon
  <2> DEFINE z == 2 ^ c.bits
  <2> HIDE DEF z
  <2>3. a.gen < z /\ z \in Nat
    BY <2>2, Zenon DEF z
  <2>4. ~ a.gen >= z
    BY <2>1, <2>3
  <2> QED
    BY <2>4, Zenon DEF z
<1>2. p.proto # "arp"
  BY DEF IPv4
<1>3. OptionsUsable(c, a)
  BY OptionsFit, Zenon
<1>4. NxMgmt(c, a, p).at = "mgmt"
  BY Zenon DEF NxMgmt
<1>5. NxTransit(c, a, p).at = "wire"
  <2>1. NxTransit(c, a, p) =
          [at |-> "wire", gateway |-> a.gateway, loc |-> WireLocator(c, a.slot, a.vni),
           optLen |-> TotalLen(c, a.opts), critical |-> CriticalFlag(c, a.opts),
           teb |-> c.encapEth, proto |-> p.proto, len |-> p.len + EncapLen(c, a)]
    BY <1>3, Zenon DEF NxTransit
  <2> QED
    BY <2>1
<1>6. Nx(c, a, p) = NxMgmt(c, a, p) \/ Nx(c, a, p) = NxTransit(c, a, p)
  BY <1>1, <1>2, Zenon DEF Nx
<1> QED
  BY <1>4, <1>5, <1>6, Zenon

\* The transit device has room for a packet of a provisioned port and its headers.
LEMMA MTUFits ==
  ASSUME NEW r \in Requests, NEW c, Accepts(r, c), c.transit, transitMTU(c) # 0,
         NEW k, k = SwitchConfig(c), NEW a \in Attachments, Admits(k, a),
         NEW len \in Nat, len <= DefaultPortMTU
  PROVE  \/ len + EncapLen(k, a) <= k.MTU
         \/ r.MTU \in 1 .. DefaultPortMTU - 1 /\ TotalLen(k, a.opts) = 0
<1>1. k.MTU = transitMTU(c) /\ k.transit /\ k.encapEth = c.encapEth
  BY SwitchFields
<1>2. /\ c.devMTU \in Nat /\ c.existingMTU \in Nat /\ c.MTU = r.MTU /\ r.MTU \in Int
      /\ c.MTU \in 0 .. MaxUint16
  <2>1. Kept(r, c) /\ c.devMTU \in Nat
    BY AcceptedFields, Zenon
  <2>2. "MTU" \in Verbatim /\ "existingMTU" \in Verbatim
    BY DEF Verbatim, Fields
  <2>3. c["MTU"] = r["MTU"] /\ c["existingMTU"] = r["existingMTU"]
    BY <2>1, <2>2, Zenon DEF Kept
  <2>4. c.MTU \in 0 .. MaxUint16
    BY Zenon DEF Accepts, validateBase
  <2> QED
    BY <2>1, <2>3, <2>4, RequestFields, Zenon
<1> DEFINE t == TotalLen(k, a.opts)
           mtu == transitMTU(c)
           eth == IF k.encapEth THEN 14 ELSE 0
           portMTU == IF c.MTU > 0 THEN c.MTU ELSE DefaultPortMTU
           reserve == OptionsReserve(c)
<1>3. t \in Nat /\ EncapLen(k, a) = 36 + t + eth /\ eth \in Nat
  <2>1. t \in Nat
    BY OptionsFit, Zenon
  <2>2. EncapLen(k, a) = 36 + t + eth
    BY Zenon DEF EncapLen
  <2> QED
    BY <2>1, <2>2
<1>4. GeneveOverhead(k) = 50 + eth /\ GeneveOverhead(c) = 50 + eth
  BY <1>1 DEF GeneveOverhead
<1>5. reserve \in Nat
  BY Sizes, SMT DEF OptionsReserve
<1>6. MaxUint16 \in Nat /\ DefaultPortMTU \in Nat /\ DefaultPortMTU > 0
  BY Sizes, SMT
<1>7. portMTU \in Nat
  BY <1>2, <1>6
<1>8. mtu \in Nat /\ portMTU + GeneveOverhead(c) + reserve <= mtu
  <2> DEFINE required == portMTU + GeneveOverhead(c) + reserve
             wanted == IF c.devMTU > 0 THEN c.devMTU ELSE c.existingMTU
  <2>1. mtu = IF c.devMTUAuto THEN required ELSE IF wanted < required THEN 0 ELSE wanted
    BY Zenon DEF transitMTU, resolveTransitMTU
  <2>2. wanted \in Nat
    BY <1>2
  <2>3. required \in Nat
    BY <1>3, <1>4, <1>5, <1>7
  <2>4. mtu # 0
    BY Zenon
  <2> HIDE DEF required, wanted, mtu
  <2>5. mtu \in Nat /\ required <= mtu
    BY <2>1, <2>2, <2>3, <2>4
  <2> QED
    BY <2>5 DEF required
<1>9. CASE t # 0
  <2>1. DefaultPortMTU + GeneveOverhead(k) + t <= mtu
    BY <1>1, <1>9, Zenon DEF Admits, validateAttachMTU
  <2> HIDE DEF t, mtu, eth
  <2>2. len + (36 + t + eth) <= mtu
    BY <1>3, <1>4, <1>6, <1>8, <2>1
  <2> QED
    BY <1>1, <1>3, <2>2, Zenon DEF mtu
<1>10. CASE t = 0 /\ c.MTU \in 1 .. DefaultPortMTU - 1
  BY <1>2, <1>10, Zenon
<1>11. CASE t = 0 /\ c.MTU \notin 1 .. DefaultPortMTU - 1
  <2>1. portMTU >= DefaultPortMTU
    BY <1>2, <1>6, <1>11
  <2> HIDE DEF t, mtu, eth, portMTU, reserve
  <2>2. len + (36 + t + eth) <= mtu
    BY <1>3, <1>4, <1>5, <1>6, <1>7, <1>8, <1>11, <2>1
  <2> QED
    BY <1>1, <1>3, <2>2, Zenon DEF mtu
<1> QED
  BY <1>9, <1>10, <1>11, Zenon
-----------------------------------------------------------------------------
(* The invariant is inductive. *)

\* What a started switch is.
LEMMA StartedSwitch ==
  ASSUME Started
  PROVE  /\ Ranges(cfg) /\ Unambiguous(cfg)
         /\ cfg.mac = request.mac /\ cfg.portMAC = ParsePortMAC(request)
<1> DEFINE c == applyGeneveDefaults(buildConfig(request))
<1>1. request \in Requests /\ Accepts(request, c) /\ cfg = SwitchConfig(c)
  BY Zenon DEF Started
<1> HIDE DEF c
<1>2. Ranges(c) /\ Unambiguous(c) /\ Kept(request, c)
  BY <1>1, AcceptedRanges, AcceptedServices, AcceptedFields, Zenon
<1>3. /\ cfg.numPorts = c.numPorts /\ cfg.mac = c.mac /\ cfg.portMAC = c.portMAC
      /\ cfg.base = c.base /\ cfg.bits = c.bits /\ cfg.locator = c.locator
      /\ cfg.portBase = c.portBase /\ cfg.encapEth = c.encapEth
      /\ cfg.services = c.services /\ cfg.transit = c.transit
  BY <1>1, SwitchFields, Zenon
<1>4. Ranges(cfg)
  BY <1>2, <1>3, Zenon DEF Ranges
<1>5. Unambiguous(cfg)
  BY <1>2, <1>3, Zenon DEF Unambiguous
<1>6. "mac" \in Verbatim
  BY DEF Verbatim, Fields
<1>7. c["mac"] = request["mac"] /\ c.portMAC = ParsePortMAC(request)
  BY <1>2, <1>6, Zenon DEF Kept
<1> QED
  BY <1>3, <1>4, <1>5, <1>7, Zenon

\* A reply on the wire reaches the port if and only if it names the attachment.
LEMMA WireDelivers ==
  ASSUME Ranges(cfg), att \in Attachments, Admits(cfg, att), NEW i \in Identities,
         NEW f, FromWire(f, i), NEW g, g = Transit(cfg, att, f)
  PROVE  Delivered(g)
<1> DEFINE same == <<i.slot, i.gateway, i.vni>> = <<att.slot, att.gateway, att.vni>>
<1>1. /\ i.slot \in 0 .. MaxPorts - 1 /\ i.vni \in Nat /\ validateTransitGeneveVNI(cfg, i.vni)
  BY IdentitiesInRange, Zenon DEF Identity
<1>2. att.slot \in Nat /\ att.slot < cfg.numPorts
  BY AttachFields, Zenon DEF Admits
<1>3. StrictFraming(cfg, f) /\ f.loc = WireLocator(cfg, i.slot, i.vni)
  BY StrictReply, Zenon DEF FromWire
<1>4. DecodeLocator(cfg, f) = [slot |-> att.slot, vni |-> att.vni]
        <=> (i.slot = att.slot /\ i.vni = att.vni)
  <2>1. Names(cfg, f, att.slot, att.vni) <=> (i.slot = att.slot /\ i.vni = att.vni)
    BY <1>1, <1>2, <1>3, LocatorDecodes, SMTT(20)
  <2> QED
    BY <2>1, Zenon DEF Names
<1>5. f.gateway = i.gateway /\ f.proto = sent.proto /\ f.own = same
  BY Zenon DEF FromWire
<1>6. same <=> (i.slot = att.slot /\ i.gateway = att.gateway /\ i.vni = att.vni)
  OBVIOUS
<1>7. CASE same
  <2>1. g = [at |-> "port", from |-> "wire", slot |-> att.slot, own |-> f.own,
             proto |-> f.proto, mac |-> get_port_mac(cfg, att.slot)]
    BY <1>4, <1>5, <1>6, <1>7, Zenon DEF Transit
  <2>2. /\ g.at = "port" /\ g.from = "wire" /\ g.slot = att.slot /\ g.own = f.own
        /\ g.proto = f.proto /\ g.mac = get_port_mac(cfg, att.slot)
    BY <2>1
  <2>3. f.own
    BY <1>5, <1>7, Zenon
  <2>4. "wire" # "mgmt"
    OBVIOUS
  <2> QED
    BY <1>5, <2>2, <2>3, <2>4, Zenon DEF Delivered
<1>8. CASE ~ same
  <2>1. g = [at |-> "stack", own |-> f.own]
    BY <1>4, <1>5, <1>6, <1>8, Zenon DEF Transit
  <2>2. g.at = "stack" /\ g.own = f.own /\ ~ f.own
    BY <1>5, <1>8, <2>1
  <2> QED
    BY <2>2, Zenon DEF Delivered
<1> QED
  BY <1>7, <1>8, Zenon

\* A reply to a floating address is routed and reaches the port if and only if it is
\* the address of the attachment.
LEMMA MgmtDelivers ==
  ASSUME Ranges(cfg), att \in Attachments, Admits(cfg, att), NEW i \in Identities,
         NEW f, FromMgmt(f, i)
  PROVE  ReturnRoute(cfg, f.dst) /\ Delivered(Mx(cfg, att, f))
<1> DEFINE same == <<i.slot, i.gen>> = <<att.slot, att.gen>>
           g == Mx(cfg, att, f)
<1>1. Identity(cfg, i.slot, i.gen)
  BY IdentitiesInRange, Zenon
<1>2. Own \in Identities /\ Own.slot = att.slot /\ Own.gen = att.gen
  BY Zenon DEF Identities, Own
<1>3. Identity(cfg, att.slot, att.gen) /\ att.slot < cfg.numPorts
  BY <1>2, IdentitiesInRange, Zenon DEF Admits
<1>4. /\ f.dst = FloatingIP(cfg, i.slot, i.gen) /\ f.proto = sent.proto /\ f.own = same
      /\ f.end = mgmt_svc_fwd(cfg, sent.proto, <<sent.dst, sent.dport>>)
  BY Zenon DEF FromMgmt
<1>5. ReturnRoute(cfg, f.dst)
  BY <1>1, <1>4, FloatingRouted, Zenon
<1>6. Identifies(cfg, att, f.dst) <=> (i.slot = att.slot /\ i.gen = att.gen)
  BY <1>1, <1>3, <1>4, FloatingIdentifies
<1>7. same <=> (i.slot = att.slot /\ i.gen = att.gen)
  OBVIOUS
<1>8. CASE same
  <2>1. g = [at |-> "port", from |-> "mgmt", slot |-> att.slot, own |-> f.own,
             proto |-> f.proto, end |-> mgmt_svc_rev(cfg, f.proto, f.end),
             mac |-> get_port_mac(cfg, att.slot)]
    BY <1>6, <1>7, <1>8, Zenon DEF Mx
  <2>2. /\ g.at = "port" /\ g.slot = att.slot /\ g.own = f.own /\ g.proto = f.proto
        /\ g.end = mgmt_svc_rev(cfg, f.proto, f.end) /\ g.mac = get_port_mac(cfg, att.slot)
    BY <2>1
  <2>3. f.own
    BY <1>4, <1>8, Zenon
  <2> HIDE DEF g
  <2>4. Delivered(g)
    BY <1>4, <2>2, <2>3, Zenon DEF Delivered
  <2> QED
    BY <1>5, <2>4, Zenon DEF g
<1>9. CASE ~ same
  <2>1. g = [at |-> "stack", own |-> f.own]
    BY <1>6, <1>7, <1>9, Zenon DEF Mx
  <2>2. g.at = "stack" /\ g.own = f.own /\ ~ f.own
    BY <1>4, <1>9, <2>1
  <2> HIDE DEF g
  <2>3. Delivered(g)
    BY <2>2, Zenon DEF Delivered
  <2> QED
    BY <1>5, <2>3, Zenon DEF g
<1> QED
  BY <1>8, <1>9, Zenon
\* f is the frame of packet p on the wire.
OnWire(c, a, p, f) ==
    f.proto = p.proto /\ f.optLen = TotalLen(c, a.opts) /\ f.len = p.len + EncapLen(c, a)

\* f is the packet p on a management plane.
OnMgmt(c, p, f) == f.proto = p.proto /\ f.end = mgmt_svc_fwd(c, p.proto, <<p.dst, p.dport>>)

\* What tc_ingress_nx keeps of the packet in a frame it forwards.
LEMMA SentFrames ==
  ASSUME NEW c, NEW a, NEW p, NEW f, f = Nx(c, a, p)
  PROVE  /\ f.at = "wire" => c.transit /\ OnWire(c, a, p, f)
         /\ f.at = "mgmt" => OnMgmt(c, p, f)
<1>1. \/ f = Stack \/ f = NxArp(c, p) \/ f = NxMgmt(c, a, p) \/ f = NxTransit(c, a, p)
  BY Zenon DEF Nx
<1>2. CASE f = Stack
  BY <1>2 DEF Stack
<1>3. CASE f = NxArp(c, p)
  <2>1. f.at = "answer"
    BY <1>3 DEF NxArp
  <2> QED
    BY <2>1
<1>4. CASE f = NxMgmt(c, a, p)
  <2>1. /\ f.at = "mgmt" /\ f.proto = p.proto
        /\ f.end = mgmt_svc_fwd(c, p.proto, <<p.dst, p.dport>>)
    BY <1>4 DEF NxMgmt
  <2> QED
    BY <2>1 DEF OnMgmt
<1>5. CASE f = NxTransit(c, a, p)
  <2>1. CASE ~ c.transit \/ a.gateway = 0 \/ ~ OptionsUsable(c, a)
    <3>1. f = Stack
      BY <1>5, <2>1, Zenon DEF NxTransit
    <3> QED
      BY <1>2, <3>1
  <2>2. CASE ~ (~ c.transit \/ a.gateway = 0 \/ ~ OptionsUsable(c, a))
    <3>1. f = [at |-> "wire", gateway |-> a.gateway, loc |-> WireLocator(c, a.slot, a.vni),
               optLen |-> TotalLen(c, a.opts), critical |-> CriticalFlag(c, a.opts),
               teb |-> c.encapEth, proto |-> p.proto, len |-> p.len + EncapLen(c, a)]
      BY <1>5, <2>2, Zenon DEF NxTransit
    <3>2. /\ f.at = "wire" /\ f.proto = p.proto
          /\ f.optLen = TotalLen(c, a.opts) /\ f.len = p.len + EncapLen(c, a)
      BY <3>1
    <3>3. c.transit
      BY <2>2, Zenon
    <3> QED
      BY <3>2, <3>3 DEF OnWire
  <2> QED
    BY <2>1, <2>2, Zenon
<1> QED
  BY <1>1, <1>2, <1>3, <1>4, <1>5, Zenon
\* Nothing has been decided before Start.
LEMMA JourneyInit == Init => JourneyInv
<1> SUFFICES ASSUME Init PROVE JourneyInv
  OBVIOUS
<1>1. phase = "idle"
  BY Zenon DEF Init
<1>2. "idle" \notin {"again", "attached", "sent", "asked", "replied", "done"}
  OBVIOUS
<1> QED
  BY <1>1, <1>2, Zenon DEF JourneyInv

\* The phases, told apart once.
LEMMA Phases ==
  /\ "refused" \notin {"again", "attached", "sent", "asked", "replied", "done"}
  /\ "started" \notin {"idle", "refused", "again", "attached", "sent", "asked", "replied", "done"}
  /\ "again" \notin {"idle", "refused", "attached", "sent", "asked", "replied", "done"}
  /\ "attached" \notin {"idle", "refused", "again", "sent", "asked", "replied", "done"}
  /\ "sent" \notin {"idle", "refused", "again", "asked", "replied", "done"}
  /\ "asked" \notin {"idle", "refused", "again", "sent", "replied", "done"}
  /\ "replied" \notin {"idle", "refused", "again", "sent", "asked", "done"}
  /\ "done" \notin {"idle", "refused", "again", "sent", "asked", "replied"}
  OBVIOUS

\* Every step of the journey establishes what its next phase needs.
LEMMA JourneyStep == JourneyInv /\ [Next]_vars => JourneyInv'
<1> SUFFICES ASSUME JourneyInv, [Next]_vars PROVE JourneyInv'
  OBVIOUS
<1>1. ASSUME NEW r \in Requests, Start(r) PROVE JourneyInv'
  <2> DEFINE c == applyGeneveDefaults(buildConfig(r))
  <2>1. CASE phase' = "refused"
    BY <2>1, Phases, Zenon DEF JourneyInv
  <2>2. CASE phase' # "refused"
    <3>1. /\ phase' = "started" /\ request' = r /\ cfg' = SwitchConfig(c)
          /\ ~ ParseFails(buildConfig(r)) /\ validateBase(c) /\ (c.transit => transitMTU(c) # 0)
      BY <1>1, <2>2, Zenon DEF Start
    <3>2. Started'
      BY <3>1, Zenon DEF Started, Accepts
    <3> QED
      BY <3>1, <3>2, Phases, Zenon DEF JourneyInv
  <2> QED
    BY <2>1, <2>2, Zenon
<1>2. ASSUME NEW r \in Requests, StartAgain(r) PROVE JourneyInv'
  <2> DEFINE c == applyGeneveDefaults(buildConfig(r))
  <2>1. /\ phase = "started" /\ phase' = "again" /\ UNCHANGED <<request, cfg>>
        /\ ~ ParseFails(buildConfig(r)) /\ validateBase(c)
        /\ frame' = [at |-> IF validateConfigMatch(cfg, c) THEN "reopened" ELSE "mismatch",
                     request |-> r, config |-> c]
    BY <1>2, Zenon DEF StartAgain
  <2>2. Accepts(r, c)
    BY <2>1, Zenon DEF Accepts
  <2>3. Started'
    BY <2>1, Phases, Zenon DEF JourneyInv, Started
  <2> HIDE DEF c
  <2>4. /\ frame'.request = r /\ frame'.config = c
        /\ frame'.at = IF validateConfigMatch(cfg, c) THEN "reopened" ELSE "mismatch"
    BY <2>1
  <2>5. Judged'
    BY <1>2, <2>1, <2>2, <2>4, Zenon DEF Judged
  <2> QED
    BY <2>1, <2>3, <2>5, Phases, Zenon DEF JourneyInv
<1>3. ASSUME NEW a \in Attachments, Attach(a) PROVE JourneyInv'
  <2>1. phase = "started" /\ UNCHANGED <<request, cfg>>
    BY <1>3, Zenon DEF Attach
  <2>2. CASE phase' = "refused"
    BY <2>2, Phases, Zenon DEF JourneyInv
  <2>3. CASE phase' # "refused"
    <3>1. phase' = "attached" /\ att' = a /\ Admits(cfg, a)
      BY <1>3, <2>3, Zenon DEF Attach, Admits
    <3>2. Started'
      BY <2>1, Phases, Zenon DEF JourneyInv, Started
    <3>3. att' \in Attachments /\ Admits(cfg, att)'
      BY <1>3, <2>1, <3>1, Zenon DEF Admits
    <3> QED
      BY <3>1, <3>2, <3>3, Phases, Zenon DEF JourneyInv
  <2> QED
    BY <2>2, <2>3, Zenon
<1>4. ASSUME NEW p \in Packets, Send(p) PROVE JourneyInv'
  <2>1. /\ phase = "attached" /\ phase' = "sent" /\ sent' = p /\ frame' = Nx(cfg, att, p)
        /\ UNCHANGED <<request, cfg, att>>
    BY <1>4, Zenon DEF Send
  <2>2. Started' /\ att' \in Attachments /\ Admits(cfg, att)'
    BY <2>1, Phases, Zenon DEF JourneyInv, Started, Admits
  <2>3. frame' = Nx(cfg, att, sent)'
    <3>1. Nx(cfg, att, sent)' = Nx(cfg', att', sent')
      OBVIOUS
    <3> QED
      BY <2>1, <3>1, Zenon
  <2> QED
    BY <1>4, <2>1, <2>2, <2>3, Phases, Zenon DEF JourneyInv
<1>5. CASE AskArp
  <2>1. phase = "attached" /\ phase' = "asked" /\ UNCHANGED <<request, cfg, att, sent>>
    BY <1>5, Zenon DEF AskArp
  <2>2. PICK i \in Identities : frame' = MxArp(cfg, att, FloatingIP(cfg, i.slot, i.gen))
    BY <1>5, Zenon DEF AskArp
  <2>3. Started' /\ att' \in Attachments /\ Admits(cfg, att)'
    BY <2>1, Phases, Zenon DEF JourneyInv, Started, Admits
  <2>4. i \in Identities'
    BY <2>1, <2>2, Zenon DEF Identities, Own
  <2>5. \E j \in Identities' : frame' = MxArp(cfg', att', FloatingIP(cfg', j.slot, j.gen))
    BY <2>1, <2>2, <2>4, Zenon
  <2> QED
    BY <2>1, <2>3, <2>5, Phases, Zenon DEF JourneyInv
<1>6. CASE Reply
  <2>1. phase = "sent" /\ phase' = "replied" /\ UNCHANGED <<request, cfg, att, sent>>
    BY <1>6, Zenon DEF Reply
  <2>2. /\ Started' /\ att' \in Attachments /\ Admits(cfg, att)' /\ sent' \in Packets
        /\ frame = Nx(cfg, att, sent)
    BY <2>1, Phases, Zenon DEF JourneyInv, Started, Admits
  <2>3. PICK i \in Identities, teb \in BOOLEAN :
          \/ frame.at = "wire" /\ frame' = WireReply(i, teb)
          \/ frame.at = "mgmt" /\ frame' = MgmtReply(i)
    BY <1>6, Zenon DEF Reply
  <2>4. frame.at = "wire" => OnWire(cfg, att, sent, frame)
    BY <2>2, SentFrames, Zenon
  <2>5. frame.at = "mgmt" => OnMgmt(cfg, sent, frame)
    BY <2>2, SentFrames, Zenon
  <2>6. FromWire(frame', i) \/ FromMgmt(frame', i)
    <3>1. CASE frame.at = "wire" /\ frame' = WireReply(i, teb)
      BY <2>4, <3>1 DEF WireReply, FromWire, OnWire
    <3>2. CASE frame.at = "mgmt" /\ frame' = MgmtReply(i)
      BY <2>5, <3>2 DEF MgmtReply, FromMgmt, OnMgmt
    <3> QED
      BY <2>3, <3>1, <3>2, Zenon
  <2>7. i \in Identities'
    BY <2>1, <2>3, Zenon DEF Identities, Own
  <2>8. \E j \in Identities' : FromWire(frame, j)' \/ FromMgmt(frame, j)'
    BY <2>1, <2>6, <2>7, Zenon DEF FromWire, FromMgmt
  <2> QED
    BY <2>1, <2>2, <2>8, Phases, Zenon DEF JourneyInv
<1>7. CASE Return
  <2>1. /\ phase = "replied" /\ phase' = "done" /\ UNCHANGED <<request, cfg, att, sent>>
        /\ frame' = IF frame.at = "wireReply" THEN Transit(cfg, att, frame)
                    ELSE IF ReturnRoute(cfg, frame.dst) THEN Mx(cfg, att, frame)
                    ELSE [at |-> "unrouted", own |-> frame.own]
    BY <1>7, Zenon DEF Return
  <2>2. /\ Started /\ att \in Attachments /\ Admits(cfg, att) /\ sent \in Packets
        /\ \E i \in Identities : FromWire(frame, i) \/ FromMgmt(frame, i)
    BY <2>1, Phases, Zenon DEF JourneyInv
  <2>3. PICK i \in Identities : FromWire(frame, i) \/ FromMgmt(frame, i)
    BY <2>2, Zenon
  <2>4. Ranges(cfg)
    BY <2>2, StartedSwitch, Zenon
  <2>5. Delivered(frame')
    <3>1. CASE FromWire(frame, i)
      <4>1. frame' = Transit(cfg, att, frame)
        BY <2>1, <3>1, Zenon DEF FromWire
      <4> QED
        BY <2>2, <2>4, <3>1, <4>1, WireDelivers, Zenon
    <3>2. CASE FromMgmt(frame, i)
      <4>1. frame.at # "wireReply"
        BY <3>2 DEF FromMgmt
      <4>2. ReturnRoute(cfg, frame.dst) /\ Delivered(Mx(cfg, att, frame))
        BY <2>2, <2>4, <3>2, MgmtDelivers, Zenon
      <4> QED
        BY <2>1, <4>1, <4>2, Zenon
    <3> QED
      BY <2>3, <3>1, <3>2, Zenon
  <2>6. Started' /\ att' \in Attachments /\ Admits(cfg, att)' /\ sent' \in Packets
    BY <2>1, <2>2, Zenon DEF Started, Admits
  <2>7. Delivered(frame)'
    BY <2>1, <2>5, Zenon DEF Delivered
  <2> QED
    BY <2>1, <2>6, <2>7, Phases, Zenon DEF JourneyInv
<1>8. CASE UNCHANGED vars
  <2>1. UNCHANGED <<phase, request, cfg, att, sent, frame>>
    BY <1>8, Zenon DEF vars
  <2>2. (Started => Started') /\ (Judged => Judged')
    BY <2>1, Zenon DEF Started, Judged
  <2>3. Identities' = Identities
    BY <2>1, Zenon DEF Identities, Own
  <2>4. \A i : (FromWire(frame, i) => FromWire(frame, i)') /\ (FromMgmt(frame, i) => FromMgmt(frame, i)')
    BY <2>1, Zenon DEF FromWire, FromMgmt
  <2>5. Delivered(frame) => Delivered(frame)'
    BY <2>1, Zenon DEF Delivered
  <2> QED
    BY <2>1, <2>2, <2>3, <2>4, <2>5, Zenon DEF JourneyInv
<1> QED
  BY <1>1, <1>2, <1>3, <1>4, <1>5, <1>6, <1>7, <1>8, Zenon DEF Next
-----------------------------------------------------------------------------
(* The theorems. *)

\* The journey, from the start request to the delivery of the reply, goes as JourneyInv
\* says, for every request, attachment, packet and reply.
THEOREM JourneyInvariant == Spec => []JourneyInv
<1>1. Init => JourneyInv
  BY JourneyInit
<1>2. JourneyInv /\ [Next]_vars => JourneyInv'
  BY JourneyStep
<1> QED
  BY <1>1, <1>2, PTL DEF Spec

\* What Start and Attach accept, tc_ingress_nx forwards: no accepted option list,
\* generation or locator meets one of its defensive returns.
THEOREM AcceptedLeaves == Spec => []AcceptedIsForwarded
<1>1. JourneyInv => AcceptedIsForwarded
  <2> SUFFICES ASSUME JourneyInv, phase = "sent", cfg.transit, att.gateway # 0,
                      sent.proto \in IPv4 \cup {"ip6"}
               PROVE  frame.at \in {"wire", "mgmt"}
    BY Zenon DEF AcceptedIsForwarded
  <2>1. Started /\ att \in Attachments /\ Admits(cfg, att) /\ frame = Nx(cfg, att, sent)
    BY Phases, Zenon DEF JourneyInv
  <2>2. Ranges(cfg)
    BY <2>1, StartedSwitch, Zenon
  <2> QED
    BY <2>1, <2>2, NxForwards, Zenon
<1> QED
  BY <1>1, JourneyInvariant, PTL

\* Replies reach the slot that sent the packet and no other: the encoders of
\* tc_ingress_nx and the decoders of tc_ingress_mx and tc_ingress_transit are inverse
\* for every accepted configuration, address space and generation.
THEOREM RepliesReturn == Spec => []ReturnsToSender
<1>1. JourneyInv => ReturnsToSender
  <2> SUFFICES ASSUME JourneyInv, phase = "done"
               PROVE  IF frame.own
                      THEN frame.at = "port" /\ frame.slot = att.slot /\ frame.proto = sent.proto
                      ELSE frame.at \in {"stack", "unrouted"}
    BY Zenon DEF ReturnsToSender
  <2>1. Delivered(frame)
    BY Zenon DEF JourneyInv
  <2> QED
    BY <2>1, Zenon DEF Delivered
<1> QED
  BY <1>1, JourneyInvariant, PTL

\* The stateless translation of services is undone on the way back, since no two
\* accepted services have the same target.
THEOREM ServicesAreTransparent == Spec => []ServiceTransparent
<1>1. JourneyInv => ServiceTransparent
  <2> SUFFICES ASSUME JourneyInv, phase = "done", frame.own, frame.at = "port", ~ BareTarget,
                      frame.from = "mgmt"
               PROVE  frame.end = <<sent.dst, sent.dport>>
    BY Zenon DEF ServiceTransparent
  <2> DEFINE end == <<sent.dst, sent.dport>>
  <2>1. Started /\ Delivered(frame)
    BY Phases, Zenon DEF JourneyInv
  <2>2. Unambiguous(cfg)
    BY <2>1, StartedSwitch, Zenon
  <2>3. frame.end = mgmt_svc_rev(cfg, sent.proto, mgmt_svc_fwd(cfg, sent.proto, end))
    BY <2>1, Zenon DEF Delivered
  <2>4. mgmt_svc_fwd(cfg, sent.proto, end) # end \/ mgmt_svc_rev(cfg, sent.proto, end) = end
    BY Zenon DEF BareTarget
  <2> HIDE DEF end
  <2>5. mgmt_svc_rev(cfg, sent.proto, mgmt_svc_fwd(cfg, sent.proto, end)) = end
    BY <2>2, <2>4, ServiceInverse, Zenon
  <2> QED
    BY <2>3, <2>5, Zenon DEF end
<1> QED
  BY <1>1, JourneyInvariant, PTL

\* Encapsulation fits the transit device: resolveTransitMTU reserves what EncapLen adds,
\* and an Attach with options checks them against the MTU in force.
THEOREM PacketsFit == Spec => []EncapFits
<1>1. JourneyInv => EncapFits
  <2> SUFFICES ASSUME JourneyInv, phase = "sent", frame.at = "wire", sent.len <= DefaultPortMTU
               PROVE  \/ frame.len <= cfg.MTU
                      \/ request.MTU \in 1 .. DefaultPortMTU - 1 /\ frame.optLen = 0
    BY Zenon DEF EncapFits
  <2>1. /\ Started /\ att \in Attachments /\ Admits(cfg, att) /\ sent \in Packets
        /\ frame = Nx(cfg, att, sent)
    BY Phases, Zenon DEF JourneyInv
  <2>2. cfg.transit /\ OnWire(cfg, att, sent, frame)
    BY <2>1, SentFrames, Zenon
  <2> DEFINE c == applyGeneveDefaults(buildConfig(request))
  <2>3. /\ request \in Requests /\ Accepts(request, c) /\ cfg = SwitchConfig(c)
        /\ c.transit => transitMTU(c) # 0
    BY <2>1, Zenon DEF Started
  <2> HIDE DEF c
  <2>4. c.transit
    <3>1. cfg.transit = c.transit
      BY <2>3, SwitchFields, Zenon
    <3> QED
      BY <2>2, <3>1
  <2>5. sent.len \in Nat
    BY <2>1, PacketsAssumption, Zenon
  <2>6. \/ sent.len + EncapLen(cfg, att) <= cfg.MTU
        \/ request.MTU \in 1 .. DefaultPortMTU - 1 /\ TotalLen(cfg, att.opts) = 0
    BY <2>1, <2>3, <2>4, <2>5, MTUFits, Zenon
  <2> QED
    BY <2>2, <2>6, Zenon DEF OnWire
<1> QED
  BY <1>1, JourneyInvariant, PTL

\* MAC addresses agree between Go and the TC programs, and an ARP answer names the
\* port of the current floating address and no other device.
THEOREM AddressesAgree == Spec => []MacsNameDevices
<1>1. ASSUME JourneyInv, phase \in {"done", "asked"}
      PROVE  /\ Started /\ Ranges(cfg) /\ att \in Attachments /\ Admits(cfg, att)
             /\ att.slot \in Nat /\ att.slot < MaxPorts
             /\ get_port_mac(cfg, att.slot) = DeviceMAC(cfg, att.slot)
  <2>1. Started /\ att \in Attachments /\ Admits(cfg, att)
    BY <1>1, Phases, Zenon DEF JourneyInv
  <2>2. Ranges(cfg)
    BY <2>1, StartedSwitch, Zenon
  <2>3. att.slot \in Nat /\ att.slot < cfg.numPorts /\ cfg.numPorts \in 1 .. MaxPorts
    BY <2>1, <2>2, AttachFields, Zenon DEF Admits, Ranges
  <2>4. att.slot < MaxPorts
    BY <2>3, PortsNat
  <2> QED
    BY <2>1, <2>2, <2>3, <2>4, MacsAgree, Zenon
<1>2. ASSUME JourneyInv, phase = "done", frame.at = "port"
      PROVE  frame.mac = DeviceMAC(cfg, att.slot)
  <2>1. Delivered(frame) /\ get_port_mac(cfg, att.slot) = DeviceMAC(cfg, att.slot)
    BY <1>1, <1>2, Zenon DEF JourneyInv
  <2>2. "port" \notin {"stack", "unrouted"}
    OBVIOUS
  <2> QED
    BY <1>2, <2>1, <2>2, Zenon DEF Delivered
<1>3. ASSUME JourneyInv, phase = "asked"
      PROVE  IF frame.about = FloatingIP(cfg, att.slot, att.gen)
             THEN /\ frame.mac = DeviceMAC(cfg, att.slot)
                  /\ request.portMAC \in {"fixed", "per-port"} =>
                       frame.mac \notin {cfg.mac} \cup {MgmtMAC(cfg.mac, i) : i \in 0 .. 2}
             ELSE frame.mac = cfg.mac
  <2>1. /\ Started /\ Ranges(cfg) /\ att \in Attachments /\ Admits(cfg, att)
        /\ att.slot \in Nat /\ att.slot < MaxPorts
        /\ get_port_mac(cfg, att.slot) = DeviceMAC(cfg, att.slot)
    BY <1>1, <1>3, Zenon
  <2>2. PICK i \in Identities : frame = MxArp(cfg, att, FloatingIP(cfg, i.slot, i.gen))
    BY <1>3, Zenon DEF JourneyInv
  <2> DEFINE ip == FloatingIP(cfg, i.slot, i.gen)
             own == FloatingIP(cfg, att.slot, att.gen)
  <2>3. /\ frame.about = ip
        /\ frame.mac = IF Identifies(cfg, att, ip) THEN get_port_mac(cfg, att.slot) ELSE cfg.mac
    <3> HIDE DEF ip
    <3>1. frame = MxArp(cfg, att, ip)
      BY <2>2, Zenon DEF ip
    <3> QED
      BY <3>1 DEF MxArp
  <2>4. Identity(cfg, i.slot, i.gen)
    BY <2>1, <2>2, IdentitiesInRange, Zenon
  <2>5. Identity(cfg, att.slot, att.gen) /\ att.slot < cfg.numPorts
    <3>1. Own \in Identities /\ Own.slot = att.slot /\ Own.gen = att.gen
      BY Zenon DEF Identities, Own
    <3> QED
      BY <2>1, <3>1, IdentitiesInRange, Zenon DEF Admits
  <2>6. Identifies(cfg, att, ip) <=> (i.slot = att.slot /\ i.gen = att.gen)
    BY <2>1, <2>4, <2>5, FloatingIdentifies
  <2>7. Identifies(cfg, att, own)
    BY <2>1, <2>5, FloatingIdentifies
  <2>8. CASE ip = own
    <3>1. frame.mac = DeviceMAC(cfg, att.slot)
      BY <2>1, <2>3, <2>7, <2>8, Zenon
    <3>2. /\ cfg.mac = request.mac /\ cfg.portMAC = ParsePortMAC(request) /\ cfg.mac \in MACs
      BY <2>1, StartedSwitch, Zenon DEF Ranges
    <3>3. request.portMAC \in {"fixed", "per-port"} =>
            DeviceMAC(cfg, att.slot) \notin {cfg.mac} \cup {MgmtMAC(cfg.mac, j) : j \in 0 .. 2}
      BY <2>1, <3>2, DeviceDistinct, Zenon
    <3> QED
      BY <2>3, <2>8, <3>1, <3>3, Zenon
  <2>9. CASE ip # own
    <3>1. ~ Identifies(cfg, att, ip)
      BY <2>6, <2>9, Zenon
    <3> QED
      BY <2>3, <2>9, <3>1, Zenon
  <2> QED
    BY <2>8, <2>9, Zenon
<1>4. JourneyInv => MacsNameDevices
  BY <1>2, <1>3, Zenon DEF MacsNameDevices
<1> QED
  BY <1>4, JourneyInvariant, PTL

\* Start can be repeated: the same request opens the switch again, and a request that
\* opens it agrees with it on the number of slots, the locators and the addresses.
THEOREM StartIsRepeatable == Spec => []StartRepeats
<1>1. JourneyInv => StartRepeats
  <2> SUFFICES ASSUME JourneyInv, phase = "again"
               PROVE  /\ frame.request = request => frame.at = "reopened"
                      /\ frame.at = "reopened" =>
                           /\ frame.config.numPorts = cfg.numPorts
                           /\ \A s \in {0, cfg.numPorts - 1} :
                                /\ WireLocator(frame.config, s, 0) = WireLocator(cfg, s, 0)
                                /\ FloatingIP(frame.config, s, 0) = FloatingIP(cfg, s, 0)
    BY Zenon DEF StartRepeats
  <2> DEFINE c == applyGeneveDefaults(buildConfig(request))
             d == frame.config
  <2>1. Started /\ Judged
    BY Phases, Zenon DEF JourneyInv
  <2>2. Ranges(cfg) /\ cfg = SwitchConfig(c)
    BY <2>1, StartedSwitch, Zenon DEF Started
  <2>3. /\ d = applyGeneveDefaults(buildConfig(frame.request))
        /\ frame.at = IF validateConfigMatch(cfg, d) THEN "reopened" ELSE "mismatch"
    BY <2>1, Zenon DEF Judged, Accepts
  <2>4. ASSUME frame.request = request PROVE frame.at = "reopened"
    <3>1. d = c
      BY <2>3, <2>4, Zenon
    <3> HIDE DEF c, d
    <3>2. /\ cfg.numPorts = c.numPorts /\ cfg.base = c.base /\ cfg.bits = c.bits
          /\ cfg.names = c.names /\ cfg.transit = c.transit /\ cfg.locator = c.locator
          /\ cfg.portBase = c.portBase /\ cfg.tlv = c.tlv
      BY <2>2, SwitchFields, Zenon
    <3>3. validateConfigMatch(cfg, c)
      BY <3>2, Zenon DEF validateConfigMatch
    <3> QED
      BY <2>3, <3>1, <3>3, Zenon
  <2>5. ASSUME frame.at = "reopened"
        PROVE  /\ d.numPorts = cfg.numPorts
               /\ \A s \in {0, cfg.numPorts - 1} :
                    /\ WireLocator(d, s, 0) = WireLocator(cfg, s, 0)
                    /\ FloatingIP(d, s, 0) = FloatingIP(cfg, s, 0)
    <3> HIDE DEF d
    <3>1. validateConfigMatch(cfg, d)
      BY <2>3, <2>5
    <3>2. <<cfg.numPorts, cfg.base, cfg.bits, cfg.names, cfg.transit, cfg.locator>>
            = <<d.numPorts, d.base, d.bits, d.names, d.transit, d.locator>>
      BY <3>1, Zenon DEF validateConfigMatch
    <3>3. cfg.numPorts = d.numPorts /\ cfg.base = d.base /\ cfg.locator = d.locator
      BY <3>2
    <3>4. cfg.portBase # 0
      <4>1. cfg.portBase \in 1 .. MaxUint16
        BY <2>2, Zenon DEF Ranges
      <4>2. MaxUint16 \in Nat
        BY Sizes, SMT
      <4> QED
        BY <4>1, <4>2
    <3>5. d.locator = "port" => d.portBase = cfg.portBase
      BY <3>1, <3>4, Zenon DEF validateConfigMatch
    <3>6. \A s : WireLocator(d, s, 0) = WireLocator(cfg, s, 0)
      <4> TAKE s
      <4>1. CASE d.locator = "port"
        BY <3>3, <3>5, <4>1, Zenon DEF WireLocator
      <4>2. CASE d.locator # "port"
        BY <3>3, <4>2, Zenon DEF WireLocator
      <4> QED
        BY <4>1, <4>2, Zenon
    <3>7. \A s : FloatingIP(d, s, 0) = FloatingIP(cfg, s, 0)
      BY <3>3, Zenon DEF FloatingIP
    <3> QED
      BY <3>3, <3>6, <3>7, Zenon
  <2> QED
    BY <2>4, <2>5, Zenon
<1> QED
  BY <1>1, JourneyInvariant, PTL
=============================================================================
