--------------------------- MODULE MCForwarding ---------------------------
(***************************************************************************)
(* Boundary values for Forwarding: the ends of every range the code        *)
(* checks, and one value on either side.  Requests vary the transit side   *)
(* and the management side separately, since no check relates the two.     *)
(***************************************************************************)
EXTENDS Forwarding, FiniteSets

Plain ==
    [file |-> TRUE, numPorts |-> 2, mac |-> <<1, 0, 9>>, portMAC |-> "fixed",
     customMAC |-> <<1, 7, 7>>, base |-> 0, bits |-> 0, extracts |-> <<>>, services |-> <<>>,
     transit |-> TRUE, locator |-> "port", portBase |-> 0, tlv |-> NoTLV, defaulted |-> FALSE,
     encapEth |-> FALSE, MTU |-> 0, devMTU |-> 0, devMTUAuto |-> TRUE, existingMTU |-> 1500,
     names |-> 1]

TLV(t) == [class |-> 258, type |-> t, set |-> TRUE]

\* Locators and port ranges: ranges that end at, before and after port 65535.
LocatorRequests ==
    {[Plain EXCEPT !.locator = l, !.numPorts = n, !.portBase = b, !.tlv = t, !.file = (n # 1)] :
        l \in {"port", "vni", "tlv", Malformed}, n \in {0, 1, 4096, 4097},
        b \in {0, 1, 50000, 61440, 61441, 65535}, t \in {NoTLV, TLV(1), TLV(129)}}

\* Transit MTU: exactly enough, one byte short, and room for some options only.
MTURequests ==
    {[Plain EXCEPT !.locator = l, !.tlv = IF l = "tlv" THEN TLV(129) ELSE NoTLV,
                   !.encapEth = e, !.MTU = m, !.devMTU = d, !.devMTUAuto = (d = 0 /\ m = 1500),
                   !.existingMTU = x] :
        l \in {"port", "tlv"}, e \in BOOLEAN, m \in {0, 1400, 1500, 65536},
        d \in {0, 1464, 1549, 1550, 1572}, x \in {1500, 1700}}

Route(ip, size) == [ip |-> ip, size |-> size]

Service(vip, vport, target, tport) ==
    [vip |-> vip, vport |-> vport, target |-> target, tport |-> tport]

\* Four routes on two planes (one too many for a slot), overlapping ones, none.
Extracts == {<<>>, << <<>> >>, << <<Route(16, 16)>> >>,
             << <<Route(20, 0), Route(16, 16)>>, <<Route(20, 4), Route(64, 16)>> >>}

\* One service, two behind one VIP, a target that is itself in a route, two
\* services with the same target, a VIP without route and a port out of range.
Services == {<<>>, <<Service(20, 80, 99, 8080)>>,
             <<Service(20, 80, 99, 8080), Service(20, 80, 99, 8081)>>,
             <<Service(20, 80, 21, 80), Service(21, 80, 20, 80)>>,
             <<Service(20, 80, 99, 8080), Service(21, 81, 99, 8080)>>,
             <<Service(200, 80, 99, 8080)>>, <<Service(20, 0, 99, 8080)>>}

\* Floating windows that end at the last address, one past it, and unaligned ones.
FloatingRequests ==
    {[Plain EXCEPT !.base = b, !.bits = g, !.extracts = e, !.services = s, !.portMAC = "per-port",
                   !.numPorts = 4096, !.transit = FALSE, !.file = FALSE] :
        b \in {0, 4097, 2 ^ 20 - 8192, 2 ^ 20 - 4096, 2 ^ 20 - 4095}, g \in {0, 1, 8, 9},
        e \in Extracts, s \in Services}

\* The three ways to choose port addresses, with both values of the flipped bit.
MacRequests ==
    {[Plain EXCEPT !.portMAC = m, !.customMAC = <<1, 9, 9>>, !.mac = <<1, b, 9>>,
                   !.numPorts = n, !.bits = 1, !.file = FALSE] :
        m \in {"fixed", "per-port", "custom"}, b \in {0, 127, 128, 255}, n \in {2, 4096}}

MCRequests == LocatorRequests \cup MTURequests \cup FloatingRequests \cup MacRequests

Option(type, len) == [class |-> 258, type |-> type, len |-> len]

Attached(slot, ip, gen, vni, opts, gateway) ==
    [slot |-> slot, ip |-> ip, gen |-> gen, vni |-> vni, opts |-> opts, gateway |-> gateway]

\* Options: none, the longest, one word more, a bad length, the locator's own type.
OptionLists == {<<>>, <<Option(2, 52)>>, <<Option(130, 0), Option(3, 52)>>,
                <<Option(2, 60)>>, <<Option(2, 64)>>, <<Option(2, 6)>>, <<Option(1, 4)>>}

MCAttachments ==
    {Attached(s, 7, 0, v, o, 9) : s \in {0, 1, 4095}, v \in {0, 4095, 4096, 2 ^ 24 - 1, 2 ^ 24},
                                  o \in OptionLists}
        \cup {Attached(s, i, g, 5, <<>>, 0) : s \in {0, 300, 4095}, i \in {0, 7},
                                              g \in {0, 1, 2, 255}}

\* len is the size of the IP packet; 1500 fills a port.
Frame(proto, dst, dport, len) == [proto |-> proto, dst |-> dst, dport |-> dport, len |-> len]

MCPackets ==
    {Frame("tcp", d, 80, 1500) : d \in {20, 21, 66, 5000}}
        \cup {Frame("icmp", 21, 0, 1500), Frame("udp", 20, 53, 100), Frame("ip6", 0, 0, 1500),
              Frame("arp", 20, 0, 28), Frame("other", 0, 0, 60)}

MCStrays == {[slot |-> s, gen |-> g, gateway |-> w, vni |-> v] :
                s \in {0, 1}, g \in {1}, w \in {9}, v \in {0}}
                \cup {[slot |-> 4095, gen |-> 0, gateway |-> 10, vni |-> 0]}
=============================================================================
