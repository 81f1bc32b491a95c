---------------------------- MODULE Dhcp_proofs ----------------------------
(***************************************************************************)
(* Safety of Dhcp for any number of clients, any pools, retries and        *)
(* restarts.  The one restriction is on the pools: none ends at the last   *)
(* address, where next would wrap to 0 (server.go, ipPool.Allocate).       *)
(***************************************************************************)
EXTENDS Dhcp, FiniteSetTheorems, TLAPS

NoPoolAtEnd == \A r \in Pools : r[2] < MaxAddr

AddressOrNone == Addresses \union {NoLease}

PoolType ==
    [start : Addresses, end : Addresses, next : Addresses, leases : [Macs -> AddressOrNone]]
SrvType ==
    [pc : {"off", "created", "listening", "returned"}, closed : BOOLEAN, sock : BOOLEAN,
     watcher : BOOLEAN, cancelled : BOOLEAN, run : 0 .. MaxRestarts]
ClientType ==
    [pc : {"idle", "discover", "request", "leased", "failed"}, attempt : 0 .. Retries,
     offer : AddressOrNone, lease : AddressOrNone, run : Nat]
MsgType ==
    [type : {"DISCOVER", "OFFER", "REQUEST", "ACK"}, mac : Macs, xid : Nat,
     ip : AddressOrNone, run : Nat]

Types ==
    /\ pool \in PoolType
    /\ srv \in SrvType
    /\ client \in [Macs -> ClientType]
    /\ net \in SUBSET MsgType

Given(p) == {m \in Macs : p.leases[m] # NoLease}

\* The addresses below next are exactly the ones given out, one to a client.
PoolInv(p) ==
    /\ p.end < MaxAddr
    /\ \A m \in Given(p) : p.leases[m] \in p.start .. p.end /\ p.leases[m] < p.next
    /\ \A m, n \in Given(p) : m # n => p.leases[m] # p.leases[n]
    /\ p.next = p.start + Cardinality(Given(p))

\* What an acknowledgement or a lease says is what the pool of its run recorded.
Recorded(m, ip, run) ==
    /\ ip # NoLease
    /\ run <= srv.run
    /\ run = srv.run => ip = pool.leases[m]

Acks == {msg \in net : msg.type = "ACK"}
Holders == {m \in Macs : client[m].pc = "leased"}

RecordInv ==
    /\ \A msg \in Acks : Recorded(msg.mac, msg.ip, msg.run)
    /\ \A m \in Holders : Recorded(m, client[m].lease, client[m].run)

\* Within one run, no two clients were promised or hold one address.
DistinctInv ==
    /\ \A a, b \in Acks : a.mac # b.mac /\ a.run = b.run => a.ip # b.ip
    /\ \A a \in Acks, m \in Holders :
           a.mac # m /\ a.run = client[m].run => a.ip # client[m].lease
    /\ NoSharedLease

\* A request of the current attempt names the offer that was selected.
OfferInv ==
    /\ \A msg \in net :
           /\ msg.xid <= client[msg.mac].attempt
           /\ msg.type \in {"OFFER", "REQUEST"} => msg.ip # NoLease
           /\ msg.type \in {"REQUEST", "ACK"} /\ msg.xid = client[msg.mac].attempt
                  => /\ client[msg.mac].pc \notin {"idle", "discover"}
                     /\ client[msg.mac].pc \in {"request", "leased"}
                            => msg.ip = client[msg.mac].offer
    /\ \A m \in Holders : client[m].lease = client[m].offer

IInv ==
    /\ Types
    /\ PoolInv(pool)
    /\ RecordInv
    /\ DistinctInv
    /\ OfferInv
    /\ NoSocketLeft

USE DhcpConstants

\* Addresses are the numbers up to the last one.
LEMMA AddressFacts ==
    /\ MaxAddr \in Nat
    /\ Addresses = 0 .. MaxAddr
    /\ NoLease \notin Addresses
BY DEF Addresses

-----------------------------------------------------------------------------
\* uint32 arithmetic that does not overflow.
LEMMA ModSmall ==
    ASSUME NEW n \in Nat, NEW x \in Nat, x <= n
    PROVE  x % (n + 1) = x
OBVIOUS

\* A pool with one more record has its type.
LEMMA PoolUpdated ==
    ASSUME NEW q \in PoolType, NEW m \in Macs, NEW ip \in Addresses, NEW n \in Addresses
    PROVE  [q EXCEPT !.leases[m] = ip, !.next = n] \in PoolType
BY ZenonT(60) DEF PoolType, AddressOrNone

\* What Allocate returns: the pool it leaves is sound, the answer is what that pool
\* records for the client, and no lease is taken back.
LEMMA AllocateSound ==
    ASSUME pool \in PoolType, PoolInv(pool), NEW m \in Macs
    PROVE  LET a == Allocate(m)
           IN  /\ a.pool \in PoolType
               /\ PoolInv(a.pool)
               /\ a.ip = a.pool.leases[m]
               /\ \A n \in Macs : pool.leases[n] # NoLease => a.pool.leases[n] = pool.leases[n]
<1> DEFINE a == Allocate(m)
           p == [pool EXCEPT !.leases[m] = pool.next, !.next = (@ + 1) % (MaxAddr + 1)]
<1>1. CASE pool.leases[m] # NoLease
  BY <1>1 DEF Allocate
<1>2. CASE pool.leases[m] = NoLease /\ pool.next > pool.end
  BY <1>2 DEF Allocate
<1>3. CASE pool.leases[m] = NoLease /\ ~(pool.next > pool.end)
  <2>1. a = [ip |-> pool.next, pool |-> p]
    BY <1>3 DEF Allocate
  <2>2. pool.next + 1 <= MaxAddr /\ (pool.next + 1) % (MaxAddr + 1) = pool.next + 1
    <3>1. pool.next \in Nat /\ pool.end \in Nat /\ pool.end < MaxAddr
      BY AddressFacts DEF PoolType, PoolInv
    <3>2. pool.next + 1 \in Nat /\ pool.next + 1 <= MaxAddr
      BY <1>3, <3>1, AddressFacts
    <3>. QED
      BY <3>2, AddressFacts, ModSmall
  <2>3. /\ p.start = pool.start /\ p.end = pool.end /\ p.next = pool.next + 1
        /\ p.leases = [pool.leases EXCEPT ![m] = pool.next]
    BY <2>2 DEF PoolType
  <2>4. p \in PoolType
    <3>1. pool.next + 1 \in Addresses
      BY <2>2, AddressFacts DEF PoolType
    <3>. QED
      BY <2>2, <3>1, PoolUpdated, Zenon DEF PoolType
  <2> HIDE DEF p
  <2>5. Given(p) = Given(pool) \union {m} /\ m \notin Given(pool)
    BY <1>3, <2>3, AddressFacts DEF Given, PoolType
  <2>6. IsFiniteSet(Given(pool))
    BY FS_Subset DEF Given
  <2>7. Cardinality(Given(p)) = Cardinality(Given(pool)) + 1
    BY <2>5, <2>6, FS_AddElement, Zenon
  <2>8. Cardinality(Given(pool)) \in Nat
    BY <2>6, FS_CardinalityType
  <2>9. pool.next \in pool.start .. pool.end
    BY <1>3, <2>8, AddressFacts DEF PoolType, PoolInv
  <2>10. p.next = p.start + Cardinality(Given(p))
    BY <2>3, <2>7, <2>8, AddressFacts DEF PoolInv, PoolType
  <2>11. \A n \in Given(p) : p.leases[n] \in p.start .. p.end /\ p.leases[n] < p.next
    BY <2>3, <2>5, <2>9, AddressFacts DEF PoolInv, PoolType, Given, AddressOrNone
  <2>12. \A n, o \in Given(p) : n # o => p.leases[n] # p.leases[o]
    <3>1. \A n \in Given(pool) : p.leases[n] = pool.leases[n] /\ p.leases[n] # pool.next
      BY <2>3, <2>5, AddressFacts DEF PoolInv, PoolType, Given, AddressOrNone
    <3>2. p.leases[m] = pool.next
      BY <2>3 DEF PoolType
    <3>. QED
      BY <2>5, <3>1, <3>2, Zenon DEF PoolInv
  <2>13. PoolInv(p)
    BY <2>3, <2>10, <2>11, <2>12 DEF PoolInv
  <2>14. a.pool = p /\ a.ip = pool.next /\ p.leases[m] = pool.next
    BY <2>1, <2>3 DEF PoolType
  <2>15. \A n \in Macs : pool.leases[n] # NoLease => p.leases[n] = pool.leases[n]
    BY <1>3, <2>3 DEF PoolType
  <2>. QED
    BY <2>4, <2>13, <2>14, <2>15
<1>. QED
  BY <1>1, <1>2, <1>3

-----------------------------------------------------------------------------
\* The invariant holds of an empty pool and clients that have asked nothing.
LEMMA InitInv == NoPoolAtEnd /\ Init => IInv
<1> SUFFICES ASSUME NoPoolAtEnd, Init PROVE IInv
  OBVIOUS
<1>1. PICK r \in Pools : pool = EmptyPool(r)
  BY DEF Init
<1>2. r[1] \in Addresses /\ r[2] \in Addresses /\ r[2] < MaxAddr
  BY AddressFacts DEF NoPoolAtEnd
<1>3. Types
  BY <1>1, <1>2, AddressFacts
     DEF Init, EmptyPool, Types, PoolType, SrvType, ClientType, AddressOrNone
<1>4. Given(pool) = {}
  BY <1>1 DEF EmptyPool, Given
<1>5. Cardinality(Given(pool)) = 0
  BY <1>4, FS_EmptySet
<1>6. PoolInv(pool)
  BY <1>1, <1>2, <1>4, <1>5, AddressFacts DEF EmptyPool, PoolInv
<1>7. Acks = {} /\ Holders = {} /\ net = {}
  BY DEF Init, Acks, Holders
<1>. QED
  BY <1>3, <1>6, <1>7
     DEF IInv, RecordInv, DistinctInv, OfferInv, NoSharedLease, NoSocketLeft, Holders, Init

\* A step of the server's life that does not start a new run.
LEMMA ServerOnly ==
    ASSUME IInv, UNCHANGED <<pool, client, net>>, srv' \in SrvType, srv'.run = srv.run,
           NoSocketLeft'
    PROVE  IInv'
<1>1. Types' /\ PoolInv(pool)' /\ OfferInv' /\ DistinctInv'
  BY ZenonT(60) DEF IInv, Types, PoolInv, Given, OfferInv, DistinctInv, NoSharedLease, Holders, Acks
<1>2. RecordInv'
  BY Zenon DEF IInv, RecordInv, Recorded, Holders, Acks
<1>. QED
  BY <1>1, <1>2, Zenon DEF IInv

\* Listening, closing and stopping change neither pool nor leases.
LEMMA ServerInv ==
    ASSUME IInv, NewServer \/ Serve \/ Cancel \/ Close \/ ServeReturn
    PROVE  IInv'
<1>1. srv' \in SrvType /\ srv'.run = srv.run
  BY Zenon DEF IInv, Types, SrvType, NewServer, Serve, Cancel, Close, ServeReturn
<1>2. NoSocketLeft'
  BY Zenon DEF IInv, Types, SrvType, NoSocketLeft, NewServer, Serve, Cancel, Close, ServeReturn
<1>. QED
  BY <1>1, <1>2, ServerOnly, Zenon DEF NewServer, Serve, Cancel, Close, ServeReturn

\* A restart begins a new run with an empty pool.
LEMMA RestartInv == ASSUME IInv, Restart PROVE IInv'
<1> DEFINE r == <<pool.start, pool.end>>
<1>1. /\ pool' = [start |-> pool.start, end |-> pool.end, next |-> pool.start,
                  leases |-> [m \in Macs |-> NoLease]]
      /\ client' = client /\ net' = net
  BY DEF Restart, EmptyPool
<1>2. srv' \in SrvType /\ srv'.run = srv.run + 1
  BY DEF Restart, IInv, Types, SrvType
<1>3. Types'
  BY <1>1, <1>2 DEF IInv, Types, PoolType, AddressOrNone
<1>4. Given(pool)' = {}
  BY <1>1 DEF Given
<1>5. Cardinality(Given(pool)') = 0
  BY <1>4, FS_EmptySet
<1>6. PoolInv(pool)'
  BY <1>1, <1>4, <1>5, AddressFacts DEF IInv, Types, PoolType, PoolInv
<1>7. RecordInv'
  <2>1. \A run \in Nat : run <= srv.run => run <= srv'.run /\ run # srv'.run
    BY <1>2 DEF IInv, Types, SrvType
  <2>2. \A msg \in Acks : msg.run \in Nat
    BY DEF IInv, Types, MsgType, Acks
  <2>3. \A m \in Holders : client[m].run \in Nat
    BY DEF IInv, Types, ClientType, Holders
  <2>. QED
    BY <1>1, <2>1, <2>2, <2>3, Zenon DEF IInv, RecordInv, Recorded, Acks, Holders
<1>8. DistinctInv' /\ OfferInv'
  BY <1>1, ZenonT(60) DEF IInv, DistinctInv, OfferInv, NoSharedLease, Acks, Holders
<1>9. NoSocketLeft'
  BY DEF Restart, NoSocketLeft
<1>. QED
  BY <1>3, <1>6, <1>7, <1>8, <1>9 DEF IInv

\* The server answers one message.
LEMMA HandleInv == ASSUME IInv, Handle PROVE IInv'
<1>1. PICK msg \in net :
        /\ msg.type \in {"DISCOVER", "REQUEST"}
        /\ pool' = Allocate(msg.mac).pool
        /\ net' = net \union {reply \in IF Allocate(msg.mac).ip = NoLease THEN {}
                                        ELSE IF msg.type = "DISCOVER" THEN HandleDiscover(msg)
                                        ELSE HandleRequest(msg) : Awaited(reply)}
  BY Zenon DEF Handle
<1>2. client' = client /\ srv' = srv
  BY Zenon DEF Handle
<1>3. msg \in MsgType /\ msg.mac \in Macs /\ msg.xid \in Nat
  BY DEF IInv, Types, MsgType
<1> DEFINE ip == Allocate(msg.mac).ip
<1>4. /\ pool' \in PoolType /\ PoolInv(pool') /\ ip = pool'.leases[msg.mac]
      /\ \A n \in Macs : pool.leases[n] # NoLease => pool'.leases[n] = pool.leases[n]
  BY <1>1, <1>3, AllocateSound, Zenon DEF IInv, Types
<1>5. ip \in AddressOrNone
  BY <1>3, <1>4 DEF PoolType
<1> HIDE DEF ip
<1>6. \A n \in net' \ net :
        /\ n \in MsgType /\ n.type \in {"OFFER", "ACK"} /\ Awaited(n)
        /\ n.mac = msg.mac /\ n.xid = msg.xid /\ n.ip = ip /\ ip # NoLease
        /\ n.type = "ACK" => /\ msg.type = "REQUEST" /\ n.run = srv.run
                             /\ msg.ip # NoLease => msg.ip = ip
  <2> SUFFICES ASSUME NEW n \in net' \ net,
                      ip # NoLease, Awaited(n),
                      n \in IF msg.type = "DISCOVER" THEN HandleDiscover(msg)
                            ELSE HandleRequest(msg)
               PROVE  /\ n \in MsgType /\ n.type \in {"OFFER", "ACK"}
                      /\ n.mac = msg.mac /\ n.xid = msg.xid /\ n.ip = ip
                      /\ n.type = "ACK" => /\ msg.type = "REQUEST" /\ n.run = srv.run
                                           /\ msg.ip # NoLease => msg.ip = ip
    BY <1>1, Zenon DEF ip
  <2>1. CASE msg.type = "DISCOVER"
    <3>1. n = [msg EXCEPT !.type = "OFFER", !.ip = ip]
      BY <2>1 DEF HandleDiscover, Reply, ip
    <3>. QED
      BY <1>3, <1>5, <3>1, Zenon DEF MsgType
  <2>2. CASE msg.type # "DISCOVER"
    <3>1. n = [msg EXCEPT !.type = "ACK", !.ip = ip, !.run = srv.run]
      BY <1>3, <2>2 DEF HandleRequest, Acknowledged, Reply, ip, MsgType
    <3>2. msg.ip # NoLease => msg.ip = ip
      BY <2>2 DEF HandleRequest, ip
    <3>3. srv.run \in Nat
      BY DEF IInv, Types, SrvType
    <3>. QED
      BY <1>1, <1>3, <1>5, <2>2, <3>1, <3>2, <3>3, Zenon DEF MsgType
  <2>. QED
    BY <2>1, <2>2
<1>7. net \subseteq net'
  BY <1>1
<1>8. Types'
  BY <1>2, <1>4, <1>6, Zenon DEF IInv, Types
<1>9. \A m \in Macs : \A i, run : Recorded(m, i, run) => Recorded(m, i, run)'
  BY <1>2, <1>4, Zenon DEF Recorded
<1>10. \A n \in net' \ net : n.type = "ACK" => Recorded(n.mac, n.ip, n.run)'
  BY <1>2, <1>4, <1>6 DEF Recorded, IInv, Types, SrvType
<1>11. \A n \in net : n.mac \in Macs
  BY DEF IInv, Types, MsgType
<1>12. RecordInv'
  BY <1>2, <1>9, <1>10, <1>11, Zenon DEF IInv, RecordInv, Acks, Holders
<1>13. \A m, o \in Macs : \A i, j, run :
         m # o /\ run = srv.run /\ Recorded(m, i, run)' /\ Recorded(o, j, run)' => i # j
  BY <1>2, <1>4, Zenon DEF Recorded, PoolInv, Given
<1>14. DistinctInv'
  <2>1. \A n \in net' : n.mac \in Macs
    BY <1>8 DEF Types, MsgType
  <2>2. ASSUME NEW a \in Acks', NEW b \in Acks', a.mac # b.mac, a.run = b.run
        PROVE  a.ip # b.ip
    <3>1. CASE a \in net /\ b \in net
      BY <2>2, <3>1, Zenon DEF IInv, DistinctInv, Acks
    <3>2. CASE a \notin net \/ b \notin net
      <4>1. a.run = srv.run
        BY <1>6, <2>2, <3>2, Zenon DEF Acks
      <4>2. Recorded(a.mac, a.ip, a.run)' /\ Recorded(b.mac, b.ip, a.run)'
        BY <1>12, <2>2, Zenon DEF RecordInv
      <4>3. a.mac \in Macs /\ b.mac \in Macs
        BY <2>1, Zenon DEF Acks
      <4>. QED
        BY <1>13, <2>2, <4>1, <4>2, <4>3, Zenon
    <3>. QED
      BY <3>1, <3>2
  <2>3. ASSUME NEW a \in Acks', NEW m \in Holders', a.mac # m, a.run = client'[m].run
        PROVE  a.ip # client'[m].lease
    <3>1. CASE a \in net
      BY <1>2, <2>3, <3>1, Zenon DEF IInv, DistinctInv, Acks, Holders
    <3>2. CASE a \notin net
      <4>1. a.run = srv.run
        BY <1>6, <3>2, Zenon DEF Acks
      <4>2. Recorded(a.mac, a.ip, a.run)' /\ Recorded(m, client[m].lease, a.run)'
        BY <1>12, <2>3, Zenon DEF RecordInv
      <4>3. a.mac \in Macs /\ m \in Macs
        BY <2>1, Zenon DEF Acks, Holders
      <4>. QED
        BY <1>13, <2>3, <4>1, <4>2, <4>3, Zenon
    <3>. QED
      BY <3>1, <3>2
  <2>4. NoSharedLease'
    BY <1>2, Zenon DEF IInv, DistinctInv, NoSharedLease
  <2>. QED
    BY <2>2, <2>3, <2>4, Zenon DEF DistinctInv
<1>15. OfferInv'
  <2>1. ASSUME NEW n \in net' \ net
        PROVE  /\ n.xid <= client[n.mac].attempt
               /\ n.type \in {"OFFER", "REQUEST"} => n.ip # NoLease
               /\ n.type \in {"REQUEST", "ACK"} /\ n.xid = client[n.mac].attempt
                     => /\ client[n.mac].pc \notin {"idle", "discover"}
                        /\ client[n.mac].pc \in {"request", "leased"}
                               => n.ip = client[n.mac].offer
    <3>1. n.xid <= client[n.mac].attempt
      BY <1>6, Zenon DEF IInv, OfferInv
    <3>2. ASSUME n.type = "ACK"
          PROVE  client[n.mac].pc = "request" /\ n.ip = client[n.mac].offer
      <4>1. msg.type = "REQUEST" /\ msg.xid = client[msg.mac].attempt
              /\ client[msg.mac].pc = "request"
        BY <1>6, <3>2 DEF Awaited
      <4>2. msg.ip # NoLease /\ msg.ip = client[msg.mac].offer
        BY <4>1 DEF IInv, OfferInv
      <4>. QED
        BY <1>6, <3>2, <4>1, <4>2
    <3>. QED
      BY <1>6, <3>1, <3>2
  <2>. QED
    BY <1>2, <1>7, <2>1, Zenon DEF IInv, OfferInv, Holders
<1>16. NoSocketLeft'
  BY <1>2, Zenon DEF IInv, NoSocketLeft
<1>17. PoolInv(pool)'
  BY <1>4
<1>. QED
  BY <1>8, <1>12, <1>14, <1>15, <1>16, <1>17 DEF IInv

\* A client step that gives nobody a lease.
LEMMA ClientKeeps ==
    ASSUME IInv, UNCHANGED <<pool, srv>>, Acks' \subseteq Acks, Holders' \subseteq Holders,
           \A h \in Holders' : client'[h] = client[h]
    PROVE  PoolInv(pool)' /\ RecordInv' /\ DistinctInv' /\ NoSocketLeft'
<1>1. PoolInv(pool)' /\ NoSocketLeft'
  BY Zenon DEF IInv, PoolInv, Given, NoSocketLeft
<1>2. RecordInv'
  BY Zenon DEF IInv, RecordInv, Recorded
<1>3. \A m \in Macs : client'[m].pc = "leased" =>
         client[m].pc = "leased" /\ client'[m] = client[m]
  BY Zenon DEF Holders
<1>4. NoSharedLease'
  <2> SUFFICES ASSUME NEW m \in Macs, NEW n \in Macs, m # n, client'[m].pc = "leased",
                      client'[n].pc = "leased", client'[m].run = client'[n].run
               PROVE  client'[m].lease # client'[n].lease
    BY Zenon DEF NoSharedLease
  <2>1. client'[m] = client[m] /\ client'[n] = client[n]
    BY <1>3
  <2>. QED
    BY <2>1 DEF IInv, DistinctInv, NoSharedLease
<1>5. DistinctInv'
  BY <1>4, Zenon DEF IInv, DistinctInv
<1>. QED
  BY <1>1, <1>2, <1>5

\* A client begins an attempt.
LEMMA DiscoverInv == ASSUME IInv, NEW m \in Macs, Discover(m) PROVE IInv'
<1>1. /\ client[m].pc = "idle" /\ client' = [client EXCEPT ![m].pc = "discover"]
      /\ net' = net \union {Msg(m, "DISCOVER", NoLease)} /\ UNCHANGED <<pool, srv>>
  BY DEF Discover
<1>2. Types'
  BY <1>1 DEF IInv, Types, ClientType, MsgType, Msg, AddressOrNone
<1>3. /\ \A n \in Macs \ {m} : client'[n] = client[n]
      /\ client'[m].pc = "discover" /\ client'[m].attempt = client[m].attempt
  BY <1>1 DEF IInv, Types, ClientType
<1>4. Acks' = Acks /\ Holders' = Holders /\ m \notin Holders
  BY <1>1, <1>3 DEF Acks, Holders, Msg
<1>5. OfferInv'
  <2>1. \A msg \in net : msg.mac \in Macs /\ msg.mac = m => msg.xid <= client[m].attempt
          /\ (msg.type \in {"REQUEST", "ACK"} => msg.xid # client[m].attempt)
    BY <1>1 DEF IInv, OfferInv
  <2>2. \A msg \in net : msg.mac \in Macs
    BY DEF IInv, Types, MsgType
  <2>3. client[m].attempt \in Nat
    BY DEF IInv, Types, ClientType
  <2>. QED
    BY <1>1, <1>3, <1>4, <2>1, <2>2, <2>3 DEF IInv, OfferInv, Holders, Msg
<1>. QED
  BY <1>1, <1>2, <1>3, <1>4, <1>5, ClientKeeps, Zenon DEF IInv, Holders

\* A client takes an offer of its attempt.
LEMMA SelectInv == ASSUME IInv, NEW m \in Macs, Select(m) PROVE IInv'
<1>1. PICK offer \in Received(m, "OFFER") :
        /\ client' = [client EXCEPT ![m].pc = "request", ![m].offer = offer.ip]
        /\ net' = Unread(m) \union {Msg(m, "REQUEST", offer.ip)}
  BY Zenon DEF Select
<1>2. client[m].pc = "discover" /\ UNCHANGED <<pool, srv>>
  BY DEF Select
<1>3. offer \in MsgType /\ offer.ip \in AddressOrNone /\ offer.ip # NoLease
  BY DEF Received, IInv, Types, MsgType, OfferInv
<1>4. Types'
  <2>1. client' \in [Macs -> ClientType]
    BY <1>1, <1>3, ZenonT(60) DEF IInv, Types, ClientType
  <2>2. Msg(m, "REQUEST", offer.ip) \in MsgType
    BY <1>3 DEF IInv, Types, ClientType, MsgType, Msg
  <2>. QED
    BY <1>1, <1>2, <2>1, <2>2, Zenon DEF IInv, Types, Unread
<1>5. /\ \A n \in Macs \ {m} : client'[n] = client[n]
      /\ client'[m].pc = "request" /\ client'[m].attempt = client[m].attempt
      /\ client'[m].offer = offer.ip
  BY <1>1 DEF IInv, Types, ClientType
<1>6. Acks' \subseteq Acks /\ Holders' = Holders /\ m \notin Holders
  <2>1. Msg(m, "REQUEST", offer.ip).type # "ACK"
    BY DEF Msg
  <2>2. Acks' \subseteq Acks
    BY <1>1, <2>1, Zenon DEF Acks, Unread
  <2>. QED
    BY <1>2, <1>5, <2>2 DEF Holders
<1>7. OfferInv'
  <2>1. \A msg \in net : msg.mac = m => msg.xid <= client[m].attempt
          /\ (msg.type \in {"REQUEST", "ACK"} => msg.xid # client[m].attempt)
    BY <1>2 DEF IInv, OfferInv
  <2>2. \A msg \in net : msg.mac \in Macs
    BY DEF IInv, Types, MsgType
  <2>3. client[m].attempt \in Nat
    BY DEF IInv, Types, ClientType
  <2> DEFINE req == Msg(m, "REQUEST", offer.ip)
             Fits(msg) ==
                /\ msg.xid <= client'[msg.mac].attempt
                /\ msg.type \in {"OFFER", "REQUEST"} => msg.ip # NoLease
                /\ msg.type \in {"REQUEST", "ACK"} /\ msg.xid = client'[msg.mac].attempt
                      => /\ client'[msg.mac].pc \notin {"idle", "discover"}
                         /\ client'[msg.mac].pc \in {"request", "leased"}
                                => msg.ip = client'[msg.mac].offer
  <2>4. Fits(req)
    BY <1>3, <1>5, <2>3 DEF Msg
  <2>5. \A msg \in net : Fits(msg)
    BY <1>5, <2>1, <2>2 DEF IInv, OfferInv
  <2>6. \A msg \in net' : msg \in net \/ msg = req
    BY <1>1, Zenon DEF Unread
  <2>7. \A h \in Holders' : client'[h].lease = client'[h].offer
    BY <1>5, <1>6 DEF IInv, OfferInv, Holders
  <2> HIDE DEF req
  <2>. QED
    BY <2>4, <2>5, <2>6, <2>7, Zenon DEF OfferInv
<1>. QED
  BY <1>2, <1>4, <1>5, <1>6, <1>7, ClientKeeps, Zenon DEF IInv, Holders

\* An attempt times out.
LEMMA AttemptFailsInv == ASSUME IInv, NEW m \in Macs, AttemptFails(m) PROVE IInv'
<1>1. client[m].pc \in {"discover", "request"} /\ net' = Unread(m) /\ UNCHANGED <<pool, srv>>
  BY DEF AttemptFails
<1>2. client' \in [Macs -> ClientType]
  BY DEF AttemptFails, IInv, Types, ClientType, AddressOrNone
<1>3. Types'
  BY <1>1, <1>2 DEF IInv, Types, Unread
<1>4. /\ \A n \in Macs \ {m} : client'[n] = client[n]
      /\ \/ client'[m].pc = "failed" /\ client'[m].attempt = client[m].attempt
         \/ client'[m].pc = "idle" /\ client'[m].attempt = client[m].attempt + 1
  BY DEF AttemptFails, IInv, Types, ClientType
<1>5. Acks' \subseteq Acks /\ Holders' = Holders /\ m \notin Holders
  BY <1>1, <1>4 DEF Acks, Holders, Unread
<1>6. OfferInv'
  <2>1. \A msg \in net : msg.mac \in Macs /\ msg.xid \in Nat
    BY DEF IInv, Types, MsgType
  <2>2. client[m].attempt \in Nat
    BY DEF IInv, Types, ClientType
  <2>. QED
    BY <1>1, <1>4, <1>5, <2>1, <2>2 DEF IInv, OfferInv, Holders, Unread
<1>. QED
  BY <1>1, <1>3, <1>4, <1>5, <1>6, ClientKeeps, Zenon DEF IInv, Holders

\* A client takes an acknowledgement as its lease.
LEMMA AcquireInv == ASSUME IInv, NEW m \in Macs, Acquire(m) PROVE IInv'
<1>1. PICK ack \in Received(m, "ACK") :
        client' = [client EXCEPT ![m].pc = "leased", ![m].lease = ack.ip, ![m].run = ack.run]
  BY Zenon DEF Acquire
<1>2. client[m].pc = "request" /\ net' = Unread(m) /\ UNCHANGED <<pool, srv>>
  BY DEF Acquire
<1>3. /\ ack \in Acks /\ ack.mac = m /\ ack.xid = client[m].attempt
      /\ ack.ip \in AddressOrNone /\ ack.run \in Nat
  BY DEF Received, Acks, IInv, Types, MsgType
<1>4. Types'
  <2>1. client' \in [Macs -> ClientType]
    <3>1. [client[m] EXCEPT !.pc = "leased", !.lease = ack.ip, !.run = ack.run] \in ClientType
      BY <1>3, ZenonT(60) DEF IInv, Types, ClientType
    <3>2. client' = [client EXCEPT ![m] = [client[m] EXCEPT !.pc = "leased", !.lease = ack.ip,
                                                             !.run = ack.run]]
      BY <1>1, Zenon
    <3>. QED
      BY <3>1, <3>2 DEF IInv, Types
  <2>. QED
    BY <1>2, <2>1, Zenon DEF IInv, Types, Unread
<1>5. /\ \A n \in Macs \ {m} : client'[n] = client[n]
      /\ client'[m].pc = "leased" /\ client'[m].attempt = client[m].attempt
      /\ client'[m].lease = ack.ip /\ client'[m].run = ack.run
      /\ client'[m].offer = client[m].offer
  BY <1>1 DEF IInv, Types, ClientType
<1>6. Acks' \subseteq Acks /\ (\A a \in Acks' : a.mac # m)
  BY <1>2 DEF Acks, Unread
<1>7. Holders' = Holders \union {m} /\ m \notin Holders
  BY <1>2, <1>5 DEF Holders
<1>8. PoolInv(pool)' /\ NoSocketLeft'
  BY <1>2, Zenon DEF IInv, PoolInv, Given, NoSocketLeft
<1>9. RecordInv'
  <2>1. \A a \in Acks' : Recorded(a.mac, a.ip, a.run)'
    BY <1>2, <1>6, Zenon DEF IInv, RecordInv, Recorded
  <2>2. \A n \in Holders : Recorded(n, client[n].lease, client[n].run)'
    BY <1>2, <1>5, <1>7 DEF IInv, RecordInv, Recorded, Holders
  <2>3. Recorded(m, client[m].lease, client[m].run)'
    BY <1>2, <1>3, <1>5 DEF IInv, RecordInv, Recorded
  <2>. QED
    BY <1>7, <2>1, <2>2, <2>3, Zenon DEF RecordInv
<1>10. \A n \in Holders : n # m /\ ack.run = client[n].run => ack.ip # client[n].lease
  BY <1>3, Zenon DEF IInv, DistinctInv
<1>11. \A a \in Acks' : a.mac # m /\ a.run = ack.run => a.ip # ack.ip
  BY <1>3, <1>6, Zenon DEF IInv, DistinctInv
<1>12. NoSharedLease'
  <2> SUFFICES ASSUME NEW a \in Macs, NEW b \in Macs, a # b, client'[a].pc = "leased",
                      client'[b].pc = "leased", client'[a].run = client'[b].run
               PROVE  client'[a].lease # client'[b].lease
    BY Zenon DEF NoSharedLease
  <2>1. CASE a # m /\ b # m
    BY <1>5, <2>1 DEF IInv, DistinctInv, NoSharedLease
  <2>2. CASE a = m
    BY <1>5, <1>10, <2>2 DEF Holders
  <2>3. CASE b = m
    BY <1>5, <1>10, <2>3 DEF Holders
  <2>. QED
    BY <2>1, <2>2, <2>3
<1>13. DistinctInv'
  <2>1. \A a, b \in Acks' : a.mac # b.mac /\ a.run = b.run => a.ip # b.ip
    BY <1>6, Zenon DEF IInv, DistinctInv
  <2>2. ASSUME NEW a \in Acks', NEW n \in Holders', a.mac # n, a.run = client'[n].run
        PROVE  a.ip # client'[n].lease
    <3>1. CASE n = m
      BY <1>5, <1>11, <2>2, <3>1
    <3>2. CASE n # m
      <4>1. n \in Holders /\ client'[n] = client[n] /\ a \in Acks
        BY <1>5, <1>6, <1>7, <3>2 DEF Holders
      <4>. QED
        BY <2>2, <4>1 DEF IInv, DistinctInv
    <3>. QED
      BY <3>1, <3>2
  <2>. QED
    BY <1>12, <2>1, <2>2, Zenon DEF DistinctInv
<1>14. ack.ip = client[m].offer
  BY <1>2, <1>3 DEF IInv, OfferInv, Acks
<1>15. OfferInv'
  <2>1. \A msg \in net : msg.mac \in Macs
    BY DEF IInv, Types, MsgType
  <2>. QED
    BY <1>2, <1>5, <1>7, <1>14, <2>1 DEF IInv, OfferInv, Holders, Unread
<1>. QED
  BY <1>4, <1>8, <1>9, <1>13, <1>15, ZenonT(60) DEF IInv

\* Every step keeps the invariant.
LEMMA NextInv == ASSUME IInv, [Next]_vars PROVE IInv'
<1>1. CASE UNCHANGED vars
  <2>1. UNCHANGED <<pool, client, net>> /\ srv' = srv
    BY <1>1, Zenon DEF vars
  <2>2. srv' \in SrvType /\ srv'.run = srv.run /\ NoSocketLeft'
    BY <2>1, Zenon DEF IInv, Types, NoSocketLeft
  <2>. QED
    BY <2>1, <2>2, ServerOnly, Zenon
<1>2. CASE ServerStep \/ Cancel \/ Close
  BY <1>2, ServerInv, Zenon DEF ServerStep, WatcherClose
<1>3. CASE Handle
  BY <1>3, HandleInv
<1>4. CASE Restart
  BY <1>4, RestartInv
<1>5. ASSUME NEW m \in Macs, ClientStep(m) PROVE IInv'
  BY <1>5, DiscoverInv, SelectInv, AcquireInv, AttemptFailsInv, Zenon DEF ClientStep
<1>. QED
  BY <1>1, <1>2, <1>3, <1>4, <1>5, Zenon DEF Next

-----------------------------------------------------------------------------
\* The inductive invariant, for every number of clients, every pool that does not end
\* at the last address, and every number of retries and restarts (server.go, client.go).
THEOREM Invariant == ASSUME NoPoolAtEnd PROVE Spec => []IInv
<1>1. Init => IInv
  BY InitInv
<1>2. IInv /\ [Next]_vars => IInv'
  BY NextInv
<1>. QED
  BY <1>1, <1>2, PTL DEF Spec

\* No two clients ever hold one address of one run of the server, whatever the network
\* loses, repeats or reorders (ipPool.Allocate, handleRequest).
THEOREM NeverShared == ASSUME NoPoolAtEnd PROVE Spec => []NoSharedLease
<1>1. IInv => NoSharedLease
  BY DEF IInv, DistinctInv
<1>. QED
  BY <1>1, Invariant, PTL

\* A lease is the address its client asked for and, while the server that gave it runs,
\* the one recorded there (handleRequest, parseLease).
THEOREM LeaseRecorded == ASSUME NoPoolAtEnd PROVE Spec => []LeaseIsRecorded
<1>1. IInv => LeaseIsRecorded
  BY DEF IInv, RecordInv, Recorded, OfferInv, Holders, LeaseIsRecorded
<1>. QED
  BY <1>1, Invariant, PTL

\* As many addresses of the range are used up as there are clients that got one
\* (ipPool.Allocate).
THEOREM PoolExact == ASSUME NoPoolAtEnd PROVE Spec => []PoolIsExact
<1>1. IInv => PoolIsExact
  BY DEF IInv, PoolInv, Given, PoolIsExact
<1>. QED
  BY <1>1, Invariant, PTL

\* A listener is open only while Serve is running it and the server is not closed, in
\* whatever order Close, the cancelled context and Serve meet (Server.Serve, Close).
THEOREM SocketClosed == ASSUME NoPoolAtEnd PROVE Spec => []NoSocketLeft
<1>1. IInv => NoSocketLeft
  BY DEF IInv
<1>. QED
  BY <1>1, Invariant, PTL

\* Every reachable state is well typed; in particular no attempt exceeds --retries and
\* next stays an address (client.go Request, ipPool.Allocate).
THEOREM TypeCorrect == ASSUME NoPoolAtEnd PROVE Spec => []TypeOK
<1>1. IInv => TypeOK
  BY DEF IInv, Types, TypeOK, PoolType, SrvType, ClientType, AddressOrNone
<1>. QED
  BY <1>1, Invariant, PTL
=============================================================================
