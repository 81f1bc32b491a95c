------------------------------- MODULE Dhcp -------------------------------
(***************************************************************************)
(* The embedded DHCP server (pkg/dhcp/server.go, `dhcp serve`) and client  *)
(* (pkg/dhcp/client.go, used by `dhcp request` and by Start for the        *)
(* transit device) over a network that loses, duplicates and reorders.     *)
(*                                                                         *)
(* A message once sent stays in net: receiving it again is a duplicate,    *)
(* never receiving it a loss.  A reply that its client no longer waits for *)
(* is dropped: the client ignores it.  A handler is a goroutine; its only  *)
(* shared access is Allocate, under the mutex of the pool: it is one step. *)
(***************************************************************************)
EXTENDS Naturals, FiniteSets

CONSTANTS
    Macs,         \* clients, by hardware address
    AddrBits,     \* width of an address (32 in the code)
    Pools,        \* the ranges <<start, end>> the server may be given
    Retries,      \* --retries: attempts after the first
    MaxRestarts,  \* bound: how often the server process is started again
    NoLease       \* no address

MaxAddr == 2 ^ AddrBits - 1

ASSUME DhcpConstants ==
    /\ IsFiniteSet(Macs)
    /\ MaxAddr \in Nat /\ Retries \in Nat /\ MaxRestarts \in Nat
    /\ \A r \in Pools : r[1] \in 0 .. MaxAddr /\ r[2] \in 0 .. MaxAddr
    /\ NoLease \notin 0 .. MaxAddr

VARIABLES
    pool,    \* the address pool of the running server: start, end, next, leases
    srv,     \* the life of the server object and of its process
    client,  \* client[m]: the Request of m
    net      \* messages sent

vars == <<pool, srv, client, net>>

\* A pool that nothing was allocated from.
EmptyPool(r) ==
    [start |-> r[1], end |-> r[2], next |-> r[1], leases |-> [m \in Macs |-> NoLease]]

Init ==
    /\ pool \in {EmptyPool(r) : r \in Pools}
    /\ srv = [pc |-> "off", closed |-> FALSE, sock |-> FALSE, watcher |-> FALSE,
              cancelled |-> FALSE, run |-> 0]
    /\ client = [m \in Macs |-> [pc |-> "idle", attempt |-> 0, offer |-> NoLease,
                                 lease |-> NoLease, run |-> 0]]
    /\ net = {}

(***************************************************************************)
(* The server.                                                             *)
(***************************************************************************)

\* newIPPool refuses a zero address and a range that ends before it starts.
ValidRange == pool.start # 0 /\ pool.end # 0 /\ pool.start <= pool.end

\* NewServer: a server object that does not listen yet, or an error.
NewServer ==
    /\ srv.pc = "off"
    /\ srv' = [srv EXCEPT !.pc = IF ValidRange THEN "created" ELSE "returned"]
    /\ UNCHANGED <<pool, client, net>>

\* Variant: Serve does not look whether the server was closed.
ServeIgnoresClosed ==
    /\ srv.pc = "created"
    /\ \/ srv' = [srv EXCEPT !.pc = "listening", !.sock = TRUE, !.watcher = TRUE]
       \/ srv' = [srv EXCEPT !.pc = "returned"]
    /\ UNCHANGED <<pool, client, net>>

\* Serve: nothing when the server was closed before; else the listener is made and
\* published under the lifecycle lock, and a goroutine watches the context.
Serve ==
    /\ srv.pc = "created"
    /\ \/ ~srv.closed /\ srv' = [srv EXCEPT !.pc = "listening", !.sock = TRUE, !.watcher = TRUE]
       \/ srv' = [srv EXCEPT !.pc = "returned"]
    /\ UNCHANGED <<pool, client, net>>

\* SIGINT or SIGTERM cancels the context.
Cancel ==
    /\ srv.pc \in {"created", "listening"} /\ ~srv.cancelled
    /\ srv' = [srv EXCEPT !.cancelled = TRUE]
    /\ UNCHANGED <<pool, client, net>>

\* Close, by the goroutine that saw the context or by the owner of the object: once.
Close ==
    /\ srv.pc \in {"created", "listening"} /\ ~srv.closed
    /\ srv' = [srv EXCEPT !.closed = TRUE, !.sock = FALSE, !.watcher = FALSE]
    /\ UNCHANGED <<pool, client, net>>

WatcherClose == srv.watcher /\ srv.cancelled /\ Close

\* The read loop of the listener ends when its socket is closed.
ServeReturn ==
    /\ srv.pc = "listening" /\ ~srv.sock
    /\ srv' = [srv EXCEPT !.pc = "returned"]
    /\ UNCHANGED <<pool, client, net>>

\* The process is started again: the pool is memory, and begins anew.
Restart ==
    /\ srv.pc = "returned" /\ srv.run < MaxRestarts
    /\ pool' = EmptyPool(<<pool.start, pool.end>>)
    /\ srv' = [pc |-> "off", closed |-> FALSE, sock |-> FALSE, watcher |-> FALSE,
               cancelled |-> FALSE, run |-> srv.run + 1]
    /\ UNCHANGED <<client, net>>

\* Variant: the lease of a known address is not looked up.
AllocateFresh(m) ==
    IF pool.next > pool.end THEN [ip |-> NoLease, pool |-> pool]
    ELSE [ip   |-> pool.next,
          pool |-> [pool EXCEPT !.leases[m] = pool.next,
                                !.next = (@ + 1) % (MaxAddr + 1)]]

\* Variant: the next address is not moved on.
AllocateStuck(m) ==
    IF pool.leases[m] # NoLease THEN [ip |-> pool.leases[m], pool |-> pool]
    ELSE IF pool.next > pool.end THEN [ip |-> NoLease, pool |-> pool]
    ELSE [ip |-> pool.next, pool |-> [pool EXCEPT !.leases[m] = pool.next]]

\* Allocate: the lease of a known address, else the next one of the pool.  next is
\* an unsigned integer of the width of an address.
Allocate(m) ==
    IF pool.leases[m] # NoLease THEN [ip |-> pool.leases[m], pool |-> pool]
    ELSE IF pool.next > pool.end THEN [ip |-> NoLease, pool |-> pool]
    ELSE [ip   |-> pool.next,
          pool |-> [pool EXCEPT !.leases[m] = pool.next,
                                !.next = (@ + 1) % (MaxAddr + 1)]]

Reply(msg, type, ip) == [msg EXCEPT !.type = type, !.ip = ip]

\* DISCOVER is answered with an OFFER of the allocated address.
HandleDiscover(msg) == {Reply(msg, "OFFER", Allocate(msg.mac).ip)}

Acknowledged(msg, ip) == {[Reply(msg, "ACK", ip) EXCEPT !.run = srv.run]}

\* Variant: the address asked for is acknowledged.
HandleRequestTrusting(msg) ==
    Acknowledged(msg, IF msg.ip # NoLease THEN msg.ip ELSE Allocate(msg.mac).ip)

\* REQUEST is acknowledged when it names the allocated address or none, else refused.
\* A NAK does no more than end the attempt, which its timeout may do at any moment:
\* it is not put on the network.
HandleRequest(msg) ==
    IF msg.ip # NoLease /\ msg.ip # Allocate(msg.mac).ip THEN {}
    ELSE Acknowledged(msg, Allocate(msg.mac).ip)

\* The client waits for this reply: its transaction is the current one.
Awaited(msg) ==
    /\ msg.xid = client[msg.mac].attempt
    /\ client[msg.mac].pc = IF msg.type = "OFFER" THEN "discover" ELSE "request"

\* handler: nothing is sent when the pool is exhausted.
Handle ==
    /\ srv.pc = "listening" /\ srv.sock
    /\ \E msg \in {n \in net : n.type \in {"DISCOVER", "REQUEST"}} :
           /\ pool' = Allocate(msg.mac).pool
           /\ LET replies == IF Allocate(msg.mac).ip = NoLease THEN {}
                            ELSE IF msg.type = "DISCOVER" THEN HandleDiscover(msg)
                            ELSE HandleRequest(msg)
              IN  net' = net \union {reply \in replies : Awaited(reply)}
    /\ UNCHANGED <<srv, client>>

(***************************************************************************)
(* The client.                                                             *)
(***************************************************************************)

\* A message of this attempt: the transaction id is new for each.
Msg(m, type, ip) ==
    [type |-> type, mac |-> m, xid |-> client[m].attempt, ip |-> ip, run |-> 0]

Received(m, type) ==
    {msg \in net : msg.mac = m /\ msg.xid = client[m].attempt /\ msg.type = type}

\* What remains once m waits for no reply sent so far.
Unread(m) == {msg \in net : msg.mac = m => msg.type \in {"DISCOVER", "REQUEST"}}

\* An attempt begins with a DISCOVER.
Discover(m) ==
    /\ client[m].pc = "idle"
    /\ client' = [client EXCEPT ![m].pc = "discover"]
    /\ net' = net \union {Msg(m, "DISCOVER", NoLease)}
    /\ UNCHANGED <<pool, srv>>

\* The first OFFER is asked for.
Select(m) ==
    /\ client[m].pc = "discover"
    /\ \E msg \in Received(m, "OFFER") :
           /\ client' = [client EXCEPT ![m].pc = "request", ![m].offer = msg.ip]
           /\ net' = Unread(m) \union {Msg(m, "REQUEST", msg.ip)}
    /\ UNCHANGED <<pool, srv>>

\* An ACK ends Request with its address.
Acquire(m) ==
    /\ client[m].pc = "request"
    /\ \E msg \in Received(m, "ACK") :
           client' = [client EXCEPT ![m].pc = "leased", ![m].lease = msg.ip, ![m].run = msg.run]
    /\ net' = Unread(m)
    /\ UNCHANGED <<pool, srv>>

\* The attempt fails: its timeout, or a NAK.  The last attempt ends Request with an
\* error, and so does a context cancelled during the attempt or the pause after it;
\* else the next attempt follows.
AttemptFails(m) ==
    /\ client[m].pc \in {"discover", "request"}
    /\ \/ client' = [client EXCEPT ![m].pc = "failed", ![m].offer = NoLease]
       \/ /\ client[m].attempt < Retries
          /\ client' = [client EXCEPT ![m].pc = "idle", ![m].offer = NoLease,
                                      ![m].attempt = @ + 1]
    /\ net' = Unread(m)
    /\ UNCHANGED <<pool, srv>>

(***************************************************************************)
(* The system.                                                             *)
(***************************************************************************)

ServerStep == NewServer \/ Serve \/ WatcherClose \/ ServeReturn
ClientStep(m) == Discover(m) \/ Select(m) \/ Acquire(m) \/ AttemptFails(m)

Next ==
    \/ ServerStep \/ Handle \/ Cancel \/ Close \/ Restart
    \/ \E m \in Macs : ClientStep(m)

Spec == Init /\ [][Next]_vars

\* The goroutines of the server run.  The clients, the network, the signals and the
\* owner owe nothing.
FairSpec == Spec /\ WF_vars(ServerStep)

(***************************************************************************)
(* Properties.                                                             *)
(***************************************************************************)

Addresses == 0 .. MaxAddr

\* The state has its type.
TypeOK ==
    /\ pool.start \in Addresses /\ pool.end \in Addresses /\ pool.next \in Addresses
    /\ \A m \in Macs : pool.leases[m] \in Addresses \union {NoLease}
    /\ srv.pc \in {"off", "created", "listening", "returned"}
    /\ srv.run \in 0 .. MaxRestarts
    /\ \A m \in Macs :
           /\ client[m].pc \in {"idle", "discover", "request", "leased", "failed"}
           /\ client[m].attempt \in 0 .. Retries
           /\ client[m].lease \in Addresses \union {NoLease}
           /\ client[m].offer \in Addresses \union {NoLease}

\* Two clients never hold one address, whatever offers, requests and replies were
\* lost, repeated or reordered between them and one run of the server (ipPool.Allocate).
NoSharedLease ==
    \A m, n \in Macs :
        (m # n /\ client[m].pc = "leased" /\ client[n].pc = "leased"
               /\ client[m].run = client[n].run)
            => client[m].lease # client[n].lease

\* The address a client acquired is the one it asked for and the one the server
\* recorded for it, also when the server was restarted between the offer and the
\* request (handleRequest, parseLease).
LeaseIsRecorded ==
    \A m \in Macs :
        client[m].pc = "leased"
            => /\ client[m].lease = client[m].offer
               /\ client[m].run = srv.run => client[m].lease = pool.leases[m]

\* Every address given out lies in the range, and the range is used up only by as
\* many clients: retries and duplicates cost nothing (ipPool.Allocate).
PoolIsExact ==
    LET given == {m \in Macs : pool.leases[m] # NoLease}
    IN  /\ \A m \in given : pool.leases[m] \in pool.start .. pool.end
        /\ ValidRange => pool.next = pool.start + Cardinality(given)

\* A listener is open only while Serve is running it: Close racing Serve leaves no
\* socket behind (Server.Serve and Close, lifecycleMu).
NoSocketLeft ==
    srv.sock => srv.pc = "listening" /\ ~srv.closed

\* Serve returns once its context is cancelled or the server closed, at whatever
\* moment of its start (Server.Serve).
ServeStops ==
    (srv.cancelled \/ srv.closed) ~> srv.pc = "returned"
=============================================================================
