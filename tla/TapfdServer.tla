---------------------------- MODULE TapfdServer ----------------------------
(***************************************************************************)
(* `connector-ctl vswitch serve` with its TAPFD/1 listener, the helpers    *)
(* `open-port` and `attach --open-port`, and the clients that use them.    *)
(*                                                                         *)
(* Ports are claimed and given back by single steps here: PortSlots splits *)
(* those calls into their accesses.  What this module adds is the protocol *)
(* around them: one connection per request, replies that can be lost, the  *)
(* rollback that follows, the descriptor that travels with a reply, the    *)
(* life of the socket and of the switch handle across restarts, and the    *)
(* main loop of serve.                                                     *)
(***************************************************************************)
EXTENDS Naturals, Sequences, FiniteSets

CONSTANTS
    Servers,         \* processes running serve on one socket path
    Clients,         \* callers of the protocol
    Conns,           \* connections (and helper processes) in flight at a time
    Kind,            \* Kind[p]: what port p is provisioned as, "tap" or "veth"
    WatchInterval,   \* seconds between health checks (--watch-interval)
    MaxCrashes,      \* bound: processes that die
    MaxBreaks,       \* bound: health checks that begin to fail
    NoOne            \* no client, no server, no connection

ASSUME TapfdConstants ==
    /\ \A p \in DOMAIN Kind : Kind[p] \in {"tap", "veth"}
    /\ DOMAIN Kind = 1 .. Cardinality(DOMAIN Kind)
    /\ WatchInterval \in Nat \ {0}
    /\ MaxCrashes \in Nat /\ MaxBreaks \in Nat
    /\ NoOne \notin Servers \union Clients \union Conns
    /\ {"reserved", "free"} \intersect Clients = {}

Ports == DOMAIN Kind

\* serve.go: how long the health check may fail before serve gives up.
maxConsecutiveErrors == 3
maxErrorDuration == 90

VARIABLES
    path,     \* the server whose socket the listen path names; it may be gone
    srv,      \* srv[s]: the process s
    slot,     \* slot[p]: "reserved", "free", or the client it is attached for
    up,       \* up[p]: PORT_F_UP
    conn,     \* conn[k]: a connection and its handler, or a helper process
    client,   \* client[c]: what the client knows and holds
    excused,  \* history: ports whose owner was lost to a death or an unread reply
    crashes,
    breaks

vars == <<path, srv, slot, up, conn, client, excused, crashes, breaks>>

\* An absent process.  prov is the provisioning goroutine, acc the accept
\* goroutine, handle the switch opened once for the life of the process.
Down == [pc |-> "down", handle |-> FALSE, acc |-> FALSE, prov |-> "none",
         errs |-> 0, age |-> 0, broken |-> FALSE]

NoConn == [st |-> "none", via |-> NoOne, op |-> "none", who |-> NoOne, port |-> 0,
           open |-> FALSE, netns |-> FALSE, res |-> "none", meta |-> NoOne]

Init ==
    /\ path = NoOne
    /\ srv = [s \in Servers |-> Down]
    /\ slot = [p \in Ports |-> "reserved"]
    /\ up = [p \in Ports |-> FALSE]
    /\ conn = [k \in Conns |-> NoConn]
    /\ client = [c \in Clients |-> [at |-> NoOne, port |-> 0, fd |-> 0]]
    /\ excused = {}
    /\ crashes = 0 /\ breaks = 0

(***************************************************************************)
(* The wire.                                                               *)
(***************************************************************************)

\* The requests a client can make: for a port, or about its own, whose queue it
\* closes before it gives the port back.  "none" is
\* a connection on which no line is ever sent; "INFO" stands for every request that
\* changes nothing, a line refused for its form or its switch name included.
Requests(c) ==
    IF client[c].port = 0 THEN {"PREPARE", "INFO", "none"}
    ELSE {"SET_PORT_UP"} \union (IF client[c].fd = 0 THEN {"OPEN", "RELEASE"} ELSE {})

\* Variant: the namespace comes first.
MessageNetnsFirst(netns) ==
    [fds      |-> IF netns THEN <<"netns", "tap">> ELSE <<"tap">>,
     fd       |-> 1,
     netns_fd |-> IF netns THEN 1 ELSE 0]

\* What the switch adds to an OPEN reply: the tap queue first, the network
\* namespace last and only on request, and the two counts in the metadata.
Message(netns) ==
    [fds      |-> IF netns THEN <<"tap", "netns">> ELSE <<"tap">>,
     fd       |-> 1,
     netns_fd |-> IF netns THEN 1 ELSE 0]

\* The receiver splits the descriptors by the counts, and closes all of them
\* when they do not add up.
RecvFdsWithNetns(m) ==
    LET n   == Len(m.fds)
        bad == \/ n = 0
               \/ m.netns_fd > 1
               \/ m.fd # 0 /\ n # m.fd + m.netns_fd
               \/ m.netns_fd > n
    IN  [ok     |-> ~bad,
         tap    |-> IF bad THEN <<>> ELSE SubSeq(m.fds, 1, n - m.netns_fd),
         netns  |-> IF bad THEN <<>> ELSE SubSeq(m.fds, n - m.netns_fd + 1, n),
         closed |-> IF bad THEN m.fds ELSE <<>>]

(***************************************************************************)
(* Clients.                                                                *)
(***************************************************************************)

\* The kernel accepts a connection for the listener the path names.
Listening(s) == srv[s].pc = "serving" \/ srv[s].pc = "cancel"

\* A client connects and sends its line.  It gives a port back by sending
\* RELEASE once: from then on it does not count on the port.
Connect(c, k) ==
    /\ client[c].at = NoOne /\ conn[k] = NoConn
    /\ path # NoOne /\ Listening(path)
    /\ \E op \in Requests(c) :
           /\ conn' = [conn EXCEPT ![k] =
                  [NoConn EXCEPT !.st = "queued", !.via = path, !.op = op, !.who = c,
                                 !.port = client[c].port, !.open = TRUE]]
           /\ client' = [client EXCEPT ![c].at = k,
                                       ![c].port = IF op = "RELEASE" THEN 0 ELSE @]
    /\ UNCHANGED <<path, srv, slot, up, excused, crashes, breaks>>

\* A client runs a helper instead: open-port for its port, attach --open-port
\* for a new one.  The helper is a process of its own.
RunHelper(c, k) ==
    /\ client[c].at = NoOne /\ client[c].fd = 0 /\ conn[k] = NoConn
    /\ conn' = [conn EXCEPT ![k] =
           [NoConn EXCEPT !.st = "read", !.who = c, !.open = TRUE, !.port = client[c].port,
                          !.op = IF client[c].port = 0 THEN "ATTACH_OPEN" ELSE "OPEN"]]
    /\ client' = [client EXCEPT ![c].at = k]
    /\ UNCHANGED <<path, srv, slot, up, excused, crashes, breaks>>

\* The reply arrives.
Receive(c) ==
    LET k == client[c].at
        m == RecvFdsWithNetns(Message(conn[k].netns))
        ok == conn[k].res = "ok"
        handoff == ok /\ conn[k].op \in {"OPEN", "ATTACH_OPEN"} /\ m.ok
    IN  /\ k # NoOne /\ conn[k].st = "answered"
        /\ client' = [client EXCEPT
               ![c].at = NoOne,
               ![c].port = IF ok /\ conn[k].op \in {"PREPARE", "ATTACH_OPEN"}
                           THEN conn[k].port ELSE @,
               ![c].fd = IF handoff THEN conn[k].port ELSE @]
        /\ conn' = [conn EXCEPT ![k] = NoConn]
        /\ UNCHANGED <<path, srv, slot, up, excused, crashes, breaks>>

\* The client stops waiting and closes its end.  A reply it has not read is
\* lost, with the descriptor in it; a handler still at work finds out when it writes.
GiveUp(c) ==
    LET k == client[c].at
        unread == conn[k].st = "answered"
    IN  /\ k # NoOne
        /\ client' = [client EXCEPT ![c].at = NoOne]
        /\ conn' = [conn EXCEPT ![k] = IF unread THEN NoConn ELSE [@ EXCEPT !.open = FALSE]]
        /\ excused' = IF /\ unread /\ conn[k].res = "ok"
                         /\ conn[k].op \in {"PREPARE", "ATTACH_OPEN"}
                      THEN excused \union {conn[k].port} ELSE excused
        /\ UNCHANGED <<path, srv, slot, up, crashes, breaks>>

\* The consumer of a tap queue closes it.
CloseQueue(c) ==
    /\ client[c].fd # 0
    /\ client' = [client EXCEPT ![c].fd = 0]
    /\ UNCHANGED <<path, srv, slot, up, conn, excused, crashes, breaks>>

(***************************************************************************)
(* Handlers and helpers.                                                   *)
(***************************************************************************)

\* A handler that was accepted; s is its server (a helper has none).
Busy(k) == conn[k].st \notin {"none", "queued", "answered"}
HandlersOf(s) == {k \in Conns : Busy(k) /\ conn[k].via = s}

\* The handler writes its answer and closes the connection: to a client that is
\* gone the answer is lost.
Finish(k, res, meta) ==
    conn' = [conn EXCEPT ![k] =
        IF conn[k].open THEN [@ EXCEPT !.st = "answered", !.res = res, !.meta = meta]
        ELSE NoConn]

Goto(k, st) == conn' = [conn EXCEPT ![k].st = st]

\* serve accepts a connection and starts its handler.
Accept(k) ==
    /\ conn[k].st = "queued" /\ srv[conn[k].via].acc
    /\ Goto(k, "read")
    /\ UNCHANGED <<path, srv, slot, up, client, excused, crashes, breaks>>

\* Variant: no read deadline.
AnswerNoDeadline(k) ==
    /\ conn[k].st = "read" /\ conn[k].op \in {"none", "INFO"}
    /\ conn[k].op = "none" => ~conn[k].open
    /\ Finish(k, IF conn[k].op = "INFO" THEN "ok" ELSE "err", NoOne)
    /\ UNCHANGED <<path, srv, slot, up, client, excused, crashes, breaks>>

\* A silent client at the read deadline, an empty stream, and every line that
\* ParseRequestLine, the switch name or a field refuses: BAD_REQUEST or
\* SWITCH_MISMATCH, and nothing changes.  INFO only reads the configuration.
Answer(k) ==
    /\ conn[k].st = "read" /\ conn[k].op \in {"none", "INFO"}
    /\ Finish(k, IF conn[k].op = "INFO" THEN "ok" ELSE "err", NoOne)
    /\ UNCHANGED <<path, srv, slot, up, client, excused, crashes, breaks>>

FreePorts == {p \in Ports : slot[p] = "free"}
Attached(p) == slot[p] \notin {"free", "reserved"}

\* Attach takes the first free slot, up at once or deferred (admin_down).  A port
\* that is no tap is given back, and a helper goes on to hand the queue over.
Prepare(k) ==
    /\ conn[k].st = "read" /\ conn[k].op \in {"PREPARE", "ATTACH_OPEN"}
    /\ \/ FreePorts = {} /\ Finish(k, "err", NoOne) /\ UNCHANGED <<slot, up>>
       \/ \E p \in FreePorts, now \in BOOLEAN :
            /\ \A q \in FreePorts : p <= q
            /\ slot' = [slot EXCEPT ![p] = conn[k].who]
            /\ up' = [up EXCEPT ![p] = now]
            /\ conn' = [conn EXCEPT ![k].port = p,
                   ![k].st = IF Kind[p] # "tap" THEN "undo"
                             ELSE IF conn[k].op = "PREPARE" THEN "reply" ELSE "open"]
    /\ UNCHANGED <<path, srv, client, excused, crashes, breaks>>

\* Variant: the result of the write is ignored.
PrepareReplyUnchecked(k) ==
    /\ conn[k].st = "reply"
    /\ Finish(k, "ok", NoOne)
    /\ UNCHANGED <<path, srv, slot, up, client, excused, crashes, breaks>>

\* The reply of PREPARE: when it cannot be written the client never learns the
\* port, and the port is given back.
PrepareReply(k) ==
    /\ conn[k].st = "reply"
    /\ IF conn[k].open THEN Finish(k, "ok", NoOne) ELSE Goto(k, "undo")
    /\ UNCHANGED <<path, srv, slot, up, client, excused, crashes, breaks>>

\* Detach by port number, whoever the port is attached for.
Detach(p) ==
    /\ slot' = [slot EXCEPT ![p] = "free"]
    /\ up' = [up EXCEPT ![p] = FALSE]
    /\ excused' = excused \ {p}

\* The rollback of PREPARE and of attach --open-port.
Undo(k) ==
    /\ conn[k].st = "undo"
    /\ IF Attached(conn[k].port) THEN Detach(conn[k].port) ELSE UNCHANGED <<slot, up, excused>>
    /\ Finish(k, "err", NoOne)
    /\ UNCHANGED <<path, srv, client, crashes, breaks>>

\* validateOpenPort: the port is a provisioned tap and attached.
ValidateOpenPort(k) ==
    /\ conn[k].st = "read" /\ conn[k].op = "OPEN"
    /\ IF Kind[conn[k].port] = "tap" /\ Attached(conn[k].port)
       THEN Goto(k, "open")
       ELSE Finish(k, "err", NoOne)
    /\ UNCHANGED <<path, srv, slot, up, client, excused, crashes, breaks>>

\* Whoever holds a queue of the tap: consumers, replies under way and handlers.
QueueHolders(p) ==
    {c \in Clients : client[c].fd = p}
        \union {k \in Conns : /\ conn[k].port = p /\ conn[k].op \in {"OPEN", "ATTACH_OPEN"}
                              /\ \/ conn[k].st = "send"
                                 \/ conn[k].st = "answered" /\ conn[k].res = "ok"}

\* A handler that fails: the helper that attached the port detaches it again.
Fail(k) ==
    IF conn[k].op = "ATTACH_OPEN" THEN Goto(k, "undo") ELSE Finish(k, "err", NoOne)

\* The slot is read again for the metadata, and the tap opened in the namespace
\* of the switch.  The tap has one queue: it is busy while anyone holds it.
OpenTap(k) ==
    LET p == conn[k].port
    IN  /\ conn[k].st = "open"
        /\ IF QueueHolders(p) = {}
           THEN conn' = [conn EXCEPT ![k].st = "send", ![k].meta = slot[p]]
           ELSE Fail(k)
        /\ UNCHANGED <<path, srv, slot, up, client, excused, crashes, breaks>>

\* The descriptors and the metadata leave in one message, with the namespace when
\* the client asked for it; the local copy of the queue is closed either way.
SendFd(k) ==
    /\ conn[k].st = "send"
    /\ IF conn[k].open
       THEN \E netns \in BOOLEAN :
                conn' = [conn EXCEPT ![k].st = "answered", ![k].res = "ok", ![k].netns = netns]
       ELSE Fail(k)
    /\ UNCHANGED <<path, srv, slot, up, client, excused, crashes, breaks>>

\* Variant: a lost reply is rolled back, as that of PREPARE.
SetPortUpRolledBack(k) ==
    LET p == conn[k].port
        ok == Attached(p) /\ ~up[p]
    IN  /\ conn[k].st = "read" /\ conn[k].op = "SET_PORT_UP"
        /\ IF ok /\ ~conn[k].open THEN Detach(p)
           ELSE up' = [up EXCEPT ![p] = ok \/ @] /\ UNCHANGED <<slot, excused>>
        /\ Finish(k, IF ok THEN "ok" ELSE "err", NoOne)
        /\ UNCHANGED <<path, srv, client, crashes, breaks>>

\* SET_PORT_UP completes an attachment once; its reply may be lost.
SetPortUp(k) ==
    LET p == conn[k].port
        ok == Attached(p) /\ ~up[p]
    IN  /\ conn[k].st = "read" /\ conn[k].op = "SET_PORT_UP"
        /\ up' = IF ok THEN [up EXCEPT ![p] = TRUE] ELSE up
        /\ Finish(k, IF ok THEN "ok" ELSE "err", NoOne)
        /\ UNCHANGED <<path, srv, slot, client, excused, crashes, breaks>>

\* RELEASE detaches the port, whoever holds it.
Release(k) ==
    LET p == conn[k].port
    IN  /\ conn[k].st = "read" /\ conn[k].op = "RELEASE"
        /\ IF Attached(p)
           THEN Detach(p) /\ Finish(k, "ok", NoOne)
           ELSE Finish(k, "err", NoOne) /\ UNCHANGED <<slot, up, excused>>
        /\ UNCHANGED <<path, srv, client, crashes, breaks>>

(***************************************************************************)
(* The serve process.                                                      *)
(***************************************************************************)

Proc(s, pc) == srv' = [srv EXCEPT ![s].pc = pc]

\* Connections that die with their server: an open one is reset.
Dropped(S) ==
    [k \in Conns |->
        IF k \notin S THEN conn[k]
        ELSE IF conn[k].open THEN [conn[k] EXCEPT !.st = "answered", !.res = "reset"]
        ELSE NoConn]

\* The ports that dropping S leaves without anyone to give them back: attached by
\* a handler that had not answered, or about to be released.
Stranded(S) ==
    {conn[k].port : k \in {k \in S :
        \/ conn[k].st \in {"reply", "undo"}
        \/ conn[k].op = "RELEASE"
        \/ conn[k].op = "ATTACH_OPEN" /\ conn[k].st \in {"open", "send"}}}

\* The service manager runs one serve at a time, and an operator may try a second
\* beside it, but none starts while another is starting or stopping.
Settled(s) == \A t \in Servers \ {s} : srv[t].pc \in {"down", "serving"}

\* StartReserved (a switch that exists is left as it is), and the switch opened
\* once for the life of the process.
Start(s) ==
    /\ srv[s].pc = "down" /\ Settled(s)
    /\ srv' = [srv EXCEPT ![s] = [Down EXCEPT !.pc = "probe", !.handle = TRUE]]
    /\ UNCHANGED <<path, slot, up, conn, client, excused, crashes, breaks>>

\* Variant: whatever is at the path is removed.
PrepareListenPathUnprobed(s) ==
    /\ srv[s].pc = "probe"
    /\ Proc(s, "listen") /\ path' = NoOne
    /\ UNCHANGED <<slot, up, conn, client, excused, crashes, breaks>>

\* A socket at the path is probed: an active one is left alone and serve exits, a
\* stale one is removed.
PrepareListenPath(s) ==
    /\ srv[s].pc = "probe"
    /\ IF path # NoOne /\ Listening(path)
       THEN srv' = [srv EXCEPT ![s] = Down] /\ UNCHANGED path
       ELSE Proc(s, "listen") /\ path' = NoOne
    /\ UNCHANGED <<slot, up, conn, client, excused, crashes, breaks>>

\* The namespace handle, the listener and the mode of the socket; then the accept
\* goroutine, READY, and provisioning in the background.
Listen(s) ==
    /\ srv[s].pc = "listen"
    /\ \/ /\ path' = s
          /\ srv' = [srv EXCEPT ![s].pc = "serving", ![s].acc = TRUE, ![s].prov = "run"]
       \/ /\ srv' = [srv EXCEPT ![s] = Down]
          /\ UNCHANGED path
    /\ UNCHANGED <<slot, up, conn, client, excused, crashes, breaks>>

\* ProvisionPorts opens the reserved ports one at a time.
ProvisionPort(s, p) ==
    /\ srv[s].prov = "run" /\ slot[p] = "reserved"
    /\ slot' = [slot EXCEPT ![p] = "free"]
    /\ UNCHANGED <<path, srv, up, conn, client, excused, crashes, breaks>>

Provisioned(s) ==
    /\ srv[s].pc = "serving" /\ srv[s].prov = "run"
    /\ \A p \in Ports : slot[p] # "reserved"
    /\ srv' = [srv EXCEPT ![s].prov = "ok"]
    /\ UNCHANGED <<path, slot, up, conn, client, excused, crashes, breaks>>

\* The process ends without Close: by a signal it does not handle, or by exit(1)
\* from the main loop, when the listener, provisioning or the health check fails.
\* The socket stays behind in the file system.
Die(s) ==
    LET S == {k \in Conns : conn[k].via = s /\ conn[k].st \notin {"none", "answered"}}
    IN  /\ srv' = [srv EXCEPT ![s] = Down]
        /\ conn' = Dropped(S)
        /\ excused' = excused \union Stranded(S)
        /\ UNCHANGED <<path, slot, up, client, breaks>>

Crash(s) ==
    /\ srv[s].pc # "down" /\ crashes < MaxCrashes
    /\ crashes' = crashes + 1
    /\ Die(s)

\* From some moment on the health check of this process fails.
Break(s) ==
    /\ srv[s].pc = "serving" /\ ~srv[s].broken /\ breaks < MaxBreaks
    /\ srv' = [srv EXCEPT ![s].broken = TRUE]
    /\ breaks' = breaks + 1
    /\ UNCHANGED <<path, slot, up, conn, client, excused, crashes>>

\* Errors in a row and the watch intervals since the first of them: when serve exits.
Sustained(errs, age) ==
    errs >= maxConsecutiveErrors /\ age * WatchInterval >= maxErrorDuration

\* Variant: the time of the first error is taken again at each one.
StatusTickRestarted(s) ==
    /\ srv[s].pc = "serving" /\ srv[s].prov = "ok" /\ srv[s].broken
    /\ srv' = [srv EXCEPT ![s].errs = IF @ < 5 THEN @ + 1 ELSE @, ![s].age = 0]
    /\ UNCHANGED <<path, slot, up, conn, client, excused, crashes, breaks>>

\* A tick of the health check, once the ports are provisioned.
StatusTick(s) ==
    LET errs == srv[s].errs + 1
        age == IF errs = 1 THEN 0 ELSE srv[s].age + 1
    IN  /\ srv[s].pc = "serving" /\ srv[s].prov = "ok"
        /\ \/ /\ ~srv[s].broken
              /\ srv' = [srv EXCEPT ![s].errs = 0, ![s].age = 0]
              /\ UNCHANGED <<path, slot, up, conn, client, excused, breaks>>
           \/ /\ srv[s].broken /\ ~Sustained(errs, age)
              /\ srv' = [srv EXCEPT ![s].errs = errs, ![s].age = age]
              /\ UNCHANGED <<path, slot, up, conn, client, excused, breaks>>
           \/ srv[s].broken /\ Sustained(errs, age) /\ Die(s)
        /\ UNCHANGED crashes

\* SIGTERM or SIGINT: the context is cancelled and the deferred calls run.
Signal(s) ==
    /\ srv[s].pc = "serving" /\ Settled(s)
    /\ Proc(s, "cancel")
    /\ UNCHANGED <<path, slot, up, conn, client, excused, crashes, breaks>>

\* Closing the listener removes the socket and resets what was never accepted.
CloseListener(s) ==
    LET S == {k \in Conns : conn[k].via = s /\ conn[k].st = "queued"}
    IN  /\ srv[s].pc = "cancel"
        /\ Proc(s, "done")
        /\ path' = NoOne
        /\ conn' = Dropped(S)
        /\ excused' = excused \union Stranded(S)
        /\ UNCHANGED <<slot, up, client, crashes, breaks>>

\* Variant: the accept goroutine tries again after every error.
AcceptClosedRetries(s) ==
    /\ srv[s].pc = "done" /\ srv[s].acc
    /\ UNCHANGED vars

\* The accept goroutine finds its listener closed.
AcceptClosed(s) ==
    /\ srv[s].pc = "done" /\ srv[s].acc
    /\ srv' = [srv EXCEPT ![s].acc = FALSE]
    /\ UNCHANGED <<path, slot, up, conn, client, excused, crashes, breaks>>

\* Variant: Close does not wait for the handlers.
CloseWaitAcceptOnly(s) ==
    /\ srv[s].pc = "done" /\ ~srv[s].acc
    /\ Proc(s, "unlink")
    /\ UNCHANGED <<path, slot, up, conn, client, excused, crashes, breaks>>

\* Close waits for the goroutine and for every handler.
CloseWait(s) ==
    /\ srv[s].pc = "done" /\ ~srv[s].acc /\ HandlersOf(s) = {}
    /\ Proc(s, "unlink")
    /\ UNCHANGED <<path, slot, up, conn, client, excused, crashes, breaks>>

\* The path is removed by name, then the switch handle is closed and the process
\* ends, taking the provisioning goroutine with it.
CloseUnlink(s) ==
    /\ srv[s].pc = "unlink"
    /\ path' = NoOne
    /\ srv' = [srv EXCEPT ![s].pc = "unmap", ![s].handle = FALSE]
    /\ UNCHANGED <<slot, up, conn, client, excused, crashes, breaks>>

Exit(s) ==
    /\ srv[s].pc = "unmap"
    /\ srv' = [srv EXCEPT ![s] = Down]
    /\ UNCHANGED <<path, slot, up, conn, client, excused, crashes, breaks>>

\* A helper process is killed.
KillHelper(k) ==
    /\ Busy(k) /\ conn[k].via = NoOne /\ crashes < MaxCrashes
    /\ crashes' = crashes + 1
    /\ conn' = Dropped({k})
    /\ excused' = excused \union Stranded({k})
    /\ UNCHANGED <<path, srv, slot, up, client, breaks>>

(***************************************************************************)
(* The system.                                                             *)
(***************************************************************************)

ClientStep(c) ==
    \/ \E k \in Conns : Connect(c, k) \/ RunHelper(c, k)
    \/ Receive(c) \/ GiveUp(c) \/ CloseQueue(c)

HandlerStep(k) ==
    \/ Accept(k) \/ Answer(k) \/ Prepare(k) \/ PrepareReply(k) \/ Undo(k)
    \/ ValidateOpenPort(k) \/ OpenTap(k) \/ SendFd(k) \/ SetPortUp(k) \/ Release(k)

\* What serve does by itself once it runs, and once it is told to stop.
ServerStep(s) ==
    \/ PrepareListenPath(s) \/ Listen(s)
    \/ \E p \in Ports : ProvisionPort(s, p)
    \/ Provisioned(s) \/ StatusTick(s)
    \/ CloseListener(s) \/ AcceptClosed(s) \/ CloseWait(s) \/ CloseUnlink(s) \/ Exit(s)

\* What happens to it.
Event(s) == Start(s) \/ Signal(s) \/ Crash(s) \/ Break(s)

Next ==
    \/ \E c \in Clients : ClientStep(c)
    \/ \E k \in Conns : HandlerStep(k) \/ KillHelper(k)
    \/ \E s \in Servers : ServerStep(s) \/ Event(s)

Spec == Init /\ [][Next]_vars

\* Handlers are goroutines and a read ends at its deadline; the goroutines and the
\* ticks of a running serve go on.  Clients, signals and failures owe nothing.
Fairness ==
    /\ \A k \in Conns : WF_vars(HandlerStep(k))
    /\ \A s \in Servers : WF_vars(ServerStep(s))

FairSpec == Spec /\ Fairness

(***************************************************************************)
(* Properties.                                                             *)
(***************************************************************************)

\* The state has its type.
TypeOK ==
    /\ path \in Servers \union {NoOne}
    /\ \A s \in Servers :
           /\ srv[s].pc \in {"down", "probe", "listen", "serving", "cancel", "done",
                             "unlink", "unmap"}
           /\ srv[s].prov \in {"none", "run", "ok"}
           /\ srv[s].handle \in BOOLEAN /\ srv[s].acc \in BOOLEAN /\ srv[s].broken \in BOOLEAN
           /\ srv[s].errs \in 0 .. maxErrorDuration /\ srv[s].age \in 0 .. maxErrorDuration
    /\ \A p \in Ports : slot[p] \in {"reserved", "free"} \union Clients
    /\ \A p \in Ports : up[p] \in BOOLEAN /\ (up[p] => Attached(p))
    /\ \A k \in Conns :
           /\ conn[k].st \in {"none", "queued", "read", "reply", "undo", "open", "send",
                              "answered"}
           /\ conn[k].who \in Clients \union {NoOne}
           /\ conn[k].port \in Ports \union {0}
           /\ conn[k].meta \in {NoOne, "reserved", "free"} \union Clients
    /\ \A c \in Clients : /\ client[c].at \in Conns \union {NoOne}
                          /\ client[c].port \in Ports \union {0}
                          /\ client[c].fd \in Ports \union {0}
    /\ excused \subseteq Ports
    /\ crashes \in 0 .. MaxCrashes /\ breaks \in 0 .. MaxBreaks

\* A port a client was told of stays attached for it until it sends RELEASE: no
\* rollback of a lost PREPARE reply, no late RELEASE and no restart of serve
\* detaches it (tapfd_server.go handleTapFDPrepare, handleTapFDRelease).
HolderKeepsPort ==
    \A c \in Clients : client[c].port # 0 => slot[client[c].port] = c

\* Who will still give port p back: the client that knows it, a reply on its way,
\* or a handler that has not finished.
Responsible(p, c) ==
    \/ client[c].port = p
    \/ \E k \in Conns :
           /\ conn[k].port = p /\ conn[k].who = c
           /\ \/ Busy(k) /\ conn[k].op \in {"PREPARE", "ATTACH_OPEN"}
              \/ conn[k].op \in {"PREPARE", "ATTACH_OPEN"} /\ conn[k].res = "ok"
              \/ conn[k].op = "RELEASE" /\ conn[k].st # "answered"

\* No port leaks: an attached port has someone who will give it back, whatever
\* replies are lost, unless a process died or a client closed its connection on a
\* reply that was already written (the rollback after sendTapFDOK, attach.go).
NoLeakedPort ==
    \A p \in Ports : Attached(p) => p \in excused \/ Responsible(p, slot[p])

\* A queue is handed to the owner of the port as its owner: the metadata read after
\* the validation is still the client's, the tap comes first, and the namespace is
\* there exactly when it was asked for (openPortAndSendToConn, RecvFdsWithNetns).
HandoffFaithful ==
    \A c \in Clients :
        LET k == client[c].at
            m == RecvFdsWithNetns(Message(conn[k].netns))
        IN  (/\ k # NoOne /\ conn[k].st = "answered" /\ conn[k].res = "ok"
             /\ conn[k].op \in {"OPEN", "ATTACH_OPEN"})
                => /\ conn[k].meta = c /\ slot[conn[k].port] = c
                   /\ m.ok /\ m.tap = <<"tap">>
                   /\ m.netns = IF conn[k].netns THEN <<"netns">> ELSE <<>>

\* No handler touches the mapped slots of a switch that was closed: the deferred
\* calls of runServe stop the listener and its handlers first (tapFDServer.Close).
NoUseAfterClose ==
    \A s \in Servers : HandlersOf(s) # {} => srv[s].handle

\* The path names the socket of the serve that runs: a socket left behind by one
\* that died does not keep the next from listening, and a second serve does not
\* take the path of an active one (prepareTapFDListenPath, Close).
ServingIsReachable ==
    \A s \in Servers : srv[s].pc = "serving" => path = s

\* Every request is answered, or its connection reset, also by a silent client's
\* deadline, a shutdown or the death of serve (handleTapFDConn).
RequestsAnswered ==
    \A c \in Clients :
        client[c].at # NoOne
            ~> (client[c].at = NoOne \/ conn[client[c].at].st = "answered")

\* A signal ends serve: nothing it waits for can wait for ever (tapFDServer.Close).
ShutdownCompletes ==
    \A s \in Servers : srv[s].pc = "cancel" ~> srv[s].pc = "down"

\* A health check that keeps failing ends the process, so that the service manager
\* can restart it (runServe, maxConsecutiveErrors and maxErrorDuration).
BrokenServeExits ==
    \A s \in Servers : srv[s].broken ~> srv[s].pc = "down"
=============================================================================
