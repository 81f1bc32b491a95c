------------------------ MODULE TapfdServer_proofs ------------------------
(***************************************************************************)
(* Safety of TapfdServer for any number of servers, clients, connections   *)
(* and ports.                                                              *)
(*                                                                         *)
(* A port is claimed by the client that knows it, or by the one connection *)
(* that is going to tell its client of it or to give it back.  The claim   *)
(* is never shared, so whoever detaches a port by its number, as Undo and  *)
(* Release do, detaches its own.  The listen path leads to the serve that  *)
(* serves, because only one that is starting or closing touches it.        *)
(***************************************************************************)
EXTENDS TapfdServer, TLAPS

Fields == {"st", "via", "op", "who", "port", "open", "netns", "res", "meta"}

\* A connection that claims its port: it was attached for the client, who has not
\* been told, or the client has sent RELEASE.
Claims(r) ==
    \/ /\ r.op \in {"PREPARE", "ATTACH_OPEN"}
       /\ \/ r.st \in {"reply", "undo", "open", "send"}
          \/ r.st = "answered" /\ r.res = "ok"
    \/ r.op = "RELEASE" /\ r.st \in {"queued", "read"}

\* The stages that belong to one kind of request.
Staged(r) ==
    /\ r.st = "reply" => r.op = "PREPARE"
    /\ r.st = "undo" => r.op \in {"PREPARE", "ATTACH_OPEN"}
    /\ r.st \in {"open", "send"} => r.op \in {"OPEN", "ATTACH_OPEN"}

\* The queue was opened for this connection.
Handed(r) ==
    /\ r.op \in {"OPEN", "ATTACH_OPEN"}
    /\ r.st = "send" \/ (r.st = "answered" /\ r.res = "ok")

Shape ==
    /\ DOMAIN slot = Ports
    /\ DOMAIN conn = Conns /\ \A k \in Conns : Fields \subseteq DOMAIN conn[k]
    /\ \A k \in Conns : conn[k].open \in BOOLEAN
    /\ DOMAIN client = Clients
    /\ \A c \in Clients : {"at", "port", "fd"} \subseteq DOMAIN client[c]

\* A client waits on a connection of its own, which is open.
Waits ==
    /\ \A c \in Clients : client[c].at # NoOne =>
        /\ client[c].at \in Conns
        /\ conn[client[c].at].st # "none" /\ conn[client[c].at].who = c
        /\ conn[client[c].at].open
    /\ \A k \in Conns : conn[k].st # "none" => conn[k].who \in Clients

Stages == \A k \in Conns : Staged(conn[k])

\* A claimed port is attached for the client it is claimed for.
Owned ==
    /\ \A k \in Conns : Claims(conn[k]) =>
        conn[k].port \in Ports /\ slot[conn[k].port] = conn[k].who
    /\ \A c \in Clients : client[c].port # 0 =>
        client[c].port \in Ports /\ slot[client[c].port] = c

\* No two claim one port.
Distinct ==
    \A k \in Conns : Claims(conn[k]) =>
        /\ \A l \in Conns : Claims(conn[l]) /\ conn[l].port = conn[k].port => l = k
        /\ \A c \in Clients : client[c].port # conn[k].port

\* OPEN is about the port of the client, which cannot give it back while it waits;
\* a client with a port asks for no other; and the metadata of an opened queue names
\* the client.
Asked ==
    \A c \in Clients : client[c].at # NoOne =>
        /\ conn[client[c].at].op = "OPEN" =>
               client[c].port # 0 /\ client[c].port = conn[client[c].at].port
        /\ conn[client[c].at].op \in {"PREPARE", "ATTACH_OPEN"} => client[c].port = 0
        /\ Handed(conn[client[c].at]) => conn[client[c].at].meta = c

\* An attached port that is not excused is claimed.
Covered ==
    \A p \in Ports : Attached(p) =>
        \/ p \in excused
        \/ \E c \in Clients : client[c].port = p
        \/ \E k \in Conns : Claims(conn[k]) /\ conn[k].port = p

PInv == Shape /\ Waits /\ Stages /\ Owned /\ Distinct /\ Asked /\ Covered

-----------------------------------------------------------------------------
(* Facts about the operators. *)

\* Ports are numbers, and 0, "no port", is not one of them.
LEMMA PortsAre ==
    0 \notin Ports /\ Ports \subseteq Nat
<1>1. PICK n : Ports = 1 .. n
  BY TapfdConstants, Zenon DEF Ports
<1>. QED
  BY <1>1

\* An unused connection claims nothing and has handed over nothing.
LEMMA NoConnIs ==
    /\ Fields \subseteq DOMAIN NoConn /\ NoConn.st = "none" /\ NoConn.open = FALSE
    /\ ~Claims(NoConn) /\ Staged(NoConn) /\ ~Handed(NoConn)
<1>1. /\ Fields \subseteq DOMAIN NoConn /\ NoConn.st = "none" /\ NoConn.open = FALSE
      /\ NoConn.op = "none"
  BY DEF NoConn, Fields
<1>. QED
  BY <1>1 DEF Claims, Staged, Handed

Whole(m) == ~(\/ Len(m.fds) = 0
              \/ m.netns_fd > 1
              \/ m.fd # 0 /\ Len(m.fds) # m.fd + m.netns_fd
              \/ m.netns_fd > Len(m.fds))

\* A message that arrives whole is received as it was sent, the tap first (RecvFdsWithNetns).
LEMMA ReceivedWhole ==
    ASSUME NEW m, Whole(m)
    PROVE  /\ RecvFdsWithNetns(m).ok
           /\ RecvFdsWithNetns(m).tap = SubSeq(m.fds, 1, Len(m.fds) - m.netns_fd)
           /\ RecvFdsWithNetns(m).netns
                  = SubSeq(m.fds, Len(m.fds) - m.netns_fd + 1, Len(m.fds))
  BY Zenon DEF RecvFdsWithNetns, Whole

\* Both descriptors reach the receiver in their places.
LEMMA MessageReceived ==
    ASSUME NEW netns
    PROVE  LET m == RecvFdsWithNetns(Message(netns))
           IN  /\ m.ok /\ m.tap = <<"tap">>
               /\ m.netns = IF netns THEN <<"netns">> ELSE <<>>
<1>. DEFINE m == Message(netns)
<1>1. CASE netns
  <2>1. m.fds = <<"tap", "netns">> /\ m.fd = 1 /\ m.netns_fd = 1 /\ Len(m.fds) = 2
    BY <1>1 DEF Message
  <2>. HIDE DEF m
  <2>2. /\ SubSeq(<<"tap", "netns">>, 1, 1) = [i \in 1 .. 1 |-> "tap"]
        /\ SubSeq(<<"tap", "netns">>, 2, 2) = [i \in 1 .. 1 |-> "netns"]
    OBVIOUS
  <2>3. <<"tap">> = [i \in 1 .. 1 |-> "tap"] /\ <<"netns">> = [i \in 1 .. 1 |-> "netns"]
    OBVIOUS
  <2>4. Len(m.fds) - m.netns_fd = 1 /\ Len(m.fds) - m.netns_fd + 1 = 2 /\ Whole(m)
    BY <2>1 DEF Whole
  <2>5. /\ RecvFdsWithNetns(m).ok
        /\ RecvFdsWithNetns(m).tap = SubSeq(m.fds, 1, 1)
        /\ RecvFdsWithNetns(m).netns = SubSeq(m.fds, 2, 2)
    BY <2>1, <2>4, ReceivedWhole, Zenon
  <2>6. /\ RecvFdsWithNetns(m).ok /\ RecvFdsWithNetns(m).tap = <<"tap">>
        /\ RecvFdsWithNetns(m).netns = <<"netns">>
    BY <2>1, <2>2, <2>3, <2>5, Zenon
  <2>. QED
    BY <1>1, <2>6, Zenon DEF m
<1>2. CASE ~netns
  <2>1. m.fds = <<"tap">> /\ m.fd = 1 /\ m.netns_fd = 0 /\ Len(m.fds) = 1
    BY <1>2 DEF Message
  <2>. HIDE DEF m
  <2>2. SubSeq(<<"tap">>, 1, 1) = [i \in 1 .. 1 |-> "tap"] /\ SubSeq(<<"tap">>, 2, 1) = <<>>
    OBVIOUS
  <2>3. <<"tap">> = [i \in 1 .. 1 |-> "tap"]
    OBVIOUS
  <2>4. Len(m.fds) - m.netns_fd = 1 /\ Len(m.fds) - m.netns_fd + 1 = 2 /\ Whole(m)
    BY <2>1 DEF Whole
  <2>5. /\ RecvFdsWithNetns(m).ok
        /\ RecvFdsWithNetns(m).tap = SubSeq(m.fds, 1, 1)
        /\ RecvFdsWithNetns(m).netns = SubSeq(m.fds, 2, 1)
    BY <2>1, <2>4, ReceivedWhole, Zenon
  <2>6. /\ RecvFdsWithNetns(m).ok /\ RecvFdsWithNetns(m).tap = <<"tap">>
        /\ RecvFdsWithNetns(m).netns = <<>>
    BY <2>1, <2>2, <2>3, <2>5, Zenon
  <2>. QED
    BY <1>2, <2>6, Zenon DEF m
<1>. QED
  BY <1>1, <1>2

-----------------------------------------------------------------------------
(* Steps of one connection that leave the ports alone. *)

Others(k) ==
    /\ DOMAIN conn' = Conns /\ \A l \in Conns \ {k} : conn'[l] = conn[l]
    /\ Fields \subseteq DOMAIN conn'[k] /\ conn'[k].open \in BOOLEAN

SameRequest(k) ==
    /\ conn'[k].who = conn[k].who /\ conn'[k].port = conn[k].port
    /\ conn'[k].op = conn[k].op /\ conn'[k].open = conn[k].open

PortsSame == slot' = slot /\ client' = client /\ excused' = excused

\* The answer of a request that claims nothing, or a stage that keeps the claim.
LEMMA StageInv ==
    ASSUME PInv, NEW k \in Conns, Others(k), PortsSame, SameRequest(k),
           conn[k].st # "none", conn'[k].st # "none",
           Claims(conn'[k]) <=> Claims(conn[k]), Staged(conn'[k]),
           \A c \in Clients : client[c].at = k /\ Handed(conn'[k]) => conn'[k].meta = c
    PROVE  PInv'
<1>. USE DEF PortsSame
<1>1. Shape'
  BY DEF PInv, Shape, Others
<1>2. Waits'
  BY DEF PInv, Waits, Others, SameRequest
<1>3. Stages'
  BY DEF PInv, Stages, Others
<1>4. Owned'
  BY DEF PInv, Owned, Others, SameRequest
<1>5. Distinct'
  BY DEF PInv, Distinct, Others, SameRequest
<1>6. Asked'
  BY DEF PInv, Asked, Waits, Others, SameRequest
<1>7. Covered'
  BY DEF PInv, Covered, Attached, Others, SameRequest
<1>. QED
  BY <1>1, <1>2, <1>3, <1>4, <1>5, <1>6, <1>7 DEF PInv

\* A connection without a claim that nobody waits on ends.
LEMMA EndInv ==
    ASSUME PInv, NEW k \in Conns, Others(k), PortsSame, conn'[k] = NoConn,
           ~conn[k].open, ~Claims(conn[k])
    PROVE  PInv'
<1>. USE DEF PortsSame
<1>1. /\ conn'[k].st = "none" /\ ~Claims(conn'[k]) /\ Staged(conn'[k])
      /\ Fields \subseteq DOMAIN conn'[k] /\ conn'[k].open = FALSE
  BY NoConnIs
<1>2. \A c \in Clients : client[c].at # k
  BY TapfdConstants DEF PInv, Waits
<1>3. Shape'
  BY <1>1 DEF PInv, Shape, Others
<1>4. Waits'
  BY <1>1, <1>2 DEF PInv, Waits, Others
<1>5. Stages'
  BY <1>1 DEF PInv, Stages, Others
<1>6. Owned'
  BY <1>1 DEF PInv, Owned, Others
<1>7. Distinct'
  BY <1>1 DEF PInv, Distinct, Others
<1>8. Asked'
  BY <1>1, <1>2 DEF PInv, Asked, Waits, Others
<1>9. Covered'
  BY <1>1 DEF PInv, Covered, Attached, Others
<1>. QED
  BY <1>3, <1>4, <1>5, <1>6, <1>7, <1>8, <1>9 DEF PInv

\* The answer of a handler that claims nothing.
LEMMA FinishInv ==
    ASSUME PInv, NEW k \in Conns, NEW res, NEW meta, Finish(k, res, meta), PortsSame,
           ~Claims(conn[k]), conn[k].st # "none",
           res = "ok" => conn[k].op \notin {"PREPARE", "OPEN", "ATTACH_OPEN"}
    PROVE  PInv'
<1>1. CASE conn[k].open
  <2>1. conn' = [conn EXCEPT ![k] = [conn[k] EXCEPT !.st = "answered", !.res = res, !.meta = meta]]
    BY <1>1 DEF Finish, PInv, Shape
  <2>2. /\ Others(k) /\ SameRequest(k) /\ conn'[k].st = "answered" /\ conn'[k].res = res
    BY <2>1 DEF PInv, Shape, Others, SameRequest, Fields
  <2>3. ~Claims(conn'[k]) /\ Staged(conn'[k]) /\ ~Handed(conn'[k])
    BY <2>2 DEF Claims, Staged, Handed, SameRequest
  <2>. QED
    BY <2>2, <2>3, StageInv
<1>2. CASE ~conn[k].open
  <2>1. conn' = [conn EXCEPT ![k] = NoConn]
    BY <1>2 DEF Finish, PInv, Shape
  <2>2. Others(k) /\ conn'[k] = NoConn
    BY <2>1, NoConnIs, Zenon DEF PInv, Shape, Others
  <2>. QED
    BY <1>2, <2>2, EndInv
<1>. QED
  BY <1>1, <1>2

\* A connection moves to a stage that neither begins nor ends a claim.
LEMMA GotoInv ==
    ASSUME PInv, NEW k \in Conns, NEW st, Goto(k, st), PortsSame, conn[k].st # "none",
           st \notin {"none", "send", "answered"},
           Claims(conn[k]) <=> Claims([conn[k] EXCEPT !.st = st]),
           Staged([conn[k] EXCEPT !.st = st])
    PROVE  PInv'
<1>1. conn'[k] = [conn[k] EXCEPT !.st = st] /\ Others(k) /\ SameRequest(k) /\ conn'[k].st = st
  BY DEF Goto, PInv, Shape, Others, SameRequest, Fields
<1>2. ~Handed(conn'[k])
  BY <1>1 DEF Handed
<1>. QED
  BY <1>1, <1>2, StageInv, Zenon

\* A connection that goes to another stage keeps its request.
LEMMA Restaged ==
    ASSUME PInv, NEW k \in Conns, NEW st
    PROVE  /\ [conn[k] EXCEPT !.st = st].st = st
           /\ [conn[k] EXCEPT !.st = st].op = conn[k].op
  BY DEF PInv, Shape, Fields

\* The accept loop starts a handler.
LEMMA AcceptInv ==
    ASSUME PInv, NEW k \in Conns, Accept(k)
    PROVE  PInv'
<1>1. conn[k].st = "queued" /\ Goto(k, "read") /\ PortsSame
  BY DEF Accept, PortsSame
<1>2. /\ Claims(conn[k]) <=> Claims([conn[k] EXCEPT !.st = "read"])
      /\ Staged([conn[k] EXCEPT !.st = "read"])
  BY <1>1, Restaged DEF Claims, Staged
<1>. QED
  BY <1>1, <1>2, GotoInv

\* INFO, and a request that does not parse, are answered.
LEMMA AnswerInv ==
    ASSUME PInv, NEW k \in Conns, Answer(k)
    PROVE  PInv'
<1>1. /\ conn[k].st = "read" /\ conn[k].op \in {"none", "INFO"} /\ PortsSame
      /\ Finish(k, IF conn[k].op = "INFO" THEN "ok" ELSE "err", NoOne)
  BY DEF Answer, PortsSame
<1>2. ~Claims(conn[k])
  BY <1>1 DEF Claims
<1>. QED
  BY <1>1, <1>2, FinishInv

\* The reply of PREPARE is written, or the write fails.
LEMMA PrepareReplyInv ==
    ASSUME PInv, NEW k \in Conns, PrepareReply(k)
    PROVE  PInv'
<1>1. conn[k].st = "reply" /\ PortsSame
  BY DEF PrepareReply, PortsSame
<1>2. conn[k].op = "PREPARE"
  BY <1>1 DEF PInv, Stages, Staged
<1>3. CASE conn[k].open
  <2>1. conn' = [conn EXCEPT ![k] = [conn[k] EXCEPT !.st = "answered", !.res = "ok", !.meta = NoOne]]
    BY <1>3 DEF PrepareReply, Finish, PInv, Shape
  <2>2. Others(k) /\ SameRequest(k) /\ conn'[k].st = "answered" /\ conn'[k].res = "ok"
    BY <2>1 DEF PInv, Shape, Others, SameRequest, Fields
  <2>3. Claims(conn[k]) /\ Claims(conn'[k]) /\ Staged(conn'[k])
    BY <1>1, <1>2, <2>2 DEF Claims, Staged, SameRequest
  <2>4. ~Handed(conn'[k])
    BY <1>2, <2>2 DEF Handed, SameRequest
  <2>. QED
    BY <1>1, <2>2, <2>3, <2>4, StageInv
<1>4. CASE ~conn[k].open
  <2>1. Goto(k, "undo")
    BY <1>4 DEF PrepareReply
  <2>2. /\ Claims(conn[k]) <=> Claims([conn[k] EXCEPT !.st = "undo"])
        /\ Staged([conn[k] EXCEPT !.st = "undo"])
    BY <1>1, <1>2, Restaged DEF Claims, Staged
  <2>. QED
    BY <1>1, <2>1, <2>2, GotoInv
<1>. QED
  BY <1>3, <1>4

\* A failed handover: the helper that attached the port keeps its claim.
LEMMA FailInv ==
    ASSUME PInv, NEW k \in Conns, Fail(k), PortsSame, conn[k].st \in {"open", "send"}
    PROVE  PInv'
<1>1. conn[k].op \in {"OPEN", "ATTACH_OPEN"}
  BY DEF PInv, Stages, Staged
<1>2. CASE conn[k].op = "ATTACH_OPEN"
  <2>1. Goto(k, "undo")
    BY <1>2 DEF Fail
  <2>2. /\ Claims(conn[k]) <=> Claims([conn[k] EXCEPT !.st = "undo"])
        /\ Staged([conn[k] EXCEPT !.st = "undo"])
    BY <1>2, Restaged DEF Claims, Staged
  <2>. QED
    BY <2>1, <2>2, GotoInv
<1>3. CASE conn[k].op = "OPEN"
  <2>1. Finish(k, "err", NoOne) /\ ~Claims(conn[k])
    BY <1>3 DEF Fail, Claims
  <2>. QED
    BY <2>1, FinishInv
<1>. QED
  BY <1>1, <1>2, <1>3

\* OPEN looks at the port (validateOpenPort).
LEMMA ValidateOpenPortInv ==
    ASSUME PInv, NEW k \in Conns, ValidateOpenPort(k)
    PROVE  PInv'
<1>1. conn[k].st = "read" /\ conn[k].op = "OPEN" /\ PortsSame
  BY DEF ValidateOpenPort, PortsSame
<1>2. CASE Goto(k, "open")
  <2>1. /\ Claims(conn[k]) <=> Claims([conn[k] EXCEPT !.st = "open"])
        /\ Staged([conn[k] EXCEPT !.st = "open"])
    BY <1>1, Restaged DEF Claims, Staged
  <2>. QED
    BY <1>1, <1>2, <2>1, GotoInv
<1>3. CASE Finish(k, "err", NoOne)
  <2>1. ~Claims(conn[k])
    BY <1>1 DEF Claims
  <2>. QED
    BY <1>1, <1>3, <2>1, FinishInv
<1>. QED
  BY <1>2, <1>3 DEF ValidateOpenPort

\* The metadata is read from the slot, which the client owns while it waits.
LEMMA OpenTapInv ==
    ASSUME PInv, NEW k \in Conns, OpenTap(k)
    PROVE  PInv'
<1>1. conn[k].st = "open" /\ PortsSame
  BY DEF OpenTap, PortsSame
<1>2. conn[k].op \in {"OPEN", "ATTACH_OPEN"}
  BY <1>1 DEF PInv, Stages, Staged
<1>3. CASE Fail(k)
  BY <1>1, <1>3, FailInv
<1>4. CASE conn' = [conn EXCEPT ![k].st = "send", ![k].meta = slot[conn[k].port]]
  <2>1. /\ Others(k) /\ SameRequest(k) /\ conn'[k].st = "send"
        /\ conn'[k].meta = slot[conn[k].port]
    BY <1>4 DEF PInv, Shape, Others, SameRequest, Fields
  <2>2. (Claims(conn'[k]) <=> Claims(conn[k])) /\ Staged(conn'[k])
    BY <1>1, <1>2, <2>1 DEF Claims, Staged, SameRequest
  <2>3. ASSUME NEW c \in Clients, client[c].at = k
        PROVE  slot[conn[k].port] = c
    <3>1. client[c].at # NoOne
      BY <2>3, TapfdConstants
    <3>2. CASE conn[k].op = "OPEN"
      BY <2>3, <3>1, <3>2 DEF PInv, Asked, Owned
    <3>3. CASE conn[k].op = "ATTACH_OPEN"
      <4>1. Claims(conn[k])
        BY <1>1, <3>3 DEF Claims
      <4>. QED
        BY <2>3, <3>1, <4>1 DEF PInv, Waits, Owned
    <3>. QED
      BY <1>2, <3>2, <3>3
  <2>. QED
    BY <1>1, <2>1, <2>2, <2>3, StageInv
<1>. QED
  BY <1>3, <1>4 DEF OpenTap

\* The descriptors are sent, or that fails.
LEMMA SendFdInv ==
    ASSUME PInv, NEW k \in Conns, SendFd(k)
    PROVE  PInv'
<1>1. conn[k].st = "send" /\ PortsSame
  BY DEF SendFd, PortsSame
<1>2. conn[k].op \in {"OPEN", "ATTACH_OPEN"}
  BY <1>1 DEF PInv, Stages, Staged
<1>3. CASE Fail(k)
  BY <1>1, <1>3, FailInv
<1>4. CASE \E netns \in BOOLEAN :
              conn' = [conn EXCEPT ![k].st = "answered", ![k].res = "ok", ![k].netns = netns]
  <2>1. /\ Others(k) /\ SameRequest(k) /\ conn'[k].st = "answered" /\ conn'[k].res = "ok"
        /\ conn'[k].meta = conn[k].meta
    BY <1>4 DEF PInv, Shape, Others, SameRequest, Fields
  <2>2. (Claims(conn'[k]) <=> Claims(conn[k])) /\ Staged(conn'[k])
    BY <1>1, <1>2, <2>1 DEF Claims, Staged, SameRequest
  <2>3. Handed(conn[k])
    BY <1>1, <1>2 DEF Handed
  <2>4. ASSUME NEW c \in Clients, client[c].at = k
        PROVE  conn[k].meta = c
    BY <2>3, <2>4, TapfdConstants DEF PInv, Asked
  <2>. QED
    BY <1>1, <2>1, <2>2, <2>4, StageInv
<1>. QED
  BY <1>3, <1>4 DEF SendFd

\* SET_PORT_UP is served.
LEMMA SetPortUpInv ==
    ASSUME PInv, NEW k \in Conns, SetPortUp(k)
    PROVE  PInv'
<1>1. conn[k].st = "read" /\ conn[k].op = "SET_PORT_UP" /\ PortsSame
  BY DEF SetPortUp, PortsSame
<1>2. PICK res : Finish(k, res, NoOne)
  BY Zenon DEF SetPortUp
<1>3. ~Claims(conn[k])
  BY <1>1 DEF Claims
<1>. QED
  BY <1>1, <1>2, <1>3, FinishInv

-----------------------------------------------------------------------------
(* Steps that attach or detach a port. *)

\* What Attach does with the port it finds.
Stage(k, p) ==
    IF Kind[p] # "tap" THEN "undo" ELSE IF conn[k].op = "PREPARE" THEN "reply" ELSE "open"

Attaches(k, p) ==
    /\ slot' = [slot EXCEPT ![p] = conn[k].who]
    /\ conn' = [conn EXCEPT ![k].port = p, ![k].st = Stage(k, p)]

\* Attach claims a port that nobody claims, since it is free.
LEMMA PrepareInv ==
    ASSUME PInv, NEW k \in Conns, Prepare(k)
    PROVE  PInv'
<1>1. conn[k].st = "read" /\ conn[k].op \in {"PREPARE", "ATTACH_OPEN"} /\ ~Claims(conn[k])
  BY DEF Prepare, Claims
<1>2. CASE Finish(k, "err", NoOne) /\ PortsSame
  BY <1>1, <1>2, FinishInv
<1>3. ASSUME NEW p \in FreePorts, Attaches(k, p), client' = client, excused' = excused
      PROVE  PInv'
  <2>. DEFINE st == Stage(k, p)
  <2>1. p \in Ports /\ slot[p] = "free"
    BY DEF FreePorts
  <2>2. /\ slot' = [slot EXCEPT ![p] = conn[k].who]
        /\ conn' = [conn EXCEPT ![k].port = p, ![k].st = st]
        /\ client' = client /\ excused' = excused
    BY <1>3 DEF Attaches
  <2>3. st \in {"undo", "reply", "open"}
    BY DEF Stage
  <2>4. (st = "reply" => conn[k].op = "PREPARE") /\ (st = "open" => conn[k].op = "ATTACH_OPEN")
    BY <1>1 DEF Stage
  <2>. HIDE DEF st
  <2>5. /\ Others(k) /\ conn'[k].port = p /\ conn'[k].st = st /\ conn'[k].op = conn[k].op
        /\ conn'[k].who = conn[k].who /\ conn'[k].open = conn[k].open
    BY <2>2 DEF PInv, Shape, Others, Fields
  <2>6. Claims(conn'[k]) /\ Staged(conn'[k]) /\ ~Handed(conn'[k])
    BY <1>1, <2>3, <2>4, <2>5 DEF Claims, Staged, Handed
  <2>7. conn[k].who \in Clients
    BY <1>1 DEF PInv, Waits
  <2>8. /\ DOMAIN slot' = Ports /\ slot'[p] = conn[k].who
        /\ \A q \in Ports \ {p} : slot'[q] = slot[q]
    BY <2>1, <2>2 DEF PInv, Shape
  <2>9. /\ \A l \in Conns \ {k} : Claims(conn[l]) => conn[l].port # p
        /\ \A c \in Clients : client[c].port # p
    <3>1. \A l \in Conns : Claims(conn[l]) => conn[l].who \in Clients
      BY DEF PInv, Waits, Claims
    <3>. QED
      BY <2>1, <3>1, TapfdConstants, PortsAre DEF PInv, Owned
  <2>10. Shape'
    BY <2>2, <2>5, <2>8 DEF PInv, Shape, Others
  <2>11. Waits'
    BY <1>1, <2>2, <2>3, <2>5 DEF PInv, Waits, Others
  <2>12. Stages'
    BY <2>5, <2>6 DEF PInv, Stages, Others
  <2>13. Owned'
    <3>1. ASSUME NEW l \in Conns, Claims(conn'[l])
          PROVE  conn'[l].port \in Ports /\ slot'[conn'[l].port] = conn'[l].who
      <4>1. CASE l = k
        BY <2>1, <2>5, <2>8, <4>1
      <4>2. CASE l # k
        BY <2>5, <2>8, <2>9, <3>1, <4>2 DEF PInv, Owned, Others
      <4>. QED
        BY <4>1, <4>2
    <3>2. ASSUME NEW c \in Clients, client[c].port # 0
          PROVE  client[c].port \in Ports /\ slot'[client[c].port] = c
      BY <2>8, <2>9, <3>2 DEF PInv, Owned
    <3>. QED
      BY <2>2, <3>1, <3>2, Zenon DEF Owned
  <2>14. Distinct'
    BY <2>2, <2>5, <2>9, SMTT(30) DEF PInv, Distinct, Others
  <2>15. Asked'
    BY <1>1, <2>2, <2>5, <2>6 DEF PInv, Asked, Waits, Others
  <2>16. Covered'
    <3>1. ASSUME NEW q \in Ports \ {p}, Attached(q)'
          PROVE  \/ q \in excused \/ \E c \in Clients : client[c].port = q
                 \/ \E l \in Conns \ {k} : Claims(conn[l]) /\ conn[l].port = q
      BY <1>1, <2>8, <3>1 DEF PInv, Covered, Attached
    <3>. QED
      BY <2>2, <2>5, <2>6, <3>1 DEF Covered, Others
  <2>. QED
    BY <2>10, <2>11, <2>12, <2>13, <2>14, <2>15, <2>16 DEF PInv
<1>. QED
  BY <1>2, <1>3, Zenon DEF Prepare, PortsSame, Attaches, Stage

\* The connection is answered, or it is gone and nobody waits on it.
Closed(k) ==
    /\ Fields \subseteq DOMAIN conn'[k] /\ conn'[k].open \in BOOLEAN
    /\ ~Claims(conn'[k]) /\ Staged(conn'[k]) /\ ~Handed(conn'[k])
    /\ \/ SameRequest(k) /\ conn'[k].st # "none"
       \/ conn'[k].st = "none" /\ \A c \in Clients : client[c].at # k

\* An answer that hands over no port closes the connection without a claim.
LEMMA FinishCloses ==
    ASSUME PInv, NEW k \in Conns, NEW res, NEW meta, Finish(k, res, meta), conn[k].st # "none",
           res = "ok" => conn[k].op \notin {"PREPARE", "OPEN", "ATTACH_OPEN"}
    PROVE  Others(k) /\ Closed(k)
<1>1. CASE conn[k].open
  <2>1. conn' = [conn EXCEPT ![k] = [conn[k] EXCEPT !.st = "answered", !.res = res, !.meta = meta]]
    BY <1>1 DEF Finish, PInv, Shape
  <2>2. Others(k) /\ SameRequest(k) /\ conn'[k].st = "answered" /\ conn'[k].res = res
    BY <2>1 DEF PInv, Shape, Others, SameRequest, Fields
  <2>3. ~Claims(conn'[k]) /\ Staged(conn'[k]) /\ ~Handed(conn'[k])
    BY <2>2 DEF Claims, Staged, Handed, SameRequest
  <2>. QED
    BY <2>2, <2>3 DEF Closed, Others
<1>2. CASE ~conn[k].open
  <2>1. conn' = [conn EXCEPT ![k] = NoConn]
    BY <1>2 DEF Finish, PInv, Shape
  <2>2. \A c \in Clients : client[c].at # k
    BY <1>2, TapfdConstants DEF PInv, Waits
  <2>. QED
    BY <2>1, <2>2, NoConnIs, Zenon DEF PInv, Shape, Others, Closed
<1>. QED
  BY <1>1, <1>2

\* Undo and Release detach the port of their own claim, which ends with it.
LEMMA DetachInv ==
    ASSUME PInv, NEW k \in Conns, Claims(conn[k]), Detach(conn[k].port), client' = client,
           Others(k), Closed(k)
    PROVE  PInv'
<1>. DEFINE p == conn[k].port
<1>1. p \in Ports /\ slot[p] = conn[k].who /\ conn[k].st # "none"
  BY DEF PInv, Owned, Claims
<1>2. /\ DOMAIN slot' = Ports /\ slot'[p] = "free" /\ excused' = excused \ {p}
      /\ \A q \in Ports \ {p} : slot'[q] = slot[q]
  BY <1>1 DEF PInv, Shape, Detach
<1>3. /\ \A l \in Conns \ {k} : Claims(conn[l]) => conn[l].port # p
      /\ \A c \in Clients : client[c].port # p
  BY DEF PInv, Distinct
<1>. HIDE DEF p
<1>4. Shape'
  BY <1>2, SMTT(30) DEF PInv, Shape, Others
<1>5. Waits'
  BY <1>1 DEF PInv, Waits, Others, Closed, SameRequest
<1>6. Stages'
  BY DEF PInv, Stages, Others, Closed
<1>7. Owned'
  BY <1>2, <1>3 DEF PInv, Owned, Others, Closed
<1>8. Distinct'
  BY SMTT(30) DEF PInv, Distinct, Others, Closed
<1>9. Asked'
  BY DEF PInv, Asked, Waits, Others, Closed, SameRequest
<1>10. Covered'
  <2>1. ASSUME NEW q \in Ports, Attached(q)'
        PROVE  q # p /\ Attached(q)
    BY <1>2, <2>1, SMTT(30) DEF Attached
  <2>2. ASSUME NEW q \in Ports, Attached(q)'
        PROVE  \/ q \in excused' \/ \E c \in Clients : client[c].port = q
               \/ \E l \in Conns \ {k} : Claims(conn[l]) /\ conn[l].port = q
    BY <1>2, <2>1, <2>2 DEF PInv, Covered, p
  <2>. QED
    BY <2>2 DEF Covered, Others
<1>. QED
  BY <1>4, <1>5, <1>6, <1>7, <1>8, <1>9, <1>10 DEF PInv

\* The rollback detaches the port that the connection claimed.
LEMMA UndoInv ==
    ASSUME PInv, NEW k \in Conns, Undo(k)
    PROVE  PInv'
<1>1. conn[k].st = "undo" /\ client' = client /\ Finish(k, "err", NoOne)
  BY DEF Undo
<1>2. Claims(conn[k])
  BY <1>1 DEF PInv, Stages, Staged, Claims
<1>3. Attached(conn[k].port)
  <2>1. slot[conn[k].port] = conn[k].who /\ conn[k].who \in Clients
    BY <1>1, <1>2 DEF PInv, Owned, Waits
  <2>. QED
    BY <2>1, TapfdConstants DEF Attached
<1>4. Others(k) /\ Closed(k)
  BY <1>1, FinishCloses
<1>. QED
  BY <1>1, <1>2, <1>3, <1>4, DetachInv DEF Undo

\* RELEASE detaches the port its client gave up.
LEMMA ReleaseInv ==
    ASSUME PInv, NEW k \in Conns, Release(k)
    PROVE  PInv'
<1>1. conn[k].st = "read" /\ conn[k].op = "RELEASE" /\ client' = client
  BY DEF Release
<1>2. Claims(conn[k])
  BY <1>1 DEF Claims
<1>3. Attached(conn[k].port)
  <2>1. slot[conn[k].port] = conn[k].who /\ conn[k].who \in Clients
    BY <1>1, <1>2 DEF PInv, Owned, Waits
  <2>. QED
    BY <2>1, TapfdConstants DEF Attached
<1>4. Detach(conn[k].port) /\ Finish(k, "ok", NoOne)
  BY <1>3 DEF Release
<1>5. Others(k) /\ Closed(k)
  BY <1>1, <1>4, FinishCloses
<1>. QED
  BY <1>1, <1>2, <1>4, <1>5, DetachInv

\* The provisioning goroutine opens a Reserved port, which nobody claims.
LEMMA ProvisionPortInv ==
    ASSUME PInv, NEW s, NEW p \in Ports, ProvisionPort(s, p)
    PROVE  PInv'
<1>1. slot[p] = "reserved" /\ conn' = conn /\ client' = client /\ excused' = excused
  BY DEF ProvisionPort
<1>2. DOMAIN slot' = Ports /\ slot'[p] = "free" /\ \A q \in Ports \ {p} : slot'[q] = slot[q]
  BY DEF ProvisionPort, PInv, Shape
<1>3. \A l \in Conns : Claims(conn[l]) => conn[l].who \in Clients
  BY DEF PInv, Waits, Claims
<1>4. Owned'
  BY <1>1, <1>2, <1>3, TapfdConstants DEF PInv, Owned
<1>5. Covered'
  BY <1>1, <1>2, SMTT(30) DEF PInv, Covered, Attached
<1>6. Shape' /\ Waits' /\ Stages' /\ Distinct' /\ Asked'
  BY <1>1, <1>2 DEF PInv, Shape, Waits, Stages, Distinct, Asked
<1>. QED
  BY <1>4, <1>5, <1>6 DEF PInv

\* The connections of a process that ends: the ports they claimed are excused.
LEMMA DropInv ==
    ASSUME PInv, NEW S \in SUBSET Conns, \A k \in S : conn[k].st \notin {"none", "answered"},
           conn' = Dropped(S), excused' = excused \union Stranded(S),
           slot' = slot, client' = client
    PROVE  PInv'
<1>1. DOMAIN conn' = Conns /\ \A k \in Conns \ S : conn'[k] = conn[k]
  BY Zenon DEF Dropped
<1>2. ASSUME NEW k \in S
      PROVE  Closed(k)
  <2>1. CASE conn[k].open
    <3>1. conn'[k] = [conn[k] EXCEPT !.st = "answered", !.res = "reset"]
      BY <2>1, Zenon DEF Dropped
    <3>2. /\ SameRequest(k) /\ conn'[k].st = "answered" /\ conn'[k].res = "reset"
          /\ Fields \subseteq DOMAIN conn'[k]
      BY <3>1 DEF PInv, Shape, SameRequest, Fields
    <3>3. ~Claims(conn'[k]) /\ Staged(conn'[k]) /\ ~Handed(conn'[k])
      BY <3>2 DEF Claims, Staged, Handed
    <3>. QED
      BY <2>1, <3>2, <3>3 DEF Closed, SameRequest, PInv, Shape
  <2>2. CASE ~conn[k].open
    <3>1. conn'[k] = NoConn
      BY <2>2, Zenon DEF Dropped
    <3>2. \A c \in Clients : client[c].at # k
      BY <2>2, TapfdConstants DEF PInv, Waits
    <3>. QED
      BY <3>1, <3>2, NoConnIs, Zenon DEF Closed
  <2>. QED
    BY <2>1, <2>2
<1>3. ASSUME NEW k \in S, Claims(conn[k])
      PROVE  conn[k].port \in excused'
  <2>1. \/ conn[k].st \in {"reply", "undo"} \/ conn[k].op = "RELEASE"
        \/ conn[k].op = "ATTACH_OPEN" /\ conn[k].st \in {"open", "send"}
    BY <1>3 DEF PInv, Stages, Staged, Claims
  <2>. QED
    BY <2>1 DEF Stranded
<1>4. Shape'
  BY <1>1, <1>2, SMTT(30) DEF PInv, Shape, Closed
<1>5. Waits'
  BY <1>1, <1>2, SMTT(30) DEF PInv, Waits, Closed, SameRequest
<1>6. Stages'
  BY <1>1, <1>2 DEF PInv, Stages, Closed
<1>7. Owned'
  BY <1>1, <1>2 DEF PInv, Owned, Closed
<1>8. Distinct'
  BY <1>1, <1>2, SMTT(30) DEF PInv, Distinct, Closed
<1>9. Asked'
  <2>. SUFFICES ASSUME NEW c \in Clients, client[c].at # NoOne
                PROVE  LET k == client[c].at
                       IN  /\ conn'[k].op = "OPEN" =>
                                  client[c].port # 0 /\ client[c].port = conn'[k].port
                           /\ conn'[k].op \in {"PREPARE", "ATTACH_OPEN"} => client[c].port = 0
                           /\ Handed(conn'[k]) => conn'[k].meta = c
    BY Zenon DEF Asked, Handed
  <2>. DEFINE k == client[c].at
  <2>1. k \in Conns
    BY DEF PInv, Waits
  <2>2. CASE k \notin S
    <3>1. conn'[k] = conn[k]
      BY <1>1, <2>1, <2>2, Zenon
    <3>. QED
      BY <3>1, Zenon DEF PInv, Asked
  <2>3. CASE k \in S
    <3>1. SameRequest(k) /\ ~Handed(conn'[k])
      BY <1>2, <2>3 DEF Closed
    <3>. QED
      BY <3>1 DEF PInv, Asked, SameRequest
  <2>. QED
    BY <2>2, <2>3, Zenon
<1>10. Covered'
  BY <1>1, <1>3 DEF PInv, Covered, Attached
<1>. QED
  BY <1>4, <1>5, <1>6, <1>7, <1>8, <1>9, <1>10 DEF PInv

-----------------------------------------------------------------------------
(* Clients. *)

\* A new request: one that takes its port with it to give it back, or none.
LEMMA AskInv ==
    ASSUME PInv, NEW c \in Clients, NEW k \in Conns, client[c].at = NoOne,
           conn[k] = NoConn, Others(k), slot' = slot, excused' = excused,
           DOMAIN client' = Clients, \A d \in Clients \ {c} : client'[d] = client[d],
           {"at", "port", "fd"} \subseteq DOMAIN client'[c],
           client'[c].at = k, conn'[k].who = c, conn'[k].open = TRUE,
           conn'[k].port = client[c].port, conn'[k].st \in {"queued", "read"},
           \/ /\ conn'[k].op = "RELEASE" /\ conn'[k].st = "queued"
              /\ client[c].port # 0 /\ client'[c].port = 0
           \/ /\ conn'[k].op # "RELEASE" /\ client'[c].port = client[c].port
              /\ conn'[k].op = "OPEN" => client[c].port # 0
              /\ conn'[k].op \in {"PREPARE", "ATTACH_OPEN"} => client[c].port = 0
    PROVE  PInv'
<1>1. ~Claims(conn[k]) /\ conn[k].st = "none"
  BY NoConnIs
<1>2. Staged(conn'[k]) /\ ~Handed(conn'[k]) /\ (Claims(conn'[k]) <=> conn'[k].op = "RELEASE")
  BY DEF Staged, Handed, Claims
<1>3. \A d \in Clients : client[d].at # k
  BY <1>1, TapfdConstants DEF PInv, Waits
<1>4. Shape'
  BY SMTT(30) DEF PInv, Shape, Others
<1>5. Waits'
  BY <1>3, TapfdConstants, SMTT(30) DEF PInv, Waits, Others
<1>6. Stages'
  <2>1. ASSUME NEW l \in Conns \ {k} PROVE Staged(conn'[l])
    <3>1. conn'[l] = conn[l] /\ Staged(conn[l])
      BY Zenon DEF PInv, Stages, Others
    <3>. QED
      BY <3>1, Zenon
  <2>2. Staged(conn'[k])
    BY <1>2, Zenon
  <2>. QED
    BY <2>1, <2>2, Zenon DEF Stages
<1>7. Owned'
  <2>1. ASSUME NEW l \in Conns, Claims(conn'[l])
        PROVE  conn'[l].port \in Ports /\ slot[conn'[l].port] = conn'[l].who
    <3>1. CASE l = k
      BY <1>2, <2>1, <3>1, Zenon DEF PInv, Owned
    <3>2. CASE l # k
      <4>1. conn'[l] = conn[l]
        BY <3>2, Zenon DEF Others
      <4>. QED
        BY <2>1, <4>1, Zenon DEF PInv, Owned
    <3>. QED
      BY <3>1, <3>2, Zenon
  <2>2. ASSUME NEW d \in Clients, client'[d].port # 0
        PROVE  client'[d].port \in Ports /\ slot[client'[d].port] = d
    <3>1. client'[d].port = client[d].port
      BY <2>2, Zenon
    <3>. QED
      BY <2>2, <3>1, Zenon DEF PInv, Owned
  <2>. QED
    BY <2>1, <2>2, Zenon DEF Owned
<1>8. Distinct'
  <2>1. ASSUME NEW l \in Conns \ {k}, Claims(conn[l])
        PROVE  conn[l].port # client[c].port /\ conn[l].port # 0
    BY <2>1, PortsAre, SMTT(30) DEF PInv, Distinct, Owned
  <2>2. \A d \in Clients \ {c} : client[c].port # 0 => client[d].port # client[c].port
    BY SMTT(30) DEF PInv, Owned
  <2>. QED
    BY <1>1, <1>2, <2>1, <2>2, SMTT(30) DEF PInv, Distinct, Others
<1>9. Asked'
  BY <1>2, <1>3, SMTT(30) DEF PInv, Asked, Waits, Others
<1>10. Covered'
  <2>1. SUFFICES ASSUME NEW p \in Ports, Attached(p)
                 PROVE  \/ p \in excused
                        \/ \E d \in Clients : client'[d].port = p
                        \/ \E l \in Conns : Claims(conn'[l]) /\ conn'[l].port = p
    BY Zenon DEF Covered, Attached
  <2>2. \/ p \in excused
        \/ \E d \in Clients : client[d].port = p
        \/ \E l \in Conns : Claims(conn[l]) /\ conn[l].port = p
    BY <2>1, Zenon DEF PInv, Covered
  <2>3. ASSUME NEW d \in Clients, client[d].port = p
        PROVE  \/ client'[d].port = p
               \/ Claims(conn'[k]) /\ conn'[k].port = p
    <3>1. CASE d = c
      BY <1>2, <2>3, <3>1, Zenon
    <3>2. CASE d # c
      BY <2>3, <3>2, Zenon
    <3>. QED
      BY <3>1, <3>2, Zenon
  <2>4. ASSUME NEW l \in Conns, Claims(conn[l]), conn[l].port = p
        PROVE  Claims(conn'[l]) /\ conn'[l].port = p
    <3>1. l # k
      BY <1>1, <2>4, Zenon
    <3>2. conn'[l] = conn[l]
      BY <3>1, Zenon DEF Others
    <3>. QED
      BY <2>4, <3>2, Zenon
  <2>. QED
    BY <2>2, <2>3, <2>4, Zenon
<1>. QED
  BY <1>4, <1>5, <1>6, <1>7, <1>8, <1>9, <1>10, Zenon DEF PInv

\* A client connects and sends its request.
LEMMA ConnectInv ==
    ASSUME PInv, NEW c \in Clients, NEW k \in Conns, Connect(c, k)
    PROVE  PInv'
<1>1. PICK op \in Requests(c) :
        /\ conn' = [conn EXCEPT ![k] =
               [NoConn EXCEPT !.st = "queued", !.via = path, !.op = op, !.who = c,
                              !.port = client[c].port, !.open = TRUE]]
        /\ client' = [client EXCEPT ![c].at = k, ![c].port = IF op = "RELEASE" THEN 0 ELSE @]
  BY Zenon DEF Connect
<1>2. client[c].at = NoOne /\ conn[k] = NoConn /\ slot' = slot /\ excused' = excused
  BY DEF Connect
<1>3. /\ op \in {"OPEN", "RELEASE"} => client[c].port # 0
      /\ op \in {"PREPARE", "ATTACH_OPEN"} => client[c].port = 0
  BY DEF Requests
<1>4. /\ Others(k) /\ conn'[k].who = c /\ conn'[k].open = TRUE
      /\ conn'[k].port = client[c].port /\ conn'[k].st = "queued" /\ conn'[k].op = op
  BY <1>1 DEF PInv, Shape, Others, NoConn, Fields
<1>5. /\ DOMAIN client' = Clients /\ \A d \in Clients \ {c} : client'[d] = client[d]
      /\ {"at", "port", "fd"} \subseteq DOMAIN client'[c] /\ client'[c].at = k
      /\ client'[c].port = IF op = "RELEASE" THEN 0 ELSE client[c].port
  BY <1>1 DEF PInv, Shape
<1>. QED
  BY <1>2, <1>3, <1>4, <1>5, AskInv, Zenon

\* A client runs a helper process.
LEMMA RunHelperInv ==
    ASSUME PInv, NEW c \in Clients, NEW k \in Conns, RunHelper(c, k)
    PROVE  PInv'
<1>1. /\ client[c].at = NoOne /\ conn[k] = NoConn /\ slot' = slot /\ excused' = excused
      /\ conn' = [conn EXCEPT ![k] =
           [NoConn EXCEPT !.st = "read", !.who = c, !.open = TRUE, !.port = client[c].port,
                          !.op = IF client[c].port = 0 THEN "ATTACH_OPEN" ELSE "OPEN"]]
      /\ client' = [client EXCEPT ![c].at = k]
  BY DEF RunHelper
<1>2. /\ Others(k) /\ conn'[k].who = c /\ conn'[k].open = TRUE
      /\ conn'[k].port = client[c].port /\ conn'[k].st = "read"
      /\ conn'[k].op = IF client[c].port = 0 THEN "ATTACH_OPEN" ELSE "OPEN"
  BY <1>1 DEF PInv, Shape, Others, NoConn, Fields
<1>3. /\ DOMAIN client' = Clients /\ \A d \in Clients \ {c} : client'[d] = client[d]
      /\ {"at", "port", "fd"} \subseteq DOMAIN client'[c] /\ client'[c].at = k
      /\ client'[c].port = client[c].port
  BY <1>1 DEF PInv, Shape
<1>4. /\ conn'[k].op # "RELEASE" /\ (conn'[k].op = "OPEN" => client[c].port # 0)
      /\ conn'[k].op \in {"PREPARE", "ATTACH_OPEN"} => client[c].port = 0
      /\ conn'[k].st \in {"queued", "read"}
  BY <1>2
<1>. QED
  BY <1>1, <1>2, <1>3, <1>4, AskInv, Zenon

\* A client reads its answer: a claim of the connection becomes its own.
LEMMA ReceiveInv ==
    ASSUME PInv, NEW c \in Clients, Receive(c)
    PROVE  PInv'
<1>. DEFINE k == client[c].at
            told == conn[k].res = "ok" /\ conn[k].op \in {"PREPARE", "ATTACH_OPEN"}
<1>1. k # NoOne /\ conn[k].st = "answered" /\ slot' = slot /\ excused' = excused
  BY DEF Receive
<1>2. k \in Conns /\ conn[k].who = c
  BY <1>1, SMTT(30) DEF PInv, Waits
<1>3. conn' = [conn EXCEPT ![k] = NoConn]
  BY SMTT(30) DEF Receive
<1>4. /\ DOMAIN client' = Clients /\ \A d \in Clients \ {c} : client'[d] = client[d]
      /\ {"at", "port", "fd"} \subseteq DOMAIN client'[c] /\ client'[c].at = NoOne
      /\ client'[c].port = IF told THEN conn[k].port ELSE client[c].port
  BY DEF Receive, PInv, Shape
<1>5. Claims(conn[k]) <=> told
  BY <1>1 DEF Claims
<1>. HIDE DEF k, told
<1>6. /\ Others(k) /\ conn'[k].st = "none" /\ ~Claims(conn'[k]) /\ Staged(conn'[k])
  BY <1>2, <1>3, NoConnIs, Zenon DEF PInv, Shape, Others
<1>7. \A d \in Clients \ {c} : client[d].at # k
  BY <1>1, <1>2, SMTT(30) DEF PInv, Waits
<1>8. Shape'
  BY <1>1, <1>4, <1>6, SMTT(30) DEF PInv, Shape, Others
<1>9. Waits'
  BY <1>4, <1>6, <1>7, SMTT(30) DEF PInv, Waits, Others
<1>10. Stages'
  BY <1>6 DEF PInv, Stages, Others
<1>11. Owned'
  BY <1>1, <1>2, <1>4, <1>5, <1>6, SMTT(30) DEF PInv, Owned, Others
<1>12. Distinct'
  <2>1. ASSUME NEW l \in Conns, Claims(conn'[l])
        PROVE  l # k /\ conn'[l] = conn[l] /\ client'[c].port # conn[l].port
    <3>1. l # k /\ conn'[l] = conn[l]
      BY <1>6, <2>1, SMTT(30) DEF Others
    <3>. QED
      BY <1>2, <1>4, <1>5, <2>1, <3>1 DEF PInv, Distinct
  <2>. QED
    BY <1>4, <2>1 DEF PInv, Distinct
<1>13. Asked'
  BY <1>4, <1>6, <1>7, SMTT(30) DEF PInv, Asked, Waits, Others
<1>14. Covered'
  <2>1. told => client[c].port = 0
    BY <1>1 DEF PInv, Asked, k, told
  <2>2. ASSUME NEW p \in Ports, \E d \in Clients : client[d].port = p
        PROVE  \E d \in Clients : client'[d].port = p
    BY <1>4, <2>1, <2>2, PortsAre, SMTT(30)
  <2>3. ASSUME NEW p \in Ports, NEW l \in Conns, Claims(conn[l]), conn[l].port = p
        PROVE  \/ \E d \in Clients : client'[d].port = p
               \/ Claims(conn'[l]) /\ conn'[l].port = p
    BY <1>4, <1>5, <1>6, <2>3 DEF Others
  <2>. QED
    BY <1>1, <2>2, <2>3, SMTT(30) DEF PInv, Covered, Attached
<1>. QED
  BY <1>8, <1>9, <1>10, <1>11, <1>12, <1>13, <1>14, SMTT(30) DEF PInv

\* A client that gives up loses an answer it has not read; the port in it is excused.
LEMMA GiveUpInv ==
    ASSUME PInv, NEW c \in Clients, GiveUp(c)
    PROVE  PInv'
<1>. DEFINE k == client[c].at
            unread == conn[k].st = "answered"
<1>1. /\ k # NoOne /\ slot' = slot
      /\ conn' = [conn EXCEPT ![k] = IF unread THEN NoConn ELSE [@ EXCEPT !.open = FALSE]]
      /\ excused' = IF /\ unread /\ conn[k].res = "ok"
                       /\ conn[k].op \in {"PREPARE", "ATTACH_OPEN"}
                    THEN excused \union {conn[k].port} ELSE excused
  BY DEF GiveUp
<1>2. k \in Conns /\ conn[k].st # "none" /\ conn[k].who = c
  BY <1>1 DEF PInv, Waits
<1>3. /\ DOMAIN client' = Clients /\ \A d \in Clients \ {c} : client'[d] = client[d]
      /\ {"at", "port", "fd"} \subseteq DOMAIN client'[c] /\ client'[c].at = NoOne
      /\ client'[c].port = client[c].port
  BY DEF GiveUp, PInv, Shape
<1>4. unread /\ Claims(conn[k]) => conn[k].port \in excused'
  BY <1>1, SMTT(30) DEF Claims
<1>. HIDE DEF k
<1>5. /\ Others(k) /\ Staged(conn'[k])
      /\ \/ unread /\ conn'[k].st = "none" /\ ~Claims(conn'[k])
         \/ /\ ~unread /\ conn'[k].st # "none" /\ conn'[k].who = conn[k].who
            /\ conn'[k].port = conn[k].port /\ (Claims(conn'[k]) <=> Claims(conn[k]))
  <2>1. CASE unread
    <3>1. conn' = [conn EXCEPT ![k] = NoConn]
      BY <1>1, <2>1
    <3>. QED
      BY <1>2, <2>1, <3>1, NoConnIs, Zenon DEF PInv, Shape, Others
  <2>2. CASE ~unread
    <3>1. conn' = [conn EXCEPT ![k] = [conn[k] EXCEPT !.open = FALSE]]
      BY <1>1, <1>2, <2>2 DEF PInv, Shape
    <3>2. /\ Others(k) /\ conn'[k].st = conn[k].st /\ conn'[k].op = conn[k].op
          /\ conn'[k].res = conn[k].res /\ conn'[k].who = conn[k].who
          /\ conn'[k].port = conn[k].port
      BY <1>2, <3>1 DEF PInv, Shape, Others, Fields
    <3>3. (Claims(conn'[k]) <=> Claims(conn[k])) /\ Staged(conn'[k])
      BY <1>2, <3>2 DEF Claims, Staged, PInv, Stages
    <3>. QED
      BY <1>2, <2>2, <3>2, <3>3
  <2>. QED
    BY <2>1, <2>2
<1>. HIDE DEF unread
<1>6. \A d \in Clients \ {c} : client[d].at # k
  BY <1>1, <1>2 DEF PInv, Waits
<1>7. Shape'
  BY <1>1, <1>3, <1>5, ZenonT(60) DEF PInv, Shape, Others
<1>8. Waits'
  BY <1>2, <1>3, <1>5, <1>6 DEF PInv, Waits, Others
<1>9. Stages'
  BY <1>5 DEF PInv, Stages, Others
<1>10. Owned'
  BY <1>1, <1>2, <1>3, <1>5 DEF PInv, Owned, Others
<1>11. Distinct'
  BY <1>2, <1>3, <1>5, SMTT(30) DEF PInv, Distinct, Others
<1>12. Asked'
  <2>. SUFFICES ASSUME NEW d \in Clients, client'[d].at # NoOne
                PROVE  /\ conn'[client'[d].at].op = "OPEN" =>
                            client'[d].port # 0 /\ client'[d].port = conn'[client'[d].at].port
                       /\ conn'[client'[d].at].op \in {"PREPARE", "ATTACH_OPEN"} => client'[d].port = 0
                       /\ Handed(conn'[client'[d].at]) => conn'[client'[d].at].meta = d
    BY Zenon DEF Asked
  <2>1. d # c /\ client'[d] = client[d]
    BY <1>3, Zenon
  <2>2. client[d].at \in Conns \ {k}
    BY <1>6, <2>1, Zenon DEF PInv, Waits
  <2>3. conn'[client[d].at] = conn[client[d].at]
    BY <1>5, <2>2, Zenon DEF Others
  <2>. QED
    BY <2>1, <2>3, Zenon DEF PInv, Asked
<1>13. Covered'
  <2>1. excused \subseteq excused'
    BY <1>1
  <2>2. ASSUME NEW p \in Ports, NEW l \in Conns, Claims(conn[l]), conn[l].port = p
        PROVE  p \in excused' \/ (Claims(conn'[l]) /\ conn'[l].port = p)
    BY <1>4, <1>5, <2>2 DEF Others
  <2>3. \A d \in Clients : client'[d].port = client[d].port
    BY <1>3
  <2>4. \A p \in Ports : Attached(p)' => Attached(p)
    BY <1>1 DEF Attached
  <2>. QED
    BY <2>1, <2>2, <2>3, <2>4, ZenonT(60) DEF PInv, Covered
<1>. QED
  BY <1>7, <1>8, <1>9, <1>10, <1>11, <1>12, <1>13 DEF PInv

\* A client closes its queue and keeps the port.
LEMMA CloseQueueInv ==
    ASSUME PInv, NEW c \in Clients, CloseQueue(c)
    PROVE  PInv'
<1>1. /\ slot' = slot /\ conn' = conn /\ excused' = excused /\ DOMAIN client' = Clients
      /\ \A d \in Clients : /\ client'[d].at = client[d].at /\ client'[d].port = client[d].port
                            /\ {"at", "port", "fd"} \subseteq DOMAIN client'[d]
  BY SMTT(30) DEF CloseQueue, PInv, Shape
<1>2. Shape' /\ Waits' /\ Stages'
  BY <1>1, SMTT(30) DEF PInv, Shape, Waits, Stages
<1>3. Owned' /\ Distinct'
  BY <1>1, SMTT(30) DEF PInv, Owned, Distinct
<1>4. Asked' /\ Covered'
  BY <1>1 DEF PInv, Asked, Covered, Attached
<1>. QED
  BY <1>2, <1>3, <1>4 DEF PInv

-----------------------------------------------------------------------------
(* The serve processes and their handlers. *)

Serving == {"serving", "cancel", "done"}

SrvShape ==
    /\ DOMAIN srv = Servers /\ path \in Servers \union {NoOne}
    /\ \A s \in Servers : {"pc", "handle", "acc"} \subseteq DOMAIN srv[s]
    /\ \A s \in Servers : srv[s].acc \in BOOLEAN

\* The switch is open until the handlers and the accept goroutine have ended.
HandleInv ==
    \A s \in Servers :
        /\ srv[s].pc \notin {"down", "unmap"} => srv[s].handle = TRUE
        /\ srv[s].acc = TRUE => srv[s].pc \in Serving

\* A handler has a server that still waits for it, or it is a process of its own.
HandlerInv ==
    \A k \in Conns :
        /\ conn[k].st = "queued" => conn[k].via \in Servers
        /\ Busy(k) /\ conn[k].via \in Servers => srv[conn[k].via].pc \in Serving

SInv == SrvShape /\ HandleInv /\ HandlerInv

\* No connection is added, and none becomes a handler.
NoNewHandler ==
    \A k \in Conns :
        /\ conn'[k].st = "queued" => conn[k].st = "queued" /\ conn'[k].via = conn[k].via
        /\ Busy(k)' => Busy(k) /\ conn'[k].via = conn[k].via

\* A step of connections that adds no handler leaves the serves their invariant.
LEMMA ConnStepInv ==
    ASSUME SInv, srv' = srv, path' = path, NoNewHandler
    PROVE  SInv'
<1>1. SrvShape' /\ HandleInv'
  BY DEF SInv, SrvShape, HandleInv
<1>2. HandlerInv'
  BY DEF SInv, HandlerInv, NoNewHandler
<1>. QED
  BY <1>1, <1>2 DEF SInv

\* A handler at work stays with its server, or ends.
LEMMA HandlerStays ==
    ASSUME PInv, NEW k \in Conns, HandlerStep(k), ~Accept(k)
    PROVE  NoNewHandler /\ srv' = srv /\ path' = path
<1>1. srv' = srv /\ path' = path
  BY SMTT(30) DEF HandlerStep, Accept, Answer, Prepare, PrepareReply, Undo, ValidateOpenPort, OpenTap,
         SendFd, SetPortUp, Release
<1>2. Busy(k)
  BY DEF HandlerStep, Answer, Prepare, PrepareReply, Undo, ValidateOpenPort, OpenTap,
         SendFd, SetPortUp, Release, Busy
<1>. DEFINE Stays == /\ \A l \in Conns \ {k} : conn'[l] = conn[l]
                     /\ conn'[k].st # "queued"
                     /\ conn'[k].st = "none" \/ conn'[k].via = conn[k].via
<1>3. ASSUME NEW res, NEW meta, Finish(k, res, meta)
      PROVE  Stays
  <2>1. CASE conn[k].open
    <3>1. conn' = [conn EXCEPT ![k] = [conn[k] EXCEPT !.st = "answered", !.res = res, !.meta = meta]]
      BY <1>3, <2>1 DEF Finish, PInv, Shape
    <3>. QED
      BY <3>1 DEF PInv, Shape, Fields
  <2>2. CASE ~conn[k].open
    <3>1. conn' = [conn EXCEPT ![k] = NoConn]
      BY <1>3, <2>2 DEF Finish, PInv, Shape
    <3>. QED
      BY <3>1, NoConnIs DEF PInv, Shape
  <2>. QED
    BY <2>1, <2>2
<1>4. ASSUME NEW st, st # "queued", Goto(k, st)
      PROVE  Stays
  BY <1>4 DEF Goto, PInv, Shape, Fields
<1>5. Fail(k) => Stays
  <2>. HIDE DEF Stays
  <2>. QED
    BY <1>3, <1>4, SMTT(30) DEF Fail
<1>6. Stays
  <2>1. CASE Answer(k) \/ SetPortUp(k)
    <3>1. PICK res : Finish(k, res, NoOne)
      BY <2>1, ZenonT(60) DEF Answer, SetPortUp
    <3>. HIDE DEF Stays
    <3>. QED
      BY <1>3, <3>1
  <2>2. CASE PrepareReply(k) \/ ValidateOpenPort(k) \/ Undo(k) \/ Release(k)
    <3>. HIDE DEF Stays
    <3>. QED
      BY <1>3, <1>4, <2>2 DEF PrepareReply, ValidateOpenPort, Undo, Release
  <2>3. CASE Prepare(k)
    <3>1. CASE Finish(k, "err", NoOne)
      <4>. HIDE DEF Stays
      <4>. QED
        BY <1>3, <3>1
    <3>2. ASSUME NEW p \in FreePorts, Attaches(k, p)
          PROVE  Stays
      <4>1. Stage(k, p) # "queued"
        BY DEF Stage
      <4>. QED
        BY <3>2, <4>1 DEF Attaches, PInv, Shape, Fields
    <3>. HIDE DEF Stays
    <3>. QED
      BY <2>3, <3>1, <3>2, Zenon DEF Prepare, Attaches, Stage
  <2>4. CASE OpenTap(k)
    <3>1. CASE Fail(k)
      BY <1>5, <3>1
    <3>2. CASE conn' = [conn EXCEPT ![k].st = "send", ![k].meta = slot[conn[k].port]]
      BY <3>2 DEF PInv, Shape, Fields
    <3>. QED
      BY <2>4, <3>1, <3>2 DEF OpenTap
  <2>5. CASE SendFd(k)
    <3>1. CASE Fail(k)
      BY <1>5, <3>1
    <3>2. CASE \E n \in BOOLEAN :
                conn' = [conn EXCEPT ![k].st = "answered", ![k].res = "ok", ![k].netns = n]
      BY <3>2 DEF PInv, Shape, Fields
    <3>. QED
      BY <2>5, <3>1, <3>2 DEF SendFd
  <2>. QED
    BY <2>1, <2>2, <2>3, <2>4, <2>5 DEF HandlerStep
<1>. QED
  BY <1>1, <1>2, <1>6, SMTT(30) DEF NoNewHandler, Busy

\* A handler begins only while its serve accepts.
LEMMA AcceptSInv ==
    ASSUME PInv, SInv, NEW k \in Conns, Accept(k)
    PROVE  SInv'
<1>1. conn[k].st = "queued" /\ srv[conn[k].via].acc /\ srv' = srv /\ path' = path
  BY DEF Accept
<1>2. /\ \A l \in Conns \ {k} : conn'[l] = conn[l]
      /\ conn'[k].st = "read" /\ conn'[k].via = conn[k].via
  BY DEF Accept, Goto, PInv, Shape, Fields
<1>3. conn[k].via \in Servers /\ srv[conn[k].via].pc \in Serving
  BY <1>1 DEF SInv, SrvShape, HandleInv, HandlerInv
<1>4. SrvShape' /\ HandleInv'
  BY <1>1 DEF SInv, SrvShape, HandleInv
<1>5. HandlerInv'
  BY <1>1, <1>2, <1>3 DEF SInv, HandlerInv, Busy
<1>. QED
  BY <1>4, <1>5 DEF SInv

\* Clients add no handler.
LEMMA ClientSInv ==
    ASSUME PInv, SInv, NEW c \in Clients, ClientStep(c)
    PROVE  SInv'
<1>1. ASSUME NEW k \in Conns, Connect(c, k)
      PROVE  SInv'
  <2>1. path # NoOne /\ srv' = srv /\ path' = path
    BY <1>1 DEF Connect
  <2>2. PICK op : conn' = [conn EXCEPT ![k] =
              [NoConn EXCEPT !.st = "queued", !.via = path, !.op = op, !.who = c,
                             !.port = client[c].port, !.open = TRUE]]
    BY <1>1, Zenon DEF Connect
  <2>3. /\ \A l \in Conns \ {k} : conn'[l] = conn[l]
        /\ conn'[k].st = "queued" /\ conn'[k].via = path
    BY <2>2, SMTT(30) DEF PInv, Shape, NoConn
  <2>4. SrvShape' /\ HandleInv'
    BY <2>1 DEF SInv, SrvShape, HandleInv
  <2>5. HandlerInv'
    BY <2>1, <2>3 DEF SInv, SrvShape, HandlerInv, Busy
  <2>. QED
    BY <2>4, <2>5 DEF SInv
<1>2. ASSUME NEW k \in Conns, RunHelper(c, k)
      PROVE  SInv'
  <2>1. /\ srv' = srv /\ path' = path
        /\ conn' = [conn EXCEPT ![k] =
            [NoConn EXCEPT !.st = "read", !.who = c, !.open = TRUE, !.port = client[c].port,
                           !.op = IF client[c].port = 0 THEN "ATTACH_OPEN" ELSE "OPEN"]]
    BY <1>2 DEF RunHelper
  <2>2. /\ \A l \in Conns \ {k} : conn'[l] = conn[l]
        /\ conn'[k].st = "read" /\ conn'[k].via = NoOne
    BY <2>1 DEF PInv, Shape, NoConn
  <2>3. SrvShape' /\ HandleInv'
    BY <2>1 DEF SInv, SrvShape, HandleInv
  <2>4. HandlerInv'
    BY <2>1, <2>2, TapfdConstants DEF SInv, HandlerInv, Busy
  <2>. QED
    BY <2>3, <2>4 DEF SInv
<1>3. CASE Receive(c)
  <2>1. /\ srv' = srv /\ path' = path /\ conn' = [conn EXCEPT ![client[c].at] = NoConn]
    BY <1>3 DEF Receive
  <2>2. NoNewHandler
    BY <2>1, NoConnIs DEF NoNewHandler, Busy, PInv, Shape
  <2>. QED
    BY <2>1, <2>2, ConnStepInv, SMTT(30)
<1>4. CASE GiveUp(c)
  <2>. DEFINE k == client[c].at
  <2>1. /\ srv' = srv /\ path' = path /\ k \in Conns
        /\ \/ conn' = [conn EXCEPT ![k] = NoConn]
           \/ conn' = [conn EXCEPT ![k] = [conn[k] EXCEPT !.open = FALSE]]
    BY <1>4, Zenon DEF GiveUp, PInv, Waits, Shape
  <2>. HIDE DEF k
  <2>2. NoNewHandler
    <3>1. CASE conn' = [conn EXCEPT ![k] = NoConn]
      BY <2>1, <3>1, NoConnIs DEF NoNewHandler, Busy, PInv, Shape
    <3>2. CASE conn' = [conn EXCEPT ![k] = [conn[k] EXCEPT !.open = FALSE]]
      <4>1. \A l \in Conns : conn'[l].st = conn[l].st /\ conn'[l].via = conn[l].via
        BY <2>1, <3>2 DEF PInv, Shape, Fields
      <4>. QED
        BY <4>1 DEF NoNewHandler, Busy
    <3>. QED
      BY <2>1, <3>1, <3>2
  <2>. QED
    BY <2>1, <2>2, ConnStepInv
<1>5. CASE CloseQueue(c)
  BY <1>5, ConnStepInv DEF CloseQueue, NoNewHandler, Busy
<1>. QED
  BY <1>1, <1>2, <1>3, <1>4, <1>5 DEF ClientStep

\* Dropped connections have no handler any more.
LEMMA DropNoNewHandler ==
    ASSUME PInv, NEW S \in SUBSET Conns, conn' = Dropped(S)
    PROVE  NoNewHandler /\ \A k \in S : ~Busy(k)' /\ conn'[k].st # "queued"
<1>1. ASSUME NEW k \in S
      PROVE  ~Busy(k)' /\ conn'[k].st # "queued"
  <2>1. CASE conn[k].open
    <3>1. conn'[k] = [conn[k] EXCEPT !.st = "answered", !.res = "reset"]
      BY <2>1, Zenon DEF Dropped
    <3>2. conn'[k].st = "answered"
      BY <3>1 DEF PInv, Shape, Fields
    <3>. QED
      BY <3>2 DEF Busy
  <2>2. CASE ~conn[k].open
    <3>1. conn'[k] = NoConn
      BY <2>2, Zenon DEF Dropped
    <3>. QED
      BY <3>1, NoConnIs DEF Busy
  <2>. QED
    BY <2>1, <2>2
<1>2. \A k \in Conns \ S : conn'[k] = conn[k]
  BY Zenon DEF Dropped
<1>3. \A k \in Conns \ S : Busy(k)' <=> Busy(k)
  BY <1>2 DEF Busy
<1>. QED
  BY <1>1, <1>2, <1>3 DEF NoNewHandler

SrvFrame(s) ==
    /\ DOMAIN srv' = Servers /\ \A t \in Servers \ {s} : srv'[t] = srv[t]
    /\ path' \in {path, s, NoOne}
    /\ {"pc", "handle", "acc"} \subseteq DOMAIN srv'[s]

\* A step of one server that keeps it among those that wait for their handlers, or
\* that is taken when it has none.
LEMMA SrvStepInv ==
    ASSUME PInv, SInv, NEW s \in Servers, NoNewHandler,
           SrvFrame(s), srv'[s].acc \in BOOLEAN,
           srv'[s].pc \notin {"down", "unmap"} => srv'[s].handle = TRUE,
           srv'[s].acc = TRUE => srv'[s].pc \in Serving,
           srv'[s].pc \in Serving \/ \A k \in Conns : ~(Busy(k)' /\ conn'[k].via = s)
    PROVE  SInv'
<1>1. SrvShape'
  BY DEF SInv, SrvShape, SrvFrame
<1>2. HandleInv'
  BY SMTT(30) DEF SInv, HandleInv, SrvFrame
<1>3. HandlerInv'
  BY DEF SInv, HandlerInv, NoNewHandler, SrvFrame
<1>. QED
  BY <1>1, <1>2, <1>3 DEF SInv

\* A serve that is down neither accepts nor has a handle.
LEMMA DownIs ==
    /\ {"pc", "handle", "acc"} \subseteq DOMAIN Down
    /\ Down.pc = "down" /\ Down.acc = FALSE
  BY DEF Down

\* A step of serve that leaves the connections alone and keeps its handle.
LEMMA QuietSrvInv ==
    ASSUME PInv, SInv, NEW s \in Servers, conn' = conn,
           SrvFrame(s), srv'[s].acc \in BOOLEAN,
           srv'[s].pc \notin {"down", "unmap"} => srv'[s].handle = TRUE,
           srv'[s].acc = TRUE => srv'[s].pc \in Serving,
           srv'[s].pc \in Serving \/ srv[s].pc \notin Serving \/ HandlersOf(s) = {}
    PROVE  SInv'
<1>1. NoNewHandler
  BY DEF NoNewHandler, Busy
<1>2. srv'[s].pc \in Serving \/ \A k \in Conns : ~(Busy(k)' /\ conn'[k].via = s)
  BY DEF SInv, HandlerInv, HandlersOf, Busy
<1>. QED
  BY <1>1, <1>2, SrvStepInv, Zenon

\* A serve dies: its handlers die with it, and what they claimed is excused.
LEMMA DieInv ==
    ASSUME PInv, SInv, NEW s \in Servers, Die(s)
    PROVE  PInv' /\ SInv'
<1>. DEFINE S == {k \in Conns : conn[k].via = s /\ conn[k].st \notin {"none", "answered"}}
<1>1. /\ srv' = [srv EXCEPT ![s] = Down] /\ conn' = Dropped(S)
      /\ excused' = excused \union Stranded(S) /\ slot' = slot /\ client' = client /\ path' = path
  BY DEF Die
<1>2. PInv'
  BY <1>1, DropInv, SMTT(30)
<1>3. NoNewHandler /\ \A k \in S : ~Busy(k)'
  BY <1>1, DropNoNewHandler, SMTT(30)
<1>4. \A k \in Conns : ~(Busy(k)' /\ conn'[k].via = s)
  BY <1>3 DEF NoNewHandler, Busy
<1>5. SrvFrame(s) /\ srv'[s] = Down
  BY <1>1, DownIs DEF SInv, SrvShape, SrvFrame
<1>6. SInv'
  BY <1>1, <1>3, <1>4, <1>5, DownIs, SrvStepInv, Zenon
<1>. QED
  BY <1>2, <1>6, SMTT(30)

\* The connections that were never accepted are reset with the listener.
LEMMA CloseListenerInv ==
    ASSUME PInv, SInv, NEW s \in Servers, CloseListener(s)
    PROVE  PInv' /\ SInv'
<1>. DEFINE S == {k \in Conns : conn[k].via = s /\ conn[k].st = "queued"}
<1>1. /\ srv[s].pc = "cancel" /\ srv' = [srv EXCEPT ![s].pc = "done"] /\ conn' = Dropped(S)
      /\ excused' = excused \union Stranded(S) /\ slot' = slot /\ client' = client
      /\ path' = NoOne
  BY DEF CloseListener, Proc
<1>2. PInv'
  BY <1>1, DropInv
<1>3. NoNewHandler
  BY <1>1, DropNoNewHandler
<1>4. /\ SrvFrame(s)
      /\ srv'[s].pc = "done" /\ srv'[s].handle = srv[s].handle /\ srv'[s].acc = srv[s].acc
  BY <1>1 DEF SInv, SrvShape, SrvFrame
<1>5. srv[s].handle = TRUE /\ srv[s].acc \in BOOLEAN
  BY <1>1 DEF SInv, HandleInv, SrvShape
<1>6. SInv'
  BY <1>1, <1>3, <1>4, <1>5, SrvStepInv, Zenon DEF Serving
<1>. QED
  BY <1>2, <1>6

\* A helper process is killed.
LEMMA KillHelperInv ==
    ASSUME PInv, SInv, NEW k \in Conns, KillHelper(k)
    PROVE  PInv' /\ SInv'
<1>1. /\ conn' = Dropped({k}) /\ excused' = excused \union Stranded({k})
      /\ slot' = slot /\ client' = client /\ srv' = srv /\ path' = path
      /\ conn[k].st \notin {"none", "answered"}
  BY DEF KillHelper, Busy
<1>2. PInv'
  BY <1>1, DropInv, SMTT(30)
<1>3. NoNewHandler
  BY <1>1, DropNoNewHandler
<1>. QED
  BY <1>1, <1>2, <1>3, ConnStepInv

\* The other steps of serve leave ports, clients and connections alone.
LEMMA QuietPInv ==
    ASSUME PInv, slot' = slot, conn' = conn, client' = client, excused' = excused
    PROVE  PInv'
<1>1. Shape' /\ Waits' /\ Stages'
  BY DEF PInv, Shape, Waits, Stages
<1>2. Owned' /\ Distinct'
  BY SMTT(30) DEF PInv, Owned, Distinct
<1>3. Asked' /\ Covered'
  BY DEF PInv, Asked, Covered, Attached
<1>. QED
  BY <1>1, <1>2, <1>3, SMTT(30) DEF PInv

\* The label and the flags of one process are set, or it ends.
LEMMA ServeInv ==
    ASSUME PInv, SInv, NEW s \in Servers,
           \/ PrepareListenPath(s) \/ Listen(s) \/ Provisioned(s) \/ AcceptClosed(s)
           \/ CloseWait(s) \/ CloseUnlink(s) \/ Exit(s) \/ Start(s) \/ Signal(s) \/ Break(s)
           \/ StatusTick(s) /\ ~Die(s)
    PROVE  PInv' /\ SInv'
<1>1. /\ slot' = slot /\ conn' = conn /\ client' = client /\ excused' = excused
  BY DEF PrepareListenPath, Listen, Provisioned, AcceptClosed, CloseWait, CloseUnlink, Exit,
         Start, Signal, Break, StatusTick
<1>2. PInv'
  BY <1>1, QuietPInv
<1>. SUFFICES SInv'
  BY <1>2, SMTT(30)
<1>3. /\ DOMAIN srv = Servers /\ {"pc", "handle", "acc"} \subseteq DOMAIN srv[s]
      /\ srv[s].acc \in BOOLEAN
      /\ srv[s].pc \notin {"down", "unmap"} => srv[s].handle = TRUE
      /\ srv[s].acc = TRUE => srv[s].pc \in Serving
  BY DEF SInv, SrvShape, HandleInv
<1>. DEFINE Keeps == srv'[s].handle = srv[s].handle /\ srv'[s].acc = srv[s].acc
<1>4. ASSUME srv' = [srv EXCEPT ![s] = Down], path' = path, srv[s].pc \notin Serving
      PROVE  SInv'
  <2>1. SrvFrame(s) /\ srv'[s] = Down
    BY <1>3, <1>4, DownIs DEF SrvFrame
  <2>. QED
    BY <1>1, <1>4, <2>1, DownIs, QuietSrvInv, Zenon
<1>5. CASE PrepareListenPath(s)
  <2>1. srv[s].pc = "probe" /\ srv[s].acc = FALSE
    BY <1>3, <1>5 DEF PrepareListenPath, Serving
  <2>2. CASE srv' = [srv EXCEPT ![s] = Down] /\ path' = path
    BY <1>4, <2>1, <2>2 DEF Serving
  <2>3. CASE Proc(s, "listen") /\ path' = NoOne
    <3>1. SrvFrame(s) /\ Keeps /\ srv'[s].pc = "listen"
      BY <1>3, <2>3 DEF Proc, SrvFrame
    <3>. QED
      BY <1>1, <1>3, <2>1, <3>1, QuietSrvInv, Zenon DEF Serving
  <2>. QED
    BY <1>5, <2>2, <2>3 DEF PrepareListenPath
<1>6. CASE Listen(s)
  <2>1. srv[s].pc = "listen"
    BY <1>6 DEF Listen
  <2>2. CASE srv' = [srv EXCEPT ![s] = Down] /\ path' = path
    BY <1>4, <2>1, <2>2 DEF Serving
  <2>3. CASE path' = s /\ srv' = [srv EXCEPT ![s].pc = "serving", ![s].acc = TRUE, ![s].prov = "run"]
    <3>1. /\ SrvFrame(s) /\ srv'[s].pc = "serving" /\ srv'[s].acc = TRUE
          /\ srv'[s].handle = srv[s].handle
      BY <1>3, <2>3 DEF SrvFrame
    <3>. QED
      BY <1>1, <1>3, <2>1, <3>1, QuietSrvInv, Zenon DEF Serving
  <2>. QED
    BY <1>6, <2>2, <2>3 DEF Listen
<1>7. CASE Provisioned(s) \/ Break(s) \/ (StatusTick(s) /\ ~Die(s))
  <2>1. SrvFrame(s) /\ Keeps /\ srv'[s].pc = srv[s].pc
    BY <1>3, <1>7 DEF Provisioned, Break, StatusTick, SrvFrame
  <2>. QED
    BY <1>1, <1>3, <2>1, QuietSrvInv, Zenon
<1>8. CASE AcceptClosed(s)
  <2>1. /\ SrvFrame(s) /\ srv'[s].pc = srv[s].pc /\ srv'[s].acc = FALSE
        /\ srv'[s].handle = srv[s].handle
    BY <1>3, <1>8 DEF AcceptClosed, SrvFrame
  <2>. QED
    BY <1>1, <1>3, <2>1, QuietSrvInv, Zenon
<1>9. CASE CloseWait(s)
  <2>1. SrvFrame(s) /\ Keeps /\ srv'[s].pc = "unlink"
    BY <1>3, <1>9, SMTT(30) DEF CloseWait, Proc, SrvFrame
  <2>2. srv[s].pc = "done" /\ srv[s].acc = FALSE /\ HandlersOf(s) = {}
    BY <1>3, <1>9 DEF CloseWait
  <2>. QED
    BY <1>1, <1>3, <2>1, <2>2, QuietSrvInv, Zenon
<1>10. CASE CloseUnlink(s)
  <2>1. SrvFrame(s) /\ srv'[s].pc = "unmap" /\ srv'[s].acc = srv[s].acc
    BY <1>3, <1>10 DEF CloseUnlink, SrvFrame
  <2>2. srv[s].pc = "unlink" /\ srv[s].acc = FALSE
    BY <1>3, <1>10 DEF CloseUnlink, Serving
  <2>. QED
    BY <1>1, <2>1, <2>2, QuietSrvInv, Zenon DEF Serving
<1>11. CASE Exit(s)
  BY <1>4, <1>11 DEF Exit, Serving
<1>12. CASE Start(s)
  <2>1. srv' = [srv EXCEPT ![s] = [Down EXCEPT !.pc = "probe", !.handle = TRUE]] /\ path' = path
        /\ srv[s].pc = "down"
    BY <1>12 DEF Start
  <2>2. /\ SrvFrame(s) /\ srv'[s].pc = "probe" /\ srv'[s].handle = TRUE /\ srv'[s].acc = FALSE
    BY <1>3, <2>1 DEF Down, SrvFrame
  <2>. QED
    BY <1>1, <2>1, <2>2, QuietSrvInv, Zenon DEF Serving
<1>13. CASE Signal(s)
  <2>1. SrvFrame(s) /\ Keeps /\ srv'[s].pc = "cancel" /\ srv[s].pc = "serving"
    BY <1>3, <1>13 DEF Signal, Proc, SrvFrame
  <2>. QED
    BY <1>1, <1>3, <2>1, QuietSrvInv, Zenon DEF Serving
<1>. QED
  BY <1>5, <1>6, <1>7, <1>8, <1>9, <1>10, <1>11, <1>12, <1>13, SMTT(30)

-----------------------------------------------------------------------------
(* The theorems. *)

\* At first all ports are Reserved and nothing is connected.
LEMMA InitInv == Init => PInv /\ SInv
<1>. SUFFICES ASSUME Init PROVE PInv /\ SInv
  OBVIOUS
<1>1. /\ DOMAIN slot = Ports /\ (\A p \in Ports : slot[p] = "reserved")
      /\ DOMAIN conn = Conns /\ (\A k \in Conns : conn[k] = NoConn)
      /\ DOMAIN client = Clients
      /\ \A c \in Clients : client[c] = [at |-> NoOne, port |-> 0, fd |-> 0]
      /\ DOMAIN srv = Servers /\ (\A s \in Servers : srv[s] = Down) /\ path = NoOne
  BY DEF Init
<1>2. \A c \in Clients : /\ {"at", "port", "fd"} \subseteq DOMAIN client[c]
                         /\ client[c].at = NoOne /\ client[c].port = 0
  <2>1. \A c \in Clients : client[c] = [at |-> NoOne, port |-> 0, fd |-> 0]
    BY <1>1
  <2>. QED
    BY <2>1
<1>3. Shape /\ Waits /\ Stages
  BY <1>1, <1>2, NoConnIs, Zenon DEF Shape, Waits, Stages
<1>4. Owned /\ Distinct /\ Asked
  BY <1>1, <1>2, NoConnIs, Zenon DEF Owned, Distinct, Asked
<1>5. Covered
  BY <1>1 DEF Covered, Attached
<1>6. SInv
  BY <1>1, NoConnIs, DownIs, Zenon DEF SInv, SrvShape, HandleInv, HandlerInv, Busy
<1>. QED
  BY <1>3, <1>4, <1>5, <1>6 DEF PInv

\* The invariant holds in every reachable state: each attached port has exactly one
\* claim, and each handler a server that waits for it (tapfd_server.go, attach.go).
THEOREM Invariant == Spec => [](PInv /\ SInv)
<1>1. PInv /\ SInv /\ [Next]_vars => PInv' /\ SInv'
  <2>. SUFFICES ASSUME PInv, SInv, [Next]_vars PROVE PInv' /\ SInv'
    OBVIOUS
  <2>1. CASE UNCHANGED vars
    <3>1. /\ slot' = slot /\ conn' = conn /\ client' = client /\ excused' = excused
          /\ srv' = srv /\ path' = path
      BY <2>1 DEF vars
    <3>2. NoNewHandler
      BY <3>1 DEF NoNewHandler, Busy
    <3>. QED
      BY <3>1, <3>2, QuietPInv, ConnStepInv
  <2>2. ASSUME NEW c \in Clients, ClientStep(c)
        PROVE  PInv' /\ SInv'
    <3>1. PInv'
      BY <2>2, ConnectInv, RunHelperInv, ReceiveInv, GiveUpInv, CloseQueueInv DEF ClientStep
    <3>. QED
      BY <2>2, <3>1, ClientSInv
  <2>3. ASSUME NEW k \in Conns, HandlerStep(k)
        PROVE  PInv' /\ SInv'
    <3>1. PInv'
      BY <2>3, AcceptInv, AnswerInv, PrepareInv, PrepareReplyInv, UndoInv, ValidateOpenPortInv,
         OpenTapInv, SendFdInv, SetPortUpInv, ReleaseInv DEF HandlerStep
    <3>2. SInv'
      BY <2>3, AcceptSInv, HandlerStays, ConnStepInv
    <3>. QED
      BY <3>1, <3>2
  <2>4. ASSUME NEW s \in Servers, ServerStep(s) \/ Event(s)
        PROVE  PInv' /\ SInv'
    <3>1. ASSUME NEW p \in Ports, ProvisionPort(s, p)
          PROVE  PInv' /\ SInv'
      <4>1. NoNewHandler /\ srv' = srv /\ path' = path
        BY <3>1 DEF ProvisionPort, NoNewHandler, Busy
      <4>. QED
        BY <3>1, <4>1, ProvisionPortInv, ConnStepInv, SMTT(30)
    <3>2. CASE Die(s)
      BY <3>2, DieInv, SMTT(30)
    <3>3. CASE ~Die(s)
      BY <2>4, <3>1, <3>3, ServeInv, CloseListenerInv, Zenon DEF ServerStep, Event, Crash
    <3>. QED
      BY <3>2, <3>3
  <2>. QED
    BY <2>1, <2>2, <2>3, <2>4, KillHelperInv DEF Next
<1>. QED
  BY <1>1, InitInv, PTL DEF Spec

\* A port a client was told of stays attached for it until it sends RELEASE, for any
\* number of clients, connections, ports, serves and deaths.
THEOREM HolderSafe == Spec => []HolderKeepsPort
<1>1. PInv => HolderKeepsPort
  BY DEF PInv, Owned, HolderKeepsPort
<1>. QED
  BY <1>1, Invariant, PTL

\* An attached port has someone who will give it back, or it was lost to a death or
\* to a reply that was written and not read.
THEOREM NoLeak == Spec => []NoLeakedPort
<1>1. ASSUME PInv PROVE NoLeakedPort
  <2>1. ASSUME NEW p \in Ports, NEW c \in Clients, client[c].port = p
        PROVE  Responsible(p, slot[p])
    BY <2>1, PortsAre, <1>1, SMTT(30) DEF PInv, Owned, Responsible
  <2>2. ASSUME NEW p \in Ports, NEW k \in Conns, Claims(conn[k]), conn[k].port = p
        PROVE  Responsible(p, slot[p])
    BY <1>1, <2>2 DEF PInv, Owned, Claims, Responsible, Busy
  <2>. QED
    BY <1>1, <2>1, <2>2, SMTT(30) DEF PInv, Covered, NoLeakedPort
<1>. QED
  BY <1>1, Invariant, PTL

\* A queue is handed to the owner of the port, with the metadata of its owner, the
\* tap first and the namespace exactly when it was asked for.
THEOREM HandoffSafe == Spec => []HandoffFaithful
<1>1. ASSUME PInv PROVE HandoffFaithful
  <2>1. ASSUME NEW c \in Clients, NEW k, k = client[c].at, k # NoOne,
               conn[k].st = "answered", conn[k].res = "ok",
               conn[k].op \in {"OPEN", "ATTACH_OPEN"}
        PROVE  conn[k].meta = c /\ slot[conn[k].port] = c
    <3>1. Handed(conn[k]) /\ k \in Conns /\ conn[k].who = c
      BY <1>1, <2>1 DEF Handed, PInv, Waits
    <3>2. conn[k].op = "ATTACH_OPEN" => Claims(conn[k])
      BY <2>1 DEF Claims
    <3>. QED
      BY <1>1, <2>1, <3>1, <3>2, SMTT(30) DEF PInv, Asked, Owned
  <2>. QED
    BY <2>1, MessageReceived, ZenonT(60) DEF HandoffFaithful
<1>. QED
  BY <1>1, Invariant, PTL

\* No handler runs once the switch handle of its serve is closed.
THEOREM HandleSafe == Spec => []NoUseAfterClose
<1>1. SInv => NoUseAfterClose
  BY DEF SInv, HandleInv, HandlerInv, HandlersOf, NoUseAfterClose, Serving
<1>. QED
  BY <1>1, Invariant, PTL

-----------------------------------------------------------------------------
(* The socket path. *)

\* Past the probe, or on the way out.
Closing == {"listen", "cancel", "done", "unlink", "unmap"}

\* One serve at a time is starting or stopping, and past its probe none is serving.
ReachInv ==
    /\ ServingIsReachable
    /\ \A s \in Servers : srv[s].pc \notin {"down", "serving"} => Settled(s)
    /\ \A s \in Servers : srv[s].pc \in Closing => \A t \in Servers : srv[t].pc # "serving"

\* A step of one serve that neither begins to serve nor leaves the down state.
LEMMA ReachFrame ==
    ASSUME ReachInv, NEW s \in Servers, SrvFrame(s),
           \/ srv'[s].pc \in {"down", srv[s].pc} /\ path' = path
           \/ srv[s].pc \in Closing /\ srv'[s].pc \in Closing
    PROVE  ReachInv'
<1>1. \A t \in Servers \ {s} : srv'[t].pc = srv[t].pc
  BY Zenon DEF SrvFrame
<1>2. "serving" \notin Closing /\ "down" \notin Closing /\ "down" # "serving"
  BY DEF Closing
<1>3. ServingIsReachable'
  BY <1>1, <1>2, Zenon DEF ReachInv, ServingIsReachable
<1>4. ASSUME NEW t \in Servers, srv'[t].pc \notin {"down", "serving"} PROVE Settled(t)'
  <2>1. srv[t].pc \notin {"down", "serving"}
    BY <1>1, <1>2, <1>4, Zenon
  <2>2. Settled(t)
    BY <2>1, Zenon DEF ReachInv
  <2>3. CASE t = s
    BY <1>1, <2>2, <2>3, Zenon DEF Settled
  <2>4. CASE t # s
    <3>1. srv[s].pc \in {"down", "serving"}
      BY <2>2, <2>4, Zenon DEF Settled
    <3>2. srv'[s].pc \in {"down", "serving"}
      BY <1>2, <3>1, Zenon
    <3> QED
      BY <1>1, <2>2, <3>2, Zenon DEF Settled
  <2> QED
    BY <2>3, <2>4
<1>5. ASSUME NEW t \in Servers, srv'[t].pc \in Closing, NEW u \in Servers, srv'[u].pc = "serving"
      PROVE  FALSE
  <2>1. srv[t].pc \in Closing /\ srv[u].pc = "serving"
    BY <1>1, <1>2, <1>5, Zenon
  <2> QED
    BY <2>1, Zenon DEF ReachInv
<1> QED
  BY <1>3, <1>4, <1>5, Zenon DEF ReachInv

\* The serve that starts finds an active socket and leaves, or there is none; the
\* one that listens is alone; the one that is told to stop was the only one.
LEMMA ReachStep ==
    ASSUME SrvShape, ReachInv, NEW s \in Servers,
           PrepareListenPath(s) \/ Listen(s) \/ Start(s) \/ Signal(s)
    PROVE  ReachInv'
<1>0. DOMAIN srv = Servers /\ {"pc", "handle", "acc"} \subseteq DOMAIN srv[s]
  BY DEF SrvShape
<1>1. ASSUME srv' = [srv EXCEPT ![s] = Down], path' = path PROVE ReachInv'
  <2>1. SrvFrame(s) /\ srv'[s].pc = "down"
    BY <1>0, <1>1, DownIs DEF SrvFrame
  <2> QED
    BY <1>1, <2>1, ReachFrame, Zenon
<1>2. CASE PrepareListenPath(s) /\ ~(path # NoOne /\ Listening(path))
  <2>1. SrvFrame(s) /\ srv'[s].pc = "listen" /\ srv[s].pc = "probe"
    BY <1>0, <1>2 DEF PrepareListenPath, Proc, SrvFrame
  <2>2. ASSUME NEW t \in Servers, srv[t].pc = "serving" PROVE FALSE
    <3>1. path = t
      BY <2>2, Zenon DEF ReachInv, ServingIsReachable
    <3> QED
      BY <1>2, <2>2, <3>1, TapfdConstants, Zenon DEF Listening
  <2>3. Settled(s) /\ \A t \in Servers \ {s} : srv'[t].pc = srv[t].pc
    BY <2>1 DEF ReachInv, SrvFrame
  <2>4. \A t \in Servers \ {s} : srv'[t].pc = "down"
    BY <2>2, <2>3, Zenon DEF Settled
  <2> QED
    BY <2>1, <2>4 DEF ReachInv, ServingIsReachable, Settled, Closing
<1>3. CASE PrepareListenPath(s) /\ path # NoOne /\ Listening(path)
  BY <1>1, <1>3, Zenon DEF PrepareListenPath
<1>4. CASE Listen(s) /\ path' = s
           /\ srv' = [srv EXCEPT ![s].pc = "serving", ![s].acc = TRUE, ![s].prov = "run"]
  <2>1. SrvFrame(s) /\ srv'[s].pc = "serving" /\ srv[s].pc = "listen"
    BY <1>0, <1>4, SMTT(30) DEF Listen, SrvFrame
  <2>2. \A t \in Servers \ {s} : srv'[t].pc = srv[t].pc /\ srv[t].pc = "down"
    BY <2>1 DEF ReachInv, SrvFrame, Settled, Closing
  <2> QED
    <3>1. ServingIsReachable'
      BY <1>4, <2>1, <2>2 DEF ServingIsReachable
    <3> QED
      BY <2>1, <2>2, <3>1, Zenon DEF ReachInv, Settled, Closing
<1>5. CASE Listen(s)
  BY <1>1, <1>4, <1>5, Zenon DEF Listen
<1>6. CASE Start(s)
  <2>1. SrvFrame(s) /\ srv'[s].pc = "probe" /\ srv[s].pc = "down" /\ path' = path /\ Settled(s)
    BY <1>0, <1>6 DEF Start, Down, SrvFrame
  <2>2. \A t \in Servers \ {s} : srv'[t].pc = srv[t].pc /\ srv[t].pc \in {"down", "serving"}
    BY <2>1, SMTT(30) DEF SrvFrame, Settled
  <2> QED
    BY <2>1, <2>2 DEF ReachInv, ServingIsReachable, Settled, Closing
<1>7. CASE Signal(s)
  <2>1. SrvFrame(s) /\ srv'[s].pc = "cancel" /\ srv[s].pc = "serving" /\ Settled(s)
    BY <1>0, <1>7 DEF Signal, Proc, SrvFrame
  <2>2. \A t \in Servers \ {s} : srv[t].pc # "serving"
    BY <2>1 DEF ReachInv, ServingIsReachable
  <2>3. \A t \in Servers \ {s} : srv'[t].pc = srv[t].pc /\ srv[t].pc = "down"
    BY <2>1, <2>2 DEF SrvFrame, Settled
  <2> QED
    BY <2>1, <2>3 DEF ReachInv, ServingIsReachable, Settled, Closing
<1> QED
  BY <1>2, <1>3, <1>5, <1>6, <1>7, Zenon

\* The serve whose socket the path names is the one that serves: a start, a second
\* serve beside it, a shutdown or a death never takes the path from it, for any
\* number of serves.
THEOREM PathIsServed == Spec => []ServingIsReachable
<1>1. Init => ReachInv
  BY DownIs DEF Init, ReachInv, ServingIsReachable, Settled, Closing
<1>2. ASSUME PInv, SInv, ReachInv, [Next]_vars PROVE ReachInv'
  <2>0. SrvShape
    BY <1>2 DEF SInv
  <2>1. ASSUME UNCHANGED <<srv, path>> PROVE ReachInv'
    BY <1>2, <2>1, Zenon DEF ReachInv, ServingIsReachable, Settled
  <2>2. ASSUME NEW s \in Servers, Die(s) PROVE ReachInv'
    <3>1. SrvFrame(s) /\ srv'[s].pc = "down" /\ path' = path
      BY <2>0, <2>2, DownIs DEF Die, SrvShape, SrvFrame
    <3> QED
      BY <1>2, <3>1, ReachFrame, Zenon
  <2>3. ASSUME NEW s \in Servers,
               Provisioned(s) \/ Break(s) \/ AcceptClosed(s) \/ (StatusTick(s) /\ ~Die(s))
        PROVE  ReachInv'
    <3>1. SrvFrame(s) /\ srv'[s].pc = srv[s].pc /\ path' = path
      BY <2>0, <2>3 DEF Provisioned, Break, AcceptClosed, StatusTick, SrvShape, SrvFrame
    <3> QED
      BY <1>2, <3>1, ReachFrame, Zenon
  <2>4. ASSUME NEW s \in Servers, CloseListener(s) \/ CloseWait(s) \/ CloseUnlink(s)
        PROVE  ReachInv'
    <3>1. SrvFrame(s) /\ srv'[s].pc \in Closing /\ srv[s].pc \in Closing
      BY <2>0, <2>4 DEF CloseListener, CloseWait, CloseUnlink, Proc, SrvShape, SrvFrame, Closing
    <3> QED
      BY <1>2, <3>1, ReachFrame, Zenon
  <2>5. ASSUME NEW s \in Servers, Exit(s) PROVE ReachInv'
    <3>1. SrvFrame(s) /\ srv'[s].pc = "down" /\ path' = path
      BY <2>0, <2>5, DownIs DEF Exit, SrvShape, SrvFrame
    <3> QED
      BY <1>2, <3>1, ReachFrame, Zenon
  <2>6. ASSUME NEW s \in Servers, ServerStep(s) \/ Event(s) PROVE ReachInv'
    <3>1. CASE \E p \in Ports : ProvisionPort(s, p)
      BY <2>1, <3>1 DEF ProvisionPort
    <3>2. CASE Crash(s)
      <4>1. Die(s)
        BY <3>2, Zenon DEF Crash
      <4> QED
        BY <2>2, <4>1, Zenon
    <3> QED
      BY <1>2, <2>0, <2>2, <2>3, <2>4, <2>5, <2>6, <3>1, <3>2, ReachStep, Zenon DEF ServerStep, Event
  <2>7. ASSUME NEW c \in Clients, ClientStep(c) PROVE ReachInv'
    <3>1. UNCHANGED <<srv, path>>
      BY <2>7, Zenon DEF ClientStep, Connect, RunHelper, Receive, GiveUp, CloseQueue
    <3> QED
      BY <2>1, <3>1
  <2>8. ASSUME NEW k \in Conns, HandlerStep(k) \/ KillHelper(k) PROVE ReachInv'
    <3>1. UNCHANGED <<srv, path>>
      BY <2>8, Zenon
         DEF HandlerStep, Accept, Answer, Prepare, PrepareReply, Undo, ValidateOpenPort, OpenTap,
             SendFd, SetPortUp, Release, KillHelper
    <3> QED
      BY <2>1, <3>1
  <2>9. CASE UNCHANGED vars
    BY <2>1, <2>9 DEF vars
  <2> QED
    BY <1>2, <2>6, <2>7, <2>8, <2>9, Zenon DEF Next
<1>3. ReachInv => ServingIsReachable
  BY DEF ReachInv
<1> QED
  BY <1>1, <1>2, <1>3, Invariant, PTL DEF Spec
=============================================================================
