-------------------------- MODULE PortSlots_proofs --------------------------
(***************************************************************************)
(* Theorems about PortSlots, for every number of ports, clients, addresses *)
(* and configurations: the invariants, the action properties, and that the *)
(* slot table implements SlotLifecycle.                                    *)
(***************************************************************************)
EXTENDS PortSlotsInv

(* ContentInv is preserved. *)

\* A slot that a step leaves alone keeps its content.
LEMMA ContentUntouched ==
  ASSUME TypeOK, OwnInv, NEW c \in Clients, OthersKeep(c), NEW s \in Slots, Content(s),
         Stored(s)' = Stored(s), owner'[s] = owner[s], want'[s] = want[s], owner[s] # c
  PROVE  Content(s)'
<1>1. /\ innerIP'[s] = innerIP[s] /\ flags'[s] = flags[s] /\ generation'[s] = generation[s]
      /\ transit'[s] = transit[s] /\ optsLen'[s] = optsLen[s] /\ opts'[s] = opts[s]
  BY Zenon DEF Stored
<1>2. UNCHANGED <<mpc, mslot>>
  BY Zenon DEF OthersKeep, mgmtVars
<1>3. owner[s] \in Clients => pc'[owner[s]] = pc[owner[s]] /\ req'[owner[s]] = req[owner[s]]
  BY Zenon DEF OthersKeep
<1>4. owner[s] \in Clients => Prepared(owner[s], s)'
  BY <1>1, <1>3, Zenon DEF Content, Prepared
<1> QED
  BY <1>1, <1>2, <1>4, Zenon DEF Content

\* A step of a client preserves the content of every slot.
LEMMA ContentClient ==
  ASSUME TypeOK, OwnInv, ContentInv, NEW c \in Clients, ClientNext(c) \/ Crash(c)
  PROVE  ContentInv'
<1> SUFFICES ASSUME NEW s \in Slots PROVE Content(s)'
  BY Zenon DEF ContentInv
<1>a. Content(s)
  BY Zenon DEF ContentInv
<1>b. Effect(c) /\ Elsewhere(c)
  BY ClientEffect, ClientFrame, Zenon
<1>c. owner[s] = c => Engaged(c) /\ slot[c] = s
  BY Zenon DEF OwnInv, OwnerWord
<1>d. OthersKeep(c) /\ UNCHANGED <<mpc, mslot>>
  BY <1>b, Zenon DEF Effect, OthersKeep, mgmtVars
<1>1. CASE s # slot[c]
  BY <1>1, <1>a, <1>b, <1>c, <1>d, ContentUntouched, Zenon DEF Elsewhere
<1>2. CASE s = slot[c] /\ owner[s] = c
  BY <1>2, <1>a, ContentOwner, Zenon DEF Owning
<1>3. CASE s = slot[c] /\ owner[s] # c /\ Engaged(c)
  <2>1. owner[s] = Control /\ innerIP[s] = Reserved
    BY <1>3, Zenon DEF OwnInv, Believers, OwnerWord
  <2>2. owner' = owner /\ innerIP' = innerIP
    BY <1>3, <1>b, Zenon DEF Effect, Keeps, Wins, Releases, Readdresses
  <2>3. ~(mpc = "pr_free" /\ mslot = s)
    BY <1>3, Zenon DEF OwnInv, Boundary, Quiet
  <2> QED
    BY <1>d, <2>1, <2>2, <2>3, OwnerAssumption, SentinelAssumption, Zenon DEF Content, IsSlotAllocated
<1>4. CASE s = slot[c] /\ ~Engaged(c)
  <2>1. CASE AttachClaim(c)
    <3>1. innerIP[s] = Free /\ flags[s] = 0
      BY <1>4, <2>1, <1>a, Zenon DEF AttachClaim, TryAllocate, Content
    <3>2. /\ innerIP'[s] = cur[c] /\ owner'[s] = c /\ flags' = flags
          /\ want'[s] = [ip |-> req[c].ip, cfg |-> req[c].cfg, gen |-> req[c].cfg]
          /\ pc'[c] = "at_ready" /\ req' = req
      BY <1>4, <2>1, Zenon DEF AttachClaim, TryAllocate, Swap, Goto, fieldVars, TypeOK
    <3>3. cur[c] = req[c].ip /\ req[c].ip \in IPs
      BY <2>1, RequestAssumption, Zenon DEF AttachClaim, OwnInv, CallInv, CallLocals
    <3>4. Prepared(c, s)'
      BY <3>1, <3>2, <3>3 DEF Prepared, AttachPCs, PortUpPCs
    <3> QED
      BY <3>1, <3>2, <3>3, <3>4, SentinelAssumption DEF Content, PortFUp
  <2>2. CASE ~AttachClaim(c)
    <3>2. UNCHANGED tables
      BY <1>4, <2>2, DisengagedWrites, Zenon
    <3>3. Stored(s)' = Stored(s) /\ owner'[s] = owner[s] /\ want'[s] = want[s]
      BY <3>2, Zenon DEF Stored, tables, ownVars, fieldVars
    <3> QED
      BY <1>4, <1>a, <1>c, <1>d, <3>3, ContentUntouched, Zenon
  <2> QED
    BY <2>1, <2>2, Zenon
<1> QED
  BY <1>1, <1>2, <1>3, <1>4, Zenon

\* A step of management preserves the content of every slot.
LEMMA ContentMgmt ==
  ASSUME TypeOK, OwnInv, ContentInv, MgmtNext \/ MgmtCrash
  PROVE  ContentInv'
<1> SUFFICES ASSUME NEW s \in Slots PROVE Content(s)'
  BY Zenon DEF ContentInv
<1> USE DEF MStart, MGoto, MReturn, Swap, tables, ownVars, fieldVars
<1>a. Content(s) /\ mslot \in Slots
  BY Zenon DEF ContentInv, TypeOK
<1>b. UNCHANGED <<pc, req>>
  BY MgmtHasEffect, Zenon DEF MgmtEffect, clientVars
<1>s. ASSUME owner'[s] = Control, innerIP'[s] = Reserved, mpc' # "pr_free" \/ flags'[s] = 0
      PROVE  Content(s)'
  BY <1>s, OwnerAssumption, SentinelAssumption, Zenon DEF Content, IsSlotAllocated
<1>u. ASSUME UNCHANGED <<innerIP[s], owner[s], want[s], flags[s], generation[s], transit[s], optsLen[s],
                         opts[s]>>,
             \/ mpc' # "pr_free"
             \/ mslot' # s
      PROVE  Content(s)'
  BY <1>a, <1>b, <1>u, ZenonT(60) DEF Content, Prepared
<1>1. ASSUME NEW r \in Slots, ReserveFree(r) PROVE Content(s)'
  <2>1. CASE s = r
    BY <1>1, <1>s, <2>1, Zenon DEF ReserveFree, TryAllocate, TypeOK
  <2>2. CASE s # r
    BY <1>1, <1>u, <2>2, Zenon DEF ReserveFree, TryAllocate, TypeOK
  <2> QED
    BY <2>1, <2>2, Zenon
<1>2. ASSUME NEW r \in Slots, ForceBegin(r) PROVE Content(s)'
  BY <1>2, <1>u, Zenon DEF ForceBegin
<1>3. ASSUME NEW r \in Slots, ProvisionDevice(r) PROVE Content(s)'
  BY <1>3, <1>u, Zenon DEF ProvisionDevice
<1>4. CASE ReserveReady
  BY <1>4, <1>u, Zenon DEF ReserveReady
<1>5. CASE ForceRead
  BY <1>5, <1>u, Zenon DEF ForceRead
<1>6. CASE ForceCAS
  <2>1. mpc' # "pr_free"
    BY <1>6, Zenon DEF ForceCAS, ForceWin
  <2>2. CASE ForceWin /\ s = mslot
    BY <1>6, <1>s, <2>1, <2>2, Zenon DEF ForceCAS, ForceWin, TryReserve, TypeOK
  <2>3. CASE ~(ForceWin /\ s = mslot)
    BY <1>6, <1>u, <2>1, <2>3, Zenon DEF ForceCAS, ForceWin, TryReserve, TypeOK
  <2> QED
    BY <2>2, <2>3, Zenon
<1>7. CASE ForceClean
  <2>1. CASE s = mslot
    <3>1. innerIP[s] = Reserved /\ owner[s] = Control
      BY <1>7, <1>a, <2>1, Zenon DEF ForceClean, OwnInv, Boundary, OwnerWord
    <3> QED
      BY <1>7, <1>s, <3>1, Zenon DEF ForceClean
  <2>2. CASE s # mslot
    BY <1>7, <1>u, <2>2, Zenon DEF ForceClean, TypeOK
  <2> QED
    BY <2>1, <2>2, Zenon
<1>8. CASE UnreserveDown
  <2>1. CASE s = mslot
    <3>1. innerIP[s] = Reserved /\ owner[s] = Control
      BY <1>8, <1>a, <2>1, Zenon DEF UnreserveDown, OwnInv, OwnerWord
    <3>2. flags'[s] = 0
      BY <1>8, <2>1, Zenon DEF UnreserveDown, TypeOK
    <3> QED
      BY <1>8, <1>s, <3>1, <3>2, Zenon DEF UnreserveDown
  <2>2. CASE s # mslot
    BY <1>8, <1>u, <2>2, Zenon DEF UnreserveDown, TypeOK
  <2> QED
    BY <2>1, <2>2, Zenon
<1>9. CASE UnreserveFree
  <2>1. CASE s = mslot
    <3>1. flags[s] = 0
      BY <1>9, <1>a, <2>1, Zenon DEF UnreserveFree, Content
    <3>2. innerIP'[s] = Free /\ owner'[s] = NoOne /\ flags'[s] = 0
      BY <1>9, <2>1, <3>1, Zenon DEF UnreserveFree, TypeOK
    <3> QED
      BY <3>2, OwnerAssumption, Zenon DEF Content, IsSlotAllocated
  <2>2. CASE s # mslot
    BY <1>9, <1>u, <2>2, Zenon DEF UnreserveFree, TypeOK
  <2> QED
    BY <2>1, <2>2, Zenon
<1>10. CASE MgmtCrash
  BY <1>10, <1>u, Zenon DEF MgmtCrash
<1> QED
  BY <1>1, <1>2, <1>3, <1>4, <1>5, <1>6, <1>7, <1>8, <1>9, <1>10, Zenon DEF MgmtNext, CommandStep

-----------------------------------------------------------------------------
(* The invariant, and the theorems. *)

\* The table that StartReserved leaves satisfies the invariant.
LEMMA InvInit == Init => IInv
<1> SUFFICES ASSUME Init PROVE IInv
  OBVIOUS
<1>1. TypeOK
  BY ZeroSlot, Zenon DEF Init, TypeOK, RestPCs, PortFUp, NoReq
<1>2. OwnInv
  BY SentinelAssumption, OwnerAssumption, Zenon
  DEF Init, OwnInv, CallInv, CallLocals, OwnerWord, Believers, OneClaimant, Boundary, Engaged,
      AttachPCs, PortUpPCs, DetachPCs
<1>3. ContentInv
  BY OwnerAssumption DEF Init, ContentInv, Content, PortFUp
<1> QED
  BY <1>1, <1>2, <1>3, Zenon DEF IInv

\* Every step of a call, of management, and every crash preserves it.
LEMMA InvStep == IInv /\ [Next]_vars => IInv'
<1> SUFFICES ASSUME IInv, [Next]_vars PROVE IInv'
  OBVIOUS
<1>0. TypeOK /\ OwnInv /\ ContentInv /\ CallInv
  BY Zenon DEF IInv, OwnInv
<1>1. ASSUME NEW c \in Clients, ClientNext(c) \/ Crash(c)
      PROVE  IInv'
  BY <1>0, <1>1, TypeClient, ClientEffect, OwnClient, ContentClient, Zenon DEF IInv
<1>2. CASE MgmtNext \/ MgmtCrash
  BY <1>0, <1>2, TypeMgmt, MgmtHasEffect, OwnMgmt, ContentMgmt, Zenon DEF IInv
<1>3. CASE UNCHANGED vars
  <2> USE <1>3 DEF vars, tables, ownVars, fieldVars, clientVars, mgmtVars
  <2>1. TypeOK'
    BY <1>0, Zenon DEF TypeOK
  <2>2. OwnInv'
    BY <1>0, ZenonT(60) DEF OwnInv, CallInv, CallLocals, OwnerWord, Believers, OneClaimant, Boundary, Quiet, Engaged
  <2>3. ContentInv'
    <3> SUFFICES ASSUME NEW s \in Slots PROVE Content(s)'
      BY Zenon DEF ContentInv
    <3>1. Content(s)
      BY <1>0, Zenon DEF ContentInv
    <3>2. Prepared(owner[s], s) => Prepared(owner[s], s)'
      BY Zenon DEF Prepared
    <3> QED
      BY <3>1, <3>2, Zenon DEF Content
  <2> QED
    BY <2>1, <2>2, <2>3, Zenon DEF IInv
<1> QED
  BY <1>1, <1>2, <1>3, Zenon DEF Next, CrashFreeNext

\* The inductive invariant: who owns each slot, who believes so, and what the
\* owner has prepared in it, at every point of Attach, SetPortUp and Detach.
THEOREM Invariant == Spec => []IInv
  BY InvInit, InvStep, PTL DEF Spec

\* Every variable of the slot table, of the calls and of the management command
\* keeps its type; the slot a scan of Attach reaches is always in the table.
THEOREM TypeCorrect == Spec => []TypeOK
<1>1. IInv => TypeOK
  BY Zenon DEF IInv
<1> QED
  BY <1>1, Invariant, PTL

\* No two clients ever believe that they have the same port: the CAS claims of
\* Attach, the takeover checks and the boundary of provisioning together make
\* attachments exclusive.
THEOREM Exclusive == Spec => []OneClaimant
<1>1. IInv => OneClaimant
  BY Zenon DEF IInv, OwnInv
<1> QED
  BY <1>1, Invariant, PTL

\* Every way into Free (the rollback of Attach, Detach, TryUnreserve) leaves the
\* slot dataplane-down.
THEOREM FreeDown == Spec => []FreeIsDown
<1>1. IInv => FreeIsDown
  BY Zenon DEF IInv, ContentInv, Content, FreeIsDown
<1> QED
  BY <1>1, Invariant, PTL

\* An attached port that is up shows exactly the latest request of its owner,
\* whether Attach or SetPortUp published it.
THEOREM PublishedComplete == Spec => []UpIsComplete
<1>1. IInv => UpIsComplete
  BY Zenon DEF IInv, ContentInv, Content, UpIsComplete
<1> QED
  BY <1>1, Invariant, PTL

\* A call writes only to a slot that its client won.
THEOREM OwnWritesOnly == Spec => NoForeignWrite
<1> DEFINE A == \A c \in Clients, s \in Slots :
                  pc'[c] # pc[c] /\ Stored(s)' # Stored(s) =>
                      /\ slot[c] = s
                      /\ owner[s] \in {c, Control} \/ owner'[s] = c
<1>1. IInv /\ [Next]_vars => [A]_vars
  <2> SUFFICES ASSUME IInv, Next, NEW c \in Clients, NEW s \in Slots,
                      pc'[c] # pc[c], Stored(s)' # Stored(s)
               PROVE  /\ slot[c] = s
                      /\ owner[s] \in {c, Control} \/ owner'[s] = c
    OBVIOUS
  <2>0. TypeOK /\ OwnInv
    BY Zenon DEF IInv
  <2>1. ~(MgmtNext \/ MgmtCrash)
    BY <2>0, MgmtHasEffect, Zenon DEF MgmtEffect, clientVars
  <2>2. PICK d \in Clients : ClientNext(d) \/ Crash(d)
    BY <2>1, Zenon DEF Next, CrashFreeNext
  <2>3. Effect(d) /\ Elsewhere(d)
    BY <2>0, <2>2, ClientEffect, ClientFrame, Zenon
  <2>4. c = d
    BY <2>3, Zenon DEF Effect, OthersKeep
  <2>5. slot[c] = s
    BY <2>3, <2>4, Zenon DEF Elsewhere
  <2>6. CASE Engaged(c)
    BY <2>0, <2>5, <2>6, Zenon DEF OwnInv, Believers
  <2>7. CASE ~Engaged(c)
    <3>1. CASE AttachClaim(c)
      BY <2>0, <2>5, <3>1, Zenon DEF AttachClaim, TryAllocate, Swap, TypeOK
    <3>2. CASE ~AttachClaim(c)
      <4>1. UNCHANGED tables
        BY <2>2, <2>4, <2>7, <3>2, DisengagedWrites, Zenon
      <4> QED
        BY <4>1, Zenon DEF Stored, tables, ownVars, fieldVars
    <3> QED
      BY <3>1, <3>2, <2>5, Zenon
  <2> QED
    BY <2>5, <2>6, <2>7, Zenon
<1> QED
  BY <1>1, Invariant, PTL DEF Spec, NoForeignWrite

\* No rollback, release or address change of a call undoes a takeover.
THEOREM TakeoverStays == Spec => TakeoverNotUndone
<1> DEFINE A == \A s \in Slots :
                  innerIP[s] = Reserved /\ innerIP'[s] # Reserved =>
                      mpc = "pr_free" /\ mslot = s /\ innerIP'[s] = Free
<1>1. IInv /\ [Next]_vars => [A]_vars
  <2> SUFFICES ASSUME IInv, Next, NEW s \in Slots, innerIP[s] = Reserved, innerIP'[s] # Reserved
               PROVE  mpc = "pr_free" /\ mslot = s /\ innerIP'[s] = Free
    OBVIOUS
  <2>0. TypeOK /\ OwnInv
    BY Zenon DEF IInv
  <2>1. ASSUME NEW c \in Clients, ClientNext(c) \/ Crash(c) PROVE FALSE
    BY <2>0, <2>1, ClientEffect, KeepsReserved, Zenon
  <2>2. MgmtEffect
    BY <2>0, <2>1, MgmtHasEffect, Zenon DEF Next, CrashFreeNext
  <2> QED
    BY <2>0, <2>2, Zenon DEF MgmtEffect, Reserves, Unreserves, TypeOK
<1> QED
  BY <1>1, Invariant, PTL DEF Spec, TakeoverNotUndone

-----------------------------------------------------------------------------
(* Refinement. *)

\* The states of the port state machine that the owner words stand for.
Statuses == [s \in Slots |-> Status(innerIP[s])]

\* The status of an owner word.
LEMMA StatusOf ==
  /\ Status(Free) = "Free"
  /\ Status(Reserved) = "Reserved"
  /\ \A ip \in IPs : Status(ip) = "Allocated"
  BY SentinelAssumption, Zenon DEF Status

\* A write to one owner word changes one status.
LEMMA StatusChange ==
  ASSUME TypeOK, NEW s \in Slots, NEW ip, innerIP' = [innerIP EXCEPT ![s] = ip]
  PROVE  Statuses' = [Statuses EXCEPT ![s] = Status(ip)]
<1>1. \A r \in Slots : innerIP'[r] = IF r = s THEN ip ELSE innerIP[r]
  BY Zenon DEF TypeOK
<1>2. Statuses' = [r \in Slots |-> Status(innerIP'[r])]
  BY Zenon DEF Statuses
<1>3. [Statuses EXCEPT ![s] = Status(ip)] = [r \in Slots |-> IF r = s THEN Status(ip) ELSE Status(innerIP[r])]
  BY Zenon DEF Statuses
<1> QED
  BY <1>1, <1>2, <1>3, Zenon

\* Every step of a call or a command is a transition of the port's state machine
\* by its holder, or changes no status.
THEOREM Refines == Spec => ImplementsLifecycle
<1>1. Init => Lifecycle!Init
  BY StatusOf, ZenonT(60) DEF Init, Lifecycle!Init
<1>2. IInv /\ [Next]_vars => [Lifecycle!Next]_(Lifecycle!lifeVars)
  <2> SUFFICES ASSUME IInv, [Next]_vars
               PROVE  Lifecycle!Next \/ UNCHANGED <<Statuses, owner>>
    BY Zenon DEF Lifecycle!lifeVars, Statuses
  <2>0. TypeOK /\ OwnInv
    BY Zenon DEF IInv
  <2>a. \A s \in Slots : /\ Statuses[s] = Status(innerIP[s])
                         /\ innerIP[s] = Free => owner[s] = NoOne
                         /\ owner[s] = NoOne => innerIP[s] = Free
                         /\ owner[s] = Control => innerIP[s] = Reserved
                         /\ owner[s] \in Clients => innerIP[s] \in IPs
    <3> SUFFICES ASSUME NEW s \in Slots
                 PROVE  /\ innerIP[s] = Free => owner[s] = NoOne
                        /\ owner[s] = NoOne => innerIP[s] = Free
                        /\ owner[s] = Control => innerIP[s] = Reserved
                        /\ owner[s] \in Clients => innerIP[s] \in IPs
      BY Zenon DEF Statuses
    <3>1. innerIP[s] = Free <=> owner[s] = NoOne
      BY <2>0, Zenon DEF OwnInv, OwnerWord
    <3>2. innerIP[s] = Reserved <=> owner[s] = Control
      BY <2>0, Zenon DEF OwnInv, OwnerWord
    <3>3. innerIP[s] \in IPs \cup {Free, Reserved}
      BY <2>0, Zenon DEF TypeOK
    <3> QED
      BY <3>1, <3>2, <3>3, OwnerAssumption, Zenon
  <2>k. ASSUME UNCHANGED <<innerIP, owner>> PROVE UNCHANGED <<Statuses, owner>>
    BY <2>k, Zenon DEF Statuses
  <2>1. ASSUME NEW c \in Clients, ClientNext(c) \/ Crash(c)
        PROVE  Lifecycle!Next \/ UNCHANGED <<Statuses, owner>>
    <3>e. Effect(c)
      BY <2>0, <2>1, ClientEffect, Zenon
    <3>0. PICK s \in Slots : s = slot[c]
      BY <2>0, Zenon DEF TypeOK
    <3>1. CASE Wins(c)
      <4>0. PICK ip \in IPs : innerIP' = [innerIP EXCEPT ![s] = ip]
        BY <3>0, <3>1, Zenon DEF Wins
      <4>1. Statuses' = [Statuses EXCEPT ![s] = "Allocated"] /\ Statuses[s] = "Free" /\ owner[s] = NoOne
        <5>1. Statuses' = [Statuses EXCEPT ![s] = Status(ip)]
          BY <2>0, <4>0, StatusChange, Zenon
        <5>2. innerIP[s] = Free
          BY <3>0, <3>1, Zenon DEF Wins
        <5> QED
          BY <2>a, <5>1, <5>2, StatusOf, Zenon
      <4>2. Lifecycle!Attach(s, c)
        BY <3>0, <3>1, <4>1, Zenon DEF Wins, Lifecycle!Attach, Lifecycle!Change, Statuses
      <4> QED
        BY <3>0, <4>2, Zenon DEF Lifecycle!Next
    <3>2. CASE Releases(c)
      <4>1. Statuses' = [Statuses EXCEPT ![s] = "Free"] /\ Statuses[s] = "Allocated" /\ owner[s] = c
        <5>1. innerIP' = [innerIP EXCEPT ![s] = Free] /\ owner[s] = c
          BY <3>0, <3>2, Zenon DEF Releases
        <5>2. Statuses' = [Statuses EXCEPT ![s] = Status(Free)]
          BY <2>0, <5>1, StatusChange, Zenon
        <5> QED
          BY <2>a, <5>1, <5>2, StatusOf, Zenon
      <4>2. Lifecycle!Detach(s, c)
        BY <3>0, <3>2, <4>1, Zenon DEF Releases, Lifecycle!Detach, Lifecycle!Change, Statuses
      <4> QED
        BY <3>0, <4>2, Zenon DEF Lifecycle!Next
    <3>3. CASE Readdresses(c)
      <4>1. PICK ip \in IPs : innerIP' = [innerIP EXCEPT ![s] = ip]
        BY <3>0, <3>3, Zenon DEF Readdresses
      <4>2. Statuses' = [Statuses EXCEPT ![s] = "Allocated"] /\ Statuses[s] = "Allocated"
        <5>1. Statuses' = [Statuses EXCEPT ![s] = Status(ip)]
          BY <2>0, <4>1, StatusChange, Zenon
        <5>2. owner[s] = c
          BY <3>0, <3>3, Zenon DEF Readdresses
        <5> QED
          BY <2>a, <5>1, <5>2, StatusOf, Zenon
      <4>3. Statuses' = Statuses
        BY <4>2, <3>0, Zenon DEF Statuses
      <4> QED
        BY <3>3, <4>3, Zenon DEF Readdresses
    <3>4. CASE Keeps(c)
      BY <2>k, <3>4, Zenon DEF Keeps
    <3> QED
      BY <3>e, <3>1, <3>2, <3>3, <3>4, Zenon DEF Effect
  <2>2. CASE MgmtNext \/ MgmtCrash
    <3>0. MgmtEffect
      BY <2>0, <2>2, MgmtHasEffect, Zenon
    <3>1. ASSUME NEW s \in Slots, Reserves(s)
          PROVE  Lifecycle!Next \/ UNCHANGED <<Statuses, owner>>
      <4>1. Statuses' = [Statuses EXCEPT ![s] = "Reserved"]
        BY <2>0, <3>1, StatusChange, StatusOf, Zenon DEF Reserves
      <4>2. CASE owner[s] = NoOne
        <5>1. Lifecycle!Reserve(s)
          BY <2>a, <3>1, <4>1, <4>2, StatusOf, Zenon DEF Reserves, Lifecycle!Reserve, Lifecycle!Change, Statuses
        <5> QED
          BY <5>1, Zenon DEF Lifecycle!Next
      <4>3. CASE owner[s] \in Clients
        <5>1. Lifecycle!ForceReserve(s)
          BY <2>a, <3>1, <4>1, <4>3, StatusOf, Zenon DEF Reserves, Lifecycle!ForceReserve, Lifecycle!Change, Statuses
        <5> QED
          BY <5>1, Zenon DEF Lifecycle!Next
      <4>4. CASE owner[s] = Control
        <5>1. owner' = owner
          BY <2>0, <3>1, <4>4, Zenon DEF Reserves, TypeOK
        <5>2. Statuses' = Statuses
          BY <2>a, <4>1, <4>4, StatusOf, Zenon DEF Statuses
        <5> QED
          BY <5>1, <5>2, Zenon
      <4> QED
        BY <2>0, <4>2, <4>3, <4>4, Zenon DEF TypeOK
    <3>2. ASSUME NEW s \in Slots, Unreserves(s)
          PROVE  Lifecycle!Next
      <4>1. innerIP[s] = Reserved
        BY <2>0, <3>2, Zenon DEF Unreserves, OwnInv, Boundary
      <4>2. Statuses' = [Statuses EXCEPT ![s] = "Free"]
        BY <2>0, <3>2, StatusChange, StatusOf, Zenon DEF Unreserves
      <4>3. Lifecycle!Provision(s)
        BY <2>a, <3>2, <4>1, <4>2, StatusOf, Zenon DEF Unreserves, Lifecycle!Provision, Lifecycle!Change, Statuses
      <4> QED
        BY <4>3, Zenon DEF Lifecycle!Next
    <3> QED
      BY <2>k, <3>0, <3>1, <3>2, Zenon DEF MgmtEffect
  <2>3. CASE UNCHANGED vars
    BY <2>k, <2>3, Zenon DEF vars, tables, ownVars
  <2> QED
    BY <2>1, <2>2, <2>3, Zenon DEF Next, CrashFreeNext
<1> QED
  BY <1>1, <1>2, Invariant, PTL DEF Spec, ImplementsLifecycle, Lifecycle!Spec
=============================================================================
