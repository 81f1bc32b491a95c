---------------------------- MODULE PortSlotsInv ----------------------------
(***************************************************************************)
(* The inductive invariant of PortSlots, and what each step of a call or a *)
(* command does to it.                                                     *)
(* The invariant has two layers.  OwnInv says who owns a slot and who      *)
(* believes so; it rests on the CAS operations and on the strict boundary  *)
(* of provisioning.  ContentInv says what the owner has prepared at each   *)
(* point of its call; it is preserved because, by OwnInv, nobody else      *)
(* writes to the slot meanwhile.                                           *)
(*                                                                         *)
(* Every step keeps the types, and a client writes only to the slot of its *)
(* call (ClientFrame).  A step of a client or of management has one of a   *)
(* few effects on the owner words (Effect, MgmtEffect), from which OwnInv  *)
(* follows.  On a slot that its client owns, each step of a call keeps     *)
(* what Prepared records of the steps before it, and a publication finds   *)
(* everything prepared (the lemmas named Content...).                      *)
(***************************************************************************)
EXTENDS PortSlots, TLAPS

\* A call in progress carries its request and the address it compares with,
\* which is the owner word for as long as the client owns the slot.
CallLocals(c) ==
    /\ pc[c] \in {"claim", "scan"} \cup AttachPCs => cur[c] = req[c].ip
    /\ pc[c] \in {"claim", "scan"} \cup AttachPCs \cup PortUpPCs => req[c] \in Requests
    /\ pc[c] \in AttachPCs \cup PortUpPCs \cup DetachPCs =>
         cur[c] \in IPs /\ (owner[slot[c]] = c => innerIP[slot[c]] = cur[c])

CallInv == \A c \in Clients : CallLocals(c)

\* The owner word and the owner agree, and an owner knows that it is one.
OwnerWord ==
    \A s \in Slots :
        /\ innerIP[s] = Free <=> owner[s] = NoOne
        /\ innerIP[s] = Reserved <=> owner[s] = Control
        /\ owner[s] \in Clients => Engaged(owner[s]) /\ slot[owner[s]] = s

\* Who believes to have a slot owns it, or has lost it to management.
Believers == \A c \in Clients : Engaged(c) => owner[slot[c]] \in {c, Control}

\* Provisioning works on a Reserved slot that nobody has a call on, and the
\* cleanup of reserve --force on the slot that it took.
Boundary ==
    /\ mpc \in {"pr_down", "pr_free"} => innerIP[mslot] = Reserved /\ Quiet(mslot)
    /\ mpc = "fo_clean" => innerIP[mslot] = Reserved

OwnInv == CallInv /\ OwnerWord /\ Believers /\ OneClaimant /\ Boundary

\* Points of a call at which its slot is not published.
DownPCs == AttachPCs \cup PortUpPCs \cup {"de_opts", "de_cas"}

\* What the call of client c, owner of slot s, has prepared so far.
Prepared(c, s) ==
    /\ pc[c] \in DownPCs => flags[s] = 0
    /\ pc[c] \in AttachPCs =>
         /\ innerIP[s] = req[c].ip
         /\ want[s].ip = req[c].ip /\ want[s].cfg = req[c].cfg /\ want[s].gen = req[c].cfg
    /\ pc[c] \in AttachPCs \ {"at_ready", "at_reset", "at_rollback"} => transit[s] = req[c].cfg
    /\ pc[c] \in AttachPCs \ {"at_ready", "at_reset", "at_opts", "at_rollback"} => opts[s] = req[c].cfg
    /\ pc[c] \in {"at_stats", "at_up"} =>
         optsLen[s] = OptLen[req[c].cfg] /\ generation[s] = req[c].cfg
    /\ pc[c] \in {"held"} \cup PortUpPCs => generation[s] = want[s].gen
    /\ pc[c] \in PortUpPCs \ {"up_check", "up_opts"} => opts[s] = req[c].cfg
    /\ pc[c] \in {"up_cas", "up_verify", "up_store"} =>
         transit[s] = req[c].cfg /\ optsLen[s] = OptLen[req[c].cfg]
    /\ pc[c] \in {"up_verify", "up_store"} =>
         innerIP[s] = req[c].ip /\ want[s].ip = req[c].ip /\ want[s].cfg = req[c].cfg

\* What a slot holds: the preparations of its owner; all of them if it is up; it
\* is down if it is Free, or about to be freed by provisioning.
Content(s) ==
    /\ owner[s] \in Clients => Prepared(owner[s], s)
    /\ IsSlotAllocated(innerIP[s]) /\ flags[s] = PortFUp =>
         /\ innerIP[s] = want[s].ip
         /\ transit[s] = want[s].cfg
         /\ opts[s] = want[s].cfg
         /\ optsLen[s] = OptLen[want[s].cfg]
         /\ generation[s] = want[s].gen
    /\ innerIP[s] = Free => flags[s] = 0
    /\ mpc = "pr_free" /\ mslot = s => flags[s] = 0

ContentInv == \A s \in Slots : Content(s)

IInv == TypeOK /\ OwnInv /\ ContentInv

-----------------------------------------------------------------------------
(* Types. *)

\* There is a first slot: FindFreeSlot starts there.
LEMMA ZeroSlot == 0 \in Slots
  BY PortsAssumption DEF Slots

\* The types of the variables of the clients, of the tables and of management.
AllPCs == RestPCs \cup {"claim", "scan"} \cup AttachPCs \cup PortUpPCs \cup DetachPCs

ClientTypes ==
    /\ pc \in [Clients -> AllPCs]
    /\ slot \in [Clients -> Slots]
    /\ req \in [Clients -> Requests \cup {NoReq}]
    /\ cur \in [Clients -> IPs \cup {Free}]

\* Going on with a call, and returning from it, keep the types of the clients.
LEMMA TypeControl ==
  ASSUME TypeOK, NEW c \in Clients,
         Return(c) \/ (\E l \in AllPCs : Goto(c, l) \/ Hold(c, l))
  PROVE  ClientTypes'
<1> USE ZeroSlot DEF TypeOK, ClientTypes
<1>1. CASE Return(c)
  <2>1. "idle" \in AllPCs
    BY Zenon DEF AllPCs, RestPCs
  <2> QED
    BY <1>1, <2>1, Zenon DEF Return, NoReq, AllPCs
<1>2. ASSUME NEW l \in AllPCs, Goto(c, l) PROVE ClientTypes'
  BY <1>2, Zenon DEF Goto, AllPCs
<1>3. ASSUME NEW l \in AllPCs, Hold(c, l) PROVE ClientTypes'
  BY <1>3, Zenon DEF Hold, AllPCs
<1> QED
  BY <1>1, <1>2, <1>3, Zenon

\* Steps of Attach, of its claim and of its rollback keep the types.
LEMMA TypeAttach ==
  ASSUME TypeOK, CallInv, NEW c \in Clients, AttachStep(c)
  PROVE  TypeOK'
<1> USE ZeroSlot DEF TypeOK, RestPCs, AttachPCs, PortUpPCs, DetachPCs, Goto, Return, Hold,
        Store, PortFUp, NoReq, ownVars, fieldVars, tables, mgmtVars
<1>r. pc[c] \in {"claim", "scan"} \cup AttachPCs => req[c] \in [ip : IPs, cfg : Configs]
  BY RequestAssumption, Zenon DEF CallInv, CallLocals
<1>o. \A k \in Configs : OptLen[k] \in Nat
  BY LengthAssumption, Zenon
<1>1. CASE AttachClaim(c)
  BY <1>1, <1>r, Zenon DEF AttachClaim, TryAllocate, Swap
<1>2. CASE AttachLost(c)
  <2>1. CASE pc[c] = "scan" /\ slot[c] + 1 < N_ports
    <3>1. slot[c] + 1 \in Slots
      BY <2>1, PortsAssumption DEF Slots
    <3> QED
      BY <1>2, <2>1, <3>1, ZenonT(60) DEF AttachLost, LostCAS
  <2>2. CASE ~(pc[c] = "scan" /\ slot[c] + 1 < N_ports)
    <3>1. ClientTypes'
      BY <1>2, <2>2, TypeControl, Zenon DEF AttachLost, LostCAS
    <3> QED
      BY <1>2, <3>1, Zenon DEF AttachLost, LostCAS, ClientTypes, AllPCs
  <2> QED
    BY <2>1, <2>2, Zenon
<1>3. CASE AttachReady(c)
  BY <1>3, Zenon DEF AttachReady
<1>4. CASE AttachReset(c)
  BY <1>4, <1>r, Zenon DEF AttachReset
<1>5. CASE AttachOpts(c)
  <2>1. ClientTypes'
    BY <1>5, TypeControl, Zenon DEF AttachOpts, AllPCs
  <2>2. opts' = opts \/ opts' = [opts EXCEPT ![slot[c]] = req[c].cfg]
    BY <1>5, Zenon DEF AttachOpts
  <2>3. req[c].cfg \in Configs
    BY <1>5, <1>r, Zenon DEF AttachOpts
  <2>4. opts' \in [Slots -> Configs \cup {NoConfig}]
    BY <2>2, <2>3, Zenon
  <2> QED
    BY <1>5, <2>1, <2>4, Zenon DEF AttachOpts, ClientTypes, AllPCs
<1>6. CASE AttachMove(c)
  <2>1. ClientTypes'
    BY <1>6, TypeControl, Zenon DEF AttachMove, AllPCs
  <2>2. dev' \in [Slots -> {"none", "tap", "port", "sandbox"}]
    <3>1. dev' = dev \/ dev' = [dev EXCEPT ![slot[c]] = "sandbox"]
      BY <1>6, Zenon DEF AttachMove
    <3> QED
      BY <3>1, Zenon
  <2> QED
    BY <1>6, <2>1, <2>2, Zenon DEF AttachMove, ClientTypes, AllPCs
<1>7. CASE AttachCheck(c)
  <2>1. ClientTypes'
    BY <1>7, TypeControl, Zenon DEF AttachCheck, AllPCs
  <2> QED
    BY <1>7, <2>1, Zenon DEF AttachCheck, ClientTypes, AllPCs
<1>8. CASE AttachPublish(c)
  BY <1>8, <1>r, <1>o, Zenon DEF AttachPublish
<1>9. CASE AttachStats(c)
  BY <1>9, Zenon DEF AttachStats
<1>10. CASE AttachUp(c)
  BY <1>10, Zenon DEF AttachUp
<1>11. CASE AttachRollback(c)
  BY <1>11, Zenon DEF AttachRollback, TryRelease, Swap
<1> QED
  BY <1>1, <1>2, <1>3, <1>4, <1>5, <1>6, <1>7, <1>8, <1>9, <1>10, <1>11, Zenon DEF AttachStep

\* Steps of SetPortUp and Detach keep the types.
LEMMA TypePortUpDetach ==
  ASSUME TypeOK, CallInv, NEW c \in Clients, PortUpStep(c) \/ DetachStep(c)
  PROVE  TypeOK'
<1> USE ZeroSlot DEF TypeOK, RestPCs, AttachPCs, PortUpPCs, DetachPCs, Goto, Return, Hold,
        Store, PortFUp, NoReq, ownVars, fieldVars, tables, mgmtVars
<1>r. pc[c] \in PortUpPCs => req[c] \in [ip : IPs, cfg : Configs]
  BY RequestAssumption, Zenon DEF CallInv, CallLocals
<1>o. \A k \in Configs : OptLen[k] \in Nat
  BY LengthAssumption, Zenon
<1>1. CASE PortUpCheck(c)
  <2>1. ClientTypes'
    BY <1>1, TypeControl, Zenon DEF PortUpCheck, AllPCs
  <2> QED
    BY <1>1, <2>1, Zenon DEF PortUpCheck, ClientTypes, AllPCs
<1>2. CASE PortUpInvalid(c)
  BY <1>2, Zenon DEF PortUpInvalid
<1>3. CASE PortUpOpts(c)
  <2>1. ClientTypes'
    BY <1>3, TypeControl, Zenon DEF PortUpOpts, AllPCs
  <2>2. opts' = opts \/ opts' = [opts EXCEPT ![slot[c]] = req[c].cfg]
    BY <1>3, Zenon DEF PortUpOpts
  <2>3. req[c].cfg \in Configs
    BY <1>3, <1>r, Zenon DEF PortUpOpts
  <2>4. opts' \in [Slots -> Configs \cup {NoConfig}]
    BY <2>2, <2>3, Zenon
  <2> QED
    BY <1>3, <2>1, <2>4, Zenon DEF PortUpOpts, ClientTypes, AllPCs
<1>4. CASE PortUpFields(c)
  BY <1>4, <1>r, <1>o, Zenon DEF PortUpFields
<1>5. CASE PortUpCommit(c)
  <2>1. CASE TakenOver(c)
    <3>1. ClientTypes'
      BY <1>5, <2>1, TypeControl, Zenon DEF PortUpCommit, AllPCs
    <3> QED
      BY <1>5, <2>1, <3>1, Zenon DEF PortUpCommit, ClientTypes, AllPCs
  <2>2. CASE ~TakenOver(c)
    <3>1. req[c].ip \in IPs /\ req[c].cfg \in Configs
      BY <1>5, <1>r, Zenon DEF PortUpCommit
    <3>2. want' \in [Slots -> [ip : IPs \cup {Free}, cfg : Configs \cup {NoConfig},
                                gen : Configs \cup {NoConfig}]]
      BY <1>5, <2>2, <3>1, SMTT(30) DEF PortUpCommit, CommitAddress
    <3> QED
      BY <1>5, <2>2, <3>1, <3>2, Zenon DEF PortUpCommit, CommitAddress
  <2> QED
    BY <2>1, <2>2, Zenon
<1>6. CASE PortUpStore(c)
  BY <1>6, Zenon DEF PortUpStore
<1>7. CASE DetachMove(c)
  <2>1. ClientTypes'
    BY <1>7, TypeControl, Zenon DEF DetachMove, AllPCs
  <2>2. dev' \in [Slots -> {"none", "tap", "port", "sandbox"}]
    BY <1>7, SMTT(30) DEF DetachMove
  <2> QED
    BY <1>7, <2>1, <2>2, Zenon DEF DetachMove, ClientTypes, AllPCs
<1>8. CASE DetachCheck(c)
  <2>1. ClientTypes'
    BY <1>8, TypeControl, Zenon DEF DetachCheck, AllPCs
  <2> QED
    BY <1>8, <2>1, Zenon DEF DetachCheck, ClientTypes, AllPCs
<1>9. CASE DetachDown(c)
  BY <1>9, Zenon DEF DetachDown
<1>10. CASE DetachOpts(c)
  BY <1>10, Zenon DEF DetachOpts
<1>11. CASE DetachRelease(c)
  BY <1>11, Zenon DEF DetachRelease, TryRelease, Swap
<1> QED
  BY <1>1, <1>2, <1>3, <1>4, <1>5, <1>6, <1>7, <1>8, <1>9, <1>10, <1>11, Zenon
  DEF PortUpStep, DetachStep

\* The calls that begin, and a crash, keep the types.
LEMMA TypeClient ==
  ASSUME TypeOK, CallInv, NEW c \in Clients, ClientNext(c) \/ Crash(c)
  PROVE  TypeOK'
<1> USE ZeroSlot DEF TypeOK, RestPCs, AttachPCs, PortUpPCs, DetachPCs, Return, Hold,
        NoReq, ownVars, fieldVars, tables, mgmtVars
<1>1. CASE AttachBegin(c)
  <2>1. req' \in [Clients -> Requests \cup {NoReq}] /\ cur' \in [Clients -> IPs \cup {Free}]
    BY <1>1, RequestAssumption DEF AttachBegin
  <2>2. \E s \in Slots, l \in {"claim", "scan"} :
           slot' = [slot EXCEPT ![c] = s] /\ pc' = [pc EXCEPT ![c] = l]
    BY <1>1, Zenon DEF AttachBegin
  <2>3. slot' \in [Clients -> Slots] /\ pc' \in [Clients -> AllPCs]
    BY <2>2 DEF AllPCs
  <2> QED
    BY <1>1, <2>1, <2>3, Zenon DEF AttachBegin, AllPCs
<1>2. CASE PortUpBegin(c)
  BY <1>2 DEF PortUpBegin, IsSlotAllocated
<1>3. CASE DetachBegin(c)
  <2>1. CASE IsSlotAllocated(innerIP[slot[c]])
    BY <1>3, <2>1, ZenonT(60) DEF DetachBegin, IsSlotAllocated
  <2>2. CASE ~IsSlotAllocated(innerIP[slot[c]])
    <3>1. ClientTypes'
      BY <1>3, <2>2, TypeControl, Zenon DEF DetachBegin
    <3> QED
      BY <1>3, <3>1, Zenon DEF DetachBegin, ClientTypes, AllPCs
  <2> QED
    BY <2>1, <2>2, Zenon
<1>4. CASE Crash(c)
  <2>1. ClientTypes'
    BY <1>4, TypeControl, Zenon DEF Crash, AllPCs
  <2> QED
    BY <1>4, <2>1, Zenon DEF Crash, ClientTypes, AllPCs
<1> QED
  BY <1>1, <1>2, <1>3, <1>4, TypeAttach, TypePortUpDetach, Zenon DEF ClientNext, CallStep

\* Management commands keep the types.
LEMMA TypeMgmt ==
  ASSUME TypeOK, MgmtNext \/ MgmtCrash
  PROVE  TypeOK'
<1> USE ZeroSlot DEF TypeOK, MGoto, MStart, MReturn, Swap, PortFUp, ownVars, fieldVars, tables,
        clientVars
<1>1. ASSUME NEW s \in Slots, ReserveFree(s) PROVE TypeOK'
  BY <1>1, Zenon DEF ReserveFree, TryAllocate
<1>2. ASSUME NEW s \in Slots, ForceBegin(s) PROVE TypeOK'
  BY <1>2, Zenon DEF ForceBegin
<1>3. ASSUME NEW s \in Slots, ProvisionDevice(s) PROVE TypeOK'
  BY <1>3, ModeAssumption, Zenon DEF ProvisionDevice
<1>4. CASE ReserveReady
  BY <1>4, Zenon DEF ReserveReady
<1>5. CASE ForceRead
  BY <1>5, Zenon DEF ForceRead
<1>6. CASE ForceCAS
  BY <1>6, Zenon DEF ForceCAS, ForceWin, TryReserve
<1>7. CASE ForceClean
  BY <1>7, Zenon DEF ForceClean
<1>8. CASE UnreserveDown
  BY <1>8, Zenon DEF UnreserveDown
<1>9. CASE UnreserveFree
  BY <1>9, Zenon DEF UnreserveFree
<1>10. CASE MgmtCrash
  BY <1>10, Zenon DEF MgmtCrash
<1> QED
  BY <1>1, <1>2, <1>3, <1>4, <1>5, <1>6, <1>7, <1>8, <1>9, <1>10, Zenon DEF MgmtNext, CommandStep

-----------------------------------------------------------------------------
(* Frames. *)

\* The tables are indexed by slot, the calls by client.
Domains ==
    /\ DOMAIN innerIP = Slots /\ DOMAIN owner = Slots /\ DOMAIN want = Slots /\ DOMAIN flags = Slots
    /\ DOMAIN generation = Slots /\ DOMAIN transit = Slots /\ DOMAIN optsLen = Slots
    /\ DOMAIN statsReady = Slots /\ DOMAIN dev = Slots
    /\ DOMAIN opts = Slots /\ DOMAIN pc = Clients /\ DOMAIN req = Clients

\* Reading a table where a step has written it.
LEMMA TypeDomains == TypeOK => Domains
  BY Zenon DEF TypeOK, Domains

\* A client writes at most to the slot of its call.
Elsewhere(c) ==
    \A s \in Slots \ {slot[c]} : Stored(s)' = Stored(s) /\ owner'[s] = owner[s] /\ want'[s] = want[s]

\* Only AttachClaim, the stores, the moves and the release CAS write at all.
LEMMA ClientFrame ==
  ASSUME TypeOK, NEW c \in Clients, ClientNext(c) \/ Crash(c)
  PROVE  Elsewhere(c)
<1> USE DEF Elsewhere, Stored, Store, ownVars, fieldVars
<1>t. slot[c] \in Slots
  BY Zenon DEF TypeOK
<1>d. Domains
  BY TypeDomains, Zenon
<1>0. CASE UNCHANGED tables
  BY <1>0, Zenon DEF tables
<1>1. CASE AttachClaim(c)
  BY <1>1, <1>t, <1>d, Zenon DEF AttachClaim, TryAllocate, Swap, Domains
<1>2. CASE AttachReady(c)
  BY <1>2, <1>t, <1>d, Zenon DEF AttachReady, Domains
<1>3. CASE AttachReset(c)
  BY <1>3, <1>t, <1>d, Zenon DEF AttachReset, Domains
<1>4. CASE AttachOpts(c)
  BY <1>4, <1>t, <1>d, Zenon DEF AttachOpts, Domains
<1>5. CASE AttachMove(c)
  BY <1>5, <1>t, <1>d, Zenon DEF AttachMove, Domains
<1>6. CASE AttachPublish(c)
  BY <1>6, <1>t, <1>d, Zenon DEF AttachPublish, Domains
<1>7. CASE AttachStats(c)
  BY <1>7, <1>t, <1>d, Zenon DEF AttachStats, Domains
<1>8. CASE AttachUp(c)
  BY <1>8, <1>t, <1>d, Zenon DEF AttachUp, Domains
<1>9. CASE AttachRollback(c)
  BY <1>9, <1>t, <1>d, Zenon DEF AttachRollback, TryRelease, Swap, Domains
<1>10. CASE PortUpOpts(c)
  BY <1>10, <1>t, <1>d, Zenon DEF PortUpOpts, Domains
<1>11. CASE PortUpFields(c)
  BY <1>11, <1>t, <1>d, Zenon DEF PortUpFields, Domains
<1>12. CASE PortUpCommit(c)
  BY <1>12, <1>t, <1>d, Zenon DEF PortUpCommit, CommitAddress, Domains
<1>13. CASE PortUpStore(c)
  BY <1>13, <1>t, <1>d, Zenon DEF PortUpStore, Domains
<1>14. CASE DetachMove(c)
  BY <1>14, <1>t, <1>d, Zenon DEF DetachMove, Domains
<1>15. CASE DetachDown(c)
  BY <1>15, <1>t, <1>d, Zenon DEF DetachDown, Domains
<1>16. CASE DetachOpts(c)
  BY <1>16, <1>t, <1>d, Zenon DEF DetachOpts, Domains
<1>17. CASE DetachRelease(c)
  BY <1>17, <1>t, <1>d, Zenon DEF DetachRelease, TryRelease, Swap, Domains
<1>18. CASE AttachBegin(c) \/ AttachLost(c) \/ AttachCheck(c) \/ PortUpBegin(c) \/ PortUpCheck(c)
            \/ PortUpInvalid(c) \/ DetachBegin(c) \/ DetachCheck(c) \/ Crash(c)
  BY <1>0, <1>18, Zenon DEF AttachBegin, AttachLost, LostCAS, AttachCheck, PortUpBegin, PortUpCheck,
                     PortUpInvalid, DetachBegin, DetachCheck, Crash
<1> QED
  BY Zenon, <1>1, <1>2, <1>3, <1>4, <1>5, <1>6, <1>7, <1>8, <1>9, <1>10, <1>11, <1>12, <1>13, <1>14,
     <1>15, <1>16, <1>17, <1>18, Zenon
  DEF ClientNext, CallStep, AttachStep, PortUpStep, DetachStep

\* A client that has won no slot writes nothing before its CAS.
LEMMA DisengagedWrites ==
  ASSUME NEW c \in Clients, ClientNext(c) \/ Crash(c), ~Engaged(c), ~AttachClaim(c)
  PROVE  UNCHANGED tables
<1>1. AttachBegin(c) \/ AttachLost(c) \/ Crash(c)
  BY Zenon DEF ClientNext, CallStep, AttachStep, PortUpStep, DetachStep, Engaged, AttachReady,
     AttachReset, AttachOpts, AttachMove, AttachCheck, AttachPublish, AttachStats, AttachUp,
     AttachRollback, PortUpBegin, PortUpCheck, PortUpInvalid, PortUpOpts, PortUpFields, PortUpCommit,
     PortUpStore, DetachBegin, DetachMove, DetachCheck, DetachDown, DetachOpts, DetachRelease, Store,
     AttachPCs, PortUpPCs, DetachPCs
<1> QED
  BY <1>1, Zenon DEF AttachBegin, AttachLost, LostCAS, Crash

-----------------------------------------------------------------------------
(* Ownership. *)

\* What a step of client c can do to the ownership of slots.
Keeps(c) ==
    /\ UNCHANGED <<innerIP, owner>>
    /\ \/ ~Engaged(c)' /\ (Engaged(c) => owner[slot[c]] # c)
       \/ Engaged(c) /\ Engaged(c)' /\ slot'[c] = slot[c]

Wins(c) ==
    /\ ~Engaged(c) /\ Engaged(c)' /\ slot'[c] = slot[c]
    /\ innerIP[slot[c]] = Free
    /\ innerIP' = [innerIP EXCEPT ![slot[c]] = cur[c]] /\ cur[c] \in IPs
    /\ owner' = [owner EXCEPT ![slot[c]] = c]

Releases(c) ==
    /\ Engaged(c) /\ ~Engaged(c)'
    /\ owner[slot[c]] = c
    /\ innerIP' = [innerIP EXCEPT ![slot[c]] = Free]
    /\ owner' = [owner EXCEPT ![slot[c]] = NoOne]

Readdresses(c) ==
    /\ Engaged(c) /\ Engaged(c)' /\ slot'[c] = slot[c]
    /\ owner[slot[c]] = c
    /\ \E ip \in IPs : innerIP' = [innerIP EXCEPT ![slot[c]] = ip]
    /\ UNCHANGED owner

OthersKeep(c) ==
    /\ \A d \in Clients \ {c} :
         pc'[d] = pc[d] /\ slot'[d] = slot[d] /\ req'[d] = req[d] /\ cur'[d] = cur[d]
    /\ UNCHANGED mgmtVars

Effect(c) ==
    /\ OthersKeep(c)
    /\ CallLocals(c)'
    /\ Keeps(c) \/ Wins(c) \/ Releases(c) \/ Readdresses(c)

\* A release CAS of a call frees the slot of its owner, or fails because
\* management took the slot over.
LEMMA ReleaseEffect ==
  ASSUME TypeOK, OwnInv, NEW c \in Clients,
         pc[c] \in AttachPCs \cup DetachPCs,
         TryRelease(slot[c], cur[c]), Return(c), UNCHANGED mgmtVars
  PROVE  Effect(c)
<1>1. slot[c] \in Slots /\ cur[c] \in IPs
  BY Zenon DEF TypeOK, OwnInv, CallInv, CallLocals
<1>2. Engaged(c) /\ ~Engaged(c)'
  BY Zenon DEF Engaged, Return, TypeOK, AttachPCs, PortUpPCs, DetachPCs
<1>3. OthersKeep(c) /\ CallLocals(c)'
  BY Zenon DEF OthersKeep, CallLocals, Return, TypeOK, AttachPCs, PortUpPCs, DetachPCs
<1>4. owner[slot[c]] \in {c, Control}
  BY <1>2, Zenon DEF OwnInv, Believers
<1>5. CASE innerIP[slot[c]] = cur[c]
  <2>1. owner[slot[c]] = c
    BY <1>1, <1>4, <1>5, SentinelAssumption, Zenon DEF OwnInv, OwnerWord
  <2> QED
    BY <1>2, <1>3, <1>5, <2>1, Zenon DEF Effect, Releases, TryRelease, Swap
<1>6. CASE innerIP[slot[c]] # cur[c]
  <2>1. owner[slot[c]] # c
    BY <1>6, Zenon DEF OwnInv, CallInv, CallLocals
  <2> QED
    BY <1>2, <1>3, <1>6, <2>1, Zenon DEF Effect, Keeps, TryRelease
<1> QED
  BY <1>5, <1>6, Zenon

\* A step of a call that leaves the owner words alone and goes on with it.
LEMMA GotoEffect ==
  ASSUME TypeOK, OwnInv, NEW c \in Clients, NEW l, Goto(c, l),
         \/ pc[c] \in AttachPCs /\ l \in AttachPCs
         \/ pc[c] \in PortUpPCs /\ l \in PortUpPCs
         \/ pc[c] \in DetachPCs /\ l \in DetachPCs,
         UNCHANGED <<innerIP, owner, mgmtVars>>
  PROVE  Effect(c)
<1>1. Engaged(c) /\ Engaged(c)' /\ slot'[c] = slot[c]
  BY Zenon DEF Engaged, Goto, TypeOK
<1>2. OthersKeep(c)
  BY Zenon DEF OthersKeep, Goto, TypeOK
<1>3. CallLocals(c)'
  BY Zenon DEF CallLocals, Goto, TypeOK, OwnInv, CallInv, AttachPCs, PortUpPCs, DetachPCs
<1> QED
  BY <1>1, <1>2, <1>3, Zenon DEF Effect, Keeps

\* A return that keeps the handle, and one that gives up a slot that
\* management has taken over.
LEMMA ReturnEffect ==
  ASSUME TypeOK, OwnInv, NEW c \in Clients,
         \/ Engaged(c) /\ (Hold(c, "held") \/ Hold(c, "partial"))
         \/ Return(c) /\ (Engaged(c) => owner[slot[c]] # c),
         UNCHANGED <<innerIP, owner, mgmtVars>>
  PROVE  Effect(c)
<1>1. CASE Engaged(c) /\ (Hold(c, "held") \/ Hold(c, "partial"))
  <2>1. Engaged(c)' /\ slot'[c] = slot[c]
    BY <1>1, Zenon DEF Engaged, Hold, TypeOK
  <2>2. OthersKeep(c) /\ CallLocals(c)'
    BY <1>1, ZenonT(60) DEF OthersKeep, CallLocals, Hold, TypeOK, AttachPCs, PortUpPCs, DetachPCs
  <2> QED
    BY <1>1, <2>1, <2>2, Zenon DEF Effect, Keeps
<1>2. CASE Return(c) /\ (Engaged(c) => owner[slot[c]] # c)
  <2>1. ~Engaged(c)'
    BY <1>2, Zenon DEF Engaged, Return, TypeOK, AttachPCs, PortUpPCs, DetachPCs
  <2>2. OthersKeep(c) /\ CallLocals(c)'
    BY <1>2, Zenon DEF OthersKeep, CallLocals, Return, TypeOK, AttachPCs, PortUpPCs, DetachPCs
  <2> QED
    BY <1>2, <2>1, <2>2, Zenon DEF Effect, Keeps
<1> QED
  BY <1>1, <1>2, Zenon

\* Every step of Attach has one of the effects.
LEMMA AttachEffect ==
  ASSUME TypeOK, OwnInv, NEW c \in Clients, AttachBegin(c) \/ AttachStep(c)
  PROVE  Effect(c)
<1>t. slot[c] \in Slots
  BY Zenon DEF TypeOK
<1>e. pc[c] \in AttachPCs => Engaged(c)
  BY Zenon DEF Engaged
<1>1. CASE AttachBegin(c)
  <2>1. /\ pc'[c] \in {"claim", "scan"}
        /\ req'[c] \in Requests /\ cur'[c] = req'[c].ip
    BY <1>1 DEF AttachBegin, TypeOK
  <2>2. CallLocals(c)'
    BY <2>1, Zenon DEF CallLocals, AttachPCs, PortUpPCs, DetachPCs
  <2>3. OthersKeep(c)
    BY <1>1, Zenon DEF AttachBegin, OthersKeep, TypeOK
  <2>4. ~Engaged(c) /\ ~Engaged(c)'
    BY <1>1, <2>1, Zenon DEF AttachBegin, Engaged, AttachPCs, PortUpPCs, DetachPCs
  <2>5. UNCHANGED <<innerIP, owner>>
    BY <1>1, Zenon DEF AttachBegin, tables, ownVars
  <2> QED
    BY <2>2, <2>3, <2>4, <2>5, Zenon DEF Effect, Keeps
<1>2. CASE AttachClaim(c)
  <2>1. cur[c] = req[c].ip /\ req[c] \in Requests
    BY <1>2, Zenon DEF AttachClaim, OwnInv, CallInv, CallLocals
  <2>2. cur[c] \in IPs
    BY <2>1, RequestAssumption, Zenon
  <2>3. ~Engaged(c)
    BY <1>2, Zenon DEF AttachClaim, Engaged, AttachPCs, PortUpPCs, DetachPCs
  <2>4. pc'[c] = "at_ready" /\ slot' = slot /\ cur' = cur /\ req' = req
    BY <1>2, Zenon DEF AttachClaim, Goto, TypeOK
  <2>5. Engaged(c)'
    BY <2>4, Zenon DEF Engaged, AttachPCs
  <2>6. Wins(c)
    BY <1>2, <2>2, <2>3, <2>4, <2>5, Zenon DEF AttachClaim, TryAllocate, Swap, Wins
  <2>7. CallLocals(c)'
    BY <2>1, <2>2, <2>4, <2>6, <1>t, Zenon DEF CallLocals, Wins, TypeOK
  <2>8. OthersKeep(c)
    BY <1>2, Zenon DEF AttachClaim, Goto, OthersKeep, TypeOK
  <2> QED
    BY <2>6, <2>7, <2>8, Zenon DEF Effect
<1>3. CASE AttachLost(c)
  <2>0. UNCHANGED <<innerIP, owner, mgmtVars>> /\ ~Engaged(c)
    BY <1>3, Zenon DEF AttachLost, LostCAS, tables, ownVars, Engaged, AttachPCs, PortUpPCs, DetachPCs
  <2>1. CASE Return(c)
    BY <2>0, <2>1, ReturnEffect, Zenon
  <2>2. CASE ~Return(c)
    <3>1. /\ slot' = [slot EXCEPT ![c] = slot[c] + 1]
          /\ pc' = pc /\ req' = req /\ cur' = cur
      BY <1>3, <2>2, Zenon DEF AttachLost, LostCAS
    <3>2. ~Engaged(c)'
      BY <2>0, <3>1, Zenon DEF Engaged
    <3>3. OthersKeep(c)
      BY <2>0, <3>1, Zenon DEF OthersKeep, TypeOK
    <3>4. CallLocals(c)'
      BY <1>3, <3>1, Zenon DEF AttachLost, LostCAS, CallLocals, OwnInv, CallInv,
                        AttachPCs, PortUpPCs, DetachPCs
    <3> QED
      BY <2>0, <3>2, <3>3, <3>4, Zenon DEF Effect, Keeps
  <2> QED
    BY <2>1, <2>2, Zenon
<1>4. CASE AttachReady(c)
  BY <1>4, GotoEffect, Zenon DEF AttachReady, Store, ownVars, AttachPCs
<1>5. CASE AttachReset(c)
  BY <1>5, GotoEffect, Zenon DEF AttachReset, Store, ownVars, AttachPCs
<1>6. CASE AttachOpts(c)
  BY <1>6, GotoEffect, Zenon DEF AttachOpts, ownVars, AttachPCs
<1>7. CASE AttachMove(c)
  BY <1>7, GotoEffect, Zenon DEF AttachMove, ownVars, AttachPCs
<1>8. CASE AttachCheck(c)
  <2>1. CASE TakenOver(c)
    <3>1. owner[slot[c]] # c
      BY <1>8, <2>1, Zenon DEF AttachCheck, TakenOver, OwnInv, CallInv, CallLocals, AttachPCs
    <3> QED
      BY <1>8, <2>1, <3>1, ReturnEffect, Zenon DEF AttachCheck, tables, ownVars
  <2>2. CASE ~TakenOver(c)
    BY <1>8, <2>2, GotoEffect, Zenon DEF AttachCheck, tables, ownVars, AttachPCs
  <2> QED
    BY <2>1, <2>2, Zenon
<1>9. CASE AttachPublish(c)
  BY <1>9, GotoEffect, Zenon DEF AttachPublish, Store, ownVars, AttachPCs
<1>10. CASE AttachStats(c)
  BY <1>10, GotoEffect, Zenon DEF AttachStats, Store, ownVars, AttachPCs
<1>11. CASE AttachUp(c)
  BY <1>11, <1>e, ReturnEffect, Zenon DEF AttachUp, ownVars, AttachPCs
<1>12. CASE AttachRollback(c)
  BY <1>12, ReleaseEffect, Zenon DEF AttachRollback, AttachPCs
<1> QED
  BY <1>1, <1>2, <1>3, <1>4, <1>5, <1>6, <1>7, <1>8, <1>9, <1>10, <1>11, <1>12, Zenon DEF AttachStep

\* Every step of SetPortUp, and of a Detach, and a crash, has one of the effects.
LEMMA PortUpDetachEffect ==
  ASSUME TypeOK, OwnInv, NEW c \in Clients,
         PortUpBegin(c) \/ PortUpStep(c) \/ DetachBegin(c) \/ DetachStep(c) \/ Crash(c)
  PROVE  Effect(c)
<1>t. slot[c] \in Slots
  BY Zenon DEF TypeOK
<1>e. pc[c] \in {"held", "partial"} \cup AttachPCs \cup PortUpPCs \cup DetachPCs => Engaged(c)
  BY Zenon DEF Engaged
<1>w. pc[c] \in DetachPCs \cup PortUpPCs /\ TakenOver(c) => owner[slot[c]] # c
  BY Zenon DEF TakenOver, OwnInv, CallInv, CallLocals
<1>1. CASE PortUpBegin(c)
  <2>1. /\ pc'[c] = "up_check" /\ slot' = slot
        /\ req'[c] \in Requests /\ cur'[c] = innerIP[slot[c]]
        /\ UNCHANGED <<innerIP, owner, mgmtVars>>
    BY <1>1, Zenon DEF PortUpBegin, TypeOK, tables, ownVars
  <2>2. innerIP[slot[c]] \in IPs
    BY <1>1, <1>t, Zenon DEF PortUpBegin, IsSlotAllocated, TypeOK
  <2>3. CallLocals(c)'
    BY <2>1, <2>2, Zenon DEF CallLocals, AttachPCs, PortUpPCs, DetachPCs
  <2>4. OthersKeep(c)
    BY <1>1, Zenon DEF PortUpBegin, OthersKeep, TypeOK
  <2>5. Engaged(c) /\ Engaged(c)'
    BY <1>1, <2>1, Zenon DEF PortUpBegin, Engaged, PortUpPCs
  <2> QED
    BY <2>1, <2>3, <2>4, <2>5, Zenon DEF Effect, Keeps
<1>2. CASE PortUpCheck(c)
  <2>1. UNCHANGED <<innerIP, owner, mgmtVars>> /\ pc[c] \in PortUpPCs
    BY <1>2, Zenon DEF PortUpCheck, tables, ownVars, PortUpPCs
  <2>2. Hold(c, "held") \/ \E l \in PortUpPCs : Goto(c, l)
    BY <1>2, Zenon DEF PortUpCheck, PortUpPCs
  <2> QED
    BY <2>1, <2>2, <1>e, GotoEffect, ReturnEffect, Zenon
<1>3. CASE PortUpInvalid(c)
  BY <1>3, <1>e, ReturnEffect, Zenon DEF PortUpInvalid, tables, ownVars, PortUpPCs
<1>4. CASE PortUpOpts(c)
  BY <1>4, <1>e, GotoEffect, ReturnEffect, Zenon DEF PortUpOpts, ownVars, PortUpPCs
<1>5. CASE PortUpFields(c)
  BY <1>5, GotoEffect, Zenon DEF PortUpFields, Store, ownVars, PortUpPCs
<1>6. CASE PortUpCommit(c)
  <2>0. pc[c] \in PortUpPCs
    BY <1>6, Zenon DEF PortUpCommit, PortUpPCs
  <2>1. CASE TakenOver(c)
    BY <1>6, <2>0, <2>1, <1>e, ReturnEffect, Zenon DEF PortUpCommit, PortUpPCs
  <2>2. CASE ~TakenOver(c)
    <3>1. /\ innerIP' = [innerIP EXCEPT ![slot[c]] = req[c].ip]
          /\ pc'[c] = "up_verify" /\ cur'[c] = req[c].ip
          /\ UNCHANGED <<slot, req, owner, mgmtVars>>
      BY <1>6, <2>2, Zenon DEF PortUpCommit, CommitAddress, TypeOK
    <3>2. req[c] \in Requests /\ req[c].ip \in IPs
      BY <2>0, RequestAssumption, Zenon DEF OwnInv, CallInv, CallLocals
    <3>3. innerIP[slot[c]] \in IPs
      BY <2>0, <2>2, Zenon DEF TakenOver, OwnInv, CallInv, CallLocals
    <3>4. owner[slot[c]] = c
      BY <3>3, <2>0, <1>e, <1>t, SentinelAssumption, Zenon DEF OwnInv, Believers, OwnerWord
    <3>5. Readdresses(c)
      BY <3>1, <3>2, <3>4, <2>0, <1>e, Zenon DEF Readdresses, Engaged, PortUpPCs
    <3>6. CallLocals(c)'
      BY <3>1, <3>2, <1>t, Zenon DEF CallLocals, TypeOK, AttachPCs, PortUpPCs, DetachPCs
    <3>7. OthersKeep(c)
      BY <1>6, <2>2, Zenon DEF PortUpCommit, CommitAddress, OthersKeep, TypeOK
    <3> QED
      BY <3>5, <3>6, <3>7, Zenon DEF Effect
  <2> QED
    BY <2>1, <2>2, Zenon
<1>7. CASE PortUpStore(c)
  BY <1>7, <1>e, ReturnEffect, Zenon DEF PortUpStore, ownVars, PortUpPCs
<1>8. CASE DetachBegin(c)
  <2>0. UNCHANGED <<innerIP, owner, mgmtVars>> /\ Engaged(c)
    BY <1>8, <1>e, Zenon DEF DetachBegin, tables, ownVars
  <2>1. CASE IsSlotAllocated(innerIP[slot[c]])
    <3>1. /\ pc'[c] = "de_move" /\ slot' = slot /\ cur'[c] = innerIP[slot[c]]
      BY <1>8, <2>1, Zenon DEF DetachBegin, TypeOK
    <3>2. innerIP[slot[c]] \in IPs
      BY <2>1, <1>t, Zenon DEF IsSlotAllocated, TypeOK
    <3>3. CallLocals(c)'
      BY <2>0, <3>1, <3>2, Zenon DEF CallLocals, AttachPCs, PortUpPCs, DetachPCs
    <3>4. OthersKeep(c)
      BY <1>8, <2>1, Zenon DEF DetachBegin, OthersKeep, TypeOK
    <3> QED
      BY <2>0, <3>1, <3>3, <3>4, Zenon DEF Effect, Keeps, Engaged, DetachPCs
  <2>2. CASE ~IsSlotAllocated(innerIP[slot[c]])
    <3>1. owner[slot[c]] # c
      BY <2>2, <1>t, OwnerAssumption, Zenon DEF IsSlotAllocated, OwnInv, OwnerWord
    <3> QED
      BY <1>8, <2>0, <2>2, <3>1, ReturnEffect, Zenon DEF DetachBegin
  <2> QED
    BY <2>1, <2>2, Zenon
<1>9. CASE DetachMove(c)
  BY <1>9, <1>e, GotoEffect, ReturnEffect, Zenon DEF DetachMove, ownVars, DetachPCs
<1>10. CASE DetachCheck(c)
  <2>1. UNCHANGED <<innerIP, owner, mgmtVars>> /\ pc[c] \in DetachPCs
    BY <1>10, Zenon DEF DetachCheck, tables, ownVars, DetachPCs
  <2>2. CASE TakenOver(c)
    BY <1>10, <2>1, <2>2, <1>w, ReturnEffect, Zenon DEF DetachCheck
  <2>3. CASE ~TakenOver(c)
    BY <1>10, <2>1, <2>3, GotoEffect, Zenon DEF DetachCheck, DetachPCs
  <2> QED
    BY <2>2, <2>3, Zenon
<1>11. CASE DetachDown(c)
  BY <1>11, GotoEffect, Zenon DEF DetachDown, Store, ownVars, DetachPCs
<1>12. CASE DetachOpts(c)
  BY <1>12, GotoEffect, Zenon DEF DetachOpts, Store, ownVars, DetachPCs
<1>13. CASE DetachRelease(c)
  BY <1>13, ReleaseEffect, Zenon DEF DetachRelease, DetachPCs
<1>14. CASE Crash(c)
  <2>1. UNCHANGED <<innerIP, owner, mgmtVars>>
    BY <1>14, Zenon DEF Crash, tables, ownVars
  <2>2. CASE pc[c] \in {"claim", "scan"} /\ Return(c)
    BY <2>1, <2>2, ReturnEffect, Zenon DEF Engaged, AttachPCs, PortUpPCs, DetachPCs
  <2>3. CASE pc[c] \in AttachPCs \cup PortUpPCs \cup DetachPCs
    BY <1>14, <2>1, <2>3, <1>e, ReturnEffect, Zenon DEF Crash, AttachPCs, PortUpPCs, DetachPCs
  <2> QED
    BY <1>14, <2>2, <2>3, Zenon DEF Crash
<1> QED
  BY <1>1, <1>2, <1>3, <1>4, <1>5, <1>6, <1>7, <1>8, <1>9, <1>10, <1>11, <1>12, <1>13, <1>14, Zenon
  DEF PortUpStep, DetachStep

\* Every step of a client has one of the effects.
LEMMA ClientEffect ==
  ASSUME TypeOK, OwnInv, NEW c \in Clients, ClientNext(c) \/ Crash(c)
  PROVE  Effect(c)
  BY AttachEffect, PortUpDetachEffect, Zenon DEF ClientNext, CallStep

\* No call takes a slot away from management.
LEMMA KeepsReserved ==
  ASSUME TypeOK, OwnInv, NEW c \in Clients, Effect(c), NEW s \in Slots, innerIP[s] = Reserved
  PROVE  innerIP'[s] = Reserved
<1>1. owner[s] # c /\ Reserved # Free /\ slot[c] \in Slots
  BY SentinelAssumption, OwnerAssumption DEF OwnInv, OwnerWord, TypeOK
<1> QED
  BY <1>1, Zenon DEF Effect, Keeps, Wins, Releases, Readdresses, TypeOK

\* A step of a client preserves the ownership invariant, by its effect alone.
LEMMA OwnClient ==
  ASSUME TypeOK, TypeOK', OwnInv, NEW c \in Clients, Effect(c)
  PROVE  OwnInv'
<1>t. slot[c] \in Slots /\ slot'[c] \in Slots /\ \A d \in Clients : slot[d] \in Slots
  BY Zenon DEF TypeOK
<1>o. \A d \in Clients \ {c} : (Engaged(d)' <=> Engaged(d)) /\ slot'[d] = slot[d]
  BY Zenon DEF Effect, OthersKeep, Engaged
<1>a. \A d \in Clients \ {c} : d # NoOne /\ d # Control /\ d # c
  BY OwnerAssumption, Zenon
<1>b. c # NoOne /\ c # Control /\ NoOne # Control
  BY OwnerAssumption, Zenon
<1>w. Wins(c) => owner[slot[c]] = NoOne /\ Quiet(slot[c])
  BY <1>t, OwnerAssumption DEF Wins, OwnInv, OwnerWord, Believers, Quiet
<1>1. CallInv'
  <2>1. ASSUME NEW d \in Clients \ {c} PROVE CallLocals(d)'
    <3>1. CallLocals(d) /\ slot[d] \in Slots
      BY <1>t, Zenon DEF OwnInv, CallInv
    <3>2. owner'[slot[d]] = d => owner[slot[d]] = d /\ innerIP'[slot[d]] = innerIP[slot[d]]
      BY <1>t, <1>a, <1>b, <3>1 DEF Effect, Keeps, Wins, Releases, Readdresses, TypeOK
    <3> QED
      BY <3>1, <3>2, Zenon DEF CallLocals, Effect, OthersKeep
  <2> QED
    BY <2>1, Zenon DEF CallInv, Effect
<1>2. OwnerWord'
  <2> SUFFICES ASSUME NEW s \in Slots
               PROVE  /\ innerIP'[s] = Free <=> owner'[s] = NoOne
                      /\ innerIP'[s] = Reserved <=> owner'[s] = Control
                      /\ owner'[s] \in Clients => Engaged(owner[s])' /\ slot'[owner'[s]] = s
    BY Zenon DEF OwnerWord, Engaged
  <2>0. /\ innerIP[s] = Free <=> owner[s] = NoOne
        /\ innerIP[s] = Reserved <=> owner[s] = Control
        /\ owner[s] \in Clients => Engaged(owner[s]) /\ slot[owner[s]] = s
    BY Zenon DEF OwnInv, OwnerWord
  <2>1. CASE Keeps(c)
    <3>1. owner[s] = c => Engaged(c)' /\ slot'[c] = s
      BY <2>0, <2>1, Zenon DEF Keeps
    <3> QED
      BY <2>0, <2>1, <3>1, <1>o, Zenon DEF Keeps, Engaged
  <2>2. CASE Wins(c)
    BY <2>0, <2>2, <1>w, <1>t, <1>o, <1>b, SentinelAssumption, ZenonT(60) DEF Wins, Engaged, TypeOK, Quiet
  <2>3. CASE Releases(c)
    BY <2>0, <2>3, <1>t, <1>o, <1>b, SentinelAssumption, OwnerAssumption, ZenonT(60) DEF Releases, Engaged, TypeOK
  <2>4. CASE Readdresses(c)
    BY <2>0, <2>4, <1>t, <1>o, <1>b, SentinelAssumption DEF Readdresses, Engaged, TypeOK
  <2> QED
    BY <2>1, <2>2, <2>3, <2>4, Zenon DEF Effect
<1>3. Believers'
  <2> SUFFICES ASSUME NEW d \in Clients, Engaged(d)'
               PROVE  owner'[slot'[d]] \in {d, Control}
    BY Zenon DEF Believers
  <2>1. CASE d = c
    BY <2>1, <1>t, Zenon DEF Effect, Keeps, Wins, Releases, Readdresses, OwnInv, Believers, TypeOK
  <2>2. CASE d # c
    <3>1. Engaged(d) /\ slot'[d] = slot[d] /\ owner[slot[d]] \in {d, Control}
      BY <2>2, <1>o, Zenon DEF OwnInv, Believers
    <3> QED
      BY <3>1, <2>2, <1>w, <1>t, <1>b DEF Effect, Keeps, Wins, Releases, Readdresses, TypeOK, Quiet
  <2> QED
    BY <2>1, <2>2, Zenon
<1>4. OneClaimant'
  <2> SUFFICES ASSUME NEW d \in Clients \ {c}, Engaged(c)', Engaged(d)', slot'[c] = slot'[d]
               PROVE  FALSE
    BY <1>o, Zenon DEF OneClaimant, OwnInv
  <2>1. Engaged(d) /\ slot[d] = slot'[c]
    BY <1>o, Zenon
  <2> QED
    BY <2>1, <1>w, Zenon DEF Effect, Keeps, Wins, Releases, Readdresses, OwnInv, OneClaimant, Quiet
<1>5. Boundary'
  <2>1. mpc' = mpc /\ mslot' = mslot /\ mslot \in Slots
    BY Zenon DEF Effect, OthersKeep, mgmtVars, TypeOK
  <2>2. innerIP[mslot] = Reserved => innerIP'[mslot] = Reserved
    BY <2>1, KeepsReserved, Zenon
  <2>3. ASSUME innerIP[mslot] = Reserved, Quiet(mslot)
        PROVE  ~(Engaged(c)' /\ slot'[c] = mslot)
    BY <2>3, SentinelAssumption, Zenon DEF Effect, Keeps, Wins, Releases, Readdresses, Quiet
  <2>4. innerIP[mslot] = Reserved /\ Quiet(mslot) => Quiet(mslot)'
    BY <2>1, <2>3, <1>o, Zenon DEF Quiet
  <2> QED
    BY <2>1, <2>2, <2>4, Zenon DEF OwnInv, Boundary
<1> QED
  BY <1>1, <1>2, <1>3, <1>4, <1>5, Zenon DEF OwnInv

\* What a step of management can do to the ownership of slots.
Reserves(s) ==
    /\ innerIP' = [innerIP EXCEPT ![s] = Reserved]
    /\ owner' = [owner EXCEPT ![s] = Control]

Unreserves(s) ==
    /\ Quiet(s) /\ mpc = "pr_free" /\ mslot = s
    /\ innerIP' = [innerIP EXCEPT ![s] = Free]
    /\ owner' = [owner EXCEPT ![s] = NoOne]

MgmtEffect ==
    /\ UNCHANGED clientVars
    /\ UNCHANGED <<innerIP, owner>> \/ \E s \in Slots : Reserves(s) \/ Unreserves(s)

\* Every step of management has the effect, and respects the boundary.
LEMMA MgmtHasEffect ==
  ASSUME TypeOK, OwnInv, MgmtNext \/ MgmtCrash
  PROVE  MgmtEffect /\ Boundary'
<1> DEFINE Idle == mpc' \notin {"pr_down", "pr_free", "fo_clean"}
<1> USE DEF MStart, MGoto, MReturn, Swap, tables, ownVars
<1>0. mslot \in Slots
  BY Zenon DEF TypeOK
<1>i. Idle => Boundary'
  BY Zenon DEF Boundary
<1>1. ASSUME NEW s \in Slots, ReserveFree(s) PROVE MgmtEffect /\ Boundary'
  <2>1. Idle /\ UNCHANGED clientVars /\ Reserves(s)
    BY <1>1, Zenon DEF ReserveFree, TryAllocate, Reserves
  <2> QED
    BY <2>1, <1>i, Zenon DEF MgmtEffect
<1>2. ASSUME NEW s \in Slots, ForceBegin(s) PROVE MgmtEffect /\ Boundary'
  <2>1. Idle /\ UNCHANGED clientVars /\ UNCHANGED <<innerIP, owner>>
    BY <1>2, Zenon DEF ForceBegin
  <2> QED
    BY <2>1, <1>i, Zenon DEF MgmtEffect
<1>3. ASSUME NEW s \in Slots, ProvisionDevice(s) PROVE MgmtEffect /\ Boundary'
  <2>1. /\ UNCHANGED clientVars /\ UNCHANGED <<innerIP, owner>>
        /\ mslot' = s /\ innerIP[s] = Reserved /\ Quiet(s)
    BY <1>3, Zenon DEF ProvisionDevice
  <2> QED
    BY <2>1, Zenon DEF MgmtEffect, Boundary, Quiet, Engaged, clientVars
<1>4. CASE ReserveReady
  <2>1. Idle /\ UNCHANGED clientVars /\ UNCHANGED <<innerIP, owner>>
    BY <1>4, Zenon DEF ReserveReady
  <2> QED
    BY <2>1, <1>i, Zenon DEF MgmtEffect
<1>5. CASE ForceRead
  <2>1. Idle /\ UNCHANGED clientVars /\ UNCHANGED <<innerIP, owner>>
    BY <1>5, Zenon DEF ForceRead
  <2> QED
    BY <2>1, <1>i, Zenon DEF MgmtEffect
<1>6. CASE ForceCAS
  <2>1. CASE ForceWin
    <3>1. Reserves(mslot) /\ UNCHANGED clientVars
      BY <1>6, <2>1, Zenon DEF ForceCAS, ForceWin, TryReserve, Reserves
    <3>2. innerIP'[mslot] = Reserved
      BY <1>0, <3>1, Zenon DEF Reserves, TypeOK
    <3>3. Idle \/ (mpc' = "fo_clean" /\ mslot' = mslot)
      BY <2>1, Zenon DEF ForceWin
    <3> QED
      <4>1. MgmtEffect
        BY <1>0, <3>1, Zenon DEF MgmtEffect
      <4>2. CASE mpc' = "fo_clean" /\ mslot' = mslot
        BY <3>2, <4>1, <4>2, Zenon DEF Boundary
      <4> QED
        BY <1>i, <3>3, <4>1, <4>2, Zenon
  <2>2. CASE ~ForceWin
    <3>1. Idle /\ UNCHANGED clientVars /\ UNCHANGED <<innerIP, owner>>
      BY <1>6, <2>2, Zenon DEF ForceCAS
    <3> QED
      BY <3>1, <1>i, Zenon DEF MgmtEffect
  <2> QED
    BY <2>1, <2>2, Zenon
<1>7. CASE ForceClean
  <2>1. Idle /\ UNCHANGED clientVars /\ UNCHANGED <<innerIP, owner>>
    BY <1>7, Zenon DEF ForceClean
  <2> QED
    BY <2>1, <1>i, Zenon DEF MgmtEffect
<1>8. CASE UnreserveDown
  <2>1. /\ UNCHANGED clientVars /\ UNCHANGED <<innerIP, owner>> /\ mslot' = mslot
        /\ mpc = "pr_down"
    BY <1>8, Zenon DEF UnreserveDown
  <2> QED
    BY <2>1, Zenon DEF MgmtEffect, OwnInv, Boundary, Quiet, Engaged, clientVars
<1>9. CASE UnreserveFree
  <2>1. Idle /\ UNCHANGED clientVars /\ mpc = "pr_free"
    BY <1>9, Zenon DEF UnreserveFree
  <2>2. Quiet(mslot)
    BY <2>1, Zenon DEF OwnInv, Boundary
  <2>3. Unreserves(mslot)
    BY <1>9, <2>1, <2>2, Zenon DEF UnreserveFree, Unreserves
  <2> QED
    BY <2>1, <2>3, <1>0, <1>i, Zenon DEF MgmtEffect
<1>10. CASE MgmtCrash
  <2>1. Idle /\ UNCHANGED clientVars /\ UNCHANGED <<innerIP, owner>>
    BY <1>10, Zenon DEF MgmtCrash
  <2> QED
    BY <2>1, <1>i, Zenon DEF MgmtEffect
<1> QED
  BY <1>1, <1>2, <1>3, <1>4, <1>5, <1>6, <1>7, <1>8, <1>9, <1>10, Zenon DEF MgmtNext, CommandStep

\* A step of management preserves the ownership invariant.
LEMMA OwnMgmt ==
  ASSUME TypeOK, OwnInv, MgmtEffect, Boundary'
  PROVE  OwnInv'
<1>0. UNCHANGED <<pc, slot, req, cur>>
  BY Zenon DEF MgmtEffect, clientVars
<1>e. \A d \in Clients : (Engaged(d)' <=> Engaged(d)) /\ slot'[d] = slot[d] /\ slot[d] \in Slots
  BY <1>0, Zenon DEF Engaged, TypeOK
<1>t. innerIP \in [Slots -> IPs \cup {Free, Reserved}] /\ owner \in [Slots -> Clients \cup {NoOne, Control}]
  BY Zenon DEF TypeOK
<1>a. \A d \in Clients : d # NoOne /\ d # Control
  BY OwnerAssumption, Zenon
<1>k. \A s \in Slots : \/ innerIP'[s] = innerIP[s] /\ owner'[s] = owner[s]
                       \/ innerIP'[s] = Reserved /\ owner'[s] = Control
                       \/ innerIP'[s] = Free /\ owner'[s] = NoOne /\ Quiet(s)
  BY <1>t, Zenon DEF MgmtEffect, Reserves, Unreserves
<1>1. CallInv'
  <2> SUFFICES ASSUME NEW d \in Clients PROVE CallLocals(d)'
    BY Zenon DEF CallInv
  <2>1. CallLocals(d)
    BY Zenon DEF OwnInv, CallInv
  <2>2. owner'[slot[d]] = d => owner[slot[d]] = d /\ innerIP'[slot[d]] = innerIP[slot[d]]
    BY <1>e, <1>k, <1>a, Zenon
  <2> QED
    BY <2>1, <2>2, <1>0, Zenon DEF CallLocals
<1>2. OwnerWord'
  BY <1>e, <1>k, <1>a, SentinelAssumption, OwnerAssumption, ZenonT(60) DEF OwnInv, OwnerWord
<1>3. Believers'
  <2> SUFFICES ASSUME NEW d \in Clients, Engaged(d)'
               PROVE  owner'[slot'[d]] \in {d, Control}
    BY Zenon DEF Believers
  <2>1. Engaged(d) /\ slot'[d] = slot[d] /\ slot[d] \in Slots
    BY <1>e, Zenon
  <2>2. owner[slot[d]] \in {d, Control} /\ ~Quiet(slot[d])
    BY <2>1, Zenon DEF OwnInv, Believers, Quiet
  <2> QED
    BY <2>1, <2>2, <1>k, Zenon
<1>4. OneClaimant'
  BY <1>e, Zenon DEF OneClaimant, OwnInv
<1> QED
  BY <1>1, <1>2, <1>3, <1>4, Zenon DEF OwnInv

-----------------------------------------------------------------------------
(* Content. *)

\* A step of the call of client c to point l that changes no owner word; the
\* call may also keep its request.
Stays(c, s, l) ==
    /\ pc'[c] = l /\ owner'[s] = c
    /\ innerIP'[s] = innerIP[s] /\ want'[s] = want[s] /\ UNCHANGED <<mpc, mslot>>

Moves(c, s, k, l) == pc[c] = k /\ req'[c] = req[c] /\ Stays(c, s, l)

\* What the data plane reads of a slot, besides the owner word, is unchanged.
Same(s) ==
    /\ flags'[s] = flags[s] /\ generation'[s] = generation[s] /\ transit'[s] = transit[s]
    /\ optsLen'[s] = optsLen[s] /\ opts'[s] = opts[s]

\* Client c owns slot s, and what it knows there at a point of its call.
Owning(c, s) == TypeOK /\ OwnInv /\ slot[c] = s /\ owner[s] = c /\ Content(s)

Knows(c, s) ==
    /\ slot[c] = s /\ owner[s] = c /\ Prepared(c, s) /\ CallLocals(c) /\ Domains
    /\ IsSlotAllocated(innerIP[s]) /\ innerIP[s] # Free
    /\ ~(mpc = "pr_free" /\ mslot = s)

\* The invariant gives an owner this knowledge.
LEMMA OwnerKnows ==
  ASSUME NEW c \in Clients, NEW s \in Slots, Owning(c, s)
  PROVE  Knows(c, s)
<1>1. Prepared(c, s) /\ CallLocals(c) /\ Domains
  BY TypeDomains, Zenon DEF Owning, Content, OwnInv, CallInv
<1>2. innerIP[s] # Free /\ innerIP[s] # Reserved
  BY OwnerAssumption, Zenon DEF Owning, OwnInv, OwnerWord
<1>3. Engaged(c)
  BY Zenon DEF Owning, OwnInv, OwnerWord
<1>4. ~(mpc = "pr_free" /\ mslot = s)
  BY <1>3, Zenon DEF Owning, OwnInv, Boundary, Quiet
<1> QED
  BY <1>1, <1>2, <1>4, Zenon DEF Owning, Knows, IsSlotAllocated

\* A call that returns, or goes on to take the attachment down, leaves the slot
\* as it is.
LEMMA Settled ==
  ASSUME NEW c \in Clients, NEW s \in Slots, owner[s] = c, Content(s), NEW l, Stays(c, s, l), Same(s),
         \/ l \in {"partial", "de_move", "de_check", "de_down"}
         \/ l = "held" /\ pc[c] \in {"held"} \cup PortUpPCs
  PROVE  Content(s)'
<1>1. Prepared(c, s)
  BY Zenon DEF Content
<1>2. Prepared(c, s)'
  BY <1>1, Zenon DEF Stays, Same, Prepared, AttachPCs, PortUpPCs, DownPCs
<1> QED
  BY <1>2, Zenon DEF Content, Stays, Same

\* A call goes on with the slot down.
LEMMA Progress ==
  ASSUME NEW c \in Clients, NEW s \in Slots, innerIP'[s] # Free, owner'[s] = c, Prepared(c, s)',
         flags'[s] = 0
  PROVE  Content(s)'
  BY DEF Content, PortFUp

\* A publication: everything that the owner wants is in the slot.
LEMMA Publishes ==
  ASSUME NEW c \in Clients, NEW s \in Slots, innerIP[s] # Free, Stays(c, s, "held"),
         ~(mpc = "pr_free" /\ mslot = s),
         UNCHANGED <<transit[s], opts[s], optsLen[s], generation[s]>>,
         innerIP[s] = want[s].ip, transit[s] = want[s].cfg, opts[s] = want[s].cfg,
         optsLen[s] = OptLen[want[s].cfg], generation[s] = want[s].gen
  PROVE  Content(s)'
<1>1. Prepared(c, s)'
  BY Zenon DEF Stays, Prepared, AttachPCs, PortUpPCs, DownPCs
<1> QED
  BY <1>1, Zenon DEF Content, Stays

-----------------------------------------------------------------------------
(* One lemma per step of a call on a slot that its client owns. *)

\* AttachReady: the StatsReady store after the claim.
LEMMA ContentAttachReady ==
  ASSUME NEW c \in Clients, NEW s \in Slots, Owning(c, s), AttachReady(c)
  PROVE  Content(s)'
<1>a. Knows(c, s)
  BY OwnerKnows, Zenon
<1>1. Moves(c, s, "at_ready", "at_reset") /\ Same(s)
  BY <1>a, Zenon DEF Knows, AttachReady, Store, Goto, Moves, Stays, Same, Domains, ownVars, mgmtVars
<1>2. Prepared(c, s)' /\ flags'[s] = 0
  BY <1>a, <1>1, Zenon DEF Knows, Moves, Stays, Same, Prepared, AttachPCs, PortUpPCs, DownPCs
<1> QED
  BY <1>a, <1>1, <1>2, Progress, Zenon DEF Knows, Moves, Stays

\* AttachReset: the first update of the slot.
LEMMA ContentAttachReset ==
  ASSUME NEW c \in Clients, NEW s \in Slots, Owning(c, s), AttachReset(c)
  PROVE  Content(s)'
<1>a. Knows(c, s)
  BY OwnerKnows, Zenon
<1>1. /\ Moves(c, s, "at_reset", "at_opts")
      /\ flags'[s] = 0 /\ opts'[s] = opts[s] /\ transit'[s] = req[c].cfg
  BY <1>a, Zenon DEF Knows, AttachReset, Store, Goto, Moves, Stays, Domains, ownVars, mgmtVars
<1>2. Prepared(c, s)'
  BY <1>a, <1>1, Zenon DEF Knows, Moves, Stays, Prepared, AttachPCs, PortUpPCs, DownPCs
<1> QED
  BY <1>a, <1>1, <1>2, Progress, Zenon DEF Knows, Moves, Stays

\* AttachOpts: the options value.
LEMMA ContentAttachOpts ==
  ASSUME NEW c \in Clients, NEW s \in Slots, Owning(c, s), AttachOpts(c)
  PROVE  Content(s)'
<1>a. Knows(c, s)
  BY OwnerKnows, Zenon
<1>1. /\ \/ Moves(c, s, "at_opts", "at_move") /\ opts'[s] = req[c].cfg
         \/ Moves(c, s, "at_opts", "at_rollback")
      /\ flags'[s] = flags[s] /\ transit'[s] = transit[s]
  BY <1>a, Zenon DEF Knows, AttachOpts, Goto, Moves, Stays, Domains, ownVars, fieldVars, mgmtVars
<1>2. Prepared(c, s)' /\ flags'[s] = 0
  BY <1>a, <1>1, Zenon DEF Knows, Moves, Stays, Prepared, AttachPCs, PortUpPCs, DownPCs
<1> QED
  BY <1>a, <1>1, <1>2, Progress, Zenon DEF Knows, Moves, Stays

\* AttachMove: MTU check and device move.
LEMMA ContentAttachMove ==
  ASSUME NEW c \in Clients, NEW s \in Slots, Owning(c, s), AttachMove(c)
  PROVE  Content(s)'
<1>a. Knows(c, s)
  BY OwnerKnows, Zenon
<1>1. \E l \in {"at_check", "at_moved", "at_rollback"} : Moves(c, s, "at_move", l) /\ Same(s)
  BY <1>a, Zenon DEF Knows, AttachMove, Goto, Moves, Stays, Same, Domains, ownVars, fieldVars, mgmtVars
<1>2. Prepared(c, s)' /\ flags'[s] = 0
  BY <1>a, <1>1, Zenon DEF Knows, Moves, Stays, Same, Prepared, AttachPCs, PortUpPCs, DownPCs
<1> QED
  BY <1>a, <1>1, <1>2, Progress, Zenon DEF Knows, Moves, Stays

\* AttachCheck: the takeover check.
LEMMA ContentAttachCheck ==
  ASSUME NEW c \in Clients, NEW s \in Slots, Owning(c, s), AttachCheck(c)
  PROVE  Content(s)'
<1>a. Knows(c, s)
  BY OwnerKnows, Zenon
<1>1. ~TakenOver(c)
  BY <1>a, Zenon DEF Knows, AttachCheck, TakenOver, CallLocals, AttachPCs
<1>2. \E k \in {"at_check", "at_moved"} : Moves(c, s, k, "at_publish") /\ Same(s)
  BY <1>a, <1>1, Zenon DEF Knows, AttachCheck, Goto, Moves, Stays, Same, Domains, tables, ownVars, fieldVars, mgmtVars
<1>3. Prepared(c, s)' /\ flags'[s] = 0
  BY <1>a, <1>2, Zenon DEF Knows, Moves, Stays, Same, Prepared, AttachPCs, PortUpPCs, DownPCs
<1> QED
  BY <1>a, <1>2, <1>3, Progress, Zenon DEF Knows, Moves, Stays

\* AttachPublish: the second update.
LEMMA ContentAttachPublish ==
  ASSUME NEW c \in Clients, NEW s \in Slots, Owning(c, s), AttachPublish(c)
  PROVE  Content(s)'
<1>a. Knows(c, s)
  BY OwnerKnows, Zenon
<1>1. /\ Moves(c, s, "at_publish", "at_stats")
      /\ optsLen'[s] = OptLen[req[c].cfg] /\ generation'[s] = req[c].cfg
      /\ flags'[s] = flags[s] /\ transit'[s] = transit[s] /\ opts'[s] = opts[s]
  BY <1>a, Zenon DEF Knows, AttachPublish, Store, Goto, Moves, Stays, Domains, ownVars, mgmtVars
<1>2. Prepared(c, s)' /\ flags'[s] = 0
  BY <1>a, <1>1, Zenon DEF Knows, Moves, Stays, Prepared, AttachPCs, PortUpPCs, DownPCs
<1> QED
  BY <1>a, <1>1, <1>2, Progress, Zenon DEF Knows, Moves, Stays

\* AttachStats: the counters.
LEMMA ContentAttachStats ==
  ASSUME NEW c \in Clients, NEW s \in Slots, Owning(c, s), AttachStats(c)
  PROVE  Content(s)'
<1>a. Knows(c, s)
  BY OwnerKnows, Zenon
<1>1. Moves(c, s, "at_stats", "at_up") /\ Same(s)
  BY <1>a, Zenon DEF Knows, AttachStats, Store, Goto, Moves, Stays, Same, Domains, ownVars, mgmtVars
<1>2. Prepared(c, s)' /\ flags'[s] = 0
  BY <1>a, <1>1, Zenon DEF Knows, Moves, Stays, Same, Prepared, AttachPCs, PortUpPCs, DownPCs
<1> QED
  BY <1>a, <1>1, <1>2, Progress, Zenon DEF Knows, Moves, Stays

\* AttachUp: the publication.
LEMMA ContentAttachUp ==
  ASSUME NEW c \in Clients, NEW s \in Slots, Owning(c, s), AttachUp(c)
  PROVE  Content(s)'
<1>a. Knows(c, s)
  BY OwnerKnows, Zenon
<1>1. pc[c] = "at_up" /\ Stays(c, s, "held")
  BY <1>a, Zenon DEF Knows, AttachUp, Hold, Stays, Domains, ownVars, mgmtVars
<1>2. UNCHANGED <<transit[s], opts[s], optsLen[s], generation[s]>>
  BY Zenon DEF AttachUp
<1>3. /\ innerIP[s] = want[s].ip /\ transit[s] = want[s].cfg /\ opts[s] = want[s].cfg
      /\ optsLen[s] = OptLen[want[s].cfg] /\ generation[s] = want[s].gen
  BY <1>a, <1>1, Zenon DEF Knows, Prepared, AttachPCs
<1> QED
  BY <1>a, <1>1, <1>2, <1>3, Publishes, Zenon DEF Knows

\* AttachRollback: the release of the claim.
LEMMA ContentAttachRollback ==
  ASSUME NEW c \in Clients, NEW s \in Slots, Owning(c, s), AttachRollback(c)
  PROVE  Content(s)'
<1>a. Knows(c, s)
  BY OwnerKnows, Zenon
<1>1. innerIP[s] = cur[c] /\ flags[s] = 0
  BY <1>a, Zenon DEF Knows, AttachRollback, CallLocals, Prepared, AttachPCs, DownPCs
<1>2. innerIP'[s] = Free /\ owner'[s] = NoOne /\ flags'[s] = 0
  BY <1>a, <1>1, Zenon DEF Knows, AttachRollback, TryRelease, Swap, Domains, fieldVars
<1> QED
  BY <1>2, OwnerAssumption, Zenon DEF Content, IsSlotAllocated

\* PortUpBegin: the call begins.
LEMMA ContentPortUpBegin ==
  ASSUME NEW c \in Clients, NEW s \in Slots, Owning(c, s), PortUpBegin(c)
  PROVE  Content(s)'
<1>a. Knows(c, s)
  BY OwnerKnows, Zenon
<1>1. pc[c] = "held" /\ Stays(c, s, "up_check") /\ Same(s)
  BY <1>a, Zenon DEF Knows, PortUpBegin, Stays, Same, Domains, tables, ownVars, fieldVars, mgmtVars
<1>2. flags[s] = 0
  BY Zenon DEF Owning, PortUpBegin, TypeOK
<1>3. Prepared(c, s)'
  BY <1>a, <1>1, <1>2, Zenon DEF Knows, Stays, Same, Prepared, AttachPCs, PortUpPCs, DownPCs
<1> QED
  BY <1>a, <1>1, <1>2, <1>3, Progress, Zenon DEF Knows, Stays, Same

\* PortUpCheck: a takeover check.
LEMMA ContentPortUpCheck ==
  ASSUME NEW c \in Clients, NEW s \in Slots, Owning(c, s), PortUpCheck(c)
  PROVE  Content(s)'
<1>a. Knows(c, s)
  BY OwnerKnows, Zenon
<1>1. ~TakenOver(c)
  BY <1>a, Zenon DEF Knows, PortUpCheck, TakenOver, CallLocals, PortUpPCs
<1>2. /\ \/ Moves(c, s, "up_check", "up_opts") \/ Moves(c, s, "up_recheck", "up_fields")
         \/ Moves(c, s, "up_verify", "up_store")
      /\ Same(s)
  BY <1>a, <1>1, Zenon
  DEF Knows, PortUpCheck, Goto, Moves, Stays, Same, Domains, tables, ownVars, fieldVars, mgmtVars
<1>3. Prepared(c, s)' /\ flags'[s] = 0
  BY <1>a, <1>2, ZenonT(60) DEF Knows, Moves, Stays, Same, Prepared, AttachPCs, PortUpPCs, DownPCs
<1> QED
  BY <1>a, <1>2, <1>3, Progress, Zenon DEF Knows, Moves, Stays

\* PortUpInvalid: the MTU check fails.
LEMMA ContentPortUpInvalid ==
  ASSUME NEW c \in Clients, NEW s \in Slots, Owning(c, s), PortUpInvalid(c)
  PROVE  Content(s)'
<1>a. Knows(c, s)
  BY OwnerKnows, Zenon
<1>1. pc[c] = "up_check" /\ Stays(c, s, "held") /\ Same(s)
  BY <1>a, Zenon DEF Knows, PortUpInvalid, Hold, Stays, Same, Domains, tables, ownVars, fieldVars, mgmtVars
<1> QED
  BY <1>1, Settled, Zenon DEF Owning, PortUpPCs

\* PortUpOpts: the options value.
LEMMA ContentPortUpOpts ==
  ASSUME NEW c \in Clients, NEW s \in Slots, Owning(c, s), PortUpOpts(c)
  PROVE  Content(s)'
<1>a. Knows(c, s)
  BY OwnerKnows, Zenon
<1>1. CASE Goto(c, "up_recheck")
  <2>1. /\ Moves(c, s, "up_opts", "up_recheck") /\ opts'[s] = req[c].cfg
        /\ flags'[s] = flags[s] /\ generation'[s] = generation[s]
    BY <1>1, <1>a, Zenon DEF Knows, PortUpOpts, Goto, Hold, Moves, Stays, Domains, ownVars, fieldVars, mgmtVars
  <2>2. Prepared(c, s)' /\ flags'[s] = 0
    BY <1>a, <2>1, Zenon DEF Knows, Moves, Stays, Prepared, AttachPCs, PortUpPCs, DownPCs
  <2> QED
    BY <1>a, <2>1, <2>2, Progress, Zenon DEF Knows, Moves, Stays
<1>2. CASE ~Goto(c, "up_recheck")
  <2>1. pc[c] = "up_opts" /\ Stays(c, s, "held") /\ Same(s)
    BY <1>2, <1>a, Zenon DEF Knows, PortUpOpts, Hold, Stays, Same, Domains, ownVars, fieldVars, mgmtVars
  <2> QED
    BY <2>1, Settled, Zenon DEF Owning, PortUpPCs
<1> QED
  BY <1>1, <1>2, Zenon

\* PortUpFields: options hint and transit fields.
LEMMA ContentPortUpFields ==
  ASSUME NEW c \in Clients, NEW s \in Slots, Owning(c, s), PortUpFields(c)
  PROVE  Content(s)'
<1>a. Knows(c, s)
  BY OwnerKnows, Zenon
<1>1. /\ Moves(c, s, "up_fields", "up_cas")
      /\ optsLen'[s] = OptLen[req[c].cfg] /\ transit'[s] = req[c].cfg
      /\ flags'[s] = flags[s] /\ generation'[s] = generation[s] /\ opts'[s] = opts[s]
  BY <1>a, Zenon DEF Knows, PortUpFields, Store, Goto, Moves, Stays, Domains, ownVars, mgmtVars
<1>2. Prepared(c, s)' /\ flags'[s] = 0
  BY <1>a, <1>1, Zenon DEF Knows, Moves, Stays, Prepared, AttachPCs, PortUpPCs, DownPCs
<1> QED
  BY <1>a, <1>1, <1>2, Progress, Zenon DEF Knows, Moves, Stays

\* PortUpCommit: the address CAS.
LEMMA ContentPortUpCommit ==
  ASSUME NEW c \in Clients, NEW s \in Slots, Owning(c, s), PortUpCommit(c)
  PROVE  Content(s)'
<1>a. Knows(c, s)
  BY OwnerKnows, Zenon
<1>1. ~TakenOver(c) /\ pc[c] = "up_cas"
  BY <1>a, Zenon DEF Knows, PortUpCommit, TakenOver, CallLocals, PortUpPCs
<1>2. CommitAddress(c) /\ owner' = owner /\ UNCHANGED fieldVars /\ opts' = opts
  BY <1>1, Zenon DEF PortUpCommit
<1>3. /\ pc'[c] = "up_verify" /\ owner'[s] = c /\ req' = req /\ innerIP'[s] = req[c].ip
      /\ want'[s] = [ip |-> req[c].ip, cfg |-> req[c].cfg, gen |-> want[s].gen]
  BY <1>a, <1>2, Zenon DEF Knows, CommitAddress, Domains
<1>4. Same(s)
  BY <1>2, Zenon DEF Same, fieldVars
<1>5. innerIP'[s] # Free
  BY <1>1, <1>3, <1>a, RequestAssumption, SentinelAssumption, Zenon DEF Knows, CallLocals, PortUpPCs
<1>6. /\ flags[s] = 0 /\ generation[s] = want[s].gen /\ opts[s] = req[c].cfg
      /\ transit[s] = req[c].cfg /\ optsLen[s] = OptLen[req[c].cfg]
  BY <1>a, <1>1, Zenon DEF Knows, Prepared, AttachPCs, PortUpPCs, DownPCs
<1>7. /\ want'[s].ip = req'[c].ip /\ want'[s].cfg = req'[c].cfg /\ want'[s].gen = want[s].gen
      /\ innerIP'[s] = req'[c].ip
  BY <1>3
<1>8. /\ flags'[s] = 0 /\ generation'[s] = want'[s].gen /\ opts'[s] = req'[c].cfg
      /\ transit'[s] = req'[c].cfg /\ optsLen'[s] = OptLen[req'[c].cfg]
  <2>1. req'[c] = req[c]
    BY <1>3, Zenon
  <2> QED
    BY <1>4, <1>6, <1>7, <2>1, Zenon DEF Same
<1>9. Prepared(c, s)'
  BY <1>3, <1>7, <1>8, Zenon DEF Prepared, AttachPCs
<1> QED
  BY <1>3, <1>5, <1>8, <1>9, Progress, Zenon

\* PortUpStore: the publication.
LEMMA ContentPortUpStore ==
  ASSUME NEW c \in Clients, NEW s \in Slots, Owning(c, s), PortUpStore(c)
  PROVE  Content(s)'
<1>a. Knows(c, s)
  BY OwnerKnows, Zenon
<1>1. pc[c] = "up_store" /\ Stays(c, s, "held")
  BY <1>a, Zenon DEF Knows, PortUpStore, Hold, Stays, Domains, ownVars, mgmtVars
<1>2. UNCHANGED <<transit[s], opts[s], optsLen[s], generation[s]>>
  BY Zenon DEF PortUpStore
<1>3. /\ innerIP[s] = want[s].ip /\ transit[s] = want[s].cfg /\ opts[s] = want[s].cfg
      /\ optsLen[s] = OptLen[want[s].cfg] /\ generation[s] = want[s].gen
  BY <1>a, <1>1, Zenon DEF Knows, Prepared, PortUpPCs
<1> QED
  BY <1>a, <1>1, <1>2, <1>3, Publishes, Zenon DEF Knows

\* DetachBegin: the call begins.
LEMMA ContentDetachBegin ==
  ASSUME NEW c \in Clients, NEW s \in Slots, Owning(c, s), DetachBegin(c)
  PROVE  Content(s)'
<1>a. Knows(c, s)
  BY OwnerKnows, Zenon
<1>1. Stays(c, s, "de_move") /\ Same(s)
  BY <1>a, Zenon DEF Knows, DetachBegin, Stays, Same, Domains, tables, ownVars, fieldVars, mgmtVars
<1> QED
  BY <1>1, Settled, Zenon DEF Owning

\* DetachMove: the device move.
LEMMA ContentDetachMove ==
  ASSUME NEW c \in Clients, NEW s \in Slots, Owning(c, s), DetachMove(c)
  PROVE  Content(s)'
<1>a. Knows(c, s)
  BY OwnerKnows, Zenon
<1>1. \E l \in {"de_check", "partial"} : Stays(c, s, l) /\ Same(s)
  BY <1>a, Zenon DEF Knows, DetachMove, Goto, Hold, Stays, Same, Domains, ownVars, fieldVars, mgmtVars
<1> QED
  BY <1>1, Settled, Zenon DEF Owning

\* DetachCheck: the takeover check.
LEMMA ContentDetachCheck ==
  ASSUME NEW c \in Clients, NEW s \in Slots, Owning(c, s), DetachCheck(c)
  PROVE  Content(s)'
<1>a. Knows(c, s)
  BY OwnerKnows, Zenon
<1>1. ~TakenOver(c)
  BY <1>a, Zenon DEF Knows, DetachCheck, TakenOver, CallLocals, DetachPCs
<1>2. Stays(c, s, "de_down") /\ Same(s)
  BY <1>a, <1>1, Zenon DEF Knows, DetachCheck, Goto, Stays, Same, Domains, tables, ownVars, fieldVars, mgmtVars
<1> QED
  BY <1>2, Settled, Zenon DEF Owning

\* DetachDown: publication is revoked.
LEMMA ContentDetachDown ==
  ASSUME NEW c \in Clients, NEW s \in Slots, Owning(c, s), DetachDown(c)
  PROVE  Content(s)'
<1>a. Knows(c, s)
  BY OwnerKnows, Zenon
<1>1. Moves(c, s, "de_down", "de_opts") /\ flags'[s] = 0
  BY <1>a, Zenon DEF Knows, DetachDown, Store, Goto, Moves, Stays, Domains, ownVars, mgmtVars
<1>2. Prepared(c, s)'
  BY <1>1, Zenon DEF Moves, Stays, Prepared, AttachPCs, PortUpPCs
<1> QED
  BY <1>a, <1>1, <1>2, Progress, Zenon DEF Knows, Moves, Stays

\* DetachOpts: the options hint.
LEMMA ContentDetachOpts ==
  ASSUME NEW c \in Clients, NEW s \in Slots, Owning(c, s), DetachOpts(c)
  PROVE  Content(s)'
<1>a. Knows(c, s)
  BY OwnerKnows, Zenon
<1>1. Moves(c, s, "de_opts", "de_cas") /\ flags'[s] = flags[s]
  BY <1>a, Zenon DEF Knows, DetachOpts, Store, Goto, Moves, Stays, Domains, ownVars, mgmtVars
<1>2. flags'[s] = 0
  BY <1>a, <1>1, Zenon DEF Knows, Moves, Prepared, DownPCs
<1>3. Prepared(c, s)'
  BY <1>1, <1>2, Zenon DEF Moves, Stays, Prepared, AttachPCs, PortUpPCs
<1> QED
  BY <1>a, <1>1, <1>2, <1>3, Progress, Zenon DEF Knows, Moves, Stays

\* DetachRelease: the release CAS.
LEMMA ContentDetachRelease ==
  ASSUME NEW c \in Clients, NEW s \in Slots, Owning(c, s), DetachRelease(c)
  PROVE  Content(s)'
<1>a. Knows(c, s)
  BY OwnerKnows, Zenon
<1>1. innerIP[s] = cur[c] /\ flags[s] = 0
  BY <1>a, Zenon DEF Knows, DetachRelease, CallLocals, Prepared, DetachPCs, DownPCs
<1>2. innerIP'[s] = Free /\ owner'[s] = NoOne /\ flags'[s] = 0
  BY <1>a, <1>1, Zenon DEF Knows, DetachRelease, TryRelease, Swap, Domains, fieldVars
<1> QED
  BY <1>2, OwnerAssumption, Zenon DEF Content, IsSlotAllocated

\* Crash: the process dies.
LEMMA ContentCrash ==
  ASSUME NEW c \in Clients, NEW s \in Slots, Owning(c, s), Crash(c)
  PROVE  Content(s)'
<1>a. Knows(c, s)
  BY OwnerKnows, Zenon
<1>1. pc[c] \notin {"claim", "scan"}
  BY Zenon DEF Owning, OwnInv, OwnerWord, Engaged, AttachPCs, PortUpPCs, DetachPCs
<1>2. \/ Stays(c, s, "partial") /\ Same(s)
      \/ Stays(c, s, "held") /\ Same(s) /\ pc[c] \in PortUpPCs
  BY <1>a, <1>1, Zenon DEF Knows, Crash, Hold, Stays, Same, Domains, tables, ownVars, fieldVars, mgmtVars
<1> QED
  BY <1>2, Settled, Zenon DEF Owning

\* Every step of a call on a slot that its client owns.
LEMMA ContentOwner ==
  ASSUME NEW c \in Clients, NEW s \in Slots, Owning(c, s), ClientNext(c) \/ Crash(c)
  PROVE  Content(s)'
<1>1. Engaged(c)
  BY Zenon DEF Owning, OwnInv, OwnerWord
<1>2. ~AttachBegin(c) /\ ~AttachClaim(c) /\ ~AttachLost(c)
  BY <1>1, Zenon DEF Engaged, AttachBegin, AttachClaim, AttachLost, LostCAS, AttachPCs, PortUpPCs, DetachPCs
<1>3. CASE AttachStep(c)
  BY Zenon, <1>2, <1>3, ContentAttachReady, ContentAttachReset, ContentAttachOpts, ContentAttachMove,
     ContentAttachCheck, ContentAttachPublish, ContentAttachStats, ContentAttachUp,
     ContentAttachRollback
  DEF AttachStep
<1>4. CASE PortUpBegin(c) \/ PortUpStep(c)
  BY Zenon, <1>4, ContentPortUpBegin, ContentPortUpCheck, ContentPortUpInvalid, ContentPortUpOpts,
     ContentPortUpFields, ContentPortUpCommit, ContentPortUpStore
  DEF PortUpStep
<1>5. CASE DetachBegin(c) \/ DetachStep(c) \/ Crash(c)
  BY Zenon, <1>5, ContentDetachBegin, ContentDetachMove, ContentDetachCheck, ContentDetachDown,
     ContentDetachOpts, ContentDetachRelease, ContentCrash
  DEF DetachStep
<1> QED
  BY <1>2, <1>3, <1>4, <1>5, Zenon DEF ClientNext, CallStep
=============================================================================
