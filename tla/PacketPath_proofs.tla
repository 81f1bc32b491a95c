-------------------------- MODULE PacketPath_proofs --------------------------
(***************************************************************************)
(* Theorems about PacketPath: what a packet carries, whose packets the     *)
(* counters hold and what Stats reports, for every number of ports,        *)
(* clients and claims, with packets and Stats calls at any point of the    *)
(* calls and commands.                                                     *)
(*                                                                         *)
(* A step of PacketPath is a step of PortSlots without a crash, or leaves  *)
(* its variables alone, so the invariant of PortSlots carries over.  The   *)
(* proofs add what holds of a client even after a takeover (ClaimInv),     *)
(* when the configuration of a slot is final (Final), whose the counters   *)
(* are (ResetInv, CounterInv), and what a packet and a Stats call have     *)
(* seen so far (PacketInv, ReadInv).                                       *)
(***************************************************************************)
EXTENDS PacketPath, PortSlots_proofs

(* The invariant. *)

\* Points of a call at which the attachment is published or was meant to be.
SettledPCs == {"held", "partial"} \cup PortUpPCs \cup DetachPCs

\* What a client past a winning CAS on slot s has put there, whether or not
\* management has taken the slot over since.
Claimed(c, s) ==
    /\ pc[c] \in DownPCs => flags[s] = 0
    /\ pc[c] \in AttachPCs => want[s].gen = req[c].cfg
    /\ pc[c] \in {"at_stats", "at_up"} => generation[s] = req[c].cfg
    /\ pc[c] \in SettledPCs => generation[s] = want[s].gen

Attached(s) ==
    /\ flags[s] = PortFUp => generation[s] = want[s].gen
    /\ owner[s] \in Clients => innerIP[s] = want[s].ip

ClaimInv == \A c \in Clients : Engaged(c) => Claimed(c, slot[c])

AttachedInv == \A s \in Slots : Attached(s)

\* The configuration of slot s does not change before the next claim: its
\* client, if any, is past the publication or has lost the slot.
Final(s) ==
    \A c \in Clients : Engaged(c) /\ slot[c] = s =>
        \/ pc[c] \in {"partial"} \cup DetachPCs
        \/ pc[c] = "held" /\ (flags[s] = PortFUp \/ owner[s] = Control)

\* The progress of ResetStats, and what the slot's counters are meanwhile.
Resetting(c, s) ==
    /\ reset[c].at = "read" => reset[c].gen = stats[s].gen
    /\ reset[c].at = "done" => stats[s].of = att[s]
    /\ pc[c] \in AttachPCs \ {"at_up"} /\ reset[c].at # "done" => stats[s].gen < att[s]

ResetInv == \A c \in Clients :
    /\ pc[c] # "at_stats" => reset[c] = NoReset
    /\ Engaged(c) => Resetting(c, slot[c])

\* The counters of a slot belong to one of its attachments, the latest one once
\* they are confirmed, and hold packets of that attachment or a later one.
Counters(s) ==
    /\ stats[s].gen <= att[s] /\ stats[s].of <= att[s]
    /\ stats[s].gen # 0 => stats[s].of # 0
    /\ \A a \in stats[s].counted : a # 0 /\ stats[s].of <= a /\ a <= att[s]
    /\ statsReady[s] = 1 => stats[s].of = att[s] \/ \E c \in Clients : pc[c] = "at_ready" /\ slot[c] = s

CounterInv == \A s \in Slots : Counters(s)

PacketInv ==
    /\ pkt.mixed = FALSE
    /\ pkt.live => flags[pkt.slot] = PortFUp /\ IsSlotAllocated(innerIP[pkt.slot])
    /\ pkt.cap <= stats[pkt.slot].gen /\ pkt.at <= att[pkt.slot]
    /\ pkt.stage \in {"fields", "opts", "count"} /\ pkt.cap = stats[pkt.slot].gen =>
         stats[pkt.slot].of <= pkt.at

\* What a Stats call has found, if the port has not been attached anew.
Found(s) ==
    /\ rd.at >= 3 => Final(s) /\ generation[s] = want[s].gen
    /\ rd.at >= 4 => stats[s].of = rd.began
    /\ rd.at >= 6 => rd.ip = want[s].ip
    /\ rd.at >= 7 => rd.gen = want[s].gen
    /\ rd.at >= 8 => rd.of = rd.began

ReadInv == rd.began <= att[rd.slot] /\ (att[rd.slot] = rd.began => Found(rd.slot))

PktFields == {"stage", "prog", "slot", "cap", "to", "ip", "hint", "at", "live", "mixed"}
RdFields == {"at", "slot", "first", "ip", "gen", "began", "of", "tag"}

PathTypes ==
    /\ stats \in [Slots -> [gen : Nat, of : Nat, tag : Configs \cup {NoConfig}, counted : SUBSET Nat]]
    /\ reset \in [Clients -> [at : {"none", "read", "done"}, gen : Nat]]
    /\ att \in [Slots -> 0 .. MaxAttach]
    /\ DOMAIN pkt = PktFields /\ pkt.slot \in Slots /\ pkt.cap \in Nat /\ pkt.at \in Nat
    /\ pkt.stage \in {"none", "match", "own", "gate", "fields", "opts", "count"}
    /\ pkt.live \in BOOLEAN
    /\ DOMAIN rd = RdFields /\ rd.slot \in Slots /\ rd.at \in 0 .. 12 /\ rd.began \in Nat

PathInv ==
    /\ PathTypes /\ ClaimInv /\ AttachedInv /\ ResetInv /\ CounterInv /\ PacketInv /\ ReadInv

-----------------------------------------------------------------------------
(* The calls.  What a step of a client does at the slot s of its call. *)

FinalFor(c, s) ==
    \/ pc[c] \in {"partial"} \cup DetachPCs
    \/ pc[c] = "held" /\ (flags[s] = PortFUp \/ owner[s] = Control)

StepAt(c, s) ==
    /\ Engaged(c)' => Claimed(c, s)'
    /\ Attached(s)'
    /\ statsReady'[s] = 1 => statsReady[s] = 1 \/ (pc[c] = "at_stats" /\ pc'[c] = "at_up")
    /\ pc[c] = "at_ready" => statsReady'[s] = 0
    /\ FinalFor(c, s) =>
         (Engaged(c)' => FinalFor(c, s)') /\ want'[s] = want[s] /\ generation'[s] = generation[s]
    /\ pc'[c] = "at_stats" => pc[c] = "at_publish"
    /\ pc'[c] \in AttachPCs \ {"at_up"} => pc[c] \in AttachPCs \ {"at_up", "at_stats"}
    /\ pc'[c] # "at_ready"

\* A step that leaves the fields of the slot alone, from one point of a call to a later one.
Onward(c, s) ==
    \/ /\ pc[c] \in {"at_opts", "at_move", "at_moved", "at_check"}
       /\ pc'[c] \in {"at_move", "at_moved", "at_check", "at_publish", "at_rollback"}
       /\ req'[c] = req[c]
    \/ pc[c] = "held" /\ pc'[c] = "up_check" /\ flags[s] = 0 /\ owner[s] # Control
    \/ pc[c] \in PortUpPCs /\ pc'[c] \in PortUpPCs
    \/ pc[c] \in PortUpPCs /\ pc'[c] = "held"
    \/ /\ pc[c] \in {"held", "partial", "de_move", "de_check"}
       /\ pc'[c] \in {"partial", "de_move", "de_check", "de_down"}
    \/ pc[c] = "de_opts" /\ pc'[c] = "de_cas"

SameFields(s) ==
    /\ flags'[s] = flags[s] /\ generation'[s] = generation[s]
    /\ statsReady'[s] = statsReady[s] /\ want'[s] = want[s]

SameOwner(s) == innerIP'[s] = innerIP[s] /\ owner'[s] = owner[s]

\* A step onward keeps what the client has prepared.
LEMMA StepOnward ==
    ASSUME NEW c \in Clients, NEW s \in Slots, Claimed(c, s), Attached(s),
           Onward(c, s), SameFields(s), SameOwner(s)
    PROVE  StepAt(c, s)
<1> USE DEF AttachPCs, PortUpPCs, DetachPCs
<1>1. Claimed(c, s)'
  BY DEF Claimed, Onward, SameFields, DownPCs, SettledPCs
<1>2. Attached(s)'
  BY Zenon DEF Attached, SameFields, SameOwner
<1>3. FinalFor(c, s) => FinalFor(c, s)' /\ want'[s] = want[s] /\ generation'[s] = generation[s]
  BY DEF FinalFor, Onward, SameFields, SameOwner, PortFUp
<1>4. /\ pc[c] # "at_ready" /\ pc'[c] # "at_ready" /\ pc'[c] # "at_stats"
      /\ pc'[c] \in AttachPCs \ {"at_up"} => pc[c] \in AttachPCs \ {"at_up", "at_stats"}
  BY DEF Onward
<1> QED
  BY <1>1, <1>2, <1>3, <1>4, Zenon DEF StepAt, SameFields

\* A call that ends without the port leaves the fields of the slot alone.
LEMMA StepReturns ==
    ASSUME NEW c \in Clients, NEW s \in Slots, Claimed(c, s), Attached(s), SameFields(s),
           pc'[c] = "idle", pc[c] # "at_ready", SameOwner(s) \/ owner'[s] = NoOne
    PROVE  StepAt(c, s)
<1>1. ~Engaged(c)'
  BY DEF Engaged, AttachPCs, PortUpPCs, DetachPCs
<1>2. Attached(s)'
  BY OwnerAssumption, Zenon DEF Attached, SameFields, SameOwner
<1>3. "idle" \notin AttachPCs
  BY DEF AttachPCs
<1> QED
  BY <1>1, <1>2, <1>3, Zenon DEF StepAt, SameFields

\* The steps of Attach after the claim.
LEMMA StepAttach ==
    ASSUME TypeOK, OwnInv, NEW c \in Clients, NEW s \in Slots, slot[c] = s,
           Engaged(c), Claimed(c, s), Attached(s), AttachStep(c)
    PROVE  StepAt(c, s)
<1> USE DEF Store, Goto, ownVars, fieldVars, tables, mgmtVars
<1>t. s \in Slots /\ Domains
  BY TypeDomains, Zenon DEF TypeOK
<1>q. pc[c] \in AttachPCs => want[s].gen = req[c].cfg
  BY Zenon DEF Claimed
<1>n. ~AttachClaim(c) /\ ~AttachLost(c)
  BY Zenon DEF Engaged, AttachClaim, AttachLost, LostCAS, AttachPCs, PortUpPCs, DetachPCs
<1>1. CASE AttachReady(c)
  <2>1. /\ pc[c] = "at_ready" /\ pc'[c] = "at_reset" /\ req'[c] = req[c] /\ SameOwner(s)
        /\ flags' = flags /\ generation' = generation /\ want' = want /\ statsReady'[s] = 0
    BY <1>1, <1>t, Zenon DEF AttachReady, Domains, SameOwner
  <2>2. Claimed(c, s)' /\ Attached(s)'
    BY <2>1 DEF Claimed, Attached, DownPCs, SettledPCs, AttachPCs, PortUpPCs, DetachPCs, SameOwner
  <2> QED
    BY <2>1, <2>2 DEF StepAt, FinalFor, AttachPCs, DetachPCs
<1>2. CASE AttachReset(c)
  <2>1. /\ pc[c] = "at_reset" /\ pc'[c] = "at_opts" /\ req'[c] = req[c] /\ SameOwner(s)
        /\ flags'[s] = 0 /\ want' = want /\ statsReady'[s] = 0
    BY <1>2, <1>t, Zenon DEF AttachReset, Domains, SameOwner
  <2>2. Claimed(c, s)' /\ Attached(s)'
    BY <2>1 DEF Claimed, Attached, DownPCs, SettledPCs, AttachPCs, PortUpPCs, DetachPCs, SameOwner, PortFUp
  <2> QED
    BY <2>1, <2>2 DEF StepAt, FinalFor, AttachPCs, DetachPCs
<1>3. CASE AttachOpts(c)
  <2>1. /\ pc[c] = "at_opts" /\ pc'[c] \in {"at_move", "at_rollback"} /\ req'[c] = req[c]
        /\ SameFields(s) /\ SameOwner(s)
    BY <1>3, <1>t, Zenon DEF AttachOpts, Domains, SameOwner, SameFields
  <2> QED
    BY <1>t, <2>1, StepOnward, Zenon DEF Onward
<1>4. CASE AttachMove(c)
  <2>1. /\ pc[c] = "at_move" /\ pc'[c] \in {"at_check", "at_moved", "at_rollback"} /\ req'[c] = req[c]
        /\ SameFields(s) /\ SameOwner(s)
    BY <1>4, <1>t, Zenon DEF AttachMove, Domains, SameOwner, SameFields
  <2> QED
    BY <1>t, <2>1, StepOnward, Zenon DEF Onward
<1>5. CASE AttachCheck(c)
  <2>1. pc[c] \in {"at_moved", "at_check"} /\ SameFields(s) /\ SameOwner(s)
    BY <1>5, Zenon DEF AttachCheck, SameOwner, SameFields
  <2>2. pc'[c] = "idle" \/ (pc'[c] = "at_publish" /\ req'[c] = req[c])
    BY <1>5, <1>t, Zenon DEF AttachCheck, Return, Domains
  <2>3. CASE pc'[c] = "idle"
    BY <1>t, <2>1, <2>3, StepReturns, Zenon
  <2>4. CASE pc'[c] = "at_publish" /\ req'[c] = req[c]
    BY <1>t, <2>1, <2>4, StepOnward, Zenon DEF Onward
  <2> QED
    BY <2>2, <2>3, <2>4, Zenon
<1>6. CASE AttachPublish(c)
  <2>1. /\ pc[c] = "at_publish" /\ pc'[c] = "at_stats" /\ req'[c] = req[c] /\ SameOwner(s)
        /\ flags' = flags /\ want' = want /\ statsReady' = statsReady /\ generation'[s] = req[c].cfg
    BY <1>6, <1>t, Zenon DEF AttachPublish, Domains, SameOwner
  <2>2. flags[s] = 0
    BY <2>1, Zenon DEF Claimed, DownPCs, AttachPCs
  <2>3. Claimed(c, s)' /\ Attached(s)'
    BY <1>q, <2>1, <2>2 DEF Claimed, Attached, DownPCs, SettledPCs, AttachPCs, PortUpPCs, DetachPCs, SameOwner, PortFUp
  <2> QED
    BY <2>1, <2>3 DEF StepAt, FinalFor, AttachPCs, DetachPCs
<1>7. CASE AttachStats(c)
  <2>1. /\ pc[c] = "at_stats" /\ pc'[c] = "at_up" /\ req'[c] = req[c] /\ SameOwner(s)
        /\ flags' = flags /\ want' = want /\ generation' = generation
    BY <1>7, <1>t, Zenon DEF AttachStats, Domains, SameOwner
  <2>2. Claimed(c, s)' /\ Attached(s)'
    BY <2>1 DEF Claimed, Attached, DownPCs, SettledPCs, AttachPCs, PortUpPCs, DetachPCs, SameOwner
  <2> QED
    BY <2>1, <2>2 DEF StepAt, FinalFor, AttachPCs, DetachPCs
<1>8. CASE AttachUp(c)
  <2>1. /\ pc[c] = "at_up" /\ pc'[c] = "held" /\ SameOwner(s)
        /\ statsReady' = statsReady /\ want' = want /\ generation' = generation
    BY <1>8, <1>t, Zenon DEF AttachUp, Hold, Domains, SameOwner
  <2>2. generation[s] = want[s].gen
    BY <1>q, <2>1, Zenon DEF Claimed, AttachPCs
  <2>3. Claimed(c, s)' /\ Attached(s)'
    BY <2>1, <2>2 DEF Claimed, Attached, DownPCs, SettledPCs, AttachPCs, PortUpPCs, DetachPCs, SameOwner
  <2> QED
    BY <2>1, <2>3 DEF StepAt, FinalFor, AttachPCs, DetachPCs
<1>9. CASE AttachRollback(c)
  <2>1. pc[c] = "at_rollback" /\ pc'[c] = "idle" /\ SameFields(s)
    BY <1>9, <1>t, Zenon DEF AttachRollback, Return, Domains, SameFields
  <2>2. SameOwner(s) \/ owner'[s] = NoOne
    BY <1>9, <1>t, Zenon DEF AttachRollback, TryRelease, Swap, Domains, SameOwner
  <2> QED
    BY <1>t, <2>1, <2>2, StepReturns, Zenon
<1> QED
  BY <1>n, <1>1, <1>2, <1>3, <1>4, <1>5, <1>6, <1>7, <1>8, <1>9, Zenon DEF AttachStep

\* The steps of SetPortUp.
LEMMA StepPortUp ==
    ASSUME TypeOK, OwnInv, NEW c \in Clients, NEW s \in Slots, slot[c] = s,
           Engaged(c), Claimed(c, s), Attached(s),
           PortUpBegin(c) \/ PortUpStep(c)
    PROVE  StepAt(c, s)
<1> USE DEF Store, Goto, Hold, ownVars, fieldVars, tables, mgmtVars
<1>t. s \in Slots /\ Domains
  BY TypeDomains, Zenon DEF TypeOK
<1>1. CASE PortUpBegin(c)
  <2>1. pc[c] = "held" /\ pc'[c] = "up_check" /\ SameFields(s) /\ SameOwner(s)
    BY <1>1, <1>t, Zenon DEF PortUpBegin, Domains, SameOwner, SameFields
  <2>2. flags[s] = 0
    BY <1>1, Zenon DEF PortUpBegin, TypeOK
  <2>3. owner[s] # Control
    BY <1>1, Zenon DEF PortUpBegin, IsSlotAllocated, OwnInv, OwnerWord
  <2> QED
    BY <1>t, <2>1, <2>2, <2>3, StepOnward, Zenon DEF Onward
<1>2. CASE PortUpCheck(c) \/ PortUpInvalid(c) \/ PortUpOpts(c) \/ PortUpFields(c)
  <2>1. SameFields(s) /\ SameOwner(s)
    BY <1>2, Zenon DEF PortUpCheck, PortUpInvalid, PortUpOpts, PortUpFields, SameOwner, SameFields
  <2>2. /\ pc[c] \in {"up_check", "up_opts", "up_recheck", "up_fields", "up_verify"}
        /\ pc'[c] \in {"up_opts", "up_recheck", "up_fields", "up_cas", "up_store", "held"}
    BY <1>2, <1>t, Zenon DEF PortUpCheck, PortUpInvalid, PortUpOpts, PortUpFields, Domains
  <2>3. Onward(c, s)
    BY <2>2, Zenon DEF Onward, PortUpPCs
  <2> QED
    BY <1>t, <2>1, <2>3, StepOnward, Zenon
<1>3. CASE PortUpCommit(c)
  <2>0. pc[c] = "up_cas"
    BY <1>3, Zenon DEF PortUpCommit
  <2>1. CASE TakenOver(c)
    <3>1. pc'[c] = "held" /\ SameFields(s) /\ SameOwner(s)
      BY <1>3, <1>t, <2>1, Zenon DEF PortUpCommit, Domains, SameOwner, SameFields
    <3>2. Onward(c, s)
      BY <2>0, <3>1, Zenon DEF Onward, PortUpPCs
    <3> QED
      BY <1>t, <3>1, <3>2, StepOnward, Zenon
  <2>2. CASE ~TakenOver(c)
    <3>1. /\ pc'[c] = "up_verify" /\ innerIP'[s] = req[c].ip
          /\ flags' = flags /\ generation' = generation /\ statsReady' = statsReady
          /\ want'[s] = [ip |-> req[c].ip, cfg |-> req[c].cfg, gen |-> want[s].gen]
      BY <1>3, <1>t, <2>2, Zenon DEF PortUpCommit, CommitAddress, Domains
    <3>2. want'[s].ip = req[c].ip /\ want'[s].gen = want[s].gen
      BY <3>1
    <3>3. Claimed(c, s)' /\ Attached(s)'
      BY <2>0, <3>1, <3>2 DEF Claimed, Attached, DownPCs, SettledPCs, AttachPCs, PortUpPCs, DetachPCs
    <3> QED
      BY <2>0, <3>1, <3>3 DEF StepAt, FinalFor, AttachPCs, DetachPCs
  <2> QED
    BY <2>1, <2>2, Zenon
<1>4. CASE PortUpStore(c)
  <2>1. /\ pc[c] = "up_store" /\ pc'[c] = "held" /\ SameOwner(s)
        /\ statsReady' = statsReady /\ want' = want /\ generation' = generation
    BY <1>4, <1>t, Zenon DEF PortUpStore, Domains, SameOwner
  <2>2. generation[s] = want[s].gen
    BY <2>1, Zenon DEF Claimed, SettledPCs, PortUpPCs
  <2>3. Claimed(c, s)' /\ Attached(s)'
    BY <2>1, <2>2 DEF Claimed, Attached, DownPCs, SettledPCs, AttachPCs, PortUpPCs, DetachPCs, SameOwner
  <2> QED
    BY <2>1, <2>3 DEF StepAt, FinalFor, AttachPCs, DetachPCs
<1> QED
  BY <1>1, <1>2, <1>3, <1>4, Zenon DEF PortUpStep

\* The steps of Detach.
LEMMA StepDetach ==
    ASSUME TypeOK, OwnInv, NEW c \in Clients, NEW s \in Slots, slot[c] = s,
           Engaged(c), Claimed(c, s), Attached(s),
           DetachBegin(c) \/ DetachStep(c)
    PROVE  StepAt(c, s)
<1> USE DEF Store, Goto, Hold, ownVars, fieldVars, tables, mgmtVars
<1>t. s \in Slots /\ Domains
  BY TypeDomains, Zenon DEF TypeOK
<1>1. CASE DetachBegin(c) \/ DetachMove(c) \/ DetachCheck(c)
  <2>1. SameFields(s) /\ SameOwner(s)
    BY <1>1, Zenon DEF DetachBegin, DetachMove, DetachCheck, SameOwner, SameFields
  <2>2. /\ pc[c] \in {"held", "partial", "de_move", "de_check"}
        /\ pc'[c] \in {"partial", "de_move", "de_check", "de_down", "idle"}
    BY <1>1, <1>t, Zenon DEF DetachBegin, DetachMove, DetachCheck, Return, Domains
  <2>3. CASE pc'[c] = "idle"
    <3>1. pc[c] # "at_ready"
      BY <2>2
    <3> QED
      BY <1>t, <2>1, <2>3, <3>1, StepReturns, Zenon
  <2>4. CASE pc'[c] # "idle"
    <3>1. Onward(c, s)
      BY <2>2, <2>4, Zenon DEF Onward
    <3> QED
      BY <1>t, <2>1, <3>1, StepOnward, Zenon
  <2> QED
    BY <2>3, <2>4, Zenon
<1>2. CASE DetachDown(c)
  <2>1. /\ pc[c] = "de_down" /\ pc'[c] = "de_opts" /\ SameOwner(s) /\ flags'[s] = 0
        /\ statsReady' = statsReady /\ want' = want /\ generation' = generation
    BY <1>2, <1>t, Zenon DEF DetachDown, Domains, SameOwner
  <2>2. Claimed(c, s)' /\ Attached(s)'
    BY <2>1 DEF Claimed, Attached, DownPCs, SettledPCs, AttachPCs, PortUpPCs, DetachPCs, SameOwner, PortFUp
  <2> QED
    BY <2>1, <2>2 DEF StepAt, FinalFor, AttachPCs, DetachPCs
<1>3. CASE DetachOpts(c)
  <2>1. pc[c] = "de_opts" /\ pc'[c] = "de_cas" /\ SameFields(s) /\ SameOwner(s)
    BY <1>3, <1>t, Zenon DEF DetachOpts, Domains, SameOwner, SameFields
  <2> QED
    BY <1>t, <2>1, StepOnward, Zenon DEF Onward
<1>4. CASE DetachRelease(c)
  <2>1. pc[c] = "de_cas" /\ pc'[c] = "idle" /\ SameFields(s)
    BY <1>4, <1>t, Zenon DEF DetachRelease, Return, Domains, SameFields
  <2>2. SameOwner(s) \/ owner'[s] = NoOne
    BY <1>4, <1>t, Zenon DEF DetachRelease, TryRelease, Swap, Domains, SameOwner
  <2> QED
    BY <1>t, <2>1, <2>2, StepReturns, Zenon
<1> QED
  BY <1>1, <1>2, <1>3, <1>4, Zenon DEF DetachStep

\* Every step of a client that has a slot.
LEMMA StepEngaged ==
    ASSUME TypeOK, OwnInv, NEW c \in Clients, NEW s \in Slots, slot[c] = s, Engaged(c),
           Claimed(c, s), Attached(s), ClientNext(c)
    PROVE  StepAt(c, s)
<1>1. ~AttachBegin(c)
  BY Zenon DEF Engaged, AttachBegin, AttachPCs, PortUpPCs, DetachPCs
<1> QED
  BY <1>1, StepAttach, StepPortUp, StepDetach, Zenon DEF ClientNext, CallStep

-----------------------------------------------------------------------------
(* The control plane as the data plane sees it. *)

\* A configuration that is final stays until the next claim.
FinalStays(s) ==
    Final(s) /\ ~Claims(s) => Final(s)' /\ want'[s] = want[s] /\ generation'[s] = generation[s]

\* Counters are confirmed only at the end of ResetStats; a claim leads to the store
\* that withdraws the confirmation.
Confirms(s) ==
    /\ statsReady'[s] = 1 =>
         \/ statsReady[s] = 1
         \/ \E c \in Clients : slot[c] = s /\ pc[c] = "at_stats" /\ pc'[c] = "at_up"
    /\ Claims(s) => \E c \in Clients : pc'[c] = "at_ready" /\ slot'[c] = s

\* A client goes on with its slot, or has just won it.
GoesOn(c) ==
    /\ pc[c] = "at_ready" => statsReady'[slot[c]] = 0 \/ (pc'[c] = "at_ready" /\ slot'[c] = slot[c])
    /\ Engaged(c)' =>
         \/ /\ Engaged(c) /\ slot'[c] = slot[c] /\ ~Claims(slot[c])
            /\ pc'[c] = "at_stats" => pc[c] \in {"at_publish", "at_stats"}
            /\ pc'[c] \in AttachPCs \ {"at_up"} =>
                 pc[c] \in AttachPCs \ {"at_up"} /\ (pc[c] = "at_stats" => pc'[c] = "at_stats")
         \/ Claims(slot'[c]) /\ pc'[c] = "at_ready"

PlaneStep ==
    /\ ClaimInv' /\ AttachedInv'
    /\ \A s \in Slots : FinalStays(s) /\ Confirms(s)
    /\ \A c \in Clients : GoesOn(c)

\* A slot that has a client is not claimed.
LEMMA NotClaimed ==
    ASSUME TypeOK, OwnInv, NEW c \in Clients, Engaged(c)
    PROVE  ~Claims(slot[c])
BY OwnerAssumption, Zenon DEF Claims, OwnInv, Believers

\* The fields of a slot other than the one of the call.
LEMMA AwayFields ==
    ASSUME NEW c \in Clients, Elsewhere(c), NEW s \in Slots, s # slot[c]
    PROVE  SameFields(s) /\ SameOwner(s)
BY Zenon DEF Elsewhere, Stored, SameFields, SameOwner

\* Where nothing happens to a slot and its client, nothing changes.
LEMMA Untouched ==
    ASSUME NEW s \in Slots, SameFields(s), SameOwner(s),
           \A d \in Clients : Engaged(d)' /\ slot'[d] = s =>
               Engaged(d) /\ slot[d] = s /\ pc'[d] = pc[d] /\ req'[d] = req[d]
    PROVE  /\ Attached(s) => Attached(s)'
           /\ \A d \in Clients : Engaged(d)' /\ slot'[d] = s /\ Claimed(d, s) => Claimed(d, s)'
           /\ FinalStays(s) /\ ~Claims(s)
           /\ statsReady'[s] = 1 => statsReady[s] = 1
<1>1. Attached(s) => Attached(s)'
  BY Zenon DEF Attached, SameFields, SameOwner
<1>2. ASSUME NEW d \in Clients, Engaged(d)', slot'[d] = s, Claimed(d, s) PROVE Claimed(d, s)'
  BY <1>2, Zenon DEF Claimed, SameFields
<1>3. ~Claims(s)
  BY OwnerAssumption, Zenon DEF Claims, SameOwner
<1>4. Final(s) => Final(s)'
  <2> SUFFICES ASSUME Final(s), NEW d \in Clients, Engaged(d)', slot'[d] = s PROVE FinalFor(d, s)'
    BY Zenon DEF Final, FinalFor
  <2>1. FinalFor(d, s) /\ pc'[d] = pc[d]
    BY Zenon DEF Final, FinalFor
  <2> QED
    BY <2>1, Zenon DEF FinalFor, SameFields, SameOwner
<1> QED
  BY <1>1, <1>2, <1>3, <1>4, Zenon DEF FinalStays, SameFields

\* A client that is not in a step goes on as it was.
LEMMA OthersGoOn ==
    ASSUME TypeOK, OwnInv, NEW d \in Clients, pc'[d] = pc[d], slot'[d] = slot[d]
    PROVE  GoesOn(d) /\ (Engaged(d)' <=> Engaged(d))
<1>1. Engaged(d)' <=> Engaged(d)
  BY Zenon DEF Engaged
<1>2. Engaged(d) => ~Claims(slot[d])
  BY NotClaimed, Zenon
<1> QED
  BY <1>1, <1>2, Zenon DEF GoesOn

\* Before its CAS a client changes nothing that anybody sees.
LEMMA PlaneDisengaged ==
    ASSUME TypeOK, OwnInv, ClaimInv, AttachedInv, NEW c \in Clients, ClientNext(c),
           ~Engaged(c), ~AttachClaim(c)
    PROVE  PlaneStep
<1>1. UNCHANGED tables /\ Effect(c)
  BY DisengagedWrites, ClientEffect, Zenon
<1>2. \A s \in Slots : SameFields(s) /\ SameOwner(s)
  BY <1>1, Zenon DEF tables, ownVars, fieldVars, SameFields, SameOwner
<1>3. ~Engaged(c)'
  <2>1. slot[c] \in Slots /\ innerIP \in [Slots -> IPs \cup {Free, Reserved}]
    BY Zenon DEF TypeOK
  <2>2. ~Wins(c)
    BY <1>2, <2>1, SentinelAssumption, Zenon DEF Wins, SameOwner
  <2> QED
    BY <1>1, <2>2, Zenon DEF Effect, Keeps, Releases, Readdresses
<1>4. \A d \in Clients \ {c} : pc'[d] = pc[d] /\ slot'[d] = slot[d] /\ req'[d] = req[d]
  BY <1>1, Zenon DEF Effect, OthersKeep
<1>5. \A d \in Clients : d # c => GoesOn(d) /\ (Engaged(d)' <=> Engaged(d))
  BY <1>4, OthersGoOn, Zenon
<1>6. \A s \in Slots, d \in Clients : Engaged(d)' /\ slot'[d] = s =>
         Engaged(d) /\ slot[d] = s /\ pc'[d] = pc[d] /\ req'[d] = req[d]
  BY <1>3, <1>4, <1>5, Zenon
<1>7. ASSUME NEW s \in Slots
      PROVE  /\ Attached(s)' /\ FinalStays(s) /\ Confirms(s)
             /\ \A d \in Clients : Engaged(d)' /\ slot'[d] = s => Claimed(d, s)'
  <2>1. /\ Attached(s) => Attached(s)'
        /\ \A d \in Clients : Engaged(d)' /\ slot'[d] = s /\ Claimed(d, s) => Claimed(d, s)'
        /\ FinalStays(s) /\ ~Claims(s)
        /\ statsReady'[s] = 1 => statsReady[s] = 1
    BY <1>2, <1>6, Untouched, Zenon
  <2>2. \A d \in Clients : Engaged(d)' /\ slot'[d] = s => Claimed(d, s)
    BY <1>6, Zenon DEF ClaimInv
  <2> QED
    BY <2>1, <2>2, Zenon DEF AttachedInv, Confirms
<1>8. GoesOn(c)
  BY <1>3, Zenon DEF GoesOn, Engaged, AttachPCs
<1>9. \A d \in Clients : Engaged(d)' => slot'[d] \in Slots
  BY <1>6, <1>3, <1>4, Zenon DEF TypeOK
<1> QED
  BY <1>5, <1>7, <1>8, <1>9, Zenon DEF PlaneStep, ClaimInv, AttachedInv

\* What a step keeps of a slot.
SlotKept(s) ==
    /\ Attached(s)' /\ FinalStays(s) /\ Confirms(s)
    /\ \A d \in Clients : Engaged(d)' /\ slot'[d] = s => Claimed(d, s)'

\* A step of client c keeps the slots of other calls.
LEMMA PlaneAway ==
    ASSUME TypeOK, OwnInv, ClaimInv, AttachedInv, NEW c \in Clients, Elsewhere(c), OthersKeep(c),
           Engaged(c)' => slot'[c] = slot[c], NEW s \in Slots, s # slot[c]
    PROVE  SlotKept(s)
<1>1. SameFields(s) /\ SameOwner(s)
  BY AwayFields, Zenon
<1>2. \A d \in Clients : Engaged(d)' /\ slot'[d] = s =>
         Engaged(d) /\ slot[d] = s /\ pc'[d] = pc[d] /\ req'[d] = req[d]
  <2> SUFFICES ASSUME NEW d \in Clients, Engaged(d)', slot'[d] = s
               PROVE  Engaged(d) /\ slot[d] = s /\ pc'[d] = pc[d] /\ req'[d] = req[d]
    BY Zenon
  <2>1. d # c
    BY Zenon
  <2>2. pc'[d] = pc[d] /\ slot'[d] = slot[d] /\ req'[d] = req[d]
    BY <2>1, Zenon DEF OthersKeep
  <2> QED
    BY <2>2, OthersGoOn, Zenon
<1>3. /\ Attached(s) => Attached(s)'
      /\ \A d \in Clients : Engaged(d)' /\ slot'[d] = s /\ Claimed(d, s) => Claimed(d, s)'
      /\ FinalStays(s) /\ ~Claims(s)
      /\ statsReady'[s] = 1 => statsReady[s] = 1
  BY <1>1, <1>2, Untouched, Zenon
<1>4. \A d \in Clients : Engaged(d)' /\ slot'[d] = s => Claimed(d, s)
  BY <1>2, Zenon DEF ClaimInv
<1> QED
  BY <1>3, <1>4, Zenon DEF SlotKept, AttachedInv, Confirms

\* It is enough to look at the slot of the call.
LEMMA PlaneAtSlot ==
    ASSUME TypeOK, OwnInv, ClaimInv, AttachedInv, NEW c \in Clients, Elsewhere(c), OthersKeep(c),
           Engaged(c)' => slot'[c] = slot[c], GoesOn(c), NEW r \in Slots, slot[c] = r, SlotKept(r)
    PROVE  PlaneStep
<1>1. \A s \in Slots : SlotKept(s)
  BY PlaneAway, Zenon
<1>2. \A d \in Clients : d # c => GoesOn(d)
  BY OthersGoOn, Zenon DEF OthersKeep
<1>3. \A d \in Clients : Engaged(d)' => slot'[d] \in Slots
  BY Zenon DEF OthersKeep, TypeOK
<1> QED
  BY <1>1, <1>2, <1>3, Zenon DEF PlaneStep, SlotKept, ClaimInv, AttachedInv

\* The CAS of Attach.
LEMMA PlaneClaim ==
    ASSUME TypeOK, OwnInv, ContentInv, ClaimInv, AttachedInv, NEW c \in Clients, AttachClaim(c)
    PROVE  PlaneStep
<1>1. PICK s \in Slots : s = slot[c]
  BY Zenon DEF TypeOK
<1>2. /\ innerIP[s] = Free /\ owner[s] = NoOne /\ flags[s] = 0 /\ ~Engaged(c)
  BY <1>1, Zenon DEF AttachClaim, TryAllocate, OwnInv, OwnerWord, ContentInv, Content, Engaged,
     AttachPCs, PortUpPCs, DetachPCs
<1>3. /\ innerIP'[s] = cur[c] /\ owner'[s] = c /\ flags' = flags /\ statsReady' = statsReady
      /\ want'[s] = [ip |-> req[c].ip, cfg |-> req[c].cfg, gen |-> req[c].cfg]
      /\ pc'[c] = "at_ready" /\ req' = req /\ slot' = slot
  BY <1>1, Zenon DEF AttachClaim, TryAllocate, Swap, Goto, fieldVars, TypeOK
<1>4. cur[c] = req[c].ip
  BY Zenon DEF AttachClaim, OwnInv, CallInv, CallLocals
<1>5. want'[s].ip = req[c].ip /\ want'[s].gen = req[c].cfg
  BY <1>3
<1>6. Claims(s)
  BY <1>2, <1>3, Zenon DEF Claims
<1>7. Claimed(c, s)' /\ Attached(s)'
  BY <1>2, <1>3, <1>4, <1>5 DEF Claimed, Attached, SettledPCs, AttachPCs, PortUpPCs, DetachPCs, PortFUp
<1>8. Elsewhere(c) /\ OthersKeep(c)
  BY ClientFrame, ClientEffect, Zenon DEF ClientNext, CallStep, AttachStep, Effect
<1>9. \A d \in Clients : Engaged(d)' /\ slot'[d] = s => d = c
  <2> SUFFICES ASSUME NEW d \in Clients, Engaged(d)', slot'[d] = s, d # c PROVE FALSE
    BY Zenon
  <2>1. Engaged(d) /\ slot[d] = s
    BY <1>8, OthersGoOn, Zenon DEF OthersKeep
  <2> QED
    BY <1>2, <2>1, OwnerAssumption, Zenon DEF OwnInv, Believers
<1>10. SlotKept(s)
  <2>1. \A d \in Clients : Engaged(d)' /\ slot'[d] = s => Claimed(d, s)'
    BY <1>7, <1>9, Zenon
  <2>2. Confirms(s)
    BY <1>1, <1>3, Zenon DEF Confirms
  <2> QED
    BY <1>6, <1>7, <2>1, <2>2, Zenon DEF SlotKept, FinalStays
<1>11. GoesOn(c)
  BY <1>1, <1>2, <1>3, <1>6, Zenon DEF GoesOn, Engaged, AttachPCs
<1> QED
  BY <1>1, <1>3, <1>8, <1>10, <1>11, PlaneAtSlot, Zenon

\* The steps of a call after its CAS.
LEMMA PlaneEngaged ==
    ASSUME TypeOK, OwnInv, ClaimInv, AttachedInv, NEW c \in Clients, ClientNext(c), Engaged(c)
    PROVE  PlaneStep
<1>1. PICK s \in Slots : s = slot[c]
  BY Zenon DEF TypeOK
<1>2. Claimed(c, s) /\ Attached(s)
  BY <1>1, Zenon DEF ClaimInv, AttachedInv
<1>3. StepAt(c, s)
  BY <1>1, <1>2, StepEngaged, Zenon
<1>4. Elsewhere(c) /\ Effect(c)
  BY ClientFrame, ClientEffect, Zenon
<1>5. OthersKeep(c) /\ (Engaged(c)' => slot'[c] = slot[c])
  BY <1>4, Zenon DEF Effect, Keeps, Wins, Releases, Readdresses
<1>6. \A d \in Clients : Engaged(d)' /\ slot'[d] = s => d = c
  <2> SUFFICES ASSUME NEW d \in Clients, Engaged(d)', slot'[d] = s, d # c PROVE FALSE
    BY Zenon
  <2>1. Engaged(d) /\ slot[d] = s
    BY <1>5, OthersGoOn, Zenon DEF OthersKeep
  <2> QED
    BY <1>1, <2>1, Zenon DEF OwnInv, OneClaimant
<1>7. ~Claims(s)
  BY <1>1, NotClaimed, Zenon
<1>8. FinalStays(s)
  <2> SUFFICES ASSUME Final(s)
               PROVE  Final(s)' /\ want'[s] = want[s] /\ generation'[s] = generation[s]
    BY Zenon DEF FinalStays
  <2>1. FinalFor(c, s)
    BY <1>1, Zenon DEF Final, FinalFor
  <2>2. (Engaged(c)' => FinalFor(c, s)') /\ want'[s] = want[s] /\ generation'[s] = generation[s]
    BY <1>3, <2>1, Zenon DEF StepAt
  <2>3. Final(s)'
    BY <1>6, <2>2, Zenon DEF Final, FinalFor
  <2> QED
    BY <2>2, <2>3, Zenon
<1>9. SlotKept(s)
  <2>1. \A d \in Clients : Engaged(d)' /\ slot'[d] = s => Claimed(d, s)'
    BY <1>3, <1>6, Zenon DEF StepAt
  <2>2. Confirms(s)
    BY <1>1, <1>3, <1>7, Zenon DEF Confirms, StepAt
  <2>3. Attached(s)'
    BY <1>3, Zenon DEF StepAt
  <2> QED
    BY <1>8, <2>1, <2>2, <2>3, Zenon DEF SlotKept
<1>10. GoesOn(c)
  <2>1. pc[c] = "at_ready" => statsReady'[s] = 0
    BY <1>3, Zenon DEF StepAt
  <2>2. /\ pc'[c] = "at_stats" => pc[c] = "at_publish"
        /\ pc'[c] \in AttachPCs \ {"at_up"} => pc[c] \in AttachPCs \ {"at_up", "at_stats"}
    BY <1>3, Zenon DEF StepAt
  <2> QED
    BY <1>1, <1>5, <1>7, <2>1, <2>2, Zenon DEF GoesOn
<1> QED
  BY <1>1, <1>4, <1>5, <1>9, <1>10, PlaneAtSlot, Zenon

\* Every step of a client.
LEMMA PlaneClient ==
    ASSUME TypeOK, OwnInv, ContentInv, ClaimInv, AttachedInv, NEW c \in Clients, ClientNext(c)
    PROVE  PlaneStep
BY PlaneDisengaged, PlaneClaim, PlaneEngaged, Zenon

\* What management does to a slot: it withdraws the publication and the confirmation,
\* and takes the slot or gives it free.
MgmtAt(s) ==
    /\ want'[s] = want[s] /\ generation'[s] = generation[s]
    /\ flags'[s] = flags[s] \/ (flags'[s] = 0 /\ owner[s] = Control /\ owner'[s] = Control)
    /\ statsReady'[s] = 1 => statsReady[s] = 1
    /\ SameOwner(s) \/ owner'[s] = Control \/ (owner'[s] = NoOne /\ Quiet(s))

\* Every step of a command has that effect.
LEMMA MgmtDoes ==
    ASSUME TypeOK, OwnInv, MgmtNext
    PROVE  UNCHANGED <<pc, slot, req>> /\ \A s \in Slots : MgmtAt(s)
<1> USE DEF MStart, MGoto, MReturn, tables, ownVars, fieldVars, clientVars
<1>0. MgmtEffect /\ Domains /\ mslot \in Slots
  BY MgmtHasEffect, TypeDomains, Zenon DEF TypeOK
<1>1. UNCHANGED <<pc, slot, req>>
  BY <1>0, Zenon DEF MgmtEffect
<1>2. want' = want /\ generation' = generation
  BY Zenon DEF MgmtNext, CommandStep, ReserveReady, ForceRead, ForceCAS, ForceClean, UnreserveDown,
     UnreserveFree, ReserveFree, ForceBegin, ProvisionDevice
<1>3. flags' = flags \/ ((ForceClean \/ UnreserveDown) /\ flags' = [flags EXCEPT ![mslot] = 0])
  BY Zenon DEF MgmtNext, CommandStep, ReserveReady, ForceRead, ForceCAS, ForceClean, UnreserveDown,
     UnreserveFree, ReserveFree, ForceBegin, ProvisionDevice
<1>4. statsReady' = statsReady \/ statsReady' = [statsReady EXCEPT ![mslot] = 0]
  BY Zenon DEF MgmtNext, CommandStep, ReserveReady, ForceRead, ForceCAS, ForceClean, UnreserveDown,
     UnreserveFree, ReserveFree, ForceBegin, ProvisionDevice
<1>5. ASSUME NEW s \in Slots PROVE MgmtAt(s)
  <2>1. flags'[s] = flags[s] \/ (flags'[s] = 0 /\ owner[s] = Control /\ owner'[s] = Control)
    <3>1. CASE flags' = flags
      BY <3>1, Zenon
    <3>2. CASE (ForceClean \/ UnreserveDown) /\ flags' = [flags EXCEPT ![mslot] = 0]
      <4>1. owner[mslot] = Control /\ owner' = owner
        BY <1>0, <3>2, Zenon DEF ForceClean, UnreserveDown, OwnInv, Boundary, OwnerWord
      <4> QED
        BY <1>0, <3>2, <4>1, Zenon DEF Domains
    <3> QED
      BY <1>3, <3>1, <3>2, Zenon
  <2>2. statsReady'[s] = 1 => statsReady[s] = 1
    <3>1. statsReady'[s] \in {statsReady[s], 0}
      BY <1>0, <1>4, Zenon DEF Domains
    <3> QED
      BY <3>1
  <2>3. SameOwner(s) \/ owner'[s] = Control \/ (owner'[s] = NoOne /\ Quiet(s))
    BY <1>0, Zenon DEF MgmtEffect, Reserves, Unreserves, SameOwner, Domains
  <2> QED
    BY <1>2, <2>1, <2>2, <2>3, Zenon DEF MgmtAt
<1> QED
  BY <1>1, <1>5, Zenon

\* Every step of a command.
LEMMA PlaneMgmt ==
    ASSUME TypeOK, OwnInv, ClaimInv, AttachedInv, MgmtNext
    PROVE  PlaneStep
<1>1. UNCHANGED <<pc, slot, req>> /\ \A s \in Slots : MgmtAt(s)
  BY MgmtDoes, Zenon
<1>2. \A d \in Clients : Engaged(d)' <=> Engaged(d)
  BY <1>1, Zenon DEF Engaged
<1>3. \A d \in Clients : GoesOn(d)
  BY <1>1, OthersGoOn, Zenon
<1>4. ASSUME NEW s \in Slots
      PROVE  /\ Attached(s)' /\ FinalStays(s) /\ Confirms(s)
             /\ \A d \in Clients : Engaged(d) /\ slot[d] = s => Claimed(d, s)'
  <2>0. MgmtAt(s) /\ 0 # PortFUp
    BY <1>1 DEF PortFUp
  <2>1. ~Claims(s)
    BY <2>0, OwnerAssumption, Zenon DEF MgmtAt, SameOwner, Claims
  <2>2. Attached(s)'
    BY <2>0, OwnerAssumption, Zenon DEF MgmtAt, SameOwner, Attached, AttachedInv
  <2>3. Final(s) => Final(s)'
    <3> SUFFICES ASSUME Final(s), NEW d \in Clients, Engaged(d), slot[d] = s PROVE FinalFor(d, s)'
      BY <1>1, <1>2, Zenon DEF Final, FinalFor
    <3>1. FinalFor(d, s)
      BY Zenon DEF Final, FinalFor
    <3>2. ~Quiet(s)
      BY Zenon DEF Quiet
    <3> QED
      BY <1>1, <2>0, <3>1, <3>2, Zenon DEF FinalFor, MgmtAt, SameOwner
  <2>4. ASSUME NEW d \in Clients, Engaged(d), slot[d] = s PROVE Claimed(d, s)'
    <3>1. Claimed(d, s)
      BY <2>4, Zenon DEF ClaimInv
    <3> QED
      BY <1>1, <2>0, <3>1, Zenon DEF Claimed, MgmtAt
  <2>5. FinalStays(s) /\ Confirms(s)
    BY <2>0, <2>1, <2>3, Zenon DEF FinalStays, Confirms, MgmtAt
  <2> QED
    BY <2>2, <2>4, <2>5, Zenon
<1>5. ClaimInv'
  <2> SUFFICES ASSUME NEW d \in Clients, Engaged(d)', NEW s \in Slots, slot'[d] = s PROVE Claimed(d, s)'
    BY <1>1, Zenon DEF ClaimInv, TypeOK
  <2> QED
    BY <1>1, <1>2, <1>4, Zenon
<1> QED
  BY <1>3, <1>4, <1>5, Zenon DEF PlaneStep, AttachedInv

\* Every step of the control plane without a crash.
LEMMA PlaneSteps ==
    ASSUME IInv, ClaimInv, AttachedInv, CrashFreeNext
    PROVE  PlaneStep
BY PlaneClient, PlaneMgmt, Zenon DEF IInv, CrashFreeNext

-----------------------------------------------------------------------------
(* The steps of PacketPath. *)

\* The claims of a slot only grow.
LEMMA Attachments ==
    ASSUME PathTypes, ControlStep
    PROVE  /\ att' \in [Slots -> 0 .. MaxAttach]
           /\ \A s \in Slots : att[s] \in Nat /\ att'[s] = IF Claims(s) THEN att[s] + 1 ELSE att[s]
<1>1. \A s \in Slots : att[s] \in 0 .. MaxAttach /\ (Claims(s) => att[s] < MaxAttach)
  BY Zenon DEF PathTypes, ControlStep
<1>2. att' = [s \in Slots |-> IF Claims(s) THEN att[s] + 1 ELSE att[s]]
  BY Zenon DEF ControlStep
<1>3. \A s \in Slots : (IF Claims(s) THEN att[s] + 1 ELSE att[s]) \in 0 .. MaxAttach
  BY <1>1, MaxAttachAssumption
<1> QED
  BY <1>1, <1>2, <1>3

\* The types of the path after a step of the control plane.
LEMMA ControlTypes ==
    ASSUME PathTypes, ControlStep
    PROVE  /\ PathTypes'
           /\ stats' = stats /\ rd' = rd
           /\ \A c \in Clients : reset'[c] = IF pc'[c] = "at_stats" THEN reset[c] ELSE NoReset
           /\ pkt'.slot = pkt.slot /\ pkt'.cap = pkt.cap /\ pkt'.at = pkt.at
           /\ pkt'.stage = pkt.stage /\ pkt'.mixed = pkt.mixed
           /\ pkt'.live => flags'[pkt.slot] = PortFUp /\ IsSlotAllocated(innerIP'[pkt.slot])
<1>1. stats' = stats /\ rd' = rd
  BY Zenon DEF ControlStep
<1>2. NoReset \in [at : {"none", "read", "done"}, gen : Nat]
  BY DEF NoReset
<1>3. /\ reset' \in [Clients -> [at : {"none", "read", "done"}, gen : Nat]]
      /\ \A c \in Clients : reset'[c] = IF pc'[c] = "at_stats" THEN reset[c] ELSE NoReset
  BY <1>2, Zenon DEF PathTypes, ControlStep
<1>4. DEFINE live == pkt.live /\ flags'[pkt.slot] = PortFUp /\ IsSlotAllocated(innerIP'[pkt.slot])
<1>5. pkt' = [pkt EXCEPT !.live = live] /\ live \in BOOLEAN
  BY Zenon DEF ControlStep
<1> HIDE DEF live
<1>6. /\ DOMAIN pkt' = PktFields /\ pkt'.slot = pkt.slot /\ pkt'.cap = pkt.cap /\ pkt'.at = pkt.at
      /\ pkt'.stage = pkt.stage /\ pkt'.mixed = pkt.mixed /\ pkt'.live = live
  BY <1>5 DEF PathTypes, PktFields
<1>7. live => flags'[pkt.slot] = PortFUp /\ IsSlotAllocated(innerIP'[pkt.slot])
  BY Zenon DEF live
<1>8. PathTypes'
  BY <1>1, <1>3, <1>5, <1>6, Attachments, Zenon DEF PathTypes
<1> QED
  BY <1>1, <1>3, <1>6, <1>7, <1>8, Zenon

\* A step of the control plane keeps what is known of ResetStats and of the counters.
LEMMA ControlCounters ==
    ASSUME TypeOK', PathTypes, ResetInv, CounterInv, PlaneStep, ControlStep
    PROVE  ResetInv' /\ CounterInv'
<1>1. /\ stats' = stats
      /\ \A c \in Clients : reset'[c] = IF pc'[c] = "at_stats" THEN reset[c] ELSE NoReset
  BY ControlTypes, Zenon
<1>2. \A s \in Slots : att[s] \in Nat /\ att'[s] = IF Claims(s) THEN att[s] + 1 ELSE att[s]
  BY Attachments, Zenon
<1>3. \A s \in Slots : stats[s].gen \in Nat /\ stats[s].of \in Nat /\ stats[s].counted \subseteq Nat
  BY DEF PathTypes
<1>n. NoReset.at = "none"
  BY DEF NoReset
<1>4. ResetInv'
  <2>1. ASSUME NEW c \in Clients, Engaged(c)', NEW s \in Slots, slot'[c] = s PROVE Resetting(c, s)'
    <3>1. CASE /\ Engaged(c) /\ slot[c] = s /\ ~Claims(s)
               /\ pc'[c] = "at_stats" => pc[c] \in {"at_publish", "at_stats"}
               /\ pc'[c] \in AttachPCs \ {"at_up"} =>
                    pc[c] \in AttachPCs \ {"at_up"} /\ (pc[c] = "at_stats" => pc'[c] = "at_stats")
      <4>1. att'[s] = att[s] /\ Resetting(c, s) /\ (pc[c] # "at_stats" => reset[c] = NoReset)
        BY <1>2, <3>1, Zenon DEF ResetInv
      <4>2. CASE pc'[c] = "at_stats" /\ pc[c] = "at_stats"
        <5>1. reset'[c] = reset[c]
          BY <1>1, <4>2, Zenon
        <5> QED
          BY <1>1, <4>1, <4>2, <5>1, Zenon DEF Resetting
      <4>3. CASE ~(pc'[c] = "at_stats" /\ pc[c] = "at_stats")
        <5>1. reset'[c] = NoReset
          BY <1>1, <3>1, <4>1, <4>3, Zenon
        <5>2. pc'[c] \in AttachPCs \ {"at_up"} => reset[c] = NoReset /\ pc[c] \in AttachPCs \ {"at_up"}
          BY <3>1, <4>1, <4>3, Zenon
        <5> QED
          BY <1>1, <1>n, <4>1, <5>1, <5>2, Zenon DEF Resetting
      <4> QED
        BY <4>2, <4>3, Zenon
    <3>2. CASE Claims(s) /\ pc'[c] = "at_ready"
      <4>1. reset'[c] = NoReset
        BY <1>1, <3>2, Zenon
      <4>2. stats[s].gen <= att[s]
        BY Zenon DEF CounterInv, Counters
      <4>3. stats'[s].gen < att'[s]
        BY <1>1, <1>2, <1>3, <3>2, <4>2
      <4> QED
        BY <1>n, <4>1, <4>3, Zenon DEF Resetting
    <3>3. GoesOn(c)
      BY Zenon DEF PlaneStep
    <3> QED
      BY <2>1, <3>1, <3>2, <3>3, Zenon DEF GoesOn
  <2>2. \A c \in Clients : Engaged(c)' => slot'[c] \in Slots
    BY Zenon DEF TypeOK
  <2> QED
    BY <1>1, <2>1, <2>2, Zenon DEF ResetInv
<1>5. ASSUME NEW s \in Slots PROVE Counters(s)'
  <2>1. Counters(s) /\ Confirms(s)
    BY Zenon DEF CounterInv, PlaneStep
  <2>2. /\ stats'[s].gen <= att'[s] /\ stats'[s].of <= att'[s] /\ (stats'[s].gen # 0 => stats'[s].of # 0)
        /\ \A a \in stats'[s].counted : a # 0 /\ stats'[s].of <= a /\ a <= att'[s]
    BY <1>1, <1>2, <1>3, <2>1 DEF Counters
  <2>3. ASSUME statsReady'[s] = 1
        PROVE  stats'[s].of = att'[s] \/ \E c \in Clients : pc'[c] = "at_ready" /\ slot'[c] = s
    <3>1. CASE Claims(s)
      BY <2>1, <3>1, Zenon DEF Confirms
    <3>2. CASE ~Claims(s)
      <4>1. att'[s] = att[s]
        BY <1>2, <3>2, Zenon
      <4>2. CASE statsReady[s] = 1
        <5>1. CASE stats[s].of = att[s]
          BY <1>1, <4>1, <5>1, Zenon
        <5>2. ASSUME NEW c \in Clients, pc[c] = "at_ready", slot[c] = s
              PROVE  pc'[c] = "at_ready" /\ slot'[c] = s
          <6>1. statsReady'[s] = 0 \/ (pc'[c] = "at_ready" /\ slot'[c] = s)
            BY <5>2, Zenon DEF PlaneStep, GoesOn
          <6> QED
            BY <2>3, <6>1
        <5> QED
          BY <2>1, <4>2, <5>1, <5>2, Zenon DEF Counters
      <4>3. ASSUME NEW c \in Clients, slot[c] = s, pc[c] = "at_stats", pc'[c] = "at_up"
            PROVE  stats'[s].of = att'[s]
        <5>1. reset[c].at = "done"
          BY <2>3, <4>3, Zenon DEF ControlStep, ConfirmsReset
        <5>2. Resetting(c, s)
          BY <4>3, Zenon DEF ResetInv, Engaged, AttachPCs
        <5> QED
          BY <1>1, <4>1, <5>1, <5>2, Zenon DEF Resetting
      <4> QED
        BY <2>1, <2>3, <4>2, <4>3, Zenon DEF Confirms
    <3> QED
      BY <3>1, <3>2, Zenon
  <2> QED
    BY <2>2, <2>3, Zenon DEF Counters
<1> QED
  BY <1>4, <1>5, Zenon DEF CounterInv

\* It keeps what is known of the packet and of the Stats call: a port attached
\* anew has another number, and until then its configuration stays final.
LEMMA ControlReaders ==
    ASSUME PathTypes, PacketInv, ReadInv, PlaneStep, ControlStep
    PROVE  PacketInv' /\ ReadInv'
<1>1. /\ stats' = stats /\ rd' = rd
      /\ pkt'.slot = pkt.slot /\ pkt'.cap = pkt.cap /\ pkt'.at = pkt.at
      /\ pkt'.stage = pkt.stage /\ pkt'.mixed = pkt.mixed
      /\ pkt'.live => flags'[pkt.slot] = PortFUp /\ IsSlotAllocated(innerIP'[pkt.slot])
  BY ControlTypes, Zenon
<1>2. \A s \in Slots : att[s] \in Nat /\ att'[s] = IF Claims(s) THEN att[s] + 1 ELSE att[s]
  BY Attachments, Zenon
<1>3. /\ pkt.slot \in Slots /\ pkt.at \in Nat /\ rd.slot \in Slots /\ rd.began \in Nat
  BY Zenon DEF PathTypes
<1>4. PacketInv'
  <2>1. pkt.at <= att[pkt.slot]
    BY Zenon DEF PacketInv
  <2>2. pkt.at <= att'[pkt.slot]
    BY <1>2, <1>3, <2>1
  <2> QED
    BY <1>1, <2>2, Zenon DEF PacketInv
<1>5. ReadInv'
  <2>s. PICK s \in Slots : rd.slot = s
    BY <1>3, Zenon
  <2>0. rd'.slot = s
    BY <1>1, <2>s, Zenon
  <2>1. rd.began <= att[s] /\ (att[s] = rd.began => Found(s))
    BY <2>s, Zenon DEF ReadInv
  <2>2. rd.began <= att'[s]
    BY <1>2, <1>3, <2>0, <2>1
  <2>3. ASSUME att'[s] = rd.began PROVE att[s] = rd.began /\ ~Claims(s)
    BY <1>2, <1>3, <2>0, <2>1, <2>3
  <2>4. FinalStays(s)
    BY <2>0, Zenon DEF PlaneStep
  <2>5. ASSUME att'[s] = rd.began PROVE Found(s)'
    <3>1. /\ Found(s)
          /\ Final(s) => Final(s)' /\ want'[s] = want[s] /\ generation'[s] = generation[s]
      BY <2>1, <2>3, <2>4, <2>5, Zenon DEF FinalStays
    <3>2. rd.at \in 0 .. 12
      BY Zenon DEF PathTypes
    <3>3. /\ rd.at >= 4 => rd.at >= 3
          /\ rd.at >= 6 => rd.at >= 3
          /\ rd.at >= 7 => rd.at >= 3
      BY <3>2
    <3> QED
      BY <1>1, <3>1, <3>3, Zenon DEF Found
  <2> QED
    BY <1>1, <2>0, <2>2, <2>5, Zenon DEF ReadInv
<1> QED
  BY <1>4, <1>5, Zenon

\* A step of the control plane.
LEMMA ControlInv ==
    ASSUME IInv, IInv', PathInv, ControlStep
    PROVE  PathInv'
<1>1. PlaneStep
  BY PlaneSteps, Zenon DEF PathInv, ControlStep
<1> QED
  BY <1>1, ControlTypes, ControlCounters, ControlReaders, Zenon DEF PathInv, PlaneStep, IInv

\* A step that leaves the variables of PortSlots alone keeps what is known of them.
LEMMA SamePlane ==
    ASSUME ClaimInv, AttachedInv, UNCHANGED vars
    PROVE  /\ ClaimInv' /\ AttachedInv'
           /\ \A s \in Slots : Final(s) => Final(s)'
           /\ \A c \in Clients : (Engaged(c)' <=> Engaged(c)) /\ slot'[c] = slot[c] /\ pc'[c] = pc[c]
<1> USE DEF vars, tables, clientVars, fieldVars, ownVars, mgmtVars
<1>1. ClaimInv'
  BY Zenon DEF ClaimInv, Claimed, Engaged
<1>2. AttachedInv'
  BY Zenon DEF AttachedInv, Attached
<1>3. \A s \in Slots : Final(s) => Final(s)'
  BY Zenon DEF Final, Engaged
<1> QED
  BY <1>1, <1>2, <1>3, Zenon DEF Engaged

\* Found looks at a slot through these values only.
LEMMA StillFound ==
    ASSUME ClaimInv, AttachedInv, UNCHANGED <<vars, rd>>, NEW s \in Slots, Found(s),
           rd.at >= 4 => stats'[s].of = rd.began
    PROVE  Found(s)'
<1>1. Final(s) => Final(s)'
  BY SamePlane, Zenon
<1>2. generation' = generation /\ want' = want /\ rd' = rd
  BY Zenon DEF vars, tables, fieldVars, ownVars
<1> QED
  BY <1>1, <1>2, Zenon DEF Found

\* ResetInv from what it says client by client.
LEMMA ResetAll ==
    ASSUME TypeOK, ClaimInv, AttachedInv, UNCHANGED vars,
           \A d \in Clients : pc[d] # "at_stats" => reset'[d] = NoReset,
           \A d \in Clients : \A r \in Slots : Engaged(d) /\ slot[d] = r => Resetting(d, r)'
    PROVE  ResetInv'
<1>1. \A d \in Clients : (Engaged(d)' <=> Engaged(d)) /\ slot'[d] = slot[d] /\ pc'[d] = pc[d]
  BY SamePlane, Zenon
<1>2. ASSUME NEW d \in Clients, Engaged(d)' PROVE Resetting(d, slot[d])'
  <2>1. PICK r \in Slots : slot[d] = r
    BY Zenon DEF TypeOK
  <2>2. slot'[d] = r /\ Resetting(d, r)'
    BY <1>1, <1>2, <2>1, Zenon
  <2> QED
    BY <2>2, Zenon
<1> QED
  BY <1>1, <1>2, Zenon DEF ResetInv

\* The locked read of ResetStats.
LEMMA ResetReadInv ==
    ASSUME IInv, PathInv, NEW c \in Clients, ResetRead(c)
    PROVE  PathInv'
<1> USE DEF PathInv
<1>s. PICK s \in Slots : slot[c] = s
  BY Zenon DEF IInv, TypeOK
<1>1. /\ UNCHANGED vars /\ stats' = stats /\ att' = att /\ pkt' = pkt /\ rd' = rd
      /\ pc[c] = "at_stats" /\ reset[c].at = "none"
      /\ reset' = [reset EXCEPT ![c] = [at |-> "read", gen |-> stats[s].gen]]
  BY <1>s, Zenon DEF ResetRead
<1>2. /\ ClaimInv' /\ AttachedInv'
      /\ \A r \in Slots : Final(r) => Final(r)'
      /\ \A d \in Clients : (Engaged(d)' <=> Engaged(d)) /\ slot'[d] = slot[d] /\ pc'[d] = pc[d]
  BY <1>1, SamePlane, Zenon
<1>3. stats[s].gen \in Nat
  BY DEF PathTypes
<1>4. /\ reset' \in [Clients -> [at : {"none", "read", "done"}, gen : Nat]]
      /\ reset'[c].at = "read" /\ reset'[c].gen = stats[s].gen
      /\ \A d \in Clients \ {c} : reset'[d] = reset[d]
  BY <1>1, <1>3 DEF PathTypes
<1>5. PathTypes'
  BY <1>1, <1>4, Zenon DEF PathTypes
<1>6. ResetInv'
  <2>1. Resetting(c, s)
    BY <1>1, <1>s, Zenon DEF ResetInv, Engaged, AttachPCs
  <2>2. Resetting(c, s)'
    BY <1>1, <1>2, <1>4, <2>1 DEF Resetting
  <2>3. ASSUME NEW d \in Clients, d # c, Engaged(d), NEW r \in Slots, slot[d] = r
        PROVE  Resetting(d, r)'
    <3>1. Resetting(d, r)
      BY <2>3, Zenon DEF ResetInv
    <3> QED
      BY <1>1, <1>2, <1>4, <2>3, <3>1, Zenon DEF Resetting
  <2>4. \A d \in Clients : pc[d] # "at_stats" => reset'[d] = NoReset
    BY <1>1, <1>4, Zenon DEF ResetInv
  <2> QED
    BY <1>1, <1>s, <2>2, <2>3, <2>4, ResetAll, Zenon DEF IInv
<1>7. CounterInv'
  BY <1>1, Zenon DEF CounterInv, Counters, vars, tables, clientVars, fieldVars
<1>8. PacketInv'
  BY <1>1, Zenon DEF PacketInv, vars, tables, fieldVars, ownVars
<1>9. ReadInv'
  <2>1. PICK r \in Slots : rd.slot = r
    BY Zenon DEF PathTypes
  <2>2. Found(r) => Found(r)'
    BY <1>1, StillFound, Zenon DEF Found
  <2> QED
    BY <1>1, <2>1, <2>2, Zenon DEF ReadInv
<1> QED
  BY <1>2, <1>5, <1>6, <1>7, <1>8, <1>9, Zenon

\* The locked write of ResetStats: one client at most is engaged at the slot, and
\* a packet in flight has captured an earlier instance.
LEMMA ResetWriteInv ==
    ASSUME IInv, PathInv, NEW c \in Clients, ResetWrite(c)
    PROVE  PathInv'
<1> USE DEF PathInv
<1>s. PICK s \in Slots : slot[c] = s
  BY Zenon DEF IInv, TypeOK
<1>1. /\ UNCHANGED vars /\ att' = att /\ pkt' = pkt /\ rd' = rd
      /\ pc[c] = "at_stats" /\ reset[c].at = "read"
      /\ stats' = [stats EXCEPT ![s] = [gen |-> reset[c].gen + 1, of |-> att[s],
                                        tag |-> generation[s], counted |-> {}]]
      /\ reset' = [reset EXCEPT ![c].at = "done"]
  BY <1>s, Zenon DEF ResetWrite
<1>2. /\ ClaimInv' /\ AttachedInv'
      /\ \A r \in Slots : Final(r) => Final(r)'
      /\ \A d \in Clients : (Engaged(d)' <=> Engaged(d)) /\ slot'[d] = slot[d] /\ pc'[d] = pc[d]
  BY <1>1, SamePlane, Zenon
<1>e. Engaged(c) /\ pc[c] \in AttachPCs \ {"at_up"}
  BY <1>1 DEF Engaged, AttachPCs
<1>3. /\ stats[s].gen \in Nat /\ att[s] \in Nat /\ reset[c].gen \in Nat
      /\ generation[s] = req[c].cfg
  BY <1>1, <1>s, <1>e DEF PathTypes, ClaimInv, Claimed
<1>4. reset[c].gen = stats[s].gen /\ stats[s].gen < att[s]
  <2>1. Resetting(c, s)
    BY <1>e, <1>s, Zenon DEF ResetInv
  <2>2. reset[c].at # "done"
    BY <1>1
  <2> QED
    BY <1>1, <1>e, <2>1, <2>2, Zenon DEF Resetting
<1>5. /\ reset' \in [Clients -> [at : {"none", "read", "done"}, gen : Nat]]
      /\ reset'[c].at = "done"
      /\ \A d \in Clients \ {c} : reset'[d] = reset[d]
  BY <1>1 DEF PathTypes
<1>6. /\ stats'[s].gen = stats[s].gen + 1 /\ stats'[s].of = att[s] /\ stats'[s].counted = {}
      /\ \A r \in Slots \ {s} : stats'[r] = stats[r]
  BY <1>1, <1>4 DEF PathTypes
<1>7. PathTypes'
  <2>1. generation[s] \in Configs \cup {NoConfig}
    <3>1. want[s].gen = req[c].cfg
      BY <1>e, <1>s, Zenon DEF ClaimInv, Claimed
    <3>2. want[s].gen \in Configs \cup {NoConfig}
      BY DEF IInv, TypeOK
    <3> QED
      BY <1>3, <3>1, <3>2, Zenon
  <2>2. stats' \in [Slots -> [gen : Nat, of : Nat, tag : Configs \cup {NoConfig}, counted : SUBSET Nat]]
    BY <1>1, <1>3, <2>1 DEF PathTypes
  <2> QED
    BY <1>1, <1>5, <2>2, Zenon DEF PathTypes
<1>8. ResetInv'
  <2>1. Resetting(c, s)'
    BY <1>1, <1>2, <1>5, <1>6 DEF Resetting
  <2>2. ASSUME NEW d \in Clients, d # c, Engaged(d), NEW r \in Slots, slot[d] = r
        PROVE  Resetting(d, r)'
    <3>1. Resetting(d, r)
      BY <2>2, Zenon DEF ResetInv
    <3>2. r # s
      BY <1>e, <1>s, <2>2, Zenon DEF IInv, OwnInv, OneClaimant
    <3>3. reset'[d] = reset[d] /\ stats'[r] = stats[r]
      BY <1>5, <1>6, <2>2, <3>2, Zenon
    <3>4. pc'[d] = pc[d] /\ att' = att
      BY <1>1, <1>2, Zenon
    <3> QED
      BY <3>1, <3>3, <3>4, Zenon DEF Resetting
  <2>3. \A d \in Clients : pc[d] # "at_stats" => reset'[d] = NoReset
    BY <1>1, <1>5, Zenon DEF ResetInv
  <2> QED
    BY <1>1, <1>s, <2>1, <2>2, <2>3, ResetAll, Zenon DEF IInv
<1>9. CounterInv'
  <2>1. Counters(s)'
    <3>1. /\ stats'[s].gen <= att[s] /\ stats'[s].of <= att[s] /\ stats'[s].of # 0
      BY <1>3, <1>4, <1>6
    <3> QED
      BY <1>1, <1>6, <3>1, Zenon DEF Counters
  <2>2. ASSUME NEW r \in Slots, r # s PROVE Counters(r)'
    <3>1. stats'[r] = stats[r] /\ Counters(r)
      BY <1>6, <2>2, Zenon DEF CounterInv
    <3> QED
      BY <1>1, <3>1, Zenon DEF Counters, vars, tables, clientVars, fieldVars
  <2> QED
    BY <2>1, <2>2, Zenon DEF CounterInv
<1>10. PacketInv'
  <2>1. CASE pkt.slot = s
    <3>1. pkt.cap <= stats'[s].gen /\ pkt.cap # stats'[s].gen
      BY <1>3, <1>6, <2>1 DEF PacketInv, PathTypes
    <3> QED
      BY <1>1, <2>1, <3>1, Zenon DEF PacketInv, vars, tables, fieldVars, ownVars
  <2>2. CASE pkt.slot # s
    <3>1. stats'[pkt.slot] = stats[pkt.slot]
      BY <1>6, <2>2, Zenon DEF PathTypes
    <3> QED
      BY <1>1, <3>1, Zenon DEF PacketInv, vars, tables, fieldVars, ownVars
  <2> QED
    BY <2>1, <2>2, Zenon
<1>11. ReadInv'
  <2>1. PICK r \in Slots : rd.slot = r
    BY Zenon DEF PathTypes
  <2>2. ASSUME att[r] = rd.began, Found(r) PROVE Found(r)'
    <3>1. rd.at >= 4 => stats'[r].of = rd.began
      BY <1>6, <2>2, Zenon DEF Found
    <3> QED
      BY <1>1, <2>2, <3>1, StillFound, Zenon
  <2> QED
    BY <1>1, <2>1, <2>2, Zenon DEF ReadInv
<1> QED
  BY <1>2, <1>7, <1>8, <1>9, <1>10, <1>11, Zenon

-----------------------------------------------------------------------------
(* The steps of a packet. *)

\* PathTypes and PacketInv for a value of pkt.
PktOK(p) ==
    /\ DOMAIN p = PktFields /\ p.slot \in Slots /\ p.cap \in Nat /\ p.at \in Nat
    /\ p.stage \in {"none", "match", "own", "gate", "fields", "opts", "count"}
    /\ p.live \in BOOLEAN

Sound(p) ==
    /\ p.mixed = FALSE
    /\ p.live => flags[p.slot] = PortFUp /\ IsSlotAllocated(innerIP[p.slot])
    /\ p.cap <= stats[p.slot].gen /\ p.at <= att[p.slot]
    /\ p.stage \in {"fields", "opts", "count"} /\ p.cap = stats[p.slot].gen =>
         stats[p.slot].of <= p.at

\* A step that only replaces the packet by a sound one keeps the invariant.
LEMMA PacketKept ==
    ASSUME PathInv, UNCHANGED <<vars, stats, reset, att, rd>>, PktOK(pkt'),
           NEW p, pkt' = p, Sound(p)
    PROVE  PathInv'
<1> USE DEF PathInv
<1>1. /\ UNCHANGED vars /\ stats' = stats /\ reset' = reset /\ att' = att /\ rd' = rd
  BY Zenon
<1>2. /\ ClaimInv' /\ AttachedInv'
  BY <1>1, SamePlane, Zenon
<1>3. PathTypes'
  BY <1>1, Zenon DEF PathTypes, PktOK
<1>4. ResetInv'
  BY <1>1, Zenon DEF ResetInv, Resetting, Engaged, vars, clientVars
<1>5. CounterInv'
  BY <1>1, Zenon DEF CounterInv, Counters, vars, tables, clientVars, fieldVars
<1>6. PacketInv'
  BY <1>1, Zenon DEF PacketInv, Sound, vars, tables, fieldVars, ownVars
<1>7. ReadInv'
  <2>1. PICK r \in Slots : rd.slot = r
    BY Zenon DEF PathTypes
  <2>2. ASSUME Found(r) PROVE Found(r)'
    <3>1. rd.at >= 4 => stats'[r].of = rd.began
      BY <1>1, <2>2, Zenon DEF Found
    <3> QED
      BY <1>1, <2>2, <3>1, StillFound, Zenon
  <2> QED
    BY <1>1, <2>1, <2>2, Zenon DEF ReadInv
<1> QED
  BY <1>2, <1>3, <1>4, <1>5, <1>6, <1>7, Zenon

\* No packet is a sound one.
LEMMA NoPacketSound ==
    ASSUME PathTypes
    PROVE  PktOK(NoPacket) /\ Sound(NoPacket)
<1>1. /\ NoPacket.mixed = FALSE /\ NoPacket.live = FALSE /\ NoPacket.cap = 0 /\ NoPacket.at = 0
      /\ NoPacket.stage = "none" /\ NoPacket.slot = 0 /\ DOMAIN NoPacket = PktFields
  BY DEF NoPacket, PktFields
<1>2. stats[0].gen \in Nat /\ att[0] \in Nat
  BY ZeroSlot DEF PathTypes
<1>3. PktOK(NoPacket)
  <2>1. 0 \in Nat /\ "none" \in {"none", "match", "own", "gate", "fields", "opts", "count"}
    OBVIOUS
  <2>2. FALSE \in BOOLEAN
    BY Zenon
  <2> QED
    BY <1>1, <2>1, <2>2, ZeroSlot, Zenon DEF PktOK
<1>4. 0 <= stats[0].gen /\ 0 <= att[0] /\ "none" \notin {"fields", "opts", "count"}
  BY <1>2
<1> QED
  BY <1>1, <1>3, <1>4, Zenon DEF Sound

\* A packet that goes on with what the gate let it see is a sound one.
LEMMA GoingOn ==
    ASSUME PathTypes, PacketInv, NEW p, DOMAIN p = PktFields, p.slot = pkt.slot, p.cap = pkt.cap,
           p.at = pkt.at, p.live = pkt.live, p.mixed = FALSE,
           \/ p.stage \in {"own", "gate"}
           \/ p.stage \in {"opts", "count"} /\ pkt.stage \in {"fields", "opts"}
    PROVE  PktOK(p) /\ Sound(p)
<1>1. PktOK(p)
  <2>1. p.stage \in {"none", "match", "own", "gate", "fields", "opts", "count"}
    OBVIOUS
  <2> QED
    BY <2>1, Zenon DEF PktOK, PathTypes
<1>2. p.stage \in {"fields", "opts", "count"} => pkt.stage \in {"fields", "opts", "count"}
  OBVIOUS
<1> QED
  BY <1>1, <1>2, Zenon DEF Sound, PacketInv

\* tc_ingress_*: the slot is found and its counter instance captured.
LEMMA ArriveInv ==
    ASSUME PathInv, NEW prog, NEW s \in Slots, NEW k, PacketArrive(prog, s, k)
    PROVE  PathInv'
<1> DEFINE st == IF prog = "mx" THEN "match" ELSE "own"
<1> DEFINE p == [NoPacket EXCEPT !.stage = st, !.prog = prog, !.slot = s, !.to = k, !.cap = stats[s].gen]
<1>1. pkt' = p /\ UNCHANGED <<vars, stats, reset, att, rd>>
  BY Zenon DEF PacketArrive, PacketStep
<1>2. st \in {"match", "own"}
  BY Zenon
<1> HIDE DEF st
<1>3. /\ p.mixed = FALSE /\ p.live = FALSE /\ p.cap = stats[s].gen /\ p.at = 0
      /\ p.stage = st /\ p.slot = s /\ DOMAIN p = PktFields
  BY DEF NoPacket, PktFields
<1> HIDE DEF p
<1>4. stats[s].gen \in Nat /\ att[s] \in Nat
  BY DEF PathInv, PathTypes
<1>5. PktOK(p)
  <2>1. 0 \in Nat /\ st \in {"none", "match", "own", "gate", "fields", "opts", "count"}
    BY <1>2
  <2>2. FALSE \in BOOLEAN
    BY Zenon
  <2> QED
    BY <1>3, <1>4, <2>1, <2>2, Zenon DEF PktOK
<1>6. stats[s].gen <= stats[s].gen /\ 0 <= att[s] /\ st \notin {"fields", "opts", "count"}
  BY <1>2, <1>4
<1>7. Sound(p)
  BY <1>3, <1>6, Zenon DEF Sound
<1>8. PICK q : q = p
  OBVIOUS
<1>9. pkt' = q /\ PktOK(pkt') /\ Sound(q)
  BY <1>1, <1>5, <1>7, <1>8, Zenon
<1> QED
  BY <1>1, <1>9, PacketKept, Zenon

\* A packet that is refused, or goes on as GoingOn says, keeps the invariant.
LEMMA PacketGoes ==
    ASSUME PathInv, UNCHANGED <<vars, stats, reset, att, rd>>,
           NEW p, pkt' = p, p = NoPacket \/ (PktOK(p) /\ Sound(p))
    PROVE  PathInv'
<1>1. PktOK(p) /\ Sound(p)
  BY NoPacketSound, Zenon DEF PathInv
<1>2. PktOK(pkt')
  BY <1>1, Zenon
<1> QED
  BY <1>1, <1>2, PacketKept, Zenon

\* The generation of the floating address, and the owner word.
LEMMA MatchOwnInv ==
    ASSUME PathInv, PacketMatch \/ PacketOwn
    PROVE  PathInv'
<1>p. PathTypes /\ PacketInv /\ pkt.mixed = FALSE
  BY Zenon DEF PathInv, PacketInv
<1>1. CASE PacketMatch
  <2> DEFINE p == [pkt EXCEPT !.stage = "own"]
  <2>1. (pkt' = p \/ pkt' = NoPacket) /\ UNCHANGED <<vars, stats, reset, att, rd>>
    BY <1>1, Zenon DEF PacketMatch, PacketStep, Refuse
  <2>2. /\ DOMAIN p = PktFields /\ p.slot = pkt.slot /\ p.cap = pkt.cap /\ p.at = pkt.at
        /\ p.live = pkt.live /\ p.mixed = pkt.mixed /\ p.stage = "own"
    BY <1>p DEF PathTypes, PktFields
  <2> HIDE DEF p
  <2>3. PICK q : q = pkt'
    OBVIOUS
  <2>4. q = NoPacket \/ (PktOK(q) /\ Sound(q))
    BY <1>p, <2>1, <2>2, <2>3, GoingOn, Zenon
  <2> QED
    BY <2>1, <2>3, <2>4, PacketGoes, Zenon
<1>2. CASE PacketOwn
  <2> DEFINE ip == IF pkt.prog = "mx" THEN innerIP[pkt.slot] ELSE Free
  <2> DEFINE p == [pkt EXCEPT !.stage = "gate", !.ip = ip]
  <2>1. (pkt' = p \/ pkt' = NoPacket) /\ UNCHANGED <<vars, stats, reset, att, rd>>
    BY <1>2, Zenon DEF PacketOwn, PacketStep, Refuse
  <2> HIDE DEF ip
  <2>2. /\ DOMAIN p = PktFields /\ p.slot = pkt.slot /\ p.cap = pkt.cap /\ p.at = pkt.at
        /\ p.live = pkt.live /\ p.mixed = pkt.mixed /\ p.stage = "gate"
    BY <1>p DEF PathTypes, PktFields
  <2> HIDE DEF p
  <2>3. PICK q : q = pkt'
    OBVIOUS
  <2>4. q = NoPacket \/ (PktOK(q) /\ Sound(q))
    BY <1>p, <2>1, <2>2, <2>3, GoingOn, Zenon
  <2> QED
    BY <2>1, <2>3, <2>4, PacketGoes, Zenon
<1> QED
  BY <1>1, <1>2, Zenon

\* The gate: from here on the packet is one of the current attachment, whose
\* counters hold none of an earlier one.
LEMMA GateInv ==
    ASSUME PathInv, PacketGate
    PROVE  PathInv'
<1>p. PathTypes /\ PacketInv /\ pkt.mixed = FALSE /\ pkt.slot \in Slots /\ pkt.cap \in Nat
  BY Zenon DEF PathInv, PacketInv, PathTypes
<1> DEFINE live == IsSlotAllocated(innerIP[pkt.slot])
<1> DEFINE p == [pkt EXCEPT !.stage = "fields", !.at = att[pkt.slot], !.live = live]
<1>1. /\ (pkt' = p /\ flags[pkt.slot] = PortFUp) \/ pkt' = NoPacket
      /\ UNCHANGED <<vars, stats, reset, att, rd>>
  BY Zenon DEF PacketGate, PacketStep, Refuse
<1>2. live \in BOOLEAN
  BY Zenon DEF IsSlotAllocated
<1>3. live => IsSlotAllocated(innerIP[pkt.slot])
  BY Zenon
<1> HIDE DEF live
<1>4. /\ DOMAIN p = PktFields /\ p.slot = pkt.slot /\ p.cap = pkt.cap /\ p.at = att[pkt.slot]
      /\ p.live = live /\ p.mixed = pkt.mixed /\ p.stage = "fields"
  BY <1>p DEF PathTypes, PktFields
<1> HIDE DEF p
<1>5. /\ att[pkt.slot] \in Nat /\ att[pkt.slot] <= att[pkt.slot]
      /\ "fields" \in {"none", "match", "own", "gate", "fields", "opts", "count"}
  BY <1>p DEF PathTypes
<1>6. PktOK(p)
  BY <1>p, <1>2, <1>4, <1>5, Zenon DEF PktOK
<1>7. stats[pkt.slot].of <= att[pkt.slot] /\ pkt.cap <= stats[pkt.slot].gen
  BY <1>p, Zenon DEF PathInv, CounterInv, Counters, PacketInv
<1>8. flags[pkt.slot] = PortFUp => Sound(p)
  BY <1>p, <1>3, <1>4, <1>5, <1>7, Zenon DEF Sound
<1>9. PICK q : q = pkt'
  OBVIOUS
<1>10. q = NoPacket \/ (PktOK(q) /\ Sound(q))
  BY <1>1, <1>6, <1>8, <1>9, Zenon
<1> QED
  BY <1>1, <1>9, <1>10, PacketGoes, Zenon

\* While the port that opened the gate stays published, its owner's request is
\* what the tables hold.
LEMMA LiveIsComplete ==
    ASSUME IInv, PathTypes, PacketInv, pkt.live
    PROVE  LET s == pkt.slot IN
           /\ innerIP[s] = want[s].ip /\ transit[s] = want[s].cfg /\ opts[s] = want[s].cfg
           /\ optsLen[s] = OptLen[want[s].cfg] /\ generation[s] = want[s].gen
  BY Zenon DEF IInv, ContentInv, Content, PathTypes, PacketInv

\* The fields behind the gate.
LEMMA FieldsInv ==
    ASSUME IInv, PathInv, PacketFields
    PROVE  PathInv'
<1>p. PathTypes /\ PacketInv /\ pkt.mixed = FALSE /\ pkt.slot \in Slots
  BY Zenon DEF PathInv, PacketInv, PathTypes
<1>s. pkt.stage = "fields" /\ UNCHANGED <<vars, stats, reset, att, rd>>
  BY Zenon DEF PacketFields, PacketStep
<1>f. pkt' = FieldsNX \/ pkt' = FieldsMX \/ pkt' = FieldsTransit
  BY Zenon DEF PacketFields, PacketStep
<1>d. DOMAIN pkt = PktFields
  BY Zenon DEF PathInv, PathTypes
<1>9. PICK q : q = pkt'
  OBVIOUS
<1>1. CASE pkt' = FieldsNX
  <2> DEFINE st == IF optsLen[pkt.slot] > 0 THEN "opts" ELSE "count"
  <2> DEFINE ok == /\ generation[pkt.slot] = want[pkt.slot].gen
                   /\ transit[pkt.slot] = want[pkt.slot].cfg
                   /\ optsLen[pkt.slot] = OptLen[want[pkt.slot].cfg]
  <2> DEFINE mx == pkt.mixed \/ (pkt.live /\ ~ok)
  <2> DEFINE p == [[pkt EXCEPT !.stage = st, !.mixed = mx] EXCEPT !.hint = optsLen[pkt.slot]]
  <2>1. pkt' = p \/ pkt' = NoPacket
    BY <1>1, Zenon DEF FieldsNX, Forward, Refuse
  <2>2. st \in {"opts", "count"}
    BY Zenon
  <2>3. mx = FALSE
    BY <1>p, LiveIsComplete, Zenon
  <2> HIDE DEF st, mx
  <2>4. /\ DOMAIN p = PktFields /\ p.slot = pkt.slot /\ p.cap = pkt.cap /\ p.at = pkt.at
        /\ p.live = pkt.live /\ p.mixed = mx /\ p.stage = st
    BY <1>d DEF PktFields
  <2> HIDE DEF p
  <2>5. "fields" \in {"fields", "opts"}
    OBVIOUS
  <2>6. PktOK(p) /\ Sound(p)
    BY <1>p, <1>s, <2>2, <2>3, <2>4, <2>5, GoingOn, Zenon
  <2>7. q = NoPacket \/ (PktOK(q) /\ Sound(q))
    BY <1>9, <2>1, <2>6, Zenon
  <2> QED
    BY <1>9, <1>s, <2>7, PacketGoes, Zenon
<1>2. CASE pkt' = FieldsMX
  <2> DEFINE ok == innerIP[pkt.slot] = want[pkt.slot].ip
  <2> DEFINE mx == pkt.mixed \/ (pkt.live /\ ~ok)
  <2> DEFINE p == [[pkt EXCEPT !.stage = "count", !.mixed = mx] EXCEPT !.ip = innerIP[pkt.slot]]
  <2>1. pkt' = p
    BY <1>2, Zenon DEF FieldsMX, Forward
  <2>2. "count" \in {"opts", "count"} /\ "fields" \in {"fields", "opts"}
    OBVIOUS
  <2>3. mx = FALSE
    BY <1>p, LiveIsComplete, Zenon
  <2> HIDE DEF mx
  <2>4. /\ DOMAIN p = PktFields /\ p.slot = pkt.slot /\ p.cap = pkt.cap /\ p.at = pkt.at
        /\ p.live = pkt.live /\ p.mixed = mx /\ p.stage = "count"
    BY <1>d DEF PktFields
  <2> HIDE DEF p
  <2>5. PktOK(p) /\ Sound(p)
    BY <1>p, <1>s, <2>2, <2>3, <2>4, GoingOn, Zenon
  <2>6. PktOK(q) /\ Sound(q)
    BY <1>9, <2>1, <2>5, Zenon
  <2> QED
    BY <1>9, <1>s, <2>6, PacketGoes, Zenon
<1>3. CASE pkt' = FieldsTransit
  <2> DEFINE ok == transit[pkt.slot] = want[pkt.slot].cfg
  <2> DEFINE mx == pkt.mixed \/ (pkt.live /\ ~ok)
  <2> DEFINE p == [pkt EXCEPT !.stage = "count", !.mixed = mx]
  <2>1. pkt' = p \/ pkt' = NoPacket
    BY <1>3, Zenon DEF FieldsTransit, Forward, Refuse
  <2>2. "count" \in {"opts", "count"} /\ "fields" \in {"fields", "opts"}
    OBVIOUS
  <2>3. mx = FALSE
    BY <1>p, LiveIsComplete, Zenon
  <2> HIDE DEF mx
  <2>4. /\ DOMAIN p = PktFields /\ p.slot = pkt.slot /\ p.cap = pkt.cap /\ p.at = pkt.at
        /\ p.live = pkt.live /\ p.mixed = mx /\ p.stage = "count"
    BY <1>d DEF PktFields
  <2> HIDE DEF p
  <2>5. PktOK(p) /\ Sound(p)
    BY <1>p, <1>s, <2>2, <2>3, <2>4, GoingOn, Zenon
  <2>6. q = NoPacket \/ (PktOK(q) /\ Sound(q))
    BY <1>9, <2>1, <2>5, Zenon
  <2> QED
    BY <1>9, <1>s, <2>6, PacketGoes, Zenon
<1> QED
  BY <1>f, <1>1, <1>2, <1>3, Zenon

\* The options value.
LEMMA OptsInv ==
    ASSUME IInv, PathInv, PacketOpts
    PROVE  PathInv'
<1>p. PathTypes /\ PacketInv /\ pkt.mixed = FALSE /\ pkt.slot \in Slots
  BY Zenon DEF PathInv, PacketInv, PathTypes
<1>s. pkt.stage = "opts" /\ UNCHANGED <<vars, stats, reset, att, rd>>
  BY Zenon DEF PacketOpts, PacketStep
<1>d. DOMAIN pkt = PktFields
  BY Zenon DEF PathInv, PathTypes
<1>9. PICK q : q = pkt'
  OBVIOUS
<1> DEFINE ok == opts[pkt.slot] = want[pkt.slot].cfg
<1> DEFINE mx == pkt.mixed \/ (pkt.live /\ ~ok)
<1> DEFINE p == [pkt EXCEPT !.stage = "count", !.mixed = mx]
<1>1. pkt' = p \/ pkt' = NoPacket
  BY Zenon DEF PacketOpts, PacketStep, Forward, Refuse
<1>2. "count" \in {"opts", "count"} /\ "opts" \in {"fields", "opts"}
  OBVIOUS
<1>3. mx = FALSE
  BY <1>p, LiveIsComplete, Zenon
<1> HIDE DEF mx
<1>4. /\ DOMAIN p = PktFields /\ p.slot = pkt.slot /\ p.cap = pkt.cap /\ p.at = pkt.at
      /\ p.live = pkt.live /\ p.mixed = mx /\ p.stage = "count"
  BY <1>d DEF PktFields
<1> HIDE DEF p
<1>5. PktOK(p) /\ Sound(p)
  BY <1>p, <1>s, <1>2, <1>3, <1>4, GoingOn, Zenon
<1>6. q = NoPacket \/ (PktOK(q) /\ Sound(q))
  BY <1>9, <1>1, <1>5, Zenon
<1> QED
  BY <1>9, <1>s, <1>6, PacketGoes, Zenon

\* The packet is counted in the instance it captured, if that is still there;
\* then its attachment is not older than the one the counters belong to.
LEMMA CountInv ==
    ASSUME IInv, PathInv, PacketCount
    PROVE  PathInv'
<1> USE DEF PathInv
<1>s. PICK s \in Slots : pkt.slot = s
  BY Zenon DEF PathTypes
<1>1. /\ UNCHANGED vars /\ reset' = reset /\ att' = att /\ rd' = rd /\ pkt' = NoPacket
      /\ pkt.stage = "count"
      /\ stats' = IF pkt.cap # 0 /\ stats[s].gen = pkt.cap
                  THEN [stats EXCEPT ![s].counted = @ \cup {pkt.at}] ELSE stats
  BY <1>s, Zenon DEF PacketCount, PacketStep
<1>2. /\ stats[s].gen \in Nat /\ stats[s].of \in Nat /\ att[s] \in Nat /\ pkt.at \in Nat
      /\ "count" \in {"fields", "opts", "count"}
  BY DEF PathTypes
<1>3. /\ stats' \in [Slots -> [gen : Nat, of : Nat, tag : Configs \cup {NoConfig}, counted : SUBSET Nat]]
      /\ \A r \in Slots : stats'[r].gen = stats[r].gen /\ stats'[r].of = stats[r].of
      /\ \A r \in Slots : \/ stats'[r].counted = stats[r].counted
                          \/ /\ r = s /\ stats'[r].counted = stats[r].counted \cup {pkt.at}
                             /\ pkt.cap # 0 /\ stats[s].gen = pkt.cap
  <2>1. CASE pkt.cap # 0 /\ stats[s].gen = pkt.cap
    <3>1. stats' = [stats EXCEPT ![s].counted = @ \cup {pkt.at}]
      BY <1>1, <2>1, Zenon
    <3> QED
      BY <1>2, <2>1, <3>1 DEF PathTypes
  <2>2. CASE ~(pkt.cap # 0 /\ stats[s].gen = pkt.cap)
    BY <1>1, <2>2, Zenon DEF PathTypes
  <2> QED
    BY <2>1, <2>2, Zenon
<1>4. /\ ClaimInv' /\ AttachedInv'
      /\ \A d \in Clients : (Engaged(d)' <=> Engaged(d)) /\ slot'[d] = slot[d] /\ pc'[d] = pc[d]
  BY <1>1, SamePlane, Zenon
<1>5. PktOK(NoPacket) /\ Sound(NoPacket)
  BY NoPacketSound, Zenon
<1>6. PathTypes'
  BY <1>1, <1>3, <1>5, Zenon DEF PathTypes, PktOK
<1>7. CounterInv'
  <2>1. pkt.cap # 0 /\ stats[s].gen = pkt.cap => pkt.at # 0 /\ stats[s].of <= pkt.at /\ pkt.at <= att[s]
    <3>1. /\ pkt.at <= att[s]
          /\ stats[s].gen = pkt.cap => stats[s].of <= pkt.at
          /\ stats[s].gen # 0 => stats[s].of # 0
      BY <1>1, <1>2, <1>s, Zenon DEF PacketInv, CounterInv, Counters
    <3> QED
      BY <1>2, <3>1
  <2>2. ASSUME NEW r \in Slots PROVE Counters(r)'
    <3>1. Counters(r)
      BY Zenon DEF CounterInv
    <3>2. \A a \in stats'[r].counted : a # 0 /\ stats[r].of <= a /\ a <= att[r]
      BY <1>3, <2>1, <3>1, Zenon DEF Counters
    <3>3. statsReady' = statsReady /\ pc' = pc /\ slot' = slot
      BY <1>1, Zenon DEF vars, tables, clientVars, fieldVars
    <3>4. stats'[r].gen = stats[r].gen /\ stats'[r].of = stats[r].of
      BY <1>3, Zenon
    <3> QED
      BY <1>1, <3>1, <3>2, <3>3, <3>4, Zenon DEF Counters
  <2> QED
    BY <2>2, Zenon DEF CounterInv
<1>8. PacketInv'
  <2>1. NoPacket.slot \in Slots
    BY <1>5, Zenon DEF PktOK
  <2> QED
    BY <1>1, <1>3, <1>5, <2>1, Zenon DEF PacketInv, Sound, vars, tables, fieldVars, ownVars
<1>9. ResetInv'
  <2>1. \A d \in Clients : pc[d] # "at_stats" => reset'[d] = NoReset
    BY <1>1, Zenon DEF ResetInv
  <2>2. ASSUME NEW d \in Clients, Engaged(d), NEW r \in Slots, slot[d] = r
        PROVE  Resetting(d, r)'
    <3>1. Resetting(d, r)
      BY <2>2, Zenon DEF ResetInv
    <3>2. /\ reset' = reset /\ stats'[r].gen = stats[r].gen /\ stats'[r].of = stats[r].of
          /\ pc'[d] = pc[d] /\ att' = att
      BY <1>1, <1>3, <1>4, Zenon
    <3> QED
      BY <3>1, <3>2, Zenon DEF Resetting
  <2> QED
    BY <1>1, <2>1, <2>2, ResetAll, Zenon DEF IInv
<1>10. ReadInv'
  <2>1. PICK r \in Slots : rd.slot = r
    BY Zenon DEF PathTypes
  <2>2. ASSUME Found(r) PROVE Found(r)'
    <3>1. rd.at >= 4 => stats'[r].of = rd.began
      BY <1>3, <2>2, Zenon DEF Found
    <3> QED
      BY <1>1, <2>2, <3>1, StillFound, Zenon
  <2> QED
    BY <1>1, <2>1, <2>2, Zenon DEF ReadInv
<1> QED
  BY <1>4, <1>6, <1>7, <1>8, <1>9, <1>10, Zenon

-----------------------------------------------------------------------------
(* The steps of Stats. *)

\* PathTypes and Found for a value of rd.
RdOK(d) == DOMAIN d = RdFields /\ d.slot \in Slots /\ d.at \in 0 .. 12 /\ d.began \in Nat

FoundBy(d, s) ==
    /\ d.at >= 3 => Final(s) /\ generation[s] = want[s].gen
    /\ d.at >= 4 => stats[s].of = d.began
    /\ d.at >= 6 => d.ip = want[s].ip
    /\ d.at >= 7 => d.gen = want[s].gen
    /\ d.at >= 8 => d.of = d.began

\* A step that only replaces the call keeps the invariant, if what the call has
\* found since holds.
LEMMA ReaderKept ==
    ASSUME PathInv, UNCHANGED <<vars, stats, reset, att, pkt>>, NEW d, rd' = d, RdOK(d),
           NEW s \in Slots, d.slot = s, d.began <= att[s], att[s] = d.began => FoundBy(d, s)
    PROVE  PathInv'
<1> USE DEF PathInv
<1>1. /\ UNCHANGED vars /\ stats' = stats /\ reset' = reset /\ att' = att /\ pkt' = pkt
  BY Zenon
<1>2. ClaimInv' /\ AttachedInv' /\ (Final(s) => Final(s)')
  BY <1>1, SamePlane, Zenon
<1>3. PathTypes'
  BY <1>1, Zenon DEF PathTypes, RdOK
<1>4. ResetInv'
  BY <1>1, Zenon DEF ResetInv, Resetting, Engaged, vars, clientVars
<1>5. CounterInv'
  BY <1>1, Zenon DEF CounterInv, Counters, vars, tables, clientVars, fieldVars
<1>6. PacketInv'
  BY <1>1, Zenon DEF PacketInv, vars, tables, fieldVars, ownVars
<1>7. ReadInv'
  <2>1. generation' = generation /\ want' = want
    BY <1>1, Zenon DEF vars, tables, fieldVars, ownVars
  <2>2. FoundBy(d, s) => Found(s)'
    BY <1>1, <1>2, <2>1, Zenon DEF FoundBy, Found
  <2> QED
    BY <1>1, <2>2, Zenon DEF ReadInv
<1> QED
  BY <1>2, <1>3, <1>4, <1>5, <1>6, <1>7, Zenon

\* The call begins, or ends with an error or a report.
LEMMA BeginEndInv ==
    ASSUME PathInv, UNCHANGED <<vars, stats, reset, att, pkt>>,
           rd' = NoRead \/ \E s \in Queried : StatsBegin(s)
    PROVE  PathInv'
<1>t. \A s \in Slots : att[s] \in Nat
  BY DEF PathInv, PathTypes
<1>1. CASE rd' = NoRead
  <2>1. PICK d : d = NoRead
    OBVIOUS
  <2>2. RdOK(d) /\ d.slot = 0 /\ d.began = 0 /\ d.at = 0
    BY <2>1, ZeroSlot DEF NoRead, RdOK, RdFields
  <2>3. d.began <= att[0] /\ FoundBy(d, 0)
    BY <1>t, <2>2, ZeroSlot DEF FoundBy
  <2> QED
    BY <1>1, <2>1, <2>2, <2>3, ZeroSlot, ReaderKept, Zenon
<1>2. ASSUME NEW s \in Slots, StatsBegin(s) PROVE PathInv'
  <2>1. PICK d : d = [NoRead EXCEPT !.at = 1, !.slot = s, !.began = att[s]]
    OBVIOUS
  <2>2. rd' = d
    BY <1>2, <2>1, Zenon DEF StatsBegin
  <2>3. DOMAIN d = RdFields /\ d.slot = s /\ d.began = att[s] /\ d.at = 1
    BY <2>1 DEF NoRead, RdFields
  <2>4. RdOK(d)
    BY <1>t, <2>3 DEF RdOK
  <2>5. d.began <= att[s] /\ FoundBy(d, s)
    BY <1>t, <2>3 DEF FoundBy
  <2> QED
    BY <2>2, <2>3, <2>4, <2>5, ReaderKept, Zenon
<1> QED
  BY <1>1, <1>2, QueriedAssumption, Zenon

\* The order of the loads.
LEMMA LoadOrder ==
    ASSUME NEW n \in DOMAIN StatsReads
    PROVE  /\ n \in 1 .. 11 /\ Len(StatsReads) = 11
           /\ n = 2 => StatsReads[n] = "up"
           /\ n = 3 => StatsReads[n] = "ready"
           /\ StatsReads[n] = "ip" <=> n = 5
           /\ StatsReads[n] = "gen" <=> n = 6
           /\ StatsReads[n] = "second" <=> n = 7
<1>1. n \in 1 .. 11 /\ Len(StatsReads) = 11
  BY DEF StatsReads
<1> QED
  BY <1>1 DEF StatsReads

\* What a load leaves in the variables of the call.
LEMMA LoadResult ==
    ASSUME PathTypes, NEW op
    PROVE  LET d == ReadResult(op) IN
           /\ DOMAIN d = RdFields /\ d.at = rd.at + 1 /\ d.slot = rd.slot /\ d.began = rd.began
           /\ d.ip = IF op = "ip" THEN innerIP[rd.slot] ELSE rd.ip
           /\ d.gen = IF op = "gen" THEN generation[rd.slot] ELSE rd.gen
           /\ d.of = IF op = "second" THEN stats[rd.slot].of ELSE rd.of
<1>1. DOMAIN rd = RdFields
  BY Zenon DEF PathTypes
<1>2. PICK r : r = [rd EXCEPT !.at = @ + 1]
  BY Zenon
<1>3. /\ DOMAIN r = RdFields /\ r.at = rd.at + 1 /\ r.slot = rd.slot /\ r.began = rd.began
      /\ r.ip = rd.ip /\ r.gen = rd.gen /\ r.of = rd.of
  BY <1>1, <1>2 DEF RdFields
<1>4. ReadResult(op) = CASE op = "first"  -> [r EXCEPT !.first = stats[rd.slot].gen]
                         [] op = "ip"     -> [r EXCEPT !.ip = innerIP[rd.slot]]
                         [] op = "gen"    -> [r EXCEPT !.gen = generation[rd.slot]]
                         [] op = "second" -> [r EXCEPT !.of = stats[rd.slot].of, !.tag = stats[rd.slot].tag]
                         [] OTHER         -> r
  BY <1>2 DEF ReadResult
<1> QED
  BY <1>3, <1>4 DEF RdFields

\* A port that is up has a final configuration: a call that still changes it
\* has the port down.
LEMMA UpIsFinal ==
    ASSUME ClaimInv, AttachedInv, NEW s \in Slots, flags[s] = PortFUp
    PROVE  Final(s) /\ generation[s] = want[s].gen
<1>1. ASSUME NEW c \in Clients, Engaged(c), slot[c] = s
      PROVE  pc[c] = "held" \/ pc[c] \in {"partial"} \cup DetachPCs
  <2>1. pc[c] \notin DownPCs
    <3>1. pc[c] \in DownPCs => flags[s] = 0
      BY <1>1, Zenon DEF ClaimInv, Claimed
    <3> QED
      BY <3>1 DEF PortFUp
  <2> QED
    BY <1>1, <2>1, Zenon DEF Engaged, DownPCs
<1> QED
  BY <1>1, Zenon DEF Final, AttachedInv, Attached

\* The confirmed counters of a port with a final configuration are its own.
LEMMA ReadyIsOwn ==
    ASSUME NEW s \in Slots, Final(s), CounterInv, statsReady[s] = 1
    PROVE  stats[s].of = att[s]
<1>1. ASSUME NEW c \in Clients, pc[c] = "at_ready", slot[c] = s PROVE FALSE
  <2>1. /\ "at_ready" \in AttachPCs
        /\ "at_ready" # "held" /\ "at_ready" # "partial" /\ "at_ready" \notin DetachPCs
    BY DEF AttachPCs, DetachPCs
  <2> QED
    BY <1>1, <2>1, Zenon DEF Final, Engaged
<1> QED
  BY <1>1, Zenon DEF CounterInv, Counters

\* The address of an allocated slot is the one its owner asked for.
LEMMA AllocatedIsOwn ==
    ASSUME IInv, AttachedInv, NEW s \in Slots, IsSlotAllocated(innerIP[s])
    PROVE  innerIP[s] = want[s].ip
<1>1. innerIP[s] \notin {Free, Reserved} /\ owner[s] \in Clients \cup {NoOne, Control}
  BY Zenon DEF IInv, TypeOK, IsSlotAllocated
<1>2. owner[s] # NoOne /\ owner[s] # Control
  BY <1>1, Zenon DEF IInv, OwnInv, OwnerWord
<1> QED
  BY <1>1, <1>2, Zenon DEF AttachedInv, Attached

\* One load of Stats.  The publication seen makes the configuration final, the
\* confirmed reset seen then makes the counters those of the attachment, and the
\* identity read after that is the one its owner asked for.
LEMMA StatsReadInv ==
    ASSUME IInv, PathInv, StatsRead
    PROVE  PathInv'
<1> USE DEF PathInv
<1>u. UNCHANGED <<vars, stats, reset, att, pkt>> /\ rd.at \in DOMAIN StatsReads
  BY Zenon DEF StatsRead
<1>s. PICK s \in Slots : rd.slot = s
  BY Zenon DEF PathTypes
<1>n. PICK n \in 1 .. 11 : rd.at = n
  BY <1>u, LoadOrder, Zenon
<1>o. PICK op : op = StatsReads[rd.at]
  BY Zenon
<1>1. /\ n = 2 => op = "up"
      /\ n = 3 => op = "ready"
      /\ op = "ip" <=> n = 5
      /\ op = "gen" <=> n = 6
      /\ op = "second" <=> n = 7
  BY <1>u, <1>n, <1>o, LoadOrder, Zenon
<1>2. CASE ReadAccepted(op)
  <2>d. PICK d : d = ReadResult(op)
    BY Zenon
  <2>1. rd' = d
    BY <1>2, <1>o, <2>d, Zenon DEF StatsRead
  <2>2. /\ DOMAIN d = RdFields /\ d.at = n + 1 /\ d.slot = s /\ d.began = rd.began
        /\ d.ip = IF op = "ip" THEN innerIP[s] ELSE rd.ip
        /\ d.gen = IF op = "gen" THEN generation[s] ELSE rd.gen
        /\ d.of = IF op = "second" THEN stats[s].of ELSE rd.of
    BY <1>n, <1>s, <2>d, LoadResult, Zenon
  <2>3. rd.began \in Nat /\ rd.began <= att[s] /\ (att[s] = rd.began => Found(s))
    BY <1>s, Zenon DEF PathTypes, ReadInv
  <2>4. RdOK(d)
    BY <2>2, <2>3 DEF RdOK
  <2>5. ASSUME att[s] = rd.began PROVE FoundBy(d, s)
    <3>1. /\ n >= 3 => Final(s) /\ generation[s] = want[s].gen
          /\ n >= 4 => stats[s].of = rd.began
          /\ n >= 6 => rd.ip = want[s].ip
          /\ n >= 7 => rd.gen = want[s].gen
          /\ n >= 8 => rd.of = rd.began
      BY <1>n, <2>3, <2>5, Zenon DEF Found
    <3>2. n = 2 => Final(s) /\ generation[s] = want[s].gen
      <4>1. op = "up" => flags[s] = PortFUp
        BY <1>2, <1>s, Zenon DEF ReadAccepted
      <4> QED
        BY <1>1, <4>1, UpIsFinal, Zenon
    <3>3. n = 3 /\ Final(s) => stats[s].of = rd.began
      <4>1. op = "ready" => statsReady[s] = 1
        BY <1>2, <1>s, Zenon DEF ReadAccepted
      <4> QED
        BY <1>1, <2>5, <4>1, ReadyIsOwn, Zenon
    <3>4. n = 5 => innerIP[s] = want[s].ip
      <4>1. op = "ip" => IsSlotAllocated(innerIP[s])
        <5>1. op = "ip" => op \in {"alloc", "ip"}
          BY Zenon
        <5> QED
          BY <1>2, <1>s, <5>1, Zenon DEF ReadAccepted, IdentityAccepted
      <4> QED
        BY <1>1, <4>1, AllocatedIsOwn, Zenon
    <3>5. /\ n + 1 >= 3 => n = 2 \/ n >= 3
          /\ n + 1 >= 4 => (n = 3 \/ n >= 4) /\ n >= 3
          /\ n + 1 >= 6 => n = 5 \/ (n >= 6 /\ n # 5)
          /\ n + 1 >= 7 => (n = 6 /\ n >= 3) \/ (n >= 7 /\ n # 6)
          /\ n + 1 >= 8 => (n = 7 /\ n >= 4) \/ (n >= 8 /\ n # 7)
      OBVIOUS
    <3>6. d.at >= 3 => Final(s) /\ generation[s] = want[s].gen
      BY <2>2, <3>1, <3>2, <3>5, Zenon
    <3>7. d.at >= 4 => stats[s].of = d.began
      BY <2>2, <3>1, <3>3, <3>5, Zenon
    <3>8. d.at >= 6 => d.ip = want[s].ip
      BY <1>1, <2>2, <3>1, <3>4, <3>5, Zenon
    <3>9. d.at >= 7 => d.gen = want[s].gen
      BY <1>1, <2>2, <3>1, <3>5, Zenon
    <3>10. d.at >= 8 => d.of = d.began
      BY <1>1, <2>2, <3>1, <3>5, Zenon
    <3> QED
      BY <3>6, <3>7, <3>8, <3>9, <3>10, Zenon DEF FoundBy
  <2> QED
    BY <1>u, <2>1, <2>2, <2>3, <2>4, <2>5, ReaderKept, Zenon
<1>3. CASE ~ReadAccepted(op)
  <2>1. rd' = NoRead
    BY <1>3, <1>o, Zenon DEF StatsRead
  <2> QED
    BY <1>u, <2>1, BeginEndInv, Zenon
<1> QED
  BY <1>2, <1>3, Zenon

-----------------------------------------------------------------------------
(* The theorems. *)

\* The table StartReserved leaves, with no packet and no Stats call.
LEMMA PathInvInit == PathInit => IInv /\ PathInv
<1> SUFFICES ASSUME PathInit PROVE IInv /\ PathInv
  OBVIOUS
<1>1. IInv
  BY InvInit, Zenon DEF PathInit
<1>2. /\ stats = [s \in Slots |-> [gen |-> 0, of |-> 0, tag |-> NoConfig, counted |-> {}]]
      /\ reset = [c \in Clients |-> NoReset] /\ att = [s \in Slots |-> 0]
      /\ pkt = NoPacket /\ rd = NoRead
  BY Zenon DEF PathInit
<1>3. /\ \A s \in Slots : flags[s] = 0 /\ statsReady[s] = 0 /\ owner[s] = Control
      /\ \A c \in Clients : pc[c] = "idle"
  BY DEF PathInit, Init
<1>4. \A c \in Clients : ~Engaged(c)
  BY <1>3 DEF Engaged, AttachPCs, PortUpPCs, DetachPCs
<1>5. PathTypes
  <2>1. /\ stats \in [Slots -> [gen : Nat, of : Nat, tag : Configs \cup {NoConfig}, counted : SUBSET Nat]]
        /\ reset \in [Clients -> [at : {"none", "read", "done"}, gen : Nat]]
        /\ att \in [Slots -> 0 .. MaxAttach]
    BY <1>2, MaxAttachAssumption DEF NoReset
  <2>2. /\ DOMAIN pkt = PktFields /\ pkt.slot = 0 /\ pkt.cap = 0 /\ pkt.at = 0 /\ pkt.stage = "none"
        /\ pkt.live = FALSE
    BY <1>2 DEF NoPacket, PktFields
  <2>3. DOMAIN rd = RdFields /\ rd.slot = 0 /\ rd.at = 0 /\ rd.began = 0
    BY <1>2 DEF NoRead, RdFields
  <2>4. 0 \in Nat /\ 0 \in 0 .. 12 /\ "none" \in {"none", "match", "own", "gate", "fields", "opts", "count"}
    OBVIOUS
  <2>5. FALSE \in BOOLEAN
    BY Zenon
  <2> QED
    BY <2>1, <2>2, <2>3, <2>4, <2>5, ZeroSlot, Zenon DEF PathTypes
<1>6. ClaimInv
  BY <1>4, Zenon DEF ClaimInv
<1>7. AttachedInv
  <2>1. \A s \in Slots : flags[s] # PortFUp /\ owner[s] \notin Clients
    BY <1>3, OwnerAssumption DEF PortFUp
  <2> QED
    BY <2>1, Zenon DEF AttachedInv, Attached
<1>8. ResetInv
  BY <1>2, <1>4, Zenon DEF ResetInv
<1>9. CounterInv
  BY <1>2, <1>3 DEF CounterInv, Counters
<1>10. PacketInv
  BY <1>2, <1>5, NoPacketSound, Zenon DEF PacketInv, Sound
<1>11. ReadInv
  BY <1>2, ZeroSlot DEF ReadInv, Found, NoRead
<1> QED
  BY <1>1, <1>5, <1>6, <1>7, <1>8, <1>9, <1>10, <1>11, Zenon DEF PathInv

\* Every step keeps both invariants.
LEMMA PathInvStep == IInv /\ PathInv /\ [PathNext]_allVars => IInv' /\ PathInv'
<1> SUFFICES ASSUME IInv, PathInv, [PathNext]_allVars PROVE IInv' /\ PathInv'
  OBVIOUS
<1>1. IInv'
  <2>1. [Next]_vars
    <3>1. ControlStep => CrashFreeNext
      BY Zenon DEF ControlStep
    <3>2. PacketNext => UNCHANGED vars
      BY Zenon DEF PacketNext, PacketArrive, PacketMatch, PacketOwn, PacketGate, PacketFields,
                   PacketOpts, PacketCount, PacketStep
    <3>3. StatsNext => UNCHANGED vars
      BY Zenon DEF StatsNext, StatsBegin, StatsRead, StatsReport
    <3>4. \A c \in Clients : ResetRead(c) \/ ResetWrite(c) => UNCHANGED vars
      BY Zenon DEF ResetRead, ResetWrite
    <3>5. UNCHANGED allVars => UNCHANGED vars
      BY Zenon DEF allVars
    <3>6. CrashFreeNext => Next
      BY Zenon DEF CrashFreeNext, Next
    <3> QED
      BY <3>1, <3>2, <3>3, <3>4, <3>5, <3>6, Zenon DEF PathNext
  <2> QED
    BY <2>1, InvStep, Zenon
<1>2. CASE ControlStep
  BY <1>1, <1>2, ControlInv, Zenon
<1>3. ASSUME NEW c \in Clients, ResetRead(c) \/ ResetWrite(c) PROVE PathInv'
  BY <1>3, ResetReadInv, ResetWriteInv, Zenon
<1>4. CASE PacketNext
  BY <1>1, <1>4, ArriveInv, MatchOwnInv, GateInv, FieldsInv, OptsInv, CountInv, Zenon DEF PacketNext
<1>5. CASE StatsNext
  <2>1. CASE \E s \in Queried : StatsBegin(s)
    <3>1. UNCHANGED <<vars, stats, reset, att, pkt>>
      BY <2>1, Zenon DEF StatsBegin
    <3> QED
      BY <1>1, <2>1, <3>1, BeginEndInv, Zenon
  <2>2. CASE StatsReport
    BY <1>1, <2>2, BeginEndInv, Zenon DEF StatsReport
  <2> QED
    BY <1>1, <1>5, <2>1, <2>2, StatsReadInv, Zenon DEF StatsNext
<1>6. CASE UNCHANGED allVars
  <2>1. PktOK(pkt) /\ Sound(pkt)
    BY Zenon DEF PathInv, PathTypes, PacketInv, PktOK, Sound
  <2>2. UNCHANGED <<vars, stats, reset, att, rd>> /\ pkt' = pkt
    BY <1>6, Zenon DEF allVars, pathVars
  <2>3. PICK p : p = pkt
    BY Zenon
  <2>4. PktOK(pkt') /\ pkt' = p /\ Sound(p)
    BY <2>1, <2>2, <2>3, Zenon
  <2> QED
    BY <1>1, <2>2, <2>4, PacketKept, Zenon
<1> QED
  BY <1>1, <1>2, <1>3, <1>4, <1>5, <1>6, Zenon DEF PathNext

\* The invariant of PortSlots and of the path holds throughout.
THEOREM PathInvariant == PathSpec => [](IInv /\ PathInv)
  BY PathInvInit, PathInvStep, PTL DEF PathSpec

\* The state of the path has its type; the counter instances of a slot stay
\* within its claims.
THEOREM PathTypeCorrect == PathSpec => []PathTypeOK
<1>1. PathInv => PathTypeOK
  <2> SUFFICES ASSUME PathInv PROVE PathTypeOK
    OBVIOUS
  <2>1. ASSUME NEW s \in Slots
        PROVE  stats[s] \in [gen : 0 .. MaxAttach, of : 0 .. MaxAttach,
                             tag : Configs \cup {NoConfig}, counted : SUBSET (1 .. MaxAttach)]
    <3>1. /\ stats[s] \in [gen : Nat, of : Nat, tag : Configs \cup {NoConfig}, counted : SUBSET Nat]
          /\ att[s] \in 0 .. MaxAttach
      BY Zenon DEF PathInv, PathTypes
    <3>2. /\ stats[s].gen <= att[s] /\ stats[s].of <= att[s]
          /\ \A a \in stats[s].counted : a # 0 /\ a <= att[s]
      BY Zenon DEF PathInv, CounterInv, Counters
    <3>3. /\ stats[s].gen \in 0 .. MaxAttach /\ stats[s].of \in 0 .. MaxAttach
          /\ stats[s].counted \subseteq 1 .. MaxAttach
      BY <3>1, <3>2, MaxAttachAssumption
    <3> QED
      BY <3>1, <3>3
  <2>2. DOMAIN stats = Slots /\ stats = [s \in Slots |-> stats[s]]
    BY DEF PathInv, PathTypes
  <2>3. stats \in [Slots -> [gen : 0 .. MaxAttach, of : 0 .. MaxAttach,
                             tag : Configs \cup {NoConfig}, counted : SUBSET (1 .. MaxAttach)]]
    BY <2>1, <2>2
  <2> QED
    BY <2>3, Zenon DEF PathTypeOK, PathInv, PathTypes
<1> QED
  BY <1>1, PathInvariant, PTL

\* A packet that leaves through a port that stayed published carries only what
\* its owner published (publish-last in Attach and SetPortUp, gate-first in the
\* TC programs).
THEOREM OnlyPublishedLeaves == PathSpec => []PublishedOnly
<1>1. PathInv => PublishedOnly
  BY Zenon DEF PathInv, PacketInv, PublishedOnly
<1> QED
  BY <1>1, PathInvariant, PTL

\* The confirmed counters of a port that is up hold packets of its current
\* attachment only: the captured instance keeps older packets out.
THEOREM OwnPacketsCounted == PathSpec => []CountersAreOwn
<1>1. PathInv => CountersAreOwn
  <2> SUFFICES ASSUME PathInv, NEW s \in Slots, flags[s] = PortFUp, statsReady[s] = 1
               PROVE  stats[s].counted \subseteq {att[s]}
    BY Zenon DEF CountersAreOwn
  <2>1. Final(s)
    BY UpIsFinal, Zenon DEF PathInv
  <2>2. stats[s].of = att[s]
    BY <2>1, ReadyIsOwn, Zenon DEF PathInv
  <2>3. \A a \in stats[s].counted : a \in Nat /\ stats[s].of <= a /\ a <= att[s]
    <3>1. \A a \in stats[s].counted : stats[s].of <= a /\ a <= att[s]
      BY Zenon DEF PathInv, CounterInv, Counters
    <3>2. stats[s].counted \subseteq Nat
      BY DEF PathInv, PathTypes
    <3> QED
      BY <3>1, <3>2, Zenon
  <2>4. att[s] \in Nat
    BY DEF PathInv, PathTypes
  <2> QED
    BY <2>2, <2>3, <2>4
<1> QED
  BY <1>1, PathInvariant, PTL

\* A Stats call during which the port was not attached anew reports the address
\* and the generation its owner published, with the counters of that attachment.
THEOREM ReportsAreExact == PathSpec => []ReportIsExact
<1>1. PathInv => ReportIsExact
  <2> SUFFICES ASSUME PathInv, rd.at = Len(StatsReads) + 1, att[rd.slot] = rd.began
               PROVE  rd.ip = want[rd.slot].ip /\ rd.gen = want[rd.slot].gen /\ rd.of = rd.began
    BY Zenon DEF ReportIsExact
  <2>1. rd.at = 12
    BY DEF StatsReads
  <2>2. Found(rd.slot)
    BY Zenon DEF PathInv, ReadInv
  <2> QED
    BY <2>1, <2>2 DEF Found
<1> QED
  BY <1>1, PathInvariant, PTL
=============================================================================
