------------------------ MODULE SwitchControl_proofs ------------------------
(***************************************************************************)
(* SwitchControl, for any number of processes, planes, starts, failing     *)
(* calls and crashes.                                                      *)
(*                                                                         *)
(* An observation of Stats never spans the end of its switch.  The second  *)
(* verification compares the identity of the map with the one the call     *)
(* opened.  That suffices because an identity never comes back under the   *)
(* name: a map set is pinned once, by the Start that made it, and nobody   *)
(* has opened it before.                                                   *)
(*                                                                         *)
(* With one process that starts and stops the switch (OneManager) more is  *)
(* true: no device is left without a name, Start finds no leftovers, and   *)
(* what was verified under the lock stays current.  ManagerInv says what   *)
(* that process has built or undone at each point of its command, LockInv  *)
(* what the lock of a directory keeps from happening.                      *)
(***************************************************************************)
EXTENDS SwitchControl, TLAPS

\* A Start that has not pinned its maps yet.
Early == {"open", "flock", "netns", "pinSlots"}

\* After the first verification and before the second.
Reading == {"read", "reserve"}

Shape ==
    /\ DOMAIN proc = Procs
    /\ \A q \in Procs : {"pc", "cmd", "ctx", "sid", "gone"} \subseteq DOMAIN proc[q]
    /\ \A q \in Procs : proc[q].gone \in BOOLEAN
    /\ \A q \in Procs : proc[q].cmd \in ByName \cup Verified \cup {"none"}
    /\ DOMAIN pin = {"slots", "rest"}

\* Identities are numbered in the order of the Starts.
Numbered ==
    /\ made \in Nat
    /\ pin.slots \in 0 .. made
    /\ \A q \in Procs : proc[q].ctx \in 0 .. made /\ proc[q].sid \in 0 .. made

\* The map set of a Start that has not pinned it is neither pinned nor open, and no
\* other Start has its number.
Fresh ==
    \A q \in Procs : proc[q].pc \in Early /\ proc[q].sid # 0 =>
        /\ pin.slots # proc[q].sid
        /\ \A r \in Procs : /\ proc[r].ctx # proc[q].sid
                            /\ r # q /\ proc[r].pc \in Early => proc[r].sid # proc[q].sid

\* A command that verifies has opened a switch, and only Start has a number.
Opened ==
    \A q \in Procs :
        /\ proc[q].pc \in {"verify"} \cup Reading => proc[q].ctx # 0
        /\ proc[q].pc \in {"open", "flock"} /\ proc[q].cmd \in Verified => proc[q].ctx # 0
        /\ proc[q].pc = "openSwitch" => proc[q].sid = 0

\* What was unpinned under a reader is not pinned again.
GoneStays ==
    \A q \in Procs : proc[q].gone = TRUE => proc[q].pc \in Reading /\ proc[q].ctx # pin.slots

Inv == Shape /\ Numbered /\ Fresh /\ Opened /\ GoneStays

\* One process runs the commands that go by name; the others only verify.
OneManager(m) == m \in Procs /\ \A p \in Procs \ {m} : Commands[p] \subseteq Verified

FieldNames == {"pc", "cmd", "fd", "ctx", "sid", "dummyDevCreated", "mgmtIfindexes",
               "transitMoved", "callerNs", "plane", "gone"}

\* Who may be where.
VerifiedPCs == {"openSwitch", "open", "flock", "verify", "reserve", "read", "report"}
ByNamePCs == {"open", "flock", "openSwitch", "existing", "provision", "release"}
             \cup StartPCs \cup StopPCs

Role(m, q, r) ==
    /\ DOMAIN r = FieldNames
    /\ r.cmd \in ByName \cup Verified \cup {"none"}
    /\ r.cmd = "none" => r.pc \in {"idle", "corrupted"}
    /\ r.cmd \in Verified => r.pc \in VerifiedPCs
    /\ r.cmd \in ByName => r.pc \in ByNamePCs /\ q = m
    /\ r.pc = "corrupted" => q = m
    /\ r.sid # 0 => r.cmd = "start" /\ r.pc \in {"open", "flock"} \cup StartPCs
    /\ r.pc \in StartPCs => r.sid # 0
    /\ r.pc \in StopPCs => r.cmd = "stopreleased"
    /\ r.pc = "reserve" => r.cmd = "reserve"
    /\ r.pc = "read" => r.cmd = "stats"

Roles(m) == DOMAIN proc = Procs /\ \A q \in Procs : Role(m, q, proc[q])

\* The name leads to the last directory made or to none, and what is pinned there
\* belongs to it.
Store ==
    /\ made \in Nat /\ made <= MaxStarts /\ dir \in {0, made}
    /\ DOMAIN pin = {"slots", "rest"} /\ pin.slots \in {0, dir} /\ pin.rest \in {0, dir}
    /\ dummy \in 0 .. made /\ transit \in 0 .. made /\ mgmt \in [Planes -> 0 .. made]
    /\ faults \in Nat

\* The manager works on the directory the name leads to.
Manager(b) ==
    /\ b.sid # 0 => b.sid = dir
    /\ b.cmd \in ByName /\ b.pc # "open" => b.fd = dir /\ dir # 0
    /\ b.pc \in StopPCs => b.ctx = dir
    /\ b.pc \in {"delDummy", "unpin"} => transit = 0
    /\ b.pc = "unpin" => dummy = 0

Undoing == {"undoTransit", "undoDummy", "undoMgmt", "undoPins"}

\* How far a Start has come.
Progress(b) ==
    b.sid # 0 =>
    /\ b.pc \in Early => pin.slots = 0
    /\ b.pc \in Early \cup {"pinRest"} => pin.rest = 0
    /\ b.pc \in Early \cup {"pinRest", "dummy"} => b.dummyDevCreated = FALSE
    /\ b.pc \notin {"transitConf"} \cup Undoing => b.transitMoved = FALSE
    /\ b.pc = "transitConf" => transit = dir
    /\ b.pc \in Early \cup {"pinRest", "dummy", "filter", "config", "slots"} => b.plane = 0
    /\ b.pc \in {"mgmtAdd", "mgmtIndex", "mgmtConf"} => b.plane \in Planes
    /\ b.pc \notin Undoing => \A x \in b.mgmtIfindexes :
         x[1] \in Planes /\ (x[1] < b.plane \/ (b.pc = "mgmtConf" /\ x[1] = b.plane))

\* A device of the Start in progress is in the record its rollback works from, or is
\* in the window before it gets there, or is excused.
Recorded(b) ==
    b.sid # 0 /\ dir \notin excused =>
    /\ transit = dir => b.transitMoved /\ b.callerNs /\ b.pc \notin Undoing \ {"undoTransit"}
    /\ dummy = dir => b.pc = "filter" \/ (b.dummyDevCreated /\ b.pc \notin {"undoMgmt", "undoPins"})
    /\ \A i \in Planes : mgmt[i] = dir =>
         \/ b.pc = "mgmtIndex" /\ i = b.plane
         \/ <<i, dir>> \in b.mgmtIfindexes /\ b.pc # "undoPins"

ManagerInv(m) ==
    /\ Roles(m) /\ Store /\ Manager(proc[m]) /\ Progress(proc[m]) /\ Recorded(proc[m])
    /\ NothingStranded /\ RestartSucceeds

\* The locks: one writer or readers, and who has which.
LockShape ==
    /\ holder \in [Starts -> Procs \cup {NoOne}] /\ shared \in [Starts -> SUBSET Procs]
    /\ \A d \in Starts : holder[d] # NoOne => shared[d] = {}

Locked(q, r) ==
    /\ r.cmd \in ByName /\ r.pc \notin {"open", "flock"} => r.fd \in Starts /\ holder[r.fd] = q
    /\ r.cmd = "reserve" /\ r.pc \in {"verify", "reserve"} => holder[r.fd] = q
    /\ r.cmd = "stats" /\ r.pc \in {"verify", "read"} => q \in shared[r.fd]
    /\ r.cmd \in Verified /\ r.pc \in {"flock", "verify", "reserve", "read"} =>
         r.fd \in Starts /\ r.fd <= made /\ r.ctx <= r.fd

LockInv == LockShape /\ (\A q \in Procs : Locked(q, proc[q])) /\ VerifiedIsCurrent

\* The other processes do nothing.
Alone(p) ==
    /\ DOMAIN proc' = Procs /\ \A q \in Procs \ {p} : proc'[q] = proc[q]
    /\ {"pc", "cmd", "ctx", "sid", "gone"} \subseteq DOMAIN proc'[p]

\* The command is over.
Ended(p) ==
    /\ proc'[p].pc \in {"idle", "corrupted"} /\ proc'[p].ctx = 0 /\ proc'[p].sid = 0
    /\ proc'[p].gone = FALSE /\ proc'[p].cmd = "none"

Kept(p) ==
    /\ proc'[p].ctx = proc[p].ctx /\ proc'[p].sid = proc[p].sid
    /\ proc'[p].cmd = proc[p].cmd /\ proc'[p].gone = proc[p].gone

SamePins == pin' = pin /\ made' = made

-----------------------------------------------------------------------------
\* The ends of the range of start numbers.
LEMMA NumbersBelow ==
    ASSUME NEW n \in Nat
    PROVE  0 \in 0 .. n /\ n \in 0 .. n
  OBVIOUS

\* A command that is over keeps nothing open.
LEMMA EndedInv ==
    ASSUME Inv, NEW p \in Procs, Alone(p), Ended(p), SamePins
    PROVE  Inv'
<1>1. Shape'
  BY ZenonT(60) DEF Inv, Shape, Alone, Ended, SamePins
<1>5. Numbered'
  BY DEF Inv, Numbered, Alone, Ended, SamePins
<1>2. Fresh'
  BY DEF Inv, Fresh, Alone, Ended, SamePins, Early
<1>3. Opened'
  BY DEF Inv, Opened, Alone, Ended, SamePins, Reading
<1>4. GoneStays'
  BY DEF Inv, GoneStays, Alone, Ended, SamePins, Reading
<1>. QED
  BY <1>1, <1>2, <1>3, <1>4, <1>5 DEF Inv

\* A step that leads to a label where nothing is promised.
LEMMA LateInv ==
    ASSUME Inv, NEW p \in Procs, Alone(p), Kept(p), SamePins,
           proc[p].pc \notin Reading,
           proc'[p].pc \notin Early \cup Reading \cup {"verify", "openSwitch"}
    PROVE  Inv'
<1>1. Shape' /\ Numbered'
  BY DEF Inv, Shape, Numbered, Alone, Kept, SamePins
<1>2. Fresh'
  BY DEF Inv, Fresh, Alone, Kept, SamePins
<1>3. Opened'
  BY DEF Inv, Opened, Alone, Kept, SamePins, Early, Reading
<1>4. GoneStays'
  BY DEF Inv, Shape, GoneStays, Alone, Kept, SamePins
<1>. QED
  BY <1>1, <1>2, <1>3, <1>4 DEF Inv

\* Removing the pins, by a command that ends with it.
LEMMA UnpinInv ==
    ASSUME Inv, NEW p \in Procs, UnpinMaps(p, Idle)
    PROVE  Inv'
<1>1. /\ pin' = [slots |-> 0, rest |-> 0] /\ made' = made
      /\ DOMAIN proc' = Procs /\ proc'[p] = Idle
      /\ \A q \in Procs \ {p} :
            proc'[q] = [proc[q] EXCEPT !.gone = @ \/ (proc[q].pc \in Reading
                                                      /\ proc[q].ctx = pin.slots)]
  BY DEF UnpinMaps, NoPins, Reading
<1>2. ASSUME NEW q \in Procs \ {p}
      PROVE  /\ DOMAIN proc'[q] = DOMAIN proc[q]
             /\ proc'[q].pc = proc[q].pc /\ proc'[q].cmd = proc[q].cmd
             /\ proc'[q].ctx = proc[q].ctx /\ proc'[q].sid = proc[q].sid
  BY <1>1 DEF Inv, Shape
<1>3. ASSUME NEW q \in Procs \ {p}
      PROVE  /\ proc'[q].gone \in BOOLEAN
             /\ proc'[q].gone = TRUE => proc[q].gone = TRUE \/ proc[q].pc \in Reading
  <2>1. proc'[q].gone = (proc[q].gone \/ (proc[q].pc \in Reading /\ proc[q].ctx = pin.slots))
    BY <1>1 DEF Inv, Shape
  <2>. QED
    BY <2>1 DEF Inv, Shape
<1>4. /\ proc'[p].pc = "idle" /\ proc'[p].cmd = "none" /\ proc'[p].ctx = 0
      /\ proc'[p].sid = 0 /\ proc'[p].gone = FALSE
      /\ {"pc", "cmd", "ctx", "sid", "gone"} \subseteq DOMAIN proc'[p]
  BY <1>1 DEF Idle
<1>5. Shape'
  BY <1>1, <1>2, <1>3, <1>4, ZenonT(60) DEF Inv, Shape
<1>6. Numbered'
  BY <1>1, <1>2, <1>4 DEF Inv, Numbered
<1>7. Fresh'
  BY <1>1, <1>2, <1>4 DEF Inv, Fresh, Early
<1>8. Opened'
  BY <1>1, <1>2, <1>4 DEF Inv, Opened, Reading
<1>9. GoneStays'
  <2>1. ASSUME NEW q \in Procs \ {p}, proc'[q].gone = TRUE
        PROVE  proc[q].pc \in Reading
    BY <1>3, <2>1, Zenon DEF Inv, GoneStays
  <2>2. ASSUME NEW q \in Procs \ {p}, proc'[q].gone = TRUE
        PROVE  proc'[q].pc \in Reading /\ proc'[q].ctx # pin'.slots
    <3>1. proc[q].ctx # 0
      BY <2>1, <2>2, Zenon DEF Inv, Opened
    <3>2. pin'.slots = 0
      BY <1>1
    <3>. QED
      BY <1>2, <2>1, <2>2, <3>1, <3>2, Zenon
  <2>. QED
    BY <1>4, <2>2, Zenon DEF GoneStays
<1>. QED
  BY <1>5, <1>6, <1>7, <1>8, <1>9 DEF Inv

\* A command returns.
LEMMA ReturnInv ==
    ASSUME Inv, NEW p \in Procs, proc' = [proc EXCEPT ![p] = Idle], SamePins
    PROVE  Inv'
<1>1. Alone(p) /\ Ended(p)
  BY DEF Inv, Shape, Alone, Ended, Idle
<1>. QED
  BY <1>1, EndedInv

\* The labels where nothing is promised.
Late == (PCs \cup {"none"}) \ (Early \cup Reading \cup {"verify", "openSwitch"})

\* A command goes on without opening or pinning anything.
LEMMA GoInv ==
    ASSUME Inv, NEW p \in Procs, NEW l \in Late, Go(p, l), SamePins,
           proc[p].pc \notin Reading
    PROVE  Inv'
<1>1. Alone(p) /\ Kept(p) /\ proc'[p].pc = l
  BY DEF Inv, Shape, Alone, Kept, Go
<1>. QED
  BY <1>1, LateInv DEF Late

-----------------------------------------------------------------------------
(* The steps before and at the pin, and the verifications. *)

\* A process begins a command.
LEMMA BeginInv ==
    ASSUME Inv, NEW p \in Procs, NEW c \in Commands[p], Begin(p, c)
    PROVE  Inv'
<1>. DEFINE new == c = "start" /\ dir = 0
            n == IF new THEN made + 1 ELSE 0
<1>1. pin' = pin /\ DOMAIN proc' = Procs /\ \A q \in Procs \ {p} : proc'[q] = proc[q]
  BY DEF Begin, Inv, Shape
<1>0. /\ made' = IF new THEN made + 1 ELSE made
      /\ proc'[p] = [Idle EXCEPT !.cmd = c,
                         !.pc = IF c \in Verified THEN "openSwitch" ELSE "open",
                         !.sid = n]
  BY DEF Begin, Inv, Shape
<1>2. /\ proc'[p].pc = IF c \in Verified THEN "openSwitch" ELSE "open"
      /\ proc'[p].cmd = c /\ proc'[p].ctx = 0 /\ proc'[p].sid = n /\ proc'[p].gone = FALSE
      /\ {"pc", "cmd", "ctx", "sid", "gone"} \subseteq DOMAIN proc'[p]
  BY <1>0 DEF Idle
<1>3. c \in ByName \cup Verified
  BY CommandAssumption
<1>4. /\ made \in Nat /\ n \in Nat /\ n \in 0 .. made' /\ made' \in Nat /\ made <= made'
      /\ n # 0 => n > made
      /\ c \in Verified => n = 0
  BY <1>0 DEF Inv, Numbered, Verified
<1>. HIDE DEF n, new
<1>5. Shape'
  <2>1. \A q \in Procs \ {p} : proc'[q] = proc[q]
    BY <1>1
  <2>. QED
    BY <1>1, <1>2, <1>3, <2>1, Zenon DEF Inv, Shape
<1>6. Numbered'
  BY <1>1, <1>2, <1>4 DEF Inv, Numbered
<1>7. Fresh'
  <2>1. \A r \in Procs \ {p} : proc[r].ctx <= made /\ proc[r].sid <= made
    BY DEF Inv, Numbered
  <2>2. \A r \in Procs \ {p} : n # 0 => proc[r].ctx # n /\ proc[r].sid # n
    BY <1>4, <2>1 DEF Inv, Numbered
  <2>3. n # 0 => pin.slots # n
    BY <1>4 DEF Inv, Numbered
  <2>. QED
    BY <1>1, <1>2, <2>2, <2>3 DEF Inv, Fresh
<1>8. Opened'
  BY <1>1, <1>2, <1>4 DEF Inv, Opened, Reading
<1>9. GoneStays'
  BY <1>1, <1>2 DEF Inv, GoneStays
<1>. QED
  BY <1>5, <1>6, <1>7, <1>8, <1>9 DEF Inv

\* A step between the labels of a Start that has not pinned yet, or from there to the
\* label of the first verification or of openSwitch.
LEMMA EarlyInv ==
    ASSUME Inv, NEW p \in Procs, Alone(p), Kept(p), SamePins, proc[p].pc \in Early,
           \/ proc'[p].pc \in {"netns", "pinSlots"}
           \/ proc[p].pc = "open" /\ proc'[p].pc = "flock"
           \/ proc[p].pc = "flock" /\ proc'[p].pc = "verify" /\ proc[p].cmd \in Verified
           \/ proc'[p].pc = "openSwitch" /\ proc[p].sid = 0
    PROVE  Inv'
<1>1. Shape'
  BY DEF Inv, Shape, Alone, Kept, SamePins
<1>2. Numbered'
  BY DEF Inv, Numbered, Alone, Kept, SamePins
<1>3. Fresh'
  BY DEF Inv, Fresh, Alone, Kept, SamePins
<1>4. Opened'
  BY DEF Inv, Opened, Alone, Kept, SamePins, Reading
<1>5. GoneStays'
  <2>1. proc[p].gone = FALSE
    BY DEF Inv, Shape, GoneStays, Early, Reading
  <2>. QED
    BY <2>1 DEF Inv, GoneStays, Alone, Kept, SamePins
<1>. QED
  BY <1>1, <1>2, <1>3, <1>4, <1>5 DEF Inv

\* The pin directory is opened for its lock.
LEMMA OpenLockInv ==
    ASSUME Inv, NEW p \in Procs, OpenLock(p)
    PROVE  Inv'
<1>1. SamePins
  BY DEF OpenLock, SamePins, fsVars
<1>2. CASE Return(p)
  BY <1>1, <1>2, ReturnInv, Zenon DEF Return
<1>3. CASE proc' = [proc EXCEPT ![p].fd = dir, ![p].pc = "flock"]
  <2>1. Alone(p) /\ Kept(p) /\ proc'[p].pc = "flock"
    BY <1>3 DEF Inv, Shape, Alone, Kept
  <2>. QED
    BY <1>1, <2>1, EarlyInv DEF OpenLock, At, Early
<1>. QED
  BY <1>2, <1>3 DEF OpenLock

\* The lock of the directory is taken.
LEMMA FlockInv ==
    ASSUME Inv, NEW p \in Procs, Flock(p)
    PROVE  Inv'
<1>1. SamePins
  BY DEF Flock, SamePins, fsVars
<1>2. CASE Return(p)
  BY <1>1, <1>2, ReturnInv, Zenon DEF Return
<1>3. CASE Go(p, AfterLock(p))
  <2>1. Alone(p) /\ Kept(p) /\ proc'[p].pc = AfterLock(p)
    BY <1>3 DEF Inv, Shape, Alone, Kept, Go
  <2>2. proc[p].pc = "flock"
    BY DEF Flock, At
  <2>. QED
    BY <1>1, <2>1, <2>2, EarlyInv DEF AfterLock, Early
<1>. QED
  BY <1>2, <1>3 DEF Flock

\* The switch is opened by its name: the set is one that is pinned.
LEMMA OpenSwitchInv ==
    ASSUME Inv, NEW p \in Procs, OpenSwitch(p)
    PROVE  Inv'
<1>1. SamePins /\ proc[p].pc = "openSwitch"
  BY DEF OpenSwitch, SamePins, fsVars, At
<1>2. CASE Return(p)
  BY <1>1, <1>2, ReturnInv, Zenon DEF Return
<1>3. CASE proc' = [proc EXCEPT ![p] = IF proc[p].cmd \in {"release", "stopreleased"}
                                       THEN [Idle EXCEPT !.pc = "corrupted"] ELSE Idle]
  <2>1. Alone(p) /\ Ended(p)
    BY <1>3 DEF Inv, Shape, Alone, Ended, Idle
  <2>. QED
    BY <1>1, <2>1, EndedInv
<1>4. CASE pin.slots # 0 /\ proc' = [proc EXCEPT ![p].ctx = pin.slots, ![p].pc = AfterOpen(p)]
  <2>1. /\ Alone(p) /\ proc'[p].ctx = pin.slots /\ proc'[p].sid = proc[p].sid
        /\ proc'[p].cmd = proc[p].cmd /\ proc'[p].gone = proc[p].gone
        /\ proc'[p].pc = AfterOpen(p)
    BY <1>4 DEF Inv, Shape, Alone
  <2>2. AfterOpen(p) \in {"existing", "validate", "open", "provision", "release", "none"}
    BY DEF AfterOpen, Inv, Shape, ByName, Verified
  <2>3. proc[p].sid = 0
    BY <1>1 DEF Inv, Opened
  <2>4. Shape'
    BY <1>1, <2>1 DEF Inv, Shape, Alone, SamePins
  <2>5. Numbered'
    BY <1>1, <2>1 DEF Inv, Numbered, Alone, SamePins
  <2>6. Fresh'
    BY <1>1, <2>1, <2>3 DEF Inv, Fresh, Alone, SamePins
  <2>7. Opened'
    BY <1>1, <1>4, <2>1, <2>2 DEF Inv, Opened, Alone, SamePins, Reading
  <2>8. GoneStays'
    <3>1. proc[p].gone = FALSE
      BY <1>1 DEF Inv, Shape, GoneStays, Reading
    <3>. QED
      BY <1>1, <2>1, <3>1 DEF Inv, GoneStays, Alone, SamePins
  <2>. QED
    BY <2>4, <2>5, <2>6, <2>7, <2>8 DEF Inv
<1>. QED
  BY <1>2, <1>3, <1>4 DEF OpenSwitch

\* The opened set is compared with the pinned one (verifyCurrentSwitch).
LEMMA VerifyInv ==
    ASSUME Inv, NEW p \in Procs, Verify(p)
    PROVE  Inv'
<1>1. SamePins /\ proc[p].pc = "verify"
  BY DEF Verify, SamePins, fsVars, At
<1>2. CASE Return(p)
  BY <1>1, <1>2, ReturnInv, Zenon DEF Return
<1>3. CASE Go(p, IF proc[p].cmd = "stats" THEN "read" ELSE "reserve")
  <2>1. Alone(p) /\ Kept(p) /\ proc'[p].pc \in Reading
    BY <1>3 DEF Inv, Shape, Alone, Kept, Go, Reading
  <2>2. Shape'
    BY <1>1, <2>1 DEF Inv, Shape, Alone, Kept, SamePins
  <2>3. Numbered'
    BY <1>1, <2>1 DEF Inv, Numbered, Alone, Kept, SamePins
  <2>4. Fresh'
    BY <1>1, <2>1 DEF Inv, Fresh, Alone, Kept, SamePins, Early, Reading
  <2>5. Opened'
    BY <1>1, <2>1 DEF Inv, Opened, Alone, Kept, SamePins, Reading
  <2>6. GoneStays'
    <3>1. proc[p].gone = FALSE
      BY <1>1 DEF Inv, Shape, GoneStays, Reading
    <3>. QED
      BY <1>1, <2>1, <3>1 DEF Inv, GoneStays, Alone, Kept, SamePins
  <2>. QED
    BY <2>2, <2>3, <2>4, <2>5, <2>6 DEF Inv
<1>. QED
  BY <1>2, <1>3 DEF Verify

\* The second verification finds the map that was opened: it was not unpinned.
LEMMA ReadInv ==
    ASSUME Inv, NEW p \in Procs, Read(p)
    PROVE  Inv'
<1>1. SamePins /\ proc[p].pc = "read"
  BY DEF Read, SamePins, fsVars, At
<1>2. CASE Return(p)
  BY <1>1, <1>2, ReturnInv, Zenon DEF Return
<1>3. CASE pin.slots = proc[p].ctx /\ Go(p, "report")
  <2>1. Alone(p) /\ Kept(p) /\ proc'[p].pc = "report"
    BY <1>3 DEF Inv, Shape, Alone, Kept, Go
  <2>2. Shape'
    BY <1>1, <2>1 DEF Inv, Shape, Alone, Kept, SamePins
  <2>3. Numbered'
    BY <1>1, <2>1 DEF Inv, Numbered, Alone, Kept, SamePins
  <2>4. Fresh'
    BY <1>1, <2>1 DEF Inv, Fresh, Alone, Kept, SamePins, Early
  <2>5. Opened'
    BY <1>1, <2>1 DEF Inv, Opened, Alone, Kept, SamePins, Reading
  <2>6. GoneStays'
    <3>1. proc[p].gone = FALSE
      BY <1>3 DEF Inv, Shape, GoneStays
    <3>. QED
      BY <1>1, <2>1, <3>1 DEF Inv, GoneStays, Alone, Kept, SamePins
  <2>. QED
    BY <2>2, <2>3, <2>4, <2>5, <2>6 DEF Inv
<1>. QED
  BY <1>2, <1>3 DEF Read

\* The pin of slots_v2 gives the name an identity nobody has opened.
LEMMA PinSlotsInv ==
    ASSUME Inv, NEW p \in Procs, PinMap(p, "slots", "pinSlots", "pinRest")
    PROVE  Inv'
<1>1. proc[p].pc = "pinSlots" /\ made' = made
  BY DEF PinMap, At
<1>2. CASE Go(p, "undoTransit") /\ pin' = pin
  BY <1>1, <1>2, GoInv DEF SamePins, Late, PCs, StartPCs, Early, Reading
<1>3. CASE pin' = [pin EXCEPT !["slots"] = proc[p].sid] /\ Go(p, "pinRest")
  <2>1. Alone(p) /\ Kept(p) /\ proc'[p].pc = "pinRest"
    BY <1>3 DEF Inv, Shape, Alone, Kept, Go
  <2>2. DOMAIN pin' = DOMAIN pin /\ pin'.slots = proc[p].sid
    BY <1>3 DEF Inv, Shape
  <2>3. Shape'
    BY <2>1, <2>2 DEF Inv, Shape, Alone, Kept
  <2>4. Numbered'
    BY <1>1, <2>1, <2>2 DEF Inv, Numbered, Alone, Kept
  <2>5. Fresh'
    BY <1>1, <2>1, <2>2 DEF Inv, Fresh, Alone, Kept, Early
  <2>6. Opened'
    BY <2>1 DEF Inv, Opened, Alone, Kept, Reading
  <2>7. GoneStays'
    <3>1. proc[p].gone = FALSE
      BY <1>1 DEF Inv, Shape, GoneStays, Reading
    <3>2. ASSUME NEW q \in Procs \ {p}, proc[q].gone = TRUE
          PROVE  proc[q].ctx # proc[p].sid
      <4>1. proc[q].ctx # 0
        BY <3>2 DEF Inv, GoneStays, Opened
      <4>. QED
        BY <1>1, <4>1 DEF Inv, Fresh, Early
    <3>. QED
      BY <2>1, <2>2, <3>1, <3>2, Zenon DEF Inv, GoneStays, Alone, Kept
  <2>. QED
    BY <2>3, <2>4, <2>5, <2>6, <2>7 DEF Inv
<1>. QED
  BY <1>2, <1>3 DEF PinMap, Fails

\* Start pins the other maps of its set.
LEMMA PinRestInv ==
    ASSUME Inv, NEW p \in Procs, PinMap(p, "rest", "pinRest", "dummy")
    PROVE  Inv'
<1>1. proc[p].pc = "pinRest" /\ made' = made
  BY DEF PinMap, At
<1>2. CASE Go(p, "undoTransit") /\ pin' = pin
  BY <1>1, <1>2, GoInv DEF SamePins, Late, PCs, StartPCs, Early, Reading
<1>3. CASE pin' = [pin EXCEPT !["rest"] = proc[p].sid] /\ Go(p, "dummy")
  <2>1. Alone(p) /\ Kept(p) /\ proc'[p].pc = "dummy"
    BY <1>3 DEF Inv, Shape, Alone, Kept, Go
  <2>2. DOMAIN pin' = DOMAIN pin /\ pin'.slots = pin.slots
    BY <1>3 DEF Inv, Shape
  <2>3. Shape'
    BY <2>1, <2>2 DEF Inv, Shape, Alone, Kept
  <2>4. Numbered'
    BY <1>1, <2>1, <2>2 DEF Inv, Numbered, Alone, Kept
  <2>5. Fresh'
    BY <2>1, <2>2 DEF Inv, Fresh, Alone, Kept, Early
  <2>6. Opened'
    BY <2>1 DEF Inv, Opened, Alone, Kept, Reading
  <2>7. GoneStays'
    <3>1. proc[p].gone = FALSE
      BY <1>1 DEF Inv, Shape, GoneStays, Reading
    <3>. QED
      BY <2>1, <2>2, <3>1 DEF Inv, GoneStays, Alone, Kept
  <2>. QED
    BY <2>3, <2>4, <2>5, <2>6, <2>7 DEF Inv
<1>. QED
  BY <1>2, <1>3 DEF PinMap, Fails

-----------------------------------------------------------------------------
(* The other steps leave the pins alone, remove them, or return. *)

\* Start, ProvisionPorts and ReleasePorts end, or the process dies.
LEMMA FinishInv ==
    ASSUME Inv, NEW p \in Procs, Finish(p) \/ ProvisionPorts(p) \/ ReleasePorts(p) \/ Crash(p)
    PROVE  Inv'
<1>1. SamePins /\ proc' = [proc EXCEPT ![p] = Idle]
  BY DEF Finish, ProvisionPorts, ReleasePorts, Crash, Return, SamePins, fsVars
<1>. QED
  BY <1>1, ReturnInv, Zenon

\* The steps of Start that build the switch.
LEMMA BuildInv ==
    ASSUME Inv, NEW p \in Procs, Build(p)
    PROVE  Inv'
<1>. USE DEF SamePins, fsVars, At, Fails
<1>1. {"undoTransit", "filter", "config", "slots", "mgmtAdd", "mgmtIndex", "mgmtConf",
       "services", "move", "transitConf"} \subseteq Late
  BY DEF Late, PCs, StartPCs, Early, Reading
<1>2. CASE Prepare(p)
  <2>1. SamePins /\ proc[p].pc = "netns"
    BY <1>2 DEF Prepare
  <2>2. CASE Go(p, "undoTransit")
    BY <1>1, <2>1, <2>2, GoInv DEF Reading
  <2>3. CASE Go(p, "pinSlots")
    <3>1. Alone(p) /\ Kept(p) /\ proc'[p].pc = "pinSlots"
      BY <2>3 DEF Inv, Shape, Alone, Kept, Go
    <3>. QED
      BY <2>1, <3>1, EarlyInv DEF Early
  <2>. QED
    BY <1>2, <2>2, <2>3 DEF Prepare
<1>3. CASE PinMaps(p)
  BY <1>3, PinSlotsInv, PinRestInv DEF PinMaps
<1>4. CASE CreateDummyLink(p)
  <2>1. SamePins /\ proc[p].pc \notin Reading /\ (Go(p, "filter") \/ Go(p, "undoTransit"))
    BY <1>4 DEF CreateDummyLink, Reading
  <2>. QED
    BY <1>1, <2>1, GoInv
<1>5. CASE BlockFilter(p)
  <2>1. SamePins /\ proc[p].pc \notin Reading
    BY <1>5 DEF BlockFilter, Reading
  <2>2. CASE Go(p, "undoTransit")
    BY <1>1, <2>1, <2>2, GoInv
  <2>3. CASE proc' = [proc EXCEPT ![p].dummyDevCreated = TRUE, ![p].pc = "config"]
    <3>1. Alone(p) /\ Kept(p) /\ proc'[p].pc = "config"
      BY <2>3 DEF Inv, Shape, Alone, Kept
    <3>. QED
      BY <1>1, <2>1, <3>1, LateInv DEF Late
  <2>. QED
    BY <1>5, <2>2, <2>3, Zenon DEF BlockFilter
<1>6. CASE WriteConfig(p)
  <2>1. SamePins /\ proc[p].pc \notin Reading /\ (Go(p, "slots") \/ Go(p, "undoTransit"))
    BY <1>6 DEF WriteConfig, Reading
  <2>. QED
    BY <1>1, <2>1, GoInv
<1>7. CASE InitSlotsReserved(p)
  <2>1. /\ SamePins /\ proc[p].pc \notin Reading
        /\ Go(p, "mgmtAdd") \/ Go(p, "services") \/ Go(p, "undoTransit")
    BY <1>7 DEF InitSlotsReserved, AfterPlane, Reading
  <2>. QED
    BY <1>1, <2>1, GoInv
<1>8. CASE MgmtAdd(p)
  <2>1. SamePins /\ proc[p].pc \notin Reading /\ (Go(p, "mgmtIndex") \/ Go(p, "undoTransit"))
    BY <1>8 DEF MgmtAdd, Reading
  <2>. QED
    BY <1>1, <2>1, GoInv
<1>9. CASE MgmtIndex(p)
  <2>1. SamePins /\ proc[p].pc \notin Reading
    BY <1>9 DEF MgmtIndex, Reading
  <2>2. CASE Go(p, "undoTransit")
    BY <1>1, <2>1, <2>2, GoInv
  <2>3. CASE \E i : proc' = [proc EXCEPT ![p].mgmtIfindexes = @ \cup {<<i, mgmt[i]>>},
                                         ![p].pc = "mgmtConf"]
    <3>1. Alone(p) /\ Kept(p) /\ proc'[p].pc = "mgmtConf"
      BY <2>3 DEF Inv, Shape, Alone, Kept
    <3>. QED
      BY <1>1, <2>1, <3>1, LateInv DEF Late
  <2>. QED
    BY <1>9, <2>2, <2>3, Zenon DEF MgmtIndex
<1>10. CASE MgmtConf(p)
  <2>1. SamePins /\ proc[p].pc \notin Reading
    BY <1>10 DEF MgmtConf, Reading
  <2>2. CASE Go(p, "undoTransit")
    BY <1>1, <2>1, <2>2, GoInv
  <2>3. CASE proc' = [proc EXCEPT ![p].plane = @ + 1, ![p].pc = AfterPlane(proc[p].plane + 1)]
    <3>1. Alone(p) /\ Kept(p) /\ proc'[p].pc = AfterPlane(proc[p].plane + 1)
      BY <2>3 DEF Inv, Shape, Alone, Kept
    <3>2. proc'[p].pc \in {"mgmtAdd", "services"}
      BY <3>1 DEF AfterPlane
    <3>. QED
      BY <1>1, <2>1, <3>1, <3>2, LateInv DEF Late
  <2>. QED
    BY <1>10, <2>2, <2>3 DEF MgmtConf
<1>11. CASE Services(p)
  <2>1. SamePins /\ proc[p].pc \notin Reading /\ (Go(p, "move") \/ Go(p, "undoTransit"))
    BY <1>11 DEF Services, Reading
  <2>. QED
    BY <1>1, <2>1, GoInv
<1>12. CASE MoveTransit(p)
  <2>1. SamePins /\ proc[p].pc \notin Reading
    BY <1>12 DEF MoveTransit, Reading
  <2>2. CASE Go(p, "undoTransit")
    BY <1>1, <2>1, <2>2, GoInv
  <2>3. CASE proc' = [proc EXCEPT ![p].callerNs = TRUE, ![p].transitMoved = TRUE,
                                  ![p].pc = "transitConf"]
    <3>1. Alone(p) /\ Kept(p) /\ proc'[p].pc = "transitConf"
      BY <2>3 DEF Inv, Shape, Alone, Kept
    <3>. QED
      BY <1>1, <2>1, <3>1, LateInv DEF Late
  <2>. QED
    BY <1>12, <2>2, <2>3, Zenon DEF MoveTransit
<1>13. CASE ConfigureTransit(p)
  <2>1. SamePins /\ proc[p].pc \notin Reading /\ (Return(p) \/ Go(p, "undoTransit"))
    BY <1>13 DEF ConfigureTransit, Reading
  <2>. QED
    BY <1>1, <2>1, GoInv, ReturnInv DEF Return
<1>. QED
  BY <1>2, <1>3, <1>4, <1>5, <1>6, <1>7, <1>8, <1>9, <1>10, <1>11, <1>12, <1>13 DEF Build

\* The rollback of a Start that failed.
LEMMA CleanupInv ==
    ASSUME Inv, NEW p \in Procs, Cleanup(p)
    PROVE  Inv'
<1>. USE DEF SamePins, fsVars, At
<1>1. {"undoDummy", "undoMgmt", "undoPins"} \subseteq Late
  BY DEF Late, PCs, StartPCs, Early, Reading
<1>2. CASE UndoTransit(p)
  <2>1. /\ SamePins /\ proc[p].pc \notin Reading
        /\ proc' = [proc EXCEPT ![p].callerNs = FALSE, ![p].pc = "undoDummy"]
    BY <1>2 DEF UndoTransit, Reading
  <2>2. Alone(p) /\ Kept(p) /\ proc'[p].pc = "undoDummy"
    BY <2>1 DEF Inv, Shape, Alone, Kept
  <2>. QED
    BY <1>1, <2>1, <2>2, LateInv, Zenon DEF Late
<1>3. CASE UndoDummy(p)
  <2>1. SamePins /\ proc[p].pc \notin Reading /\ Go(p, "undoMgmt")
    BY <1>3 DEF UndoDummy, Reading
  <2>. QED
    BY <1>1, <2>1, GoInv
<1>4. CASE UndoMgmt(p)
  <2>1. SamePins /\ proc[p].pc = "undoMgmt" /\ proc[p].pc \notin Reading
    BY <1>4 DEF UndoMgmt, Reading
  <2>2. CASE Go(p, "undoPins")
    BY <1>1, <2>1, <2>2, GoInv
  <2>3. CASE \E x : proc' = [proc EXCEPT ![p].mgmtIfindexes = @ \ {x}]
    <3>1. Alone(p) /\ Kept(p) /\ proc'[p].pc = "undoMgmt"
      BY <2>1, <2>3 DEF Inv, Shape, Alone, Kept
    <3>. QED
      BY <1>1, <2>1, <3>1, LateInv DEF Late
  <2>. QED
    BY <1>4, <2>2, <2>3 DEF UndoMgmt
<1>5. CASE UndoPins(p)
  <2>1. CASE UnpinMaps(p, Idle)
    BY <2>1, UnpinInv
  <2>2. CASE Return(p) /\ SamePins
    BY <2>2, ReturnInv, Zenon DEF Return
  <2>. QED
    BY <1>5, <2>1, <2>2 DEF UndoPins
<1>. QED
  BY <1>2, <1>3, <1>4, <1>5 DEF Cleanup

\* The steps of StopReleased, and ForceCleanup.
LEMMA StopInv ==
    ASSUME Inv, NEW p \in Procs, StopReleased(p) \/ ForceCleanup(p)
    PROVE  Inv'
<1>. USE DEF SamePins, fsVars, At, StopFails
<1>1. {"delMgmt", "moveBack", "delDummy", "unpin"} \subseteq Late
  BY DEF Late, PCs, StopPCs, Early, Reading
<1>2. CASE Validate(p)
  <2>1. SamePins /\ proc[p].pc \notin Reading
    BY <1>2 DEF Validate, Reading
  <2>2. CASE Return(p)
    BY <2>1, <2>2, ReturnInv, Zenon DEF Return
  <2>3. CASE \E s : proc' = [proc EXCEPT ![p].mgmtIfindexes = s, ![p].pc = "delMgmt"]
    <3>1. Alone(p) /\ Kept(p) /\ proc'[p].pc = "delMgmt"
      BY <2>3 DEF Inv, Shape, Alone, Kept
    <3>. QED
      BY <1>1, <2>1, <3>1, LateInv DEF Late
  <2>. QED
    BY <1>2, <2>2, <2>3 DEF Validate
<1>3. CASE DelMgmt(p)
  <2>1. SamePins /\ proc[p].pc = "delMgmt" /\ proc[p].pc \notin Reading
    BY <1>3 DEF DelMgmt, Reading
  <2>2. CASE Return(p)
    BY <2>1, <2>2, ReturnInv, Zenon DEF Return
  <2>3. CASE Go(p, "moveBack")
    BY <1>1, <2>1, <2>3, GoInv
  <2>4. CASE \E x : proc' = [proc EXCEPT ![p].mgmtIfindexes = @ \ {x}]
    <3>1. Alone(p) /\ Kept(p) /\ proc'[p].pc = "delMgmt"
      BY <2>1, <2>4 DEF Inv, Shape, Alone, Kept
    <3>. QED
      BY <1>1, <2>1, <3>1, LateInv DEF Late
  <2>. QED
    BY <1>3, <2>2, <2>3, <2>4 DEF DelMgmt
<1>4. CASE MoveBack(p) \/ DelDummy(p)
  <2>1. /\ SamePins /\ proc[p].pc \notin Reading
        /\ Return(p) \/ Go(p, "delDummy") \/ Go(p, "unpin")
    BY <1>4 DEF MoveBack, DelDummy, Reading
  <2>. QED
    BY <1>1, <2>1, GoInv, ReturnInv DEF Return
<1>5. CASE Unpin(p) \/ ForceCleanup(p)
  <2>1. CASE UnpinMaps(p, Idle)
    BY <2>1, UnpinInv
  <2>2. CASE proc' = [proc EXCEPT ![p] = Idle] /\ SamePins
    BY <2>2, ReturnInv, Zenon
  <2>. QED
    BY <1>5, <2>1, <2>2 DEF Unpin, ForceCleanup, Return
<1>. QED
  BY <1>2, <1>3, <1>4, <1>5 DEF StopReleased

-----------------------------------------------------------------------------
(* The theorem. *)

\* The invariant holds in every reachable state: an identity that was unpinned under
\* a reader (verifyCurrentSwitch, Stats) is never pinned under the name again.
THEOREM Invariant == Spec => []Inv
<1>1. ASSUME Init PROVE Inv
  <2>1. /\ made = 0 /\ pin.slots = 0 /\ DOMAIN pin = {"slots", "rest"} /\ DOMAIN proc = Procs
        /\ \A q \in Procs : proc[q] = Idle
    BY <1>1 DEF Init, NoPins
  <2>2. /\ Idle.pc = "idle" /\ Idle.cmd = "none" /\ Idle.ctx = 0 /\ Idle.sid = 0
        /\ Idle.gone = FALSE
        /\ {"pc", "cmd", "ctx", "sid", "gone"} \subseteq DOMAIN Idle
    BY DEF Idle
  <2>3. Shape
    BY <2>1, <2>2, Zenon DEF Shape
  <2>4. Numbered
    BY <2>1, <2>2 DEF Numbered
  <2>5. Fresh
    BY <2>1, <2>2 DEF Fresh
  <2>6. Opened
    BY <2>1, <2>2 DEF Opened, Reading
  <2>7. GoneStays
    BY <2>1, <2>2 DEF GoneStays
  <2>. QED
    BY <2>3, <2>4, <2>5, <2>6, <2>7 DEF Inv
<1>2. Inv /\ [Next]_vars => Inv'
  <2>. SUFFICES ASSUME Inv, [Next]_vars PROVE Inv'
    OBVIOUS
  <2>1. CASE UNCHANGED vars
    <3>1. proc' = proc /\ pin' = pin /\ made' = made
      BY <2>1 DEF vars, fsVars
    <3>. QED
      BY <3>1 DEF Inv, Shape, Numbered, Fresh, Opened, GoneStays
  <2>2. ASSUME NEW p \in Procs, Step(p) PROVE Inv'
    BY <2>2, OpenLockInv, FlockInv, OpenSwitchInv, VerifyInv, ReadInv, FinishInv,
       BuildInv, CleanupInv, StopInv DEF Step
  <2>. QED
    BY <2>1, <2>2, BeginInv, FinishInv DEF Next
<1>. QED
  BY <1>1, <1>2, PTL DEF Spec

\* What Stats returns was read from a switch that stayed pinned from the first
\* verification to the last, for any number of processes that start, stop, clean up
\* by force, fail and crash.
THEOREM ObservationSound == Spec => []ObservationStands
<1>1. Inv => ObservationStands
  BY DEF Inv, Shape, GoneStays, ObservationStands, At, Reading
<1>. QED
  BY <1>1, Invariant, PTL

-----------------------------------------------------------------------------
(* One manager: what a step does to the records of the processes. *)

\* A process of which at most the auxiliary field changes.
AsBefore(q) ==
    /\ DOMAIN proc'[q] = FieldNames
    /\ proc'[q].pc = proc[q].pc /\ proc'[q].cmd = proc[q].cmd /\ proc'[q].fd = proc[q].fd
    /\ proc'[q].ctx = proc[q].ctx /\ proc'[q].sid = proc[q].sid
    /\ proc'[q].dummyDevCreated = proc[q].dummyDevCreated
    /\ proc'[q].mgmtIfindexes = proc[q].mgmtIfindexes
    /\ proc'[q].transitMoved = proc[q].transitMoved
    /\ proc'[q].callerNs = proc[q].callerNs /\ proc'[q].plane = proc[q].plane

\* Only p acts.
Acts(p) ==
    /\ DOMAIN proc' = Procs /\ DOMAIN proc'[p] = FieldNames
    /\ \A q \in Procs \ {p} : AsBefore(q)

SameCall(p) ==
    /\ proc'[p].cmd = proc[p].cmd /\ proc'[p].fd = proc[p].fd
    /\ proc'[p].ctx = proc[p].ctx /\ proc'[p].sid = proc[p].sid

SameRecord(p) ==
    /\ proc'[p].dummyDevCreated = proc[p].dummyDevCreated
    /\ proc'[p].mgmtIfindexes = proc[p].mgmtIfindexes
    /\ proc'[p].transitMoved = proc[p].transitMoved
    /\ proc'[p].callerNs = proc[p].callerNs /\ proc'[p].plane = proc[p].plane

\* p goes on at label l with nothing else changed, or its command is over.
GoesTo(p, l) == Acts(p) /\ SameCall(p) /\ SameRecord(p) /\ proc'[p].pc = l

IsOver(p) ==
    /\ Acts(p) /\ proc'[p].pc \in {"idle", "corrupted"} /\ proc'[p].cmd = "none"
    /\ proc'[p].sid = 0 /\ (proc'[p].pc = "corrupted" => proc[p].cmd \in ByName)

\* The record of a process that runs no command.
LEMMA IdleFields ==
    /\ DOMAIN Idle = FieldNames /\ Idle.pc = "idle" /\ Idle.cmd = "none" /\ Idle.fd = 0
    /\ Idle.ctx = 0 /\ Idle.sid = 0 /\ Idle.dummyDevCreated = FALSE /\ Idle.mgmtIfindexes = {}
    /\ Idle.transitMoved = FALSE /\ Idle.callerNs = FALSE /\ Idle.plane = 0 /\ Idle.gone = FALSE
BY DEF Idle, FieldNames

\* A step that only moves the label.
LEMMA Goes ==
    ASSUME NEW m, Roles(m), NEW p \in Procs, NEW l, Go(p, l)
    PROVE  GoesTo(p, l)
<1>1. /\ DOMAIN proc' = Procs /\ \A q \in Procs \ {p} : proc'[q] = proc[q]
      /\ proc'[p] = [proc[p] EXCEPT !.pc = l]
  BY DEF Go, Roles
<1>2. \A q \in Procs : DOMAIN proc[q] = FieldNames
  BY Zenon DEF Roles, Role
<1>3. \A q \in Procs \ {p} : AsBefore(q)
  BY <1>1, <1>2, Zenon DEF AsBefore
<1>4. /\ DOMAIN proc'[p] = FieldNames /\ SameCall(p) /\ SameRecord(p) /\ proc'[p].pc = l
  BY <1>1, <1>2 DEF FieldNames, SameCall, SameRecord
<1> QED
  BY <1>1, <1>3, <1>4, Zenon DEF GoesTo, Acts

\* A step does not move to two labels.
LEMMA OneLabel ==
    ASSUME NEW m, Roles(m), NEW p \in Procs, NEW k, NEW l, k # l, GoesTo(p, k)
    PROVE  ~Go(p, l)
BY Goes, Zenon DEF GoesTo

\* A step that replaces the record of one process.
LEMMA Replaces ==
    ASSUME NEW m, Roles(m), NEW p \in Procs, NEW r, DOMAIN r = FieldNames,
           proc' = [proc EXCEPT ![p] = r]
    PROVE  Acts(p) /\ proc'[p] = r
<1>1. /\ DOMAIN proc' = Procs /\ \A q \in Procs \ {p} : proc'[q] = proc[q] /\ proc'[p] = r
      /\ proc'[p] = r
  BY DEF Roles
<1>2. \A q \in Procs : DOMAIN proc[q] = FieldNames
  BY Zenon DEF Roles, Role
<1>3. \A q \in Procs \ {p} : AsBefore(q)
  BY <1>1, <1>2, Zenon DEF AsBefore
<1> QED
  BY <1>1, <1>3, Zenon DEF Acts

\* A return, or the end of the process, is the end of the command.
LEMMA Returns ==
    ASSUME NEW m, Roles(m), NEW p \in Procs, proc' = [proc EXCEPT ![p] = Idle]
    PROVE  IsOver(p)
  BY IdleFields, Replaces, Zenon DEF IsOver

\* os.RemoveAll as the last step of a command.
LEMMA Unpins ==
    ASSUME NEW m, Roles(m), NEW p \in Procs, UnpinMaps(p, Idle)
    PROVE  IsOver(p)
<1>1. /\ DOMAIN proc' = Procs /\ proc'[p] = Idle
      /\ \A q \in Procs \ {p} :
            proc'[q] = [proc[q] EXCEPT !.gone = @ \/ (proc[q].pc \in {"read", "reserve"}
                                                      /\ proc[q].ctx = pin.slots)]
  BY DEF UnpinMaps
<1>2. \A q \in Procs : DOMAIN proc[q] = FieldNames
  BY Zenon DEF Roles, Role
<1>3. ASSUME NEW q \in Procs \ {p} PROVE AsBefore(q)
  BY <1>1, <1>2 DEF AsBefore, FieldNames
<1> QED
  BY <1>1, <1>3, IdleFields, Zenon DEF IsOver, Acts

-----------------------------------------------------------------------------
(* One manager: the frame. *)

Frozen == UNCHANGED <<dir, made, pin, dummy, mgmt, transit, excused>> /\ faults' \in Nat /\ faults' >= faults

\* Where a process may go.
LEMMA RolesKept ==
    ASSUME NEW m, Roles(m), NEW p \in Procs, Acts(p), Role(m, p, proc'[p])
    PROVE  Roles(m)'
<1> SUFFICES ASSUME NEW q \in Procs PROVE Role(m, q, proc'[q])
  BY Zenon DEF Roles, Acts
<1>1. CASE q = p
  BY <1>1, Zenon
<1>2. CASE q # p
  <2>1. AsBefore(q) /\ Role(m, q, proc[q])
    BY <1>2, Zenon DEF Acts, Roles
  <2> QED
    BY <2>1, Zenon DEF AsBefore, Role
<1> QED
  BY <1>1, <1>2, Zenon

\* A command that is over has the role of an idle process.
LEMMA OverRole ==
    ASSUME NEW m, Roles(m), NEW p \in Procs, IsOver(p)
    PROVE  Role(m, p, proc'[p])
<1>1. proc'[p].pc = "corrupted" => p = m
  BY Zenon DEF IsOver, Roles, Role
<1>2. {"idle", "corrupted"} \cap (StartPCs \cup StopPCs \cup {"reserve", "read"}) = {}
  BY DEF StartPCs, StopPCs
<1>3. "none" \notin ByName \cup Verified
  BY DEF ByName, Verified
<1> QED
  BY <1>1, <1>2, <1>3, Zenon DEF IsOver, Acts, Role

\* A step of another process.
LEMMA OtherActs ==
    ASSUME NEW m \in Procs, ManagerInv(m), NEW p \in Procs, p # m, Acts(p), Frozen,
           Role(m, p, proc'[p])
    PROVE  ManagerInv(m)'
<1>1. /\ Roles(m) /\ Store /\ Manager(proc[m]) /\ Progress(proc[m]) /\ Recorded(proc[m])
      /\ NothingStranded /\ RestartSucceeds
  BY Zenon DEF ManagerInv
<1>2. Roles(m)'
  BY <1>1, RolesKept, Zenon
<1>3. AsBefore(m)
  BY Zenon DEF Acts
<1>4. /\ dir' = dir /\ made' = made /\ pin' = pin /\ dummy' = dummy /\ mgmt' = mgmt
      /\ transit' = transit /\ excused' = excused /\ faults' \in Nat /\ faults' >= faults
  BY Zenon DEF Frozen
<1>5. Store'
  BY <1>1, <1>4, Zenon DEF Store
<1>6. Manager(proc[m])' /\ Progress(proc[m])'
  <2>1. Manager(proc[m])'
    BY <1>1, <1>3, <1>4, Zenon DEF AsBefore, Manager
  <2>2. Progress(proc[m])'
    BY <1>1, <1>3, <1>4 DEF AsBefore, Progress
  <2> QED
    BY <2>1, <2>2, Zenon
<1>7. Recorded(proc[m])'
  BY <1>1, <1>3, <1>4, Zenon DEF AsBefore, Recorded
<1>8. NothingStranded'
  BY <1>1, <1>4, Zenon DEF NothingStranded
<1>9. RestartSucceeds'
  <2> SUFFICES ASSUME NEW q \in Procs, proc'[q].pc = "undoTransit"
               PROVE  faults' > 0 \/ excused' # {}
    BY Zenon DEF RestartSucceeds, At
  <2>1. q = m
    BY <1>2, Zenon DEF Roles, Role, Verified, ByName, StartPCs, VerifiedPCs
  <2>2. faults > 0 \/ excused # {}
    BY <1>1, <1>3, <2>1, Zenon DEF RestartSucceeds, At, AsBefore
  <2> QED
    BY <1>4, <2>2, <1>1 DEF Store
<1> QED
  BY <1>2, <1>5, <1>6, <1>7, <1>8, <1>9, Zenon DEF ManagerInv

\* A step of the manager.
LEMMA ManagerActs ==
    ASSUME NEW m \in Procs, Roles(m), Acts(m), Role(m, m, proc'[m]), Store', NothingStranded',
           Manager(proc[m])', Progress(proc[m])', Recorded(proc[m])',
           proc'[m].pc = "undoTransit" => faults' > 0 \/ excused' # {}
    PROVE  ManagerInv(m)'
<1>1. Roles(m)'
  BY RolesKept, Zenon
<1>2. RestartSucceeds'
  <2> SUFFICES ASSUME NEW q \in Procs, proc'[q].pc = "undoTransit"
               PROVE  faults' > 0 \/ excused' # {}
    BY Zenon DEF RestartSucceeds, At
  <2>1. q = m
    BY <1>1, Zenon DEF Roles, Role, Verified, ByName, StartPCs, VerifiedPCs
  <2> QED
    BY <2>1, Zenon
<1> QED
  BY <1>1, <1>2, Zenon DEF ManagerInv

\* The command of a process ends and nothing else changes.
LEMMA OverInv ==
    ASSUME NEW m \in Procs, ManagerInv(m), NEW p \in Procs, IsOver(p), Frozen
    PROVE  ManagerInv(m)'
<1>1. Roles(m) /\ Store /\ NothingStranded
  BY Zenon DEF ManagerInv
<1>2. Role(m, p, proc'[p]) /\ Acts(p)
  BY <1>1, OverRole, Zenon DEF IsOver
<1>3. CASE p # m
  BY <1>2, <1>3, OtherActs, Zenon
<1>4. CASE p = m
  <2>1. Store' /\ NothingStranded'
    BY <1>1, Zenon DEF Frozen, Store, NothingStranded
  <2>2. proc'[m].sid = 0 /\ proc'[m].cmd \notin ByName
        /\ proc'[m].pc \notin StopPCs \cup {"undoTransit"}
    BY <1>4, Zenon DEF IsOver, ByName, StopPCs
  <2>3. Manager(proc[m])' /\ Progress(proc[m])' /\ Recorded(proc[m])'
    BY <2>2, Zenon DEF Manager, Progress, Recorded, StopPCs
  <2> QED
    BY <1>1, <1>2, <1>4, <2>1, <2>2, <2>3, ManagerActs, Zenon
<1> QED
  BY <1>3, <1>4, Zenon

-----------------------------------------------------------------------------
(* One manager: the beginning of the calls. *)

\* Begin: a Start that makes the directory finds no pin in it and no device of its own.
LEMMA ManagerBegin ==
    ASSUME NEW m, OneManager(m), ManagerInv(m), NEW p \in Procs, NEW c \in Commands[p], Begin(p, c)
    PROVE  ManagerInv(m)'
<1>m. m \in Procs
  BY Zenon DEF OneManager
<1>1. /\ Roles(m) /\ Store /\ NothingStranded
  BY Zenon DEF ManagerInv
<1>2. c \in ByName \cup Verified /\ (p # m => c \in Verified)
  BY CommandAssumption, Zenon DEF OneManager
<1>3. DEFINE new == c = "start" /\ dir = 0
<1>4. DEFINE r == [Idle EXCEPT !.cmd = c,
                       !.pc = IF c \in Verified THEN "openSwitch" ELSE "open",
                       !.sid = IF new THEN made + 1 ELSE 0]
<1>5. /\ proc' = [proc EXCEPT ![p] = r] /\ UNCHANGED <<pin, dummy, mgmt, transit, excused, faults>>
      /\ new => made < MaxStarts
      /\ dir' = IF new THEN made + 1 ELSE dir
      /\ made' = IF new THEN made + 1 ELSE made
  BY Zenon DEF Begin, devVars, histVars
<1>6. /\ DOMAIN r = FieldNames /\ r.cmd = c
      /\ r.pc = IF c \in Verified THEN "openSwitch" ELSE "open"
      /\ r.sid = IF new THEN made + 1 ELSE 0
      /\ r.dummyDevCreated = FALSE /\ r.transitMoved = FALSE /\ r.mgmtIfindexes = {} /\ r.plane = 0
  BY IdleFields DEF FieldNames
<1> HIDE DEF r
<1>7. Acts(p) /\ proc'[p] = r
  BY <1>1, <1>5, <1>6, Replaces, Zenon
<1>8. Role(m, p, proc'[p])
  <2>1. c \in ByName => c \notin Verified /\ p = m
    BY <1>2 DEF ByName, Verified
  <2>2. {"open", "openSwitch"} \subseteq ByNamePCs /\ "openSwitch" \in VerifiedPCs
        /\ {"open", "openSwitch"} \cap (StartPCs \cup StopPCs \cup {"reserve", "read"}) = {}
    BY DEF ByNamePCs, VerifiedPCs, StartPCs, StopPCs
  <2>3. c # "none" /\ (c = "start" => c \notin Verified)
    BY <1>2 DEF ByName, Verified
  <2> QED
    BY <1>2, <1>6, <1>7, <2>1, <2>2, <2>3, Zenon DEF Role
<1>9. CASE new
  <2>1. p = m /\ dir = 0 /\ dir' = made + 1 /\ made' = made + 1 /\ made < MaxStarts /\ made \in Nat
        /\ pin.slots = 0 /\ pin.rest = 0
    BY <1>1, <1>2, <1>5, <1>9 DEF Verified, Store
  <2>2. Store'
    BY <1>1, <1>5, <2>1, BoundAssumption DEF Store
  <2>3. NothingStranded'
    BY <1>1, <1>5, <2>1, Zenon DEF NothingStranded
  <2>4. proc'[m].pc = "open" /\ proc'[m].sid = dir' /\ proc'[m].plane = 0
        /\ proc'[m].mgmtIfindexes = {} /\ proc'[m].transitMoved = FALSE
        /\ proc'[m].dummyDevCreated = FALSE
    BY <1>6, <1>7, <1>9, <2>1 DEF Verified
  <2>5. Manager(proc[m])'
    BY <2>4, Zenon DEF Manager, StopPCs
  <2>6. Progress(proc[m])'
    BY <1>5, <2>1, <2>4 DEF Progress, Early, Undoing
  <2>7. Recorded(proc[m])'
    BY <1>1, <1>5, <2>1 DEF Recorded, Store
  <2> QED
    BY <1>1, <1>7, <1>8, <1>m, <2>1, <2>2, <2>3, <2>4, <2>5, <2>6, <2>7, ManagerActs, Zenon
<1>10. CASE ~new
  <2>1. Frozen /\ r.sid = 0
    BY <1>1, <1>5, <1>6, <1>10 DEF Frozen, Store
  <2>2. CASE p # m
    BY <1>7, <1>8, <1>m, <2>1, <2>2, OtherActs, Zenon
  <2>3. CASE p = m
    <3>1. Store' /\ NothingStranded'
      BY <1>1, <2>1, Zenon DEF Frozen, Store, NothingStranded
    <3>2. proc'[m].sid = 0 /\ proc'[m].pc \in {"open", "openSwitch"}
          /\ (proc'[m].cmd \in ByName => proc'[m].pc = "open")
      BY <1>6, <1>7, <2>1, <2>3 DEF ByName, Verified
    <3>3. Manager(proc[m])' /\ Progress(proc[m])' /\ Recorded(proc[m])'
      BY <3>2, Zenon DEF Manager, Progress, Recorded, StopPCs
    <3> QED
      BY <1>1, <1>7, <1>8, <1>m, <2>3, <3>1, <3>2, <3>3, ManagerActs, Zenon
  <2> QED
    BY <2>2, <2>3, Zenon
<1> QED
  BY <1>9, <1>10, Zenon

\* A step to a label where the manager is still on its way to the switch: the lock, the
\* pins and the verification.
LEMMA ManagerApproach ==
    ASSUME NEW m \in Procs, ManagerInv(m), NEW p \in Procs, Acts(p), Frozen, SameRecord(p),
           proc'[p].cmd = proc[p].cmd, proc'[p].sid = proc[p].sid, Role(m, p, proc'[p]),
           proc[p].pc \in {"open", "flock", "openSwitch", "verify", "read"},
           proc'[p].sid # 0 => proc'[p].pc \in Early,
           proc'[p].pc \notin StopPCs \/ (proc'[p].pc = "validate" /\ proc'[p].ctx = dir),
           p = m /\ proc'[p].cmd \in ByName /\ proc'[p].pc # "open" => proc'[p].fd = dir /\ dir # 0
    PROVE  ManagerInv(m)'
<1>1. /\ Roles(m) /\ Store /\ Manager(proc[m]) /\ Progress(proc[m]) /\ Recorded(proc[m])
      /\ NothingStranded
  BY Zenon DEF ManagerInv
<1>2. CASE p # m
  BY <1>2, OtherActs, Zenon
<1>3. CASE p = m
  <2>1. Store' /\ NothingStranded'
    BY <1>1, Zenon DEF Frozen, Store, NothingStranded
  <2>2. proc'[m].pc \notin {"delDummy", "unpin"}
    BY <1>3 DEF StopPCs
  <2>3. Manager(proc[m])'
    BY <1>1, <1>3, <2>2, Zenon DEF Manager, Frozen
  <2>4. proc[m].sid # 0 => proc[m].pc \in Early
    BY <1>1, <1>3, Zenon DEF Early, Roles, Role, StartPCs
  <2>5. Progress(proc[m])'
    <3> SUFFICES ASSUME proc'[m].sid # 0 PROVE Progress(proc[m])'
      BY Zenon DEF Progress
    <3>1. proc'[m].pc \in Early /\ proc[m].pc \in Early /\ proc[m].sid # 0
      BY <1>3, <2>4, Zenon
    <3>2. Early \cap (Undoing \cup {"transitConf", "mgmtConf", "mgmtAdd", "mgmtIndex"}) = {}
      BY DEF Early, Undoing
    <3> QED
      BY <1>1, <1>3, <3>1, <3>2, Zenon DEF Progress, Frozen, SameRecord
  <2>6. Recorded(proc[m])'
    <3> SUFFICES ASSUME proc'[m].sid # 0 PROVE Recorded(proc[m])'
      BY Zenon DEF Recorded
    <3>1. proc'[m].pc \in Early /\ proc[m].pc \in Early /\ proc[m].sid # 0
      BY <1>3, <2>4, Zenon
    <3>2. Early \cap (Undoing \cup {"filter", "mgmtIndex"}) = {} /\ {"undoMgmt", "undoPins"} \subseteq Undoing
      BY DEF Early, Undoing
    <3> QED
      BY <1>1, <1>3, <3>1, <3>2, Zenon DEF Recorded, Frozen, SameRecord
  <2>7. proc'[m].pc # "undoTransit"
    BY <1>1, <1>3, <2>1, Zenon DEF Role, StartPCs, Early
  <2> QED
    BY <1>1, <1>3, <2>1, <2>3, <2>5, <2>6, <2>7, ManagerActs, Zenon
<1> QED
  BY <1>2, <1>3, Zenon

\* The lock, openSwitch, the verifications and the calls that only return.
LEMMA ManagerCalls ==
    ASSUME NEW m \in Procs, Inv, ManagerInv(m), NEW p \in Procs,
           \/ OpenLock(p) \/ Flock(p) \/ OpenSwitch(p) \/ Verify(p) \/ Read(p) \/ Finish(p)
           \/ Crash(p)
    PROVE  ManagerInv(m)'
<1> USE DEF At, fsVars, devVars, histVars
<1>1. /\ Roles(m) /\ Store /\ Manager(proc[m]) /\ Role(m, p, proc[p])
  BY Zenon DEF ManagerInv, Roles
<1>2. Frozen
  <2>1. UNCHANGED <<dir, made, pin, dummy, mgmt, transit, excused>>
    BY Zenon DEF OpenLock, Flock, OpenSwitch, Verify, Read, Finish, Crash
  <2>2. faults' \in Nat /\ faults' >= faults
    BY <1>1 DEF OpenLock, Flock, OpenSwitch, Verify, Read, Finish, Crash, NoFault, Errs, Fault, Store
  <2> QED
    BY <2>1, <2>2, Zenon DEF Frozen
<1>3. CASE Return(p)
  BY <1>1, <1>2, <1>3, Returns, OverInv, Zenon DEF Return
<1>4. CASE OpenLock(p) /\ proc' = [proc EXCEPT ![p].fd = dir, ![p].pc = "flock"] /\ dir # 0
  <2>1. DEFINE r == [proc[p] EXCEPT !.fd = dir, !.pc = "flock"]
  <2>2. /\ proc[p].pc = "open" /\ proc' = [proc EXCEPT ![p] = r] /\ DOMAIN r = FieldNames
        /\ r.fd = dir /\ r.pc = "flock" /\ r.cmd = proc[p].cmd /\ r.sid = proc[p].sid
        /\ r.dummyDevCreated = proc[p].dummyDevCreated /\ r.mgmtIfindexes = proc[p].mgmtIfindexes
        /\ r.transitMoved = proc[p].transitMoved /\ r.callerNs = proc[p].callerNs
        /\ r.plane = proc[p].plane
    BY <1>1, <1>4 DEF OpenLock, Role, Roles, FieldNames
  <2> HIDE DEF r
  <2>3. Acts(p) /\ proc'[p] = r
    BY <1>1, <2>2, Replaces, Zenon
  <2>4. "flock" \in VerifiedPCs /\ "flock" \in ByNamePCs /\ "flock" \notin StartPCs \cup StopPCs
        /\ "flock" \in Early
    BY DEF VerifiedPCs, ByNamePCs, StartPCs, StopPCs, Early
  <2>5. Role(m, p, proc'[p])
    BY <1>1, <2>2, <2>3, <2>4, Zenon DEF Role
  <2>6. SameRecord(p)
    BY <2>2, <2>3, Zenon DEF SameRecord
  <2> QED
    BY <1>2, <1>4, <2>2, <2>3, <2>4, <2>5, <2>6, ManagerApproach, Zenon
<1>5. CASE Flock(p) /\ Go(p, AfterLock(p))
  <2>1. GoesTo(p, AfterLock(p)) /\ proc[p].pc = "flock"
    BY <1>1, <1>5, Goes, Zenon DEF Flock
  <2>2. /\ AfterLock(p) \in {"verify", "netns", "openSwitch"}
        /\ AfterLock(p) = "verify" <=> proc[p].cmd \in Verified
        /\ AfterLock(p) = "netns" <=> (proc[p].cmd \notin Verified /\ proc[p].sid # 0)
    BY DEF AfterLock
  <2>3. {"verify", "netns", "openSwitch"} \cap (StopPCs \cup {"reserve", "read", "corrupted"}) = {}
        /\ {"netns", "openSwitch"} \subseteq ByNamePCs /\ "netns" \in StartPCs /\ "netns" \in Early
        /\ {"openSwitch", "verify"} \cap StartPCs = {} /\ "verify" \in VerifiedPCs
        /\ "flock" \notin {"idle", "corrupted"}
        /\ ByName \cap Verified = {} /\ "start" \in ByName
    BY DEF VerifiedPCs, ByNamePCs, StartPCs, StopPCs, Early, ByName, Verified
  <2>4. /\ proc'[p].cmd = proc[p].cmd /\ proc'[p].sid = proc[p].sid /\ proc'[p].pc = AfterLock(p)
        /\ DOMAIN proc'[p] = FieldNames /\ proc'[p].fd = proc[p].fd
    BY <2>1, Zenon DEF GoesTo, SameCall, Acts
  <2>5. proc[p].cmd \in ByName \cup Verified
    BY <1>1, <2>1, <2>3, Zenon DEF Role
  <2>6. Role(m, p, proc'[p])
    <3>1. proc[p].cmd \in Verified => proc[p].sid = 0
      BY <1>1, <2>3, Zenon DEF Role
    <3>2. CASE proc[p].cmd \in Verified
      <4>1. proc'[p].pc = "verify" /\ proc'[p].sid = 0 /\ proc'[p].cmd \notin ByName
            /\ proc'[p].cmd # "none" /\ proc'[p].cmd \in Verified
        BY <1>1, <2>1, <2>2, <2>3, <2>4, <3>1, <3>2, Zenon DEF Role
      <4> QED
        BY <2>3, <2>4, <4>1, Zenon DEF Role
    <3>3. CASE proc[p].cmd \in ByName
      <4>1. p = m /\ proc'[p].cmd \in ByName /\ proc'[p].cmd \notin Verified
            /\ proc'[p].cmd # "none"
        BY <1>1, <2>1, <2>3, <2>4, <3>3, Zenon DEF Role
      <4>2. CASE proc[p].sid # 0
        <5>1. proc'[p].pc = "netns" /\ proc'[p].cmd = "start" /\ proc'[p].sid # 0
          BY <1>1, <2>2, <2>4, <4>1, <4>2, Zenon DEF Role
        <5> QED
          BY <2>3, <2>4, <4>1, <5>1, Zenon DEF Role
      <4>3. CASE proc[p].sid = 0
        <5>1. proc'[p].pc = "openSwitch" /\ proc'[p].sid = 0
          BY <2>2, <2>4, <4>1, <4>3, Zenon
        <5> QED
          BY <2>3, <2>4, <4>1, <5>1, Zenon DEF Role
      <4> QED
        BY <4>2, <4>3, Zenon
    <3> QED
      BY <2>5, <3>2, <3>3, Zenon
  <2>7. p = m /\ proc'[p].cmd \in ByName => proc'[p].fd = dir /\ dir # 0
    BY <1>1, <2>1, <2>4, Zenon DEF Manager
  <2>8. proc'[p].sid # 0 => proc'[p].pc \in Early
    BY <2>2, <2>3, <2>4, <1>1, Zenon DEF Role
  <2> QED
    BY <1>2, <2>1, <2>2, <2>3, <2>4, <2>6, <2>7, <2>8, ManagerApproach, Zenon DEF GoesTo
<1>6. CASE OpenSwitch(p) /\ pin.slots # 0 /\ proc' = [proc EXCEPT ![p].ctx = pin.slots, ![p].pc = AfterOpen(p)]
  <2>1. DEFINE r == [proc[p] EXCEPT !.ctx = pin.slots, !.pc = AfterOpen(p)]
  <2>2. /\ proc[p].pc = "openSwitch" /\ proc' = [proc EXCEPT ![p] = r] /\ DOMAIN r = FieldNames
        /\ r.ctx = pin.slots /\ r.pc = AfterOpen(p) /\ r.cmd = proc[p].cmd /\ r.sid = proc[p].sid
        /\ r.fd = proc[p].fd
        /\ r.dummyDevCreated = proc[p].dummyDevCreated /\ r.mgmtIfindexes = proc[p].mgmtIfindexes
        /\ r.transitMoved = proc[p].transitMoved /\ r.callerNs = proc[p].callerNs
        /\ r.plane = proc[p].plane
    <3>1. proc[p].pc = "openSwitch" /\ DOMAIN proc[p] = FieldNames /\ DOMAIN proc = Procs
      BY <1>1, <1>6, Zenon DEF OpenSwitch, Role, Roles
    <3>2. proc' = [proc EXCEPT ![p] = r]
      BY <1>6, <3>1, Zenon
    <3> QED
      BY <3>1, <3>2 DEF FieldNames
  <2> HIDE DEF r
  <2>3. Acts(p) /\ proc'[p] = r
    BY <1>1, <2>2, Replaces, Zenon
  <2>4. proc[p].cmd \in ByName \cup Verified /\ proc[p].sid = 0
    <3>1. "openSwitch" \notin {"idle", "corrupted", "open", "flock"} \cup StartPCs
      BY DEF StartPCs
    <3> QED
      BY <1>1, <2>2, <3>1, Zenon DEF Role
  <2>5. \/ proc[p].cmd \in Verified /\ AfterOpen(p) = "open"
        \/ proc[p].cmd = "start" /\ AfterOpen(p) = "existing"
        \/ proc[p].cmd = "stopreleased" /\ AfterOpen(p) = "validate"
        \/ proc[p].cmd \in {"provision", "release"} /\ AfterOpen(p) = proc[p].cmd
    BY <2>4 DEF AfterOpen, ByName, Verified
  <2>6. /\ {"open", "existing", "validate", "provision", "release"} \subseteq ByNamePCs
        /\ {"open", "existing", "provision", "release"} \cap (StopPCs \cup {"reserve", "read", "corrupted"}) = {}
        /\ {"open", "existing", "validate", "provision", "release"} \cap StartPCs = {}
        /\ "open" \in VerifiedPCs /\ "validate" \notin {"reserve", "read", "corrupted"}
        /\ {"start", "stopreleased", "provision", "release"} \subseteq ByName
        /\ ByName \cap Verified = {} /\ "none" \notin ByName \cup Verified
    BY DEF VerifiedPCs, ByNamePCs, StartPCs, StopPCs, ByName, Verified
  <2>7. Role(m, p, proc'[p])
    <3>1. /\ DOMAIN proc'[p] = FieldNames /\ proc'[p].sid = 0 /\ proc'[p].cmd = proc[p].cmd
          /\ proc'[p].pc = AfterOpen(p) /\ (proc[p].cmd \in ByName => p = m)
      BY <1>1, <2>2, <2>3, <2>4, Zenon DEF Role
    <3>2. CASE proc[p].cmd \in Verified
      BY <2>5, <2>6, <3>1, <3>2, Zenon DEF Role
    <3>3. CASE proc[p].cmd \in ByName
      BY <2>5, <2>6, <3>1, <3>3, Zenon DEF Role
    <3> QED
      BY <2>4, <3>2, <3>3, Zenon
  <2>8. SameRecord(p)
    BY <2>2, <2>3, Zenon DEF SameRecord
  <2>9. pin.slots = dir
    BY <1>1, <1>6, Zenon DEF Store
  <2>10. p = m /\ proc'[p].cmd \in ByName => proc'[p].fd = dir /\ dir # 0
    BY <1>1, <2>2, <2>3, Zenon DEF Manager
  <2> QED
    BY <1>2, <2>2, <2>3, <2>4, <2>5, <2>6, <2>7, <2>8, <2>9, <2>10, ManagerApproach, Zenon
<1>7. CASE OpenSwitch(p) /\ proc' = [proc EXCEPT ![p] = IF proc[p].cmd \in {"release", "stopreleased"}
                  THEN [Idle EXCEPT !.pc = "corrupted"] ELSE Idle]
  <2>1. CASE proc[p].cmd \in {"release", "stopreleased"}
    <3>1. DEFINE r == [Idle EXCEPT !.pc = "corrupted"]
    <3>2. DOMAIN r = FieldNames /\ r.pc = "corrupted" /\ r.cmd = "none" /\ r.sid = 0
      BY IdleFields DEF FieldNames
    <3>3. proc' = [proc EXCEPT ![p] = r]
      BY <1>7, <2>1
    <3> HIDE DEF r
    <3>4. Acts(p) /\ proc'[p] = r
      BY <1>1, <3>2, <3>3, Replaces, Zenon
    <3>5. IsOver(p)
      BY <2>1, <3>2, <3>4, Zenon DEF IsOver, ByName
    <3> QED
      BY <1>2, <3>5, OverInv, Zenon
  <2>2. CASE proc[p].cmd \notin {"release", "stopreleased"}
    <3>1. proc' = [proc EXCEPT ![p] = Idle]
      BY <1>7, <2>2
    <3> QED
      BY <1>1, <1>2, <3>1, Returns, OverInv, Zenon
  <2> QED
    BY <2>1, <2>2, Zenon
<1>8. CASE (Verify(p) \/ Read(p)) /\ \E l \in {"read", "reserve", "report"} : Go(p, l)
  <2>1. PICK l \in {"read", "reserve", "report"} : Go(p, l) /\ (l = "reserve" => Verify(p) /\ proc[p].cmd # "stats")
                                                /\ (l = "read" => proc[p].cmd = "stats")
    <3>1. CASE Verify(p) /\ ~Return(p)
      BY <3>1, Zenon DEF Verify
    <3>2. CASE Read(p) /\ ~Return(p)
      BY <3>2, Zenon DEF Read
    <3>3. CASE Return(p)
      <4>1. proc'[p].pc = "idle"
        BY <1>1, <3>3, Returns, Goes, IdleFields DEF Return, Roles
      <4>2. \A l : Go(p, l) => proc'[p].pc = l
        BY <1>1, Goes, Zenon DEF GoesTo
      <4> QED
        BY <1>8, <4>1, <4>2, SMTT(20)
    <3> QED
      BY <1>8, <3>1, <3>2, <3>3, Zenon
  <2>2. GoesTo(p, l) /\ proc[p].pc \in {"verify", "read"}
    BY <1>1, <1>8, <2>1, Goes, Zenon DEF Verify, Read
  <2>3. /\ {"verify", "read"} \cap (ByNamePCs \cup {"idle", "corrupted"} \cup StartPCs) = {}
        /\ {"read", "reserve", "report"} \subseteq VerifiedPCs
        /\ {"read", "reserve", "report"} \cap (StartPCs \cup StopPCs \cup {"corrupted"}) = {}
        /\ Verified = {"reserve", "stats"} /\ ByName \cap Verified = {}
        /\ {"verify", "read"} \cap {"open", "flock"} = {}
    BY DEF VerifiedPCs, ByNamePCs, StartPCs, StopPCs, ByName, Verified
  <2>4. proc[p].cmd \in Verified /\ proc[p].sid = 0
    BY <1>1, <2>2, <2>3, Zenon DEF Role
  <2>5. /\ proc'[p].cmd = proc[p].cmd /\ proc'[p].sid = proc[p].sid /\ proc'[p].pc = l
        /\ DOMAIN proc'[p] = FieldNames /\ Acts(p) /\ SameRecord(p)
    BY <2>2, Zenon DEF GoesTo, SameCall, Acts
  <2>6. Role(m, p, proc'[p])
    BY <2>1, <2>3, <2>4, <2>5, Zenon DEF Role
  <2> QED
    BY <1>2, <2>2, <2>3, <2>4, <2>5, <2>6, ManagerApproach, Zenon
<1> QED
  <2>1. CASE OpenLock(p)
    BY <1>3, <1>4, <2>1, Zenon DEF OpenLock
  <2>2. CASE Flock(p)
    BY <1>3, <1>5, <2>2, Zenon DEF Flock
  <2>3. CASE OpenSwitch(p)
    BY <1>3, <1>6, <1>7, <2>3, Zenon DEF OpenSwitch
  <2>4. CASE Verify(p) \/ Read(p)
    BY <1>3, <1>8, <2>4, Zenon DEF Verify, Read
  <2>5. CASE Finish(p) \/ Crash(p)
    BY <1>3, <2>5, Zenon DEF Finish, Crash
  <2> QED
    BY <2>1, <2>2, <2>3, <2>4, <2>5, Zenon

-----------------------------------------------------------------------------
(* One manager: Start. *)

\* A step within StartReserved.
LEMMA StartActs ==
    ASSUME NEW m \in Procs, ManagerInv(m), proc[m].pc \in StartPCs, Acts(m), SameCall(m),
           proc'[m].pc \in StartPCs, dir' = dir, Store', NothingStranded',
           Progress(proc[m])', Recorded(proc[m])',
           proc'[m].pc = "undoTransit" => faults' > 0 \/ excused' # {}
    PROVE  ManagerInv(m)'
<1>1. Roles(m) /\ Role(m, m, proc[m]) /\ Manager(proc[m])
  BY Zenon DEF ManagerInv, Roles
<1>2. /\ StartPCs \subseteq ByNamePCs /\ StartPCs \cap StopPCs = {} /\ "start" \in ByName
      /\ StartPCs \cap {"idle", "corrupted", "reserve", "read", "open"} = {}
      /\ "start" \notin Verified /\ "start" # "none"
      /\ {"delDummy", "unpin"} \subseteq StopPCs
  BY DEF StartPCs, StopPCs, ByNamePCs, ByName, Verified
<1>3. proc[m].sid # 0 /\ proc[m].cmd = "start"
  BY <1>1, Zenon DEF Role
<1>4. Role(m, m, proc'[m])
  BY <1>2, <1>3, Zenon DEF Role, Acts, SameCall
<1>5. Manager(proc[m])'
  BY <1>1, <1>2, <1>3, Zenon DEF Manager, SameCall
<1> QED
  BY <1>1, <1>4, <1>5, ManagerActs, Zenon

\* What a step of StartReserved knows.
LEMMA StartKnows ==
    ASSUME NEW m \in Procs, ManagerInv(m), NEW p \in Procs, proc[p].pc \in StartPCs
    PROVE  /\ p = m /\ proc[m].sid = dir /\ dir # 0 /\ dir \in Nat
           /\ Roles(m) /\ Store /\ Progress(proc[m]) /\ Recorded(proc[m]) /\ NothingStranded
           /\ DOMAIN proc[m] = FieldNames /\ DOMAIN proc = Procs
<1>1. /\ Roles(m) /\ Store /\ Progress(proc[m]) /\ Recorded(proc[m]) /\ NothingStranded
      /\ Role(m, p, proc[p]) /\ Role(m, m, proc[m]) /\ Manager(proc[m])
  BY Zenon DEF ManagerInv, Roles
<1>2. proc[p].sid # 0 /\ proc[p].cmd = "start" /\ "start" \in ByName
  BY <1>1, Zenon DEF Role, ByName
<1>3. p = m /\ proc[m].sid = dir /\ dir # 0
  BY <1>1, <1>2, Zenon DEF Role, Manager
<1> QED
  BY <1>1, <1>3, Zenon DEF Store, Role, Roles

\* A failure leads to the rollback with every device in the record or excused.
LEMMA StartFails ==
    ASSUME NEW m \in Procs, ManagerInv(m), proc[m].pc \in StartPCs \ Undoing, Go(m, "undoTransit"),
           UNCHANGED <<dir, made, pin, dummy, mgmt, transit>>, excused \subseteq excused',
           proc[m].pc \in {"filter", "mgmtIndex"} => proc[m].sid \in excused',
           faults' \in Nat, faults' > 0 \/ excused' # {}
    PROVE  ManagerInv(m)'
<1>1. /\ proc[m].sid = dir /\ dir # 0 /\ Roles(m) /\ Store /\ Progress(proc[m])
      /\ Recorded(proc[m]) /\ NothingStranded
  BY StartKnows, Zenon
<1>2. GoesTo(m, "undoTransit") /\ "undoTransit" \in StartPCs
  BY <1>1, Goes, Zenon DEF StartPCs
<1>3. Acts(m) /\ SameCall(m) /\ SameRecord(m) /\ proc'[m].pc = "undoTransit" /\ proc'[m].sid = dir
  BY <1>1, <1>2, Zenon DEF GoesTo, SameCall
<1>4. Store'
  BY <1>1, Zenon DEF Store
<1>5. NothingStranded'
  BY <1>1 DEF NothingStranded
<1>6. Progress(proc[m])'
  BY <1>3 DEF Progress, Undoing, Early
<1>7. Recorded(proc[m])'
  <2> SUFFICES ASSUME dir' \notin excused' PROVE Recorded(proc[m])'
    BY Zenon DEF Recorded
  <2>1. dir \notin excused /\ proc[m].pc \notin {"filter", "mgmtIndex"} \cup Undoing
    BY <1>1
  <2>2. /\ transit = dir => proc[m].transitMoved /\ proc[m].callerNs
        /\ dummy = dir => proc[m].dummyDevCreated
        /\ \A i \in Planes : mgmt[i] = dir => <<i, dir>> \in proc[m].mgmtIfindexes
    BY <1>1, <2>1, Zenon DEF Recorded
  <2> QED
    BY <1>3, <2>2, Zenon DEF Recorded, SameRecord
<1> QED
  BY <1>2, <1>3, <1>4, <1>5, <1>6, <1>7, StartActs, Zenon

\* Up to the writes of the configuration: the pins and the block anchor.
LEMMA ManagerPins ==
    ASSUME NEW m \in Procs, ManagerInv(m), NEW p \in Procs,
           Prepare(p) \/ PinMaps(p) \/ CreateDummyLink(p) \/ BlockFilter(p)
    PROVE  ManagerInv(m)'
<1> USE DEF At, fsVars, devVars
<1>0. {"netns", "pinSlots", "pinRest", "dummy", "filter", "config"} \subseteq StartPCs \ Undoing
  BY DEF StartPCs, Undoing
<1>1. proc[p].pc \in {"netns", "pinSlots", "pinRest", "dummy", "filter"}
  BY DEF Prepare, PinMaps, PinMap, CreateDummyLink, BlockFilter
<1>2. /\ p = m /\ proc[m].sid = dir /\ dir # 0 /\ dir \in Nat
      /\ Roles(m) /\ Store /\ Progress(proc[m]) /\ Recorded(proc[m]) /\ NothingStranded
      /\ DOMAIN proc[m] = FieldNames /\ DOMAIN proc = Procs
  BY <1>0, <1>1, StartKnows, Zenon
<1>3. CASE Prepare(m) /\ Go(m, "pinSlots")
  <2>1. GoesTo(m, "pinSlots") /\ proc[m].pc = "netns"
    BY <1>2, <1>3, Goes, Zenon DEF Prepare
  <2>2. UNCHANGED <<dir, made, pin, dummy, mgmt, transit, excused>> /\ faults' \in Nat
    <3>1. UNCHANGED <<dir, made, pin, dummy, mgmt, transit, excused>>
      BY <1>3, Zenon DEF Prepare
    <3>2. faults' = faults \/ faults' = faults + 1
      BY <1>3, Zenon DEF Prepare, Fails, NoFault, Errs, Fault
    <3>3. faults \in Nat
      BY <1>2, Zenon DEF Store
    <3>4. faults' \in Nat
      BY <3>2, <3>3
    <3> QED
      BY <3>1, <3>4, Zenon
  <2>3. Store' /\ NothingStranded'
    BY <1>2, <2>2, Zenon DEF Store, NothingStranded
  <2>4. Progress(proc[m])'
    BY <1>2, <2>1, <2>2, Zenon DEF Progress, Early, Undoing, GoesTo, SameCall, SameRecord
  <2>5. Recorded(proc[m])'
    BY <1>2, <2>1, <2>2, SMTT(20) DEF Recorded, Undoing, GoesTo, SameCall, SameRecord
  <2> QED
    BY <1>0, <2>1, <2>2, <2>3, <2>4, <2>5, StartActs, Zenon DEF GoesTo
<1>4. CASE PinMap(m, "slots", "pinSlots", "pinRest") /\ Go(m, "pinRest")
  <2>1. GoesTo(m, "pinRest") /\ proc[m].pc = "pinSlots"
    BY <1>2, <1>4, Goes, Zenon DEF PinMap
  <2>2. ~Go(m, "undoTransit")
    BY <1>2, <2>1, OneLabel, Zenon
  <2>3. /\ UNCHANGED <<dir, made, dummy, mgmt, transit, excused>> /\ faults' = faults
        /\ pin' = [pin EXCEPT !["slots"] = dir]
    BY <1>2, <1>4, <2>1, <2>2, Zenon DEF PinMap, Fails, NoFault
  <2>4. DOMAIN pin' = {"slots", "rest"} /\ pin'.slots = dir /\ pin'.rest = pin.rest
    BY <1>2, <2>3, Zenon DEF Store
  <2>5. Store' /\ NothingStranded'
    BY <1>2, <2>3, <2>4, Zenon DEF Store, NothingStranded
  <2>6. Progress(proc[m])'
    BY <1>2, <2>1, <2>3, <2>4, Zenon DEF Progress, Early, Undoing, GoesTo, SameCall, SameRecord
  <2>7. Recorded(proc[m])'
    BY <1>2, <2>1, <2>3, Zenon DEF Recorded, Undoing, GoesTo, SameCall, SameRecord
  <2> QED
    BY <1>0, <2>1, <2>3, <2>5, <2>6, <2>7, StartActs, Zenon DEF GoesTo
<1>5. CASE PinMap(m, "rest", "pinRest", "dummy") /\ Go(m, "dummy")
  <2>1. GoesTo(m, "dummy") /\ proc[m].pc = "pinRest"
    BY <1>2, <1>5, Goes, Zenon DEF PinMap
  <2>2. ~Go(m, "undoTransit")
    BY <1>2, <2>1, OneLabel, Zenon
  <2>3. /\ UNCHANGED <<dir, made, dummy, mgmt, transit, excused>> /\ faults' = faults
        /\ pin' = [pin EXCEPT !["rest"] = dir]
    BY <1>2, <1>5, <2>1, <2>2, Zenon DEF PinMap, Fails, NoFault
  <2>4. DOMAIN pin' = {"slots", "rest"} /\ pin'.rest = dir /\ pin'.slots = pin.slots
    BY <1>2, <2>3, Zenon DEF Store
  <2>5. Store' /\ NothingStranded'
    BY <1>2, <2>3, <2>4, Zenon DEF Store, NothingStranded
  <2>6. Progress(proc[m])'
    BY <1>2, <2>1, <2>3, <2>4, Zenon DEF Progress, Early, Undoing, GoesTo, SameCall, SameRecord
  <2>7. Recorded(proc[m])'
    BY <1>2, <2>1, <2>3, Zenon DEF Recorded, Undoing, GoesTo, SameCall, SameRecord
  <2> QED
    BY <1>0, <2>1, <2>3, <2>5, <2>6, <2>7, StartActs, Zenon DEF GoesTo
<1>6. CASE CreateDummyLink(m) /\ Go(m, "filter")
  <2>1. GoesTo(m, "filter") /\ proc[m].pc = "dummy"
    BY <1>2, <1>6, Goes, Zenon DEF CreateDummyLink
  <2>2. ~Go(m, "undoTransit")
    BY <1>2, <2>1, OneLabel, Zenon
  <2>3. UNCHANGED <<dir, made, pin, mgmt, transit, excused>> /\ faults' = faults /\ dummy' = dir
    BY <1>2, <1>6, <2>1, <2>2, Zenon DEF CreateDummyLink, Fails, NoFault
  <2>4. Store' /\ NothingStranded'
    <3>1. dir \in 0 .. made
      BY <1>2, NumbersBelow, Zenon DEF Store
    <3> QED
      BY <1>2, <2>3, <3>1, Zenon DEF Store, NothingStranded
  <2>5. Progress(proc[m])'
    BY <1>2, <2>1, <2>3, Zenon DEF Progress, Early, Undoing, GoesTo, SameCall, SameRecord
  <2>6. Recorded(proc[m])'
    BY <1>2, <2>1, <2>3, Zenon DEF Recorded, Undoing, GoesTo, SameCall, SameRecord
  <2> QED
    BY <1>0, <2>1, <2>3, <2>4, <2>5, <2>6, StartActs, Zenon DEF GoesTo
<1>7. CASE BlockFilter(m) /\ proc' = [proc EXCEPT ![m].dummyDevCreated = TRUE, ![m].pc = "config"]
           /\ NoFault /\ UNCHANGED excused
  <2>1. DEFINE r == [proc[m] EXCEPT !.dummyDevCreated = TRUE, !.pc = "config"]
  <2>2. DOMAIN r = FieldNames /\ proc' = [proc EXCEPT ![m] = r]
        /\ r.pc = "config" /\ r.cmd = proc[m].cmd /\ r.fd = proc[m].fd /\ r.ctx = proc[m].ctx
        /\ r.sid = proc[m].sid /\ r.dummyDevCreated = TRUE /\ r.mgmtIfindexes = proc[m].mgmtIfindexes
        /\ r.transitMoved = proc[m].transitMoved /\ r.callerNs = proc[m].callerNs
        /\ r.plane = proc[m].plane
    <3>1. proc' = [proc EXCEPT ![m] = r]
      BY <1>2, <1>7, Zenon
    <3> QED
      BY <1>2, <3>1 DEF FieldNames
  <2> HIDE DEF r
  <2>3. Acts(m) /\ proc'[m] = r /\ SameCall(m)
    BY <1>2, <2>2, Replaces, Zenon DEF SameCall
  <2>4. UNCHANGED <<dir, made, pin, dummy, mgmt, transit, excused>> /\ faults' \in Nat /\ proc[m].pc = "filter"
    BY <1>2, <1>7 DEF BlockFilter, NoFault, Store
  <2>5. Store' /\ NothingStranded'
    BY <1>2, <2>4, Zenon DEF Store, NothingStranded
  <2>6. Progress(proc[m])'
    BY <1>2, <2>2, <2>3, <2>4, Zenon DEF Progress, Early, Undoing
  <2>7. Recorded(proc[m])'
    BY <1>2, <2>2, <2>3, <2>4, Zenon DEF Recorded, Undoing
  <2> QED
    BY <1>0, <2>2, <2>3, <2>4, <2>5, <2>6, <2>7, StartActs
<1>8. CASE Go(m, "undoTransit")
  <2>1. UNCHANGED <<dir, made, dummy, mgmt, transit>>
        /\ UNCHANGED pin
    <3>0. GoesTo(m, "undoTransit")
      BY <1>2, <1>8, Goes, Zenon
    <3>1. ~Go(m, "pinRest") /\ ~Go(m, "dummy") /\ ~Go(m, "filter")
      BY <1>2, <3>0, OneLabel, Zenon
    <3> QED
      BY <1>2, <3>1, Zenon DEF Prepare, PinMaps, PinMap, CreateDummyLink, BlockFilter
  <2>2. excused \subseteq excused' /\ (proc[m].pc = "filter" => proc[m].sid \in excused')
    <3>1. proc' # [proc EXCEPT ![m].dummyDevCreated = TRUE, ![m].pc = "config"]
      <4>1. proc'[m].pc = "undoTransit"
        BY <1>2, <1>8, Goes, Zenon DEF GoesTo
      <4>2. [proc EXCEPT ![m].dummyDevCreated = TRUE, ![m].pc = "config"][m].pc = "config"
        BY <1>2 DEF FieldNames
      <4> QED
        BY <4>1, <4>2, Zenon
    <3>2. CASE proc[m].pc = "filter"
      <4>1. excused' = excused \cup {proc[m].sid}
        BY <1>2, <3>1, <3>2, Zenon DEF Prepare, PinMaps, PinMap, CreateDummyLink, BlockFilter
      <4> QED
        BY <4>1
    <3>3. CASE proc[m].pc # "filter"
      BY <1>2, <3>3 DEF Prepare, PinMaps, PinMap, CreateDummyLink, BlockFilter
    <3> QED
      BY <3>2, <3>3
  <2>3. faults' \in Nat /\ (faults' > 0 \/ excused' # {})
    <3>1. ~Go(m, "pinRest") /\ ~Go(m, "dummy") /\ ~Go(m, "filter") /\ ~Go(m, "pinSlots")
      BY <1>2, <1>8, Goes DEF GoesTo
    <3>2. faults \in Nat
      BY <1>2 DEF Store
    <3>3. CASE Prepare(m)
      <4>1. Errs(transit # 0)
        BY <3>1, <3>3, Zenon DEF Prepare, Fails
      <4>2. transit # 0 => excused # {}
        <5>1. proc[m].pc = "netns" /\ excused' = excused
          BY <3>3, Zenon DEF Prepare
        <5>2. transit = dir => dir \in excused
          BY <1>2, <5>1 DEF Recorded, Progress, Undoing
        <5> QED
          BY <1>2, <5>2 DEF NothingStranded
      <4>3. excused' = excused
        BY <3>3, Zenon DEF Prepare
      <4> QED
        BY <3>2, <4>1, <4>2, <4>3 DEF Errs, NoFault, Fault
    <3>4. CASE PinMaps(m)
      <4>1. \/ proc[m].pc = "pinSlots" /\ Errs(dir = 0 \/ pin["slots"] # 0)
            \/ proc[m].pc = "pinRest" /\ Errs(dir = 0 \/ pin["rest"] # 0)
        BY <3>1, <3>4, Zenon DEF PinMaps, PinMap, Fails
      <4>2. \/ proc[m].pc = "pinSlots" /\ pin["slots"] = 0
            \/ proc[m].pc = "pinRest" /\ pin["rest"] = 0
        BY <1>2, <4>1 DEF Progress, Early
      <4> QED
        BY <1>2, <3>2, <4>1, <4>2 DEF Errs, NoFault, Fault
    <3>5. CASE CreateDummyLink(m)
      <4>1. proc[m].pc = "dummy" /\ excused' = excused /\ Errs(dummy # 0)
        BY <3>1, <3>5, Zenon DEF CreateDummyLink, Fails
      <4>2. dummy # 0 => excused # {}
        <5>1. dummy = dir => dir \in excused
          BY <1>2, <4>1 DEF Recorded, Progress, Undoing
        <5> QED
          BY <1>2, <5>1, SMTT(20) DEF NothingStranded
      <4> QED
        BY <3>2, <4>1, <4>2 DEF Errs, NoFault, Fault
    <3>6. CASE BlockFilter(m)
      <4>1. excused' # {}
        BY <2>2, <3>6, Zenon DEF BlockFilter
      <4>2. faults' \in Nat
        BY <3>2, <3>6 DEF BlockFilter, Fails, Errs, Fault, NoFault
      <4> QED
        BY <4>1, <4>2
    <3> QED
      BY <1>2, <3>3, <3>4, <3>5, <3>6, Zenon
  <2>4. proc[m].pc # "mgmtIndex" /\ proc[m].pc \in StartPCs \ Undoing
    BY <1>0, <1>1, <1>2, Zenon
  <2> QED
    BY <1>8, <2>1, <2>2, <2>3, <2>4, StartFails, Zenon
<1> QED
  BY <1>2, <1>3, <1>4, <1>5, <1>6, <1>7, <1>8, Zenon
     DEF Prepare, PinMaps, PinMap, CreateDummyLink, BlockFilter, Fails

\* From the configuration to the services: the management planes one by one.
LEMMA ManagerPlanes ==
    ASSUME NEW m \in Procs, ManagerInv(m), NEW p \in Procs,
           \/ WriteConfig(p) \/ InitSlotsReserved(p) \/ MgmtAdd(p) \/ MgmtIndex(p) \/ MgmtConf(p)
           \/ Services(p)
    PROVE  ManagerInv(m)'
<1> USE DEF At, fsVars, devVars
<1>0. {"config", "slots", "mgmtAdd", "mgmtIndex", "mgmtConf", "services", "move"}
        \subseteq StartPCs \ Undoing
  BY DEF StartPCs, Undoing
<1>1. proc[p].pc \in {"config", "slots", "mgmtAdd", "mgmtIndex", "mgmtConf", "services"}
  BY DEF WriteConfig, InitSlotsReserved, MgmtAdd, MgmtIndex, MgmtConf, Services
<1>2. /\ p = m /\ proc[m].sid = dir /\ dir # 0 /\ dir \in Nat
      /\ Roles(m) /\ Store /\ Progress(proc[m]) /\ Recorded(proc[m]) /\ NothingStranded
      /\ DOMAIN proc[m] = FieldNames /\ DOMAIN proc = Procs
  BY <1>0, <1>1, StartKnows, Zenon
<1>3. ASSUME NEW l, Go(m, l) PROVE GoesTo(m, l) /\ (l # "undoTransit" => ~Go(m, "undoTransit"))
  BY <1>2, <1>3, Goes DEF GoesTo
<1>4. CASE (WriteConfig(m) /\ Go(m, "slots")) \/ (Services(m) /\ Go(m, "move"))
           \/ (InitSlotsReserved(m) /\ Go(m, AfterPlane(0)))
  <2>1. \E l \in {"slots", "move", "mgmtAdd", "services"} :
            GoesTo(m, l) /\ \/ proc[m].pc = "config" /\ l = "slots"
                            \/ proc[m].pc = "services" /\ l = "move"
                            \/ proc[m].pc = "slots" /\ l = AfterPlane(0)
    BY <1>3, <1>4 DEF WriteConfig, Services, InitSlotsReserved, AfterPlane
  <2>2. UNCHANGED <<dir, made, pin, dummy, mgmt, transit, excused>> /\ faults' \in Nat
    BY <1>2, <1>4 DEF WriteConfig, Services, InitSlotsReserved, NoFault, Fault, Store
  <2>3. Store' /\ NothingStranded'
    BY <1>2, <2>2, Zenon DEF Store, NothingStranded
  <2>4. PICK l \in {"slots", "move", "mgmtAdd", "services"} :
            GoesTo(m, l) /\ \/ proc[m].pc = "config" /\ l = "slots"
                            \/ proc[m].pc = "services" /\ l = "move"
                            \/ proc[m].pc = "slots" /\ l = AfterPlane(0)
    BY <2>1
  <2>5. Acts(m) /\ SameCall(m) /\ SameRecord(m) /\ proc'[m].pc = l /\ proc'[m].sid = dir
    BY <1>2, <2>4, Zenon DEF GoesTo, SameCall
  <2>6. l = "mgmtAdd" => proc[m].pc = "slots" /\ 0 \in Planes
    BY <2>4, BoundAssumption DEF AfterPlane, Planes
  <2>7. Progress(proc[m])'
    BY <1>2, <2>2, <2>4, <2>5, <2>6, Zenon DEF Progress, Early, Undoing, SameRecord
  <2>8. Recorded(proc[m])'
    BY <1>2, <2>2, <2>4, <2>5, Zenon DEF Recorded, Undoing, SameRecord
  <2>9. proc[m].pc \in StartPCs /\ proc'[m].pc \in StartPCs /\ proc'[m].pc # "undoTransit"
    BY <1>0, <2>4, <2>5, Zenon
  <2> QED
    BY <2>2, <2>3, <2>5, <2>7, <2>8, <2>9, StartActs, Zenon
<1>5. CASE MgmtAdd(m) /\ Go(m, "mgmtIndex")
  <2>1. GoesTo(m, "mgmtIndex") /\ proc[m].pc = "mgmtAdd" /\ ~Go(m, "undoTransit")
    BY <1>3, <1>5 DEF MgmtAdd
  <2>2. /\ UNCHANGED <<dir, made, pin, dummy, transit, excused>> /\ faults' = faults
        /\ mgmt' = [mgmt EXCEPT ![proc[m].plane] = dir]
    BY <1>2, <1>5, <2>1, Zenon DEF MgmtAdd, Fails, NoFault
  <2>3. Acts(m) /\ SameCall(m) /\ SameRecord(m) /\ proc'[m].pc = "mgmtIndex" /\ proc'[m].sid = dir
    BY <1>2, <2>1, Zenon DEF GoesTo, SameCall
  <2>4. \A i \in Planes : mgmt'[i] = mgmt[i] \/ (i = proc[m].plane /\ mgmt'[i] = dir)
    BY <1>2, <2>2 DEF Store
  <2>5. Store'
    <3>1. dir \in 0 .. made /\ made \in Nat /\ mgmt \in [Planes -> 0 .. made]
      <4>1. made \in Nat /\ dir \in {0, made} /\ mgmt \in [Planes -> 0 .. made]
        BY <1>2, Zenon DEF Store
      <4> QED
        BY <4>1
    <3>2. mgmt' \in [Planes -> 0 .. made]
      BY <2>2, <3>1, Zenon
    <3> QED
      BY <1>2, <2>2, <3>2, Zenon DEF Store
  <2>6. NothingStranded'
    BY <1>2, <2>2, <2>4, Zenon DEF NothingStranded
  <2>7. Progress(proc[m])'
    BY <1>2, <2>1, <2>2, <2>3, Zenon DEF Progress, Early, Undoing, SameRecord
  <2>8. Recorded(proc[m])'
    BY <1>2, <2>1, <2>2, <2>3, <2>4, Zenon DEF Recorded, Undoing, SameRecord
  <2>9. proc[m].pc \in StartPCs /\ proc'[m].pc \in StartPCs /\ proc'[m].pc # "undoTransit"
    BY <1>0, <2>1, <2>3, Zenon
  <2> QED
    BY <2>2, <2>3, <2>5, <2>6, <2>7, <2>8, <2>9, StartActs, Zenon
<1>6. CASE MgmtIndex(m) /\ NoFault /\ UNCHANGED excused
           /\ proc' = [proc EXCEPT ![m].mgmtIfindexes = @ \cup {<<proc[m].plane, mgmt[proc[m].plane]>>},
                                   ![m].pc = "mgmtConf"]
  <2>1. DEFINE x == <<proc[m].plane, mgmt[proc[m].plane]>>
  <2>2. DEFINE r == [proc[m] EXCEPT !.mgmtIfindexes = @ \cup {x}, !.pc = "mgmtConf"]
  <2>3. DOMAIN r = FieldNames /\ proc' = [proc EXCEPT ![m] = r]
        /\ r.pc = "mgmtConf" /\ r.cmd = proc[m].cmd /\ r.fd = proc[m].fd /\ r.ctx = proc[m].ctx
        /\ r.sid = proc[m].sid /\ r.dummyDevCreated = proc[m].dummyDevCreated
        /\ r.mgmtIfindexes = proc[m].mgmtIfindexes \cup {x}
        /\ r.transitMoved = proc[m].transitMoved /\ r.callerNs = proc[m].callerNs
        /\ r.plane = proc[m].plane
    <3>1. proc' = [proc EXCEPT ![m] = r]
      BY <1>2, <1>6, Zenon
    <3> QED
      BY <1>2, <3>1 DEF FieldNames
  <2>4. x[1] = proc[m].plane /\ x = <<proc[m].plane, mgmt[proc[m].plane]>>
    OBVIOUS
  <2> HIDE DEF r, x
  <2>5. Acts(m) /\ proc'[m] = r /\ SameCall(m)
    BY <1>2, <2>3, Replaces, Zenon DEF SameCall
  <2>6. UNCHANGED <<dir, made, pin, dummy, mgmt, transit, excused>> /\ faults' \in Nat /\ proc[m].pc = "mgmtIndex"
    BY <1>2, <1>6 DEF MgmtIndex, NoFault, Store
  <2>7. Store' /\ NothingStranded'
    BY <1>2, <2>6, Zenon DEF Store, NothingStranded
  <2>8. Progress(proc[m])'
    BY <1>2, <2>3, <2>4, <2>5, <2>6, Zenon DEF Progress, Early, Undoing
  <2>9. Recorded(proc[m])'
    BY <1>2, <2>3, <2>4, <2>5, <2>6, Zenon DEF Recorded, Undoing
  <2> QED
    BY <1>0, <2>3, <2>5, <2>6, <2>7, <2>8, <2>9, StartActs, Zenon
<1>7. CASE MgmtConf(m) /\ NoFault
           /\ proc' = [proc EXCEPT ![m].plane = @ + 1, ![m].pc = AfterPlane(proc[m].plane + 1)]
  <2>1. DEFINE l == AfterPlane(proc[m].plane + 1)
  <2>2. DEFINE r == [proc[m] EXCEPT !.plane = @ + 1, !.pc = l]
  <2>3. DOMAIN r = FieldNames /\ proc' = [proc EXCEPT ![m] = r]
        /\ r.pc = l /\ r.cmd = proc[m].cmd /\ r.fd = proc[m].fd /\ r.ctx = proc[m].ctx
        /\ r.sid = proc[m].sid /\ r.dummyDevCreated = proc[m].dummyDevCreated
        /\ r.mgmtIfindexes = proc[m].mgmtIfindexes
        /\ r.transitMoved = proc[m].transitMoved /\ r.callerNs = proc[m].callerNs
        /\ r.plane = proc[m].plane + 1
    <3>1. proc' = [proc EXCEPT ![m] = r]
      BY <1>2, <1>7, Zenon
    <3> QED
      BY <1>2, <3>1 DEF FieldNames
  <2>4. UNCHANGED <<dir, made, pin, dummy, mgmt, transit, excused>> /\ faults' \in Nat /\ proc[m].pc = "mgmtConf"
    BY <1>2, <1>7, SMTT(20) DEF MgmtConf, NoFault, Store
  <2>5. proc[m].plane \in Planes /\ proc[m].plane \in Nat
    BY <1>2, <2>4, BoundAssumption, SMTT(20) DEF Progress, Undoing, Planes
  <2>6. l \in {"mgmtAdd", "services"} /\ (l = "mgmtAdd" => proc[m].plane + 1 \in Planes)
    BY <2>5, BoundAssumption DEF AfterPlane, Planes
  <2> HIDE DEF r, l
  <2>7. Acts(m) /\ proc'[m] = r /\ SameCall(m)
    BY <1>2, <2>3, Replaces, Zenon DEF SameCall
  <2>8. Store' /\ NothingStranded'
    BY <1>2, <2>4, Zenon DEF Store, NothingStranded
  <2>9. Progress(proc[m])'
    <3>1. \A y \in proc[m].mgmtIfindexes : y[1] \in Planes /\ y[1] < proc[m].plane + 1
      <4>1. \A y \in proc[m].mgmtIfindexes :
                y[1] \in Planes /\ (y[1] < proc[m].plane \/ y[1] = proc[m].plane)
        BY <1>2, <2>4, Zenon DEF Progress, Undoing
      <4>2. \A i \in Planes : i < proc[m].plane \/ i = proc[m].plane => i < proc[m].plane + 1
        BY <2>5, BoundAssumption DEF Planes
      <4> QED
        BY <4>1, <4>2, Zenon
    <3> QED
      BY <1>2, <2>3, <2>4, <2>6, <2>7, <3>1, Zenon DEF Progress, Early, Undoing
  <2>10. Recorded(proc[m])'
    BY <1>2, <2>3, <2>4, <2>6, <2>7, Zenon DEF Recorded, Undoing
  <2> QED
    BY <1>0, <2>3, <2>4, <2>6, <2>7, <2>8, <2>9, <2>10, StartActs
<1>8. CASE Go(m, "undoTransit")
  <2>0. proc'[m].pc = "undoTransit"
    BY <1>3, <1>8, Zenon DEF GoesTo
  <2>1. /\ ~Go(m, "slots") /\ ~Go(m, "move") /\ ~Go(m, AfterPlane(0)) /\ ~Go(m, "mgmtIndex")
    BY <1>3, <1>8 DEF AfterPlane
  <2>2. ~MgmtIndex(m) \/ ~\E X : proc' = [proc EXCEPT ![m].mgmtIfindexes = X, ![m].pc = "mgmtConf"]
    <3>1. \A X : [proc EXCEPT ![m].mgmtIfindexes = X, ![m].pc = "mgmtConf"][m].pc = "mgmtConf"
      BY <1>2 DEF FieldNames
    <3> QED
      BY <2>0, <3>1, Zenon
  <2>3. ~\E n : proc' = [proc EXCEPT ![m].plane = n, ![m].pc = AfterPlane(proc[m].plane + 1)]
    <3>1. \A n : [proc EXCEPT ![m].plane = n, ![m].pc = AfterPlane(proc[m].plane + 1)][m].pc
                  = AfterPlane(proc[m].plane + 1)
      BY <1>2 DEF FieldNames
    <3>2. AfterPlane(proc[m].plane + 1) # "undoTransit"
      BY DEF AfterPlane
    <3> QED
      BY <2>0, <3>1, <3>2, Zenon
  <2>4. UNCHANGED <<dir, made, pin, dummy, mgmt, transit>>
    BY <1>2, <2>1, Zenon DEF WriteConfig, InitSlotsReserved, MgmtAdd, MgmtIndex, MgmtConf, Services
  <2>5. faults \in Nat
    BY <1>2 DEF Store
  <2>6. CASE WriteConfig(m) \/ InitSlotsReserved(m) \/ MgmtConf(m) \/ Services(m)
    <3>1. excused' = excused /\ proc[m].pc \notin {"filter", "mgmtIndex"} /\ Fault
      BY <2>1, <2>3, <2>6, Zenon DEF WriteConfig, InitSlotsReserved, MgmtConf, Services
    <3>2. faults' \in Nat /\ faults' > 0
      BY <2>5, <3>1 DEF Fault
    <3> QED
      BY <1>0, <1>1, <1>2, <1>8, <2>4, <3>1, <3>2, StartFails, Zenon
  <2>7. CASE MgmtAdd(m)
    <3>1. excused' = excused /\ proc[m].pc = "mgmtAdd" /\ Errs(mgmt[proc[m].plane] # 0)
      BY <2>1, <2>7, Zenon DEF MgmtAdd, Fails
    <3>2. proc[m].plane \in Planes /\ proc[m].plane \in Nat
      <4>1. proc[m].plane \in Planes
        BY <1>2, <3>1, Zenon DEF Progress
      <4> QED
        BY <4>1, BoundAssumption DEF Planes
    <3>3. mgmt[proc[m].plane] = dir => dir \in excused
      <4>1. <<proc[m].plane, dir>> \notin proc[m].mgmtIfindexes
        BY <1>2, <3>1, <3>2 DEF Progress, Undoing
      <4> QED
        BY <1>2, <3>1, <3>2, <4>1, Zenon DEF Recorded
    <3>4. mgmt[proc[m].plane] # 0 => excused # {}
      BY <1>2, <3>2, <3>3, Zenon DEF NothingStranded
    <3>5. faults' \in Nat /\ (faults' > 0 \/ excused' # {})
      BY <2>5, <3>1, <3>4 DEF Errs, Fault, NoFault
    <3>6. proc[m].pc \notin {"filter", "mgmtIndex"}
      BY <3>1, Zenon
    <3> QED
      BY <1>0, <1>1, <1>2, <1>8, <2>4, <3>1, <3>5, <3>6, StartFails, Zenon
  <2>8. CASE MgmtIndex(m)
    <3>1. excused' = excused \cup {proc[m].sid} /\ Fails(m, mgmt[proc[m].plane] = 0)
      BY <2>2, <2>8, Zenon DEF MgmtIndex
    <3>2. faults' \in Nat
      BY <2>5, <3>1 DEF Fails, Errs, Fault, NoFault
    <3>3. excused \subseteq excused' /\ proc[m].sid \in excused' /\ excused' # {}
      BY <3>1
    <3> QED
      BY <1>0, <1>1, <1>2, <1>8, <2>4, <3>2, <3>3, StartFails, Zenon
  <2> QED
    BY <1>2, <2>6, <2>7, <2>8, Zenon
<1>9. CASE MgmtIndex(m)
  BY <1>6, <1>8, <1>9, Zenon DEF MgmtIndex, Fails
<1>10. CASE MgmtConf(m)
  BY <1>7, <1>8, <1>10, Zenon DEF MgmtConf
<1> QED
  BY <1>2, <1>4, <1>5, <1>8, <1>9, <1>10, Zenon
     DEF WriteConfig, InitSlotsReserved, MgmtAdd, Services, Fails

\* The transit device: it moves once the record says so, and Start returns.
LEMMA ManagerTransit ==
    ASSUME NEW m \in Procs, ManagerInv(m), NEW p \in Procs, MoveTransit(p) \/ ConfigureTransit(p)
    PROVE  ManagerInv(m)'
<1> USE DEF At, fsVars, devVars
<1>0. {"move", "transitConf"} \subseteq StartPCs \ Undoing
  BY DEF StartPCs, Undoing
<1>1. proc[p].pc \in {"move", "transitConf"}
  BY DEF MoveTransit, ConfigureTransit
<1>2. /\ p = m /\ proc[m].sid = dir /\ dir # 0 /\ dir \in Nat
      /\ Roles(m) /\ Store /\ Progress(proc[m]) /\ Recorded(proc[m]) /\ NothingStranded
      /\ DOMAIN proc[m] = FieldNames /\ DOMAIN proc = Procs
  BY <1>0, <1>1, StartKnows, Zenon
<1>f. faults \in Nat
  BY <1>2 DEF Store
<1>3. CASE MoveTransit(m) /\ transit' = proc[m].sid /\ NoFault
           /\ proc' = [proc EXCEPT ![m].callerNs = TRUE, ![m].transitMoved = TRUE,
                                   ![m].pc = "transitConf"]
  <2>1. DEFINE r == [proc[m] EXCEPT !.callerNs = TRUE, !.transitMoved = TRUE, !.pc = "transitConf"]
  <2>2. DOMAIN r = FieldNames /\ proc' = [proc EXCEPT ![m] = r]
        /\ r.pc = "transitConf" /\ r.cmd = proc[m].cmd /\ r.fd = proc[m].fd /\ r.ctx = proc[m].ctx
        /\ r.sid = proc[m].sid /\ r.dummyDevCreated = proc[m].dummyDevCreated
        /\ r.mgmtIfindexes = proc[m].mgmtIfindexes
        /\ r.transitMoved = TRUE /\ r.callerNs = TRUE /\ r.plane = proc[m].plane
    <3>1. proc' = [proc EXCEPT ![m] = r]
      BY <1>2, <1>3, Zenon
    <3> QED
      BY <1>2, <3>1 DEF FieldNames
  <2> HIDE DEF r
  <2>3. Acts(m) /\ proc'[m] = r /\ SameCall(m)
    BY <1>2, <2>2, Replaces, Zenon DEF SameCall
  <2>4. /\ UNCHANGED <<dir, made, pin, dummy, mgmt, excused>> /\ faults' = faults
        /\ proc[m].pc = "move" /\ transit' = dir
    BY <1>2, <1>3, Zenon DEF MoveTransit, NoFault
  <2>5. Store' /\ NothingStranded'
    BY <1>2, <2>4, SMTT(20) DEF Store, NothingStranded
  <2>6. Progress(proc[m])'
    BY <1>2, <2>2, <2>3, <2>4, Zenon DEF Progress, Early, Undoing
  <2>7. Recorded(proc[m])'
    BY <1>2, <2>2, <2>3, <2>4, Zenon DEF Recorded, Undoing
  <2> QED
    BY <1>0, <2>2, <2>3, <2>4, <2>5, <2>6, <2>7, StartActs
<1>4. CASE MoveTransit(m) /\ Fails(m, transit # 0) /\ UNCHANGED transit
  <2>1. /\ UNCHANGED <<dir, made, pin, dummy, mgmt, transit, excused>> /\ proc[m].pc = "move"
        /\ Errs(transit # 0) /\ Go(m, "undoTransit")
    BY <1>4, Zenon DEF MoveTransit, Fails
  <2>2. transit = dir => dir \in excused
    BY <1>2, <2>1, SMTT(20) DEF Recorded, Progress, Undoing
  <2>3. transit # 0 => excused # {}
    BY <1>2, <2>2 DEF NothingStranded
  <2>4. faults' \in Nat /\ (faults' > 0 \/ excused' # {})
    BY <1>f, <2>1, <2>3 DEF Errs, Fault, NoFault
  <2>5. proc[m].pc \notin {"filter", "mgmtIndex"} /\ proc[m].pc \in StartPCs \ Undoing
    BY <1>0, <2>1, Zenon
  <2> QED
    BY <2>1, <2>4, <2>5, StartFails, Zenon
<1>5. CASE ConfigureTransit(m) /\ Return(m) /\ NoFault
  <2>1. Frozen
    BY <1>5, <1>f DEF ConfigureTransit, NoFault, Frozen
  <2> QED
    BY <1>2, <1>5, <2>1, Returns, OverInv, Zenon DEF Return
<1>6. CASE ConfigureTransit(m) /\ Fails(m, transit = 0)
  <2>1. /\ UNCHANGED <<dir, made, pin, dummy, mgmt, transit, excused>> /\ proc[m].pc = "transitConf"
        /\ Errs(transit = 0) /\ Go(m, "undoTransit")
    BY <1>6, Zenon DEF ConfigureTransit, Fails
  <2>2. transit # 0
    BY <1>2, <2>1 DEF Progress
  <2>3. faults' \in Nat /\ faults' > 0
    BY <1>f, <2>1, <2>2 DEF Errs, Fault, NoFault
  <2>4. proc[m].pc \notin {"filter", "mgmtIndex"} /\ proc[m].pc \in StartPCs \ Undoing
    BY <1>0, <2>1, Zenon
  <2> QED
    BY <2>1, <2>3, <2>4, StartFails, Zenon
<1> QED
  BY <1>2, <1>3, <1>4, <1>5, <1>6, Zenon DEF MoveTransit, ConfigureTransit

-----------------------------------------------------------------------------
(* One manager: the rollback of Start. *)

\* The manager's command ends, whatever it removed.
LEMMA ManagerOver ==
    ASSUME NEW m \in Procs, ManagerInv(m), IsOver(m), Store', NothingStranded'
    PROVE  ManagerInv(m)'
<1>1. Roles(m)
  BY Zenon DEF ManagerInv
<1>2. Role(m, m, proc'[m]) /\ Acts(m)
  BY <1>1, OverRole, Zenon DEF IsOver
<1>3. /\ proc'[m].pc \in {"idle", "corrupted"} /\ proc'[m].cmd \notin ByName /\ proc'[m].sid = 0
      /\ proc'[m].pc \notin StopPCs /\ proc'[m].pc \notin {"delDummy", "unpin", "undoTransit"}
  BY DEF IsOver, ByName, StopPCs
<1>4. Manager(proc[m])' /\ Progress(proc[m])' /\ Recorded(proc[m])'
  BY <1>3, Zenon DEF Manager, Progress, Recorded
<1> QED
  BY <1>1, <1>2, <1>3, <1>4, ManagerActs, Zenon

\* A step of the rollback: its own part of the record is dealt with.
LEMMA UndoActs ==
    ASSUME NEW m \in Procs, ManagerInv(m), proc[m].pc \in StartPCs, Acts(m), SameCall(m),
           proc'[m].pc \in Undoing \ {"undoTransit"}, UNCHANGED <<dir, made, pin>>,
           dummy' \in {0, dummy}, transit' \in {0, transit}, mgmt' \in [Planes -> 0 .. made],
           \A i \in Planes : mgmt'[i] \in {0, mgmt[i]},
           faults' \in Nat, excused \subseteq excused', Recorded(proc[m])'
    PROVE  ManagerInv(m)'
<1>1. Store /\ NothingStranded
  BY Zenon DEF ManagerInv
<1>2. 0 \in 0 .. made
  BY <1>1, NumbersBelow, Zenon DEF Store
<1>3. Store'
  BY <1>1, <1>2, Zenon DEF Store
<1>4. NothingStranded'
  BY <1>1, Zenon DEF NothingStranded
<1>5. proc'[m].pc \in Undoing /\ proc'[m].pc # "undoTransit" /\ proc'[m].pc \in StartPCs
  BY SMTT(20) DEF Undoing, StartPCs
<1>6. Progress(proc[m])'
  BY <1>5 DEF Progress, Early, Undoing
<1> QED
  BY <1>3, <1>4, <1>5, <1>6, StartActs, Zenon

\* What a cleanup call does about a failure.
LEMMA UndoneCases ==
    ASSUME NEW p, faults \in Nat, Undone(p)
    PROVE  /\ faults' \in Nat /\ excused \subseteq excused'
           /\ faults' # faults => proc[p].sid \in excused'
BY DEF Undone, NoFault, Fault

\* The rollback in the order of the code; the pins go last.
LEMMA ManagerCleanup ==
    ASSUME NEW m \in Procs, ManagerInv(m), NEW p \in Procs, Cleanup(p)
    PROVE  ManagerInv(m)'
<1> USE DEF At, fsVars, devVars
<1>1. proc[p].pc \in Undoing /\ Undoing \subseteq StartPCs
  BY DEF Cleanup, UndoTransit, UndoDummy, UndoMgmt, UndoPins, Undoing, StartPCs
<1>2. /\ p = m /\ proc[m].sid = dir /\ dir # 0 /\ dir \in Nat
      /\ Roles(m) /\ Store /\ Progress(proc[m]) /\ Recorded(proc[m]) /\ NothingStranded
      /\ DOMAIN proc[m] = FieldNames /\ DOMAIN proc = Procs
  BY <1>1, StartKnows, Zenon
<1>3. faults \in Nat /\ mgmt \in [Planes -> 0 .. made] /\ 0 \in 0 .. made /\ proc[m].pc \in StartPCs
  BY <1>1, <1>2, NumbersBelow, Zenon DEF Store
<1>4. ASSUME Undone(m)
      PROVE  /\ faults' \in Nat /\ excused \subseteq excused'
             /\ faults' # faults => dir \in excused'
  BY <1>2, <1>3, <1>4, UndoneCases, Zenon
<1>5. CASE UndoTransit(m)
  <2>1. DEFINE r == [proc[m] EXCEPT !.callerNs = FALSE, !.pc = "undoDummy"]
  <2>2. DOMAIN r = FieldNames /\ proc' = [proc EXCEPT ![m] = r]
        /\ r.pc = "undoDummy" /\ r.cmd = proc[m].cmd /\ r.fd = proc[m].fd /\ r.ctx = proc[m].ctx
        /\ r.sid = proc[m].sid /\ r.dummyDevCreated = proc[m].dummyDevCreated
        /\ r.mgmtIfindexes = proc[m].mgmtIfindexes
    <3>1. proc' = [proc EXCEPT ![m] = r]
      BY <1>2, <1>5, Zenon DEF UndoTransit
    <3> QED
      BY <1>2, <3>1 DEF FieldNames
  <2> HIDE DEF r
  <2>3. Acts(m) /\ proc'[m] = r /\ SameCall(m)
    BY <1>2, <2>2, Replaces, Zenon DEF SameCall
  <2>4. /\ faults' \in Nat /\ excused \subseteq excused' /\ transit' \in {0, transit}
        /\ dir \notin excused' => transit' # dir
    <3>1. CASE proc[m].transitMoved /\ proc[m].callerNs /\ transit # 0
      <4>1. Undone(m) /\ transit' = IF faults' = faults THEN 0 ELSE transit
        BY <1>5, <3>1, Zenon DEF UndoTransit
      <4> QED
        BY <1>2, <1>4, <4>1
    <3>2. CASE ~(proc[m].transitMoved /\ proc[m].callerNs /\ transit # 0)
      <4>1. NoFault /\ UNCHANGED <<transit, excused>>
        BY <1>5, <3>2, Zenon DEF UndoTransit
      <4>2. dir \notin excused => transit # dir
        BY <1>2, <3>2, Zenon DEF Recorded
      <4> QED
        BY <1>3, <4>1, <4>2, Zenon DEF NoFault
    <3> QED
      BY <3>1, <3>2
  <2>5. UNCHANGED <<dir, made, pin, dummy, mgmt>> /\ proc[m].pc = "undoTransit"
    BY <1>5, SMTT(20) DEF UndoTransit
  <2>6. Recorded(proc[m])'
    BY <1>2, <2>2, <2>3, <2>4, <2>5, Zenon DEF Recorded, Undoing
  <2>7. proc'[m].pc \in Undoing \ {"undoTransit"}
    BY <2>2, <2>3 DEF Undoing
  <2> QED
    BY <1>3, <2>3, <2>4, <2>5, <2>6, <2>7, UndoActs, Zenon
<1>6. CASE UndoDummy(m)
  <2>1. GoesTo(m, "undoMgmt")
    BY <1>2, <1>6, Goes, Zenon DEF UndoDummy
  <2>2. Acts(m) /\ SameCall(m) /\ SameRecord(m) /\ proc'[m].pc = "undoMgmt"
    BY <2>1, Zenon DEF GoesTo
  <2>3. UNCHANGED <<dir, made, pin, transit, mgmt>> /\ proc[m].pc = "undoDummy"
    BY <1>6, Zenon DEF UndoDummy
  <2>4. /\ faults' \in Nat /\ excused \subseteq excused' /\ dummy' \in {0, dummy}
        /\ dir \notin excused' => dummy' # dir
    <3>1. CASE proc[m].dummyDevCreated /\ dummy # 0
      <4>1. Undone(m) /\ dummy' = IF faults' = faults THEN 0 ELSE dummy
        BY <1>6, <3>1, Zenon DEF UndoDummy
      <4> QED
        BY <1>2, <1>4, <4>1
    <3>2. CASE ~(proc[m].dummyDevCreated /\ dummy # 0)
      <4>1. NoFault /\ UNCHANGED <<dummy, excused>>
        BY <1>6, <3>2, Zenon DEF UndoDummy
      <4>2. dir \notin excused => dummy # dir
        BY <1>2, <2>3, <3>2 DEF Recorded
      <4> QED
        BY <1>3, <4>1, <4>2, Zenon DEF NoFault
    <3> QED
      BY <3>1, <3>2
  <2>5. Recorded(proc[m])'
    BY <1>2, <2>2, <2>3, <2>4, Zenon DEF Recorded, Undoing, SameCall, SameRecord
  <2>6. proc'[m].pc \in Undoing \ {"undoTransit"}
    BY <2>2 DEF Undoing
  <2> QED
    BY <1>3, <2>2, <2>3, <2>4, <2>5, <2>6, UndoActs, Zenon
<1>7. CASE UndoMgmt(m)
  <2>1. DEFINE due == {x \in proc[m].mgmtIfindexes : mgmt[x[1]] = x[2]}
  <2>2. UNCHANGED <<dir, made, pin, transit, dummy>> /\ proc[m].pc = "undoMgmt"
    BY <1>7 DEF UndoMgmt
  <2>3. CASE due = {} /\ Go(m, "undoPins") /\ NoFault /\ UNCHANGED <<mgmt, excused>>
    <3>1. Acts(m) /\ SameCall(m) /\ SameRecord(m) /\ proc'[m].pc = "undoPins"
      BY <1>2, <2>3, Goes, Zenon DEF GoesTo
    <3>2. ASSUME NEW i \in Planes, mgmt[i] = dir, dir \notin excused PROVE FALSE
      <4>1. <<i, dir>> \in proc[m].mgmtIfindexes
        BY <1>2, <2>2, <3>2, Zenon DEF Recorded
      <4>2. <<i, dir>>[1] = i /\ <<i, dir>>[2] = dir
        OBVIOUS
      <4> QED
        BY <2>3, <3>2, <4>1, <4>2, Zenon
    <3>3. Recorded(proc[m])'
      BY <1>2, <2>2, <2>3, <3>1, <3>2, Zenon DEF Recorded, Undoing, SameCall, SameRecord
    <3>4. proc'[m].pc \in Undoing \ {"undoTransit"}
      BY <3>1 DEF Undoing
    <3> QED
      BY <1>3, <2>2, <2>3, <3>1, <3>3, <3>4, UndoActs, Zenon DEF NoFault
  <2>4. ASSUME NEW x \in due, Undone(m),
               mgmt' = IF faults' = faults THEN [mgmt EXCEPT ![x[1]] = 0] ELSE mgmt,
               proc' = [proc EXCEPT ![m].mgmtIfindexes = @ \ {x}]
        PROVE  ManagerInv(m)'
    <3>1. DEFINE r == [proc[m] EXCEPT !.mgmtIfindexes = @ \ {x}]
    <3>2. DOMAIN r = FieldNames /\ proc' = [proc EXCEPT ![m] = r]
        /\ r.pc = "undoMgmt" /\ r.cmd = proc[m].cmd /\ r.fd = proc[m].fd /\ r.ctx = proc[m].ctx
        /\ r.sid = proc[m].sid /\ r.dummyDevCreated = proc[m].dummyDevCreated
        /\ r.mgmtIfindexes = proc[m].mgmtIfindexes \ {x}
      <4>1. proc' = [proc EXCEPT ![m] = r]
        BY <1>2, <2>4, Zenon
      <4> QED
        BY <1>2, <2>2, <4>1 DEF FieldNames
    <3> HIDE DEF r
    <3>3. Acts(m) /\ proc'[m] = r /\ SameCall(m)
      BY <1>2, <3>2, Replaces, Zenon DEF SameCall
    <3>4. faults' \in Nat /\ excused \subseteq excused' /\ (faults' # faults => dir \in excused')
      BY <1>4, <2>4, Zenon
    <3>5. /\ mgmt' \in [Planes -> 0 .. made] /\ \A i \in Planes : mgmt'[i] \in {0, mgmt[i]}
          /\ dir \notin excused' => \A i \in Planes : i = x[1] => mgmt'[i] # dir
      BY <1>2, <1>3, <2>4, <3>4, Zenon
    <3>6. ASSUME NEW i \in Planes, mgmt'[i] = dir, dir \notin excused'
          PROVE  <<i, dir>> \in r.mgmtIfindexes
      <4>1. mgmt[i] = dir /\ i # x[1] /\ dir \notin excused
        BY <1>2, <3>4, <3>5, <3>6
      <4>2. <<i, dir>> \in proc[m].mgmtIfindexes
        BY <1>2, <2>2, <4>1, Zenon DEF Recorded
      <4>3. <<i, dir>>[1] = i
        BY Zenon
      <4> QED
        BY <3>2, <4>1, <4>2, <4>3, Zenon
    <3>7. Recorded(proc[m])'
      <4>1. /\ transit = dir /\ dir \notin excused => FALSE
            /\ dummy = dir /\ dir \notin excused => FALSE
        BY <1>2, <2>2, SMTT(20) DEF Recorded, Undoing
      <4> QED
        BY <1>2, <2>2, <3>2, <3>3, <3>4, <3>6, <4>1, Zenon DEF Recorded, Undoing
    <3>8. proc'[m].pc \in Undoing \ {"undoTransit"}
      BY <3>2, <3>3 DEF Undoing
    <3> QED
      BY <1>3, <2>2, <3>3, <3>4, <3>5, <3>7, <3>8, UndoActs, Zenon
  <2> QED
    BY <1>7, <2>3, <2>4, Zenon DEF UndoMgmt
<1>8. CASE UndoPins(m) /\ UnpinMaps(m, Idle) /\ NoFault
  <2>1. IsOver(m)
    BY <1>2, <1>8, Unpins, Zenon
  <2>2. /\ proc[m].pc = "undoPins" /\ dir' = 0 /\ pin' = NoPins /\ made' = made
        /\ UNCHANGED <<dummy, mgmt, transit, excused, faults>>
    BY <1>8 DEF UndoPins, UnpinMaps, NoFault
  <2>3. Store'
    BY <1>2, <2>2, SMTT(20) DEF Store, NoPins
  <2>4. dir \notin excused => transit # dir /\ dummy # dir /\ \A i \in Planes : mgmt[i] # dir
    BY <1>2, <2>2, Zenon DEF Recorded, Undoing
  <2>5. NothingStranded'
    BY <1>2, <2>2, <2>4, Zenon DEF NothingStranded
  <2> QED
    BY <2>1, <2>3, <2>5, ManagerOver, Zenon
<1>9. CASE UndoPins(m) /\ Fault /\ Return(m) /\ UNCHANGED fsVars
  <2>1. IsOver(m)
    BY <1>2, <1>9, Returns, Zenon DEF Return
  <2>2. Frozen
    <3>1. UNCHANGED <<dir, made, pin, dummy, mgmt, transit, excused>>
      BY <1>9, Zenon DEF UndoPins
    <3>2. faults \in Nat /\ faults' = faults + 1
      BY <1>3, <1>9, Zenon DEF Fault
    <3> QED
      BY <3>1, <3>2 DEF Frozen
  <2> QED
    BY <2>1, <2>2, OverInv, Zenon
<1> QED
  BY <1>2, <1>5, <1>6, <1>7, <1>8, <1>9, Zenon DEF Cleanup, UndoPins

-----------------------------------------------------------------------------
(* One manager: the other commands. *)

\* Who is in StopReleased is the manager, with the switch the name leads to.
LEMMA StopKnows ==
    ASSUME NEW m \in Procs, ManagerInv(m), NEW p \in Procs, proc[p].pc \in StopPCs
    PROVE  /\ p = m /\ proc[m].sid = 0 /\ proc[m].ctx = dir /\ dir # 0
           /\ proc[m].cmd = "stopreleased" /\ proc[m].fd = dir
           /\ Roles(m) /\ Store /\ Manager(proc[m]) /\ NothingStranded
           /\ DOMAIN proc[m] = FieldNames /\ DOMAIN proc = Procs
<1>1. /\ Roles(m) /\ Store /\ NothingStranded /\ Role(m, p, proc[p]) /\ Role(m, m, proc[m])
      /\ Manager(proc[m]) /\ DOMAIN proc = Procs
  BY Zenon DEF ManagerInv, Roles
<1>2. proc[p].cmd = "stopreleased" /\ proc[p].cmd \in ByName /\ proc[p].cmd # "start" /\ proc[p].pc # "open"
  BY <1>1, Zenon DEF Role, ByName, StopPCs
<1>3. p = m
  BY <1>1, <1>2, Zenon DEF Role
<1> QED
  BY <1>1, <1>2, <1>3, Zenon DEF Role, Manager

\* A step of StopReleased that is not its last.
LEMMA StopActs ==
    ASSUME NEW m \in Procs, ManagerInv(m), proc[m].pc \in StopPCs, Acts(m), SameCall(m),
           proc'[m].pc \in StopPCs, UNCHANGED <<dir, made, pin, excused, faults>>,
           dummy' \in {0, dummy}, transit' \in {0, transit}, mgmt' \in [Planes -> 0 .. made],
           \A i \in Planes : mgmt'[i] \in {0, mgmt[i]},
           proc'[m].pc \in {"delDummy", "unpin"} => transit' = 0, proc'[m].pc = "unpin" => dummy' = 0
    PROVE  ManagerInv(m)'
<1>1. /\ proc[m].sid = 0 /\ proc[m].ctx = dir /\ dir # 0
      /\ proc[m].cmd = "stopreleased" /\ proc[m].fd = dir
      /\ Roles(m) /\ Store /\ NothingStranded
  BY StopKnows, Zenon
<1>2. 0 \in 0 .. made
  BY <1>1, NumbersBelow, Zenon DEF Store
<1>3. Store'
  BY <1>1, <1>2, Zenon DEF Store
<1>4. NothingStranded'
  BY <1>1, Zenon DEF NothingStranded
<1>5. proc'[m].sid = 0 /\ proc'[m].ctx = dir /\ proc'[m].cmd = "stopreleased" /\ proc'[m].fd = dir
  BY <1>1, Zenon DEF SameCall
<1>6. /\ StopPCs \subseteq ByNamePCs /\ "stopreleased" \in ByName /\ "stopreleased" \notin Verified
      /\ StopPCs \cap ({"corrupted", "reserve", "read", "undoTransit"} \cup StartPCs) = {}
      /\ "stopreleased" # "none"
  BY DEF StopPCs, StartPCs, ByNamePCs, ByName, Verified
<1>7. Role(m, m, proc'[m])
  BY <1>5, <1>6, Zenon DEF Role, Acts
<1>8. Manager(proc[m])'
  BY <1>1, <1>5, Zenon DEF Manager
<1>9. Progress(proc[m])' /\ Recorded(proc[m])'
  BY <1>5, Zenon DEF Progress, Recorded
<1>10. proc'[m].pc # "undoTransit"
  BY <1>6, Zenon
<1> QED
  BY <1>1, <1>3, <1>4, <1>7, <1>8, <1>9, <1>10, ManagerActs, Zenon

\* StopReleased ends with an error.
LEMMA StopEnds ==
    ASSUME NEW m \in Procs, ManagerInv(m), Return(m), faults' = faults \/ Fault,
           UNCHANGED <<dir, made, pin, dummy, mgmt, transit, excused>>
    PROVE  ManagerInv(m)'
<1>1. Roles(m) /\ Store
  BY Zenon DEF ManagerInv
<1>2. IsOver(m)
  BY <1>1, Returns, Zenon DEF Return
<1>3. Frozen
  BY <1>1 DEF Frozen, Store, Fault
<1> QED
  BY <1>2, <1>3, OverInv, Zenon

\* StopReleased: the devices go before the pins do.
LEMMA ManagerStop ==
    ASSUME NEW m \in Procs, ManagerInv(m), NEW p \in Procs, StopReleased(p)
    PROVE  ManagerInv(m)'
<1> USE DEF At, fsVars, devVars, histVars
<1>1. proc[p].pc \in StopPCs
  BY DEF StopReleased, Validate, DelMgmt, MoveBack, DelDummy, Unpin, StopPCs
<1>2. /\ p = m /\ proc[m].sid = 0 /\ proc[m].ctx = dir /\ dir # 0
      /\ Roles(m) /\ Store /\ Manager(proc[m]) /\ NothingStranded
      /\ DOMAIN proc[m] = FieldNames /\ DOMAIN proc = Procs
  BY <1>1, StopKnows, Zenon
<1>3. faults \in Nat /\ mgmt \in [Planes -> 0 .. made] /\ 0 \in 0 .. made /\ proc[m].pc \in StopPCs
  BY <1>1, <1>2, NumbersBelow, Zenon DEF Store
<1>4. {"delMgmt", "moveBack", "delDummy", "unpin"} \subseteq StopPCs
  BY DEF StopPCs
<1>5. ASSUME NEW S, proc' = [proc EXCEPT ![m].mgmtIfindexes = S, ![m].pc = "delMgmt"]
      PROVE  Acts(m) /\ SameCall(m) /\ proc'[m].pc = "delMgmt"
  <2>1. DEFINE r == [proc[m] EXCEPT !.mgmtIfindexes = S, !.pc = "delMgmt"]
  <2>2. DOMAIN r = FieldNames /\ proc' = [proc EXCEPT ![m] = r]
        /\ r.pc = "delMgmt" /\ r.cmd = proc[m].cmd /\ r.fd = proc[m].fd /\ r.ctx = proc[m].ctx
        /\ r.sid = proc[m].sid
    <3>1. proc' = [proc EXCEPT ![m] = r]
      BY <1>2, <1>5, Zenon
    <3> QED
      BY <1>2, <3>1 DEF FieldNames
  <2> HIDE DEF r
  <2> QED
    BY <1>2, <2>2, Replaces, Zenon DEF SameCall
<1>6. ASSUME NEW S, proc' = [proc EXCEPT ![m].mgmtIfindexes = S]
      PROVE  Acts(m) /\ SameCall(m) /\ proc'[m].pc = proc[m].pc
  <2>1. DEFINE r == [proc[m] EXCEPT !.mgmtIfindexes = S]
  <2>2. DOMAIN r = FieldNames /\ proc' = [proc EXCEPT ![m] = r]
        /\ r.pc = proc[m].pc /\ r.cmd = proc[m].cmd /\ r.fd = proc[m].fd /\ r.ctx = proc[m].ctx
        /\ r.sid = proc[m].sid
    <3>1. proc' = [proc EXCEPT ![m] = r]
      BY <1>2, <1>6, Zenon
    <3> QED
      BY <1>2, <3>1 DEF FieldNames
  <2> HIDE DEF r
  <2> QED
    BY <1>2, <2>2, Replaces, Zenon DEF SameCall
<1>7. ASSUME NEW l, Go(m, l) PROVE Acts(m) /\ SameCall(m) /\ proc'[m].pc = l
  BY <1>2, <1>7, Goes, Zenon DEF GoesTo
<1>8. CASE Validate(m)
  <2>1. UNCHANGED <<dir, made, pin, dummy, mgmt, transit, excused, faults>>
    BY <1>8 DEF Validate
  <2>2. CASE Return(m)
    BY <2>1, <2>2, StopEnds, Zenon
  <2>3. CASE proc' = [proc EXCEPT ![m].mgmtIfindexes = mset[proc[m].ctx].mgmt, ![m].pc = "delMgmt"]
    <3>1. Acts(m) /\ SameCall(m) /\ proc'[m].pc = "delMgmt"
      BY <1>5, <2>3, Zenon
    <3>2. proc'[m].pc \notin {"delDummy", "unpin"} /\ proc'[m].pc \in StopPCs
      BY <1>4, <3>1
    <3> QED
      BY <1>3, <2>1, <3>1, <3>2, StopActs, Zenon
  <2> QED
    BY <1>8, <2>2, <2>3, Zenon DEF Validate
<1>9. CASE DelMgmt(m)
  <2>1. UNCHANGED <<dir, made, pin, dummy, transit, excused>> /\ proc[m].pc = "delMgmt"
    BY <1>9 DEF DelMgmt
  <2>2. CASE NoFault /\ Go(m, "moveBack") /\ UNCHANGED mgmt
    <3>1. proc'[m].pc \notin {"delDummy", "unpin"} /\ proc'[m].pc \in StopPCs
      BY <1>4, <1>7, <2>2
    <3> QED
      BY <1>3, <1>7, <2>1, <2>2, <3>1, StopActs, Zenon DEF NoFault
  <2>3. ASSUME NEW x, mgmt' = [mgmt EXCEPT ![x[1]] = 0], NoFault,
               proc' = [proc EXCEPT ![m].mgmtIfindexes = @ \ {x}]
        PROVE  ManagerInv(m)'
    <3>1. Acts(m) /\ SameCall(m) /\ proc'[m].pc = "delMgmt"
      BY <1>6, <2>1, <2>3, Zenon
    <3>2. proc'[m].pc \notin {"delDummy", "unpin"} /\ proc'[m].pc \in StopPCs
      BY <1>4, <3>1
    <3>3. mgmt' \in [Planes -> 0 .. made] /\ \A i \in Planes : mgmt'[i] \in {0, mgmt[i]}
      BY <1>3, <2>3, Zenon
    <3> QED
      BY <1>3, <2>1, <2>3, <3>1, <3>2, <3>3, StopActs, Zenon DEF NoFault
  <2>4. CASE StopFails(m) /\ UNCHANGED mgmt
    BY <2>1, <2>4, StopEnds, Zenon DEF StopFails
  <2> QED
    BY <1>9, <2>2, <2>3, <2>4, Zenon DEF DelMgmt
<1>10. CASE MoveBack(m)
  <2>1. UNCHANGED <<dir, made, pin, dummy, mgmt, excused>>
    BY <1>10 DEF MoveBack
  <2>2. CASE transit' = 0 /\ NoFault /\ Go(m, "delDummy")
    <3>1. proc'[m].pc # "unpin" /\ proc'[m].pc \in StopPCs
      BY <1>4, <1>7, <2>2
    <3> QED
      BY <1>3, <1>7, <2>1, <2>2, <3>1, StopActs, Zenon DEF NoFault
  <2>3. CASE StopFails(m) /\ UNCHANGED transit
    BY <2>1, <2>3, StopEnds, Zenon DEF StopFails
  <2> QED
    BY <1>10, <2>2, <2>3, Zenon DEF MoveBack
<1>11. CASE DelDummy(m)
  <2>1. UNCHANGED <<dir, made, pin, transit, mgmt, excused>> /\ transit = 0
    BY <1>2, <1>11 DEF DelDummy, Manager
  <2>2. CASE dummy' = 0 /\ NoFault /\ Go(m, "unpin")
    <3>1. proc'[m].pc \in StopPCs
      BY <1>4, <1>7, <2>2, Zenon
    <3> QED
      BY <1>3, <1>7, <2>1, <2>2, <3>1, StopActs, Zenon DEF NoFault
  <2>3. CASE StopFails(m) /\ UNCHANGED dummy
    BY <2>1, <2>3, StopEnds, Zenon DEF StopFails
  <2> QED
    BY <1>11, <2>2, <2>3, Zenon DEF DelDummy
<1>12. CASE Unpin(m)
  <2>1. UNCHANGED <<dummy, mgmt, transit>> /\ dummy = 0 /\ transit = 0
    BY <1>2, <1>12 DEF Unpin, Manager
  <2>2. CASE /\ UnpinMaps(m, Idle) /\ NoFault
             /\ excused' = IF \E i \in Planes : mgmt[i] = proc[m].ctx
                           THEN excused \cup {proc[m].ctx} ELSE excused
    <3>1. IsOver(m)
      BY <1>2, <2>2, Unpins, Zenon
    <3>2. dir' = 0 /\ pin' = NoPins /\ made' = made /\ faults' = faults
      BY <2>2 DEF UnpinMaps, NoFault
    <3>3. Store'
      BY <1>2, <2>1, <3>2, Zenon DEF Store, NoPins
    <3>4. excused \subseteq excused' /\ \A i \in Planes : mgmt[i] = dir => dir \in excused'
      BY <1>2, <2>2
    <3>5. NothingStranded'
      <4>1. \A i \in Planes : mgmt[i] \in {0} \cup excused'
        BY <1>2, <3>4 DEF NothingStranded
      <4> QED
        BY <2>1, <3>2, <4>1 DEF NothingStranded
    <3> QED
      BY <3>1, <3>3, <3>5, ManagerOver, Zenon
  <2>3. CASE StopFails(m) /\ UNCHANGED <<fsVars, excused>>
    BY <2>1, <2>3, StopEnds, Zenon DEF StopFails
  <2> QED
    BY <1>12, <2>2, <2>3, Zenon DEF Unpin
<1> QED
  BY <1>2, <1>8, <1>9, <1>10, <1>11, <1>12, Zenon DEF StopReleased

\* ProvisionPorts and ReleasePorts leave the devices of the switch alone; a forced
\* cleanup says what it leaves.
LEMMA ManagerPorts ==
    ASSUME NEW m \in Procs, ManagerInv(m), NEW p \in Procs,
           ProvisionPorts(p) \/ ReleasePorts(p) \/ ForceCleanup(p)
    PROVE  ManagerInv(m)'
<1> USE DEF At, fsVars, devVars, histVars
<1>1. Roles(m) /\ Store /\ NothingStranded /\ faults \in Nat
  BY Zenon DEF ManagerInv, Store
<1>2. CASE ProvisionPorts(p) \/ ReleasePorts(p)
  <2>1. Frozen
    BY <1>1, <1>2 DEF ProvisionPorts, ReleasePorts, Errs, Fault, NoFault, Frozen
  <2>2. IsOver(p)
    BY <1>1, <1>2, Returns, Zenon DEF ProvisionPorts, ReleasePorts, Return
  <2> QED
    BY <2>1, <2>2, OverInv, Zenon
<1>3. CASE ForceCleanup(p) /\ proc' = [proc EXCEPT ![p] = Idle] /\ UNCHANGED <<fsVars, excused>>
  <2>1. Frozen
    BY <1>1, <1>3 DEF ForceCleanup, Frozen
  <2>2. IsOver(p)
    BY <1>1, <1>3, Returns, Zenon
  <2> QED
    BY <2>1, <2>2, OverInv, Zenon
<1>4. CASE /\ ForceCleanup(p) /\ dir # 0 /\ UnpinMaps(p, Idle)
           /\ excused' = (excused \cup {dir, pin.slots, pin.rest}) \ {0}
  <2>1. IsOver(p)
    BY <1>1, <1>4, Unpins, Zenon
  <2>2. p = m
    BY <1>1, <1>4, Zenon DEF ForceCleanup, Roles, Role
  <2>3. dir' = 0 /\ pin' = NoPins /\ made' = made /\ UNCHANGED <<dummy, mgmt, transit, faults>>
    BY <1>4 DEF ForceCleanup, UnpinMaps
  <2>4. Store'
    BY <1>1, <2>3 DEF Store, NoPins
  <2>5. dir \in excused' /\ \A s \in excused : s = 0 \/ s \in excused'
    BY <1>4
  <2>6. NothingStranded'
    BY <1>1, <2>3, <2>5, Zenon DEF NothingStranded
  <2> QED
    BY <2>1, <2>2, <2>4, <2>6, ManagerOver, Zenon
<1> QED
  BY <1>2, <1>3, <1>4, Zenon DEF ForceCleanup

-----------------------------------------------------------------------------
(* One manager: nothing is stranded, and a Start after a Stop goes through. *)

\* No step of any process breaks what holds of the manager.
LEMMA ManagerStep ==
    ASSUME NEW m, OneManager(m), Inv, ManagerInv(m), [Next]_vars
    PROVE  ManagerInv(m)'
<1>m. m \in Procs
  BY Zenon DEF OneManager
<1>1. CASE UNCHANGED vars
  <2>1. UNCHANGED <<dir, made, pin, dummy, mgmt, transit, proc, faults, excused>>
    BY <1>1 DEF vars, fsVars, devVars, histVars
  <2>2. Roles(m)' /\ Store' /\ Manager(proc[m])'
    BY <2>1, Zenon DEF ManagerInv, Roles, Store, Manager
  <2>4. Progress(proc[m])'
    BY <2>1, Zenon DEF ManagerInv, Progress
  <2>5. Recorded(proc[m])'
    BY <2>1, Zenon DEF ManagerInv, Recorded
  <2>3. NothingStranded' /\ RestartSucceeds'
    BY <2>1, Zenon DEF ManagerInv, NothingStranded, RestartSucceeds, At
  <2> QED
    BY <2>2, <2>3, <2>4, <2>5, Zenon DEF ManagerInv
<1>2. ASSUME NEW p \in Procs, NEW c \in Commands[p], Begin(p, c) PROVE ManagerInv(m)'
  BY <1>2, ManagerBegin, Zenon
<1>3. ASSUME NEW p \in Procs, Step(p) PROVE ManagerInv(m)'
  <2>1. CASE OpenLock(p) \/ Flock(p) \/ OpenSwitch(p) \/ Verify(p) \/ Read(p) \/ Finish(p)
    BY <1>m, <2>1, ManagerCalls, Zenon
  <2>2. CASE Build(p)
    <3>1. CASE Prepare(p) \/ PinMaps(p) \/ CreateDummyLink(p) \/ BlockFilter(p)
      BY <1>m, <3>1, ManagerPins, Zenon
    <3>2. CASE \/ WriteConfig(p) \/ InitSlotsReserved(p) \/ MgmtAdd(p) \/ MgmtIndex(p) \/ MgmtConf(p)
               \/ Services(p)
      BY <1>m, <3>2, ManagerPlanes, Zenon
    <3>3. CASE MoveTransit(p) \/ ConfigureTransit(p)
      BY <1>m, <3>3, ManagerTransit, Zenon
    <3> QED
      BY <2>2, <3>1, <3>2, <3>3, Zenon DEF Build
  <2>3. CASE Cleanup(p)
    BY <1>m, <2>3, ManagerCleanup, Zenon
  <2>4. CASE ProvisionPorts(p) \/ ReleasePorts(p) \/ ForceCleanup(p)
    BY <1>m, <2>4, ManagerPorts, Zenon
  <2>5. CASE StopReleased(p)
    BY <1>m, <2>5, ManagerStop, Zenon
  <2> QED
    BY <1>3, <2>1, <2>2, <2>3, <2>4, <2>5, Zenon DEF Step
<1>4. ASSUME NEW p \in Procs, Crash(p) PROVE ManagerInv(m)'
  BY <1>m, <1>4, ManagerCalls, Zenon
<1> QED
  BY <1>1, <1>2, <1>3, <1>4, Zenon DEF Next

\* Init: no directory, no device, every process idle.
LEMMA ManagerInit ==
    ASSUME NEW m, OneManager(m), Init
    PROVE  ManagerInv(m)
<1>1. /\ DOMAIN proc = Procs /\ \A q \in Procs : proc[q] = Idle
  BY DEF Init
<1>2. m \in Procs
  BY Zenon DEF OneManager
<1>3. "none" \notin ByName \cup Verified /\ "idle" \notin StartPCs \cup StopPCs
      /\ "idle" \notin {"corrupted", "reserve", "read", "undoTransit", "delDummy", "unpin"}
  BY DEF ByName, Verified, StartPCs, StopPCs
<1>4. Roles(m)
  BY <1>1, <1>3, IdleFields, Zenon DEF Roles, Role
<1>5. Store
  BY BoundAssumption DEF Init, Store, NoPins
<1>6. Manager(proc[m]) /\ Progress(proc[m]) /\ Recorded(proc[m]) /\ RestartSucceeds
  BY <1>1, <1>2, <1>3, IdleFields, Zenon DEF Manager, Progress, Recorded, RestartSucceeds, At
<1>7. NothingStranded
  BY DEF Init, NothingStranded
<1> QED
  BY <1>4, <1>5, <1>6, <1>7, Zenon DEF ManagerInv

\* With one process that starts and stops the switch, whatever the others open, lock
\* and read, whichever calls fail and wherever it is killed: the block anchor, the
\* management devices and the moved transit device belong to the Start whose
\* directory the name leads to, or to one of the cases the code logs or knows of.
THEOREM DevicesHaveAName ==
    ASSUME NEW m, OneManager(m)
    PROVE  Spec => []NothingStranded
<1>1. Init => ManagerInv(m)
  BY ManagerInit
<1>2. Inv /\ ManagerInv(m) /\ [Next]_vars => ManagerInv(m)'
  BY ManagerStep
<1>3. ManagerInv(m) => NothingStranded
  BY Zenon DEF ManagerInv
<1> QED
  BY <1>1, <1>2, <1>3, Invariant, PTL DEF Spec

\* With one such process Start never has to roll back because of what an earlier
\* Start, Stop or rollback left behind: only a failed call, or one of the cases in
\* which devices are knowingly left, makes it.
THEOREM StartFindsNothingLeft ==
    ASSUME NEW m, OneManager(m)
    PROVE  Spec => []RestartSucceeds
<1>1. Init => ManagerInv(m)
  BY ManagerInit
<1>2. Inv /\ ManagerInv(m) /\ [Next]_vars => ManagerInv(m)'
  BY ManagerStep
<1>3. ManagerInv(m) => RestartSucceeds
  BY Zenon DEF ManagerInv
<1> QED
  BY <1>1, <1>2, <1>3, Invariant, PTL DEF Spec

-----------------------------------------------------------------------------
(* The lock: what Reserve and Stats verified stays what is pinned. *)

\* The manager goes on within StartReserved or StopReleased and keeps its lock.
Moves(p) ==
    /\ \A q \in Procs \ {p} : proc'[q] = proc[q]
    /\ proc'[p].pc \in StartPCs \cup StopPCs
    /\ UNCHANGED <<dir, made, holder, shared>>

\* Whoever reads or reserves has opened a switch.
LEMMA ReadersOpened ==
    ASSUME Inv, NEW q \in Procs, proc[q].pc \in {"reserve", "read"}
    PROVE  proc[q].ctx # 0
BY DEF Inv, Opened, Reading

\* A step that leaves the locks alone and unpins nothing.
LEMMA LockFrame ==
    ASSUME Inv, LockInv, NEW p \in Procs, \A q \in Procs \ {p} : proc'[q] = proc[q],
           UNCHANGED <<holder, shared>>, excused \subseteq excused', Locked(p, proc[p])',
           \/ UNCHANGED <<dir, made>> /\ pin'.slots = pin.slots
           \/ pin.slots = 0 /\ made \in Nat /\ made' \in Nat /\ made <= made',
           proc'[p].pc \in {"reserve", "read"} => proc'[p].ctx = pin'.slots /\ proc'[p].fd = dir'
    PROVE  LockInv'
<1>1. LockShape'
  BY Zenon DEF LockInv, LockShape
<1>2. ASSUME NEW q \in Procs PROVE Locked(q, proc[q])'
  <2>1. CASE q = p
    BY <2>1
  <2>2. CASE q # p
    <3>1. Locked(q, proc[q]) /\ proc'[q] = proc[q]
      BY <2>2, Zenon DEF LockInv
    <3>2. proc[q].fd \in Starts /\ proc[q].fd <= made => proc[q].fd <= made'
      BY BoundAssumption DEF Starts
    <3> QED
      BY <3>1, <3>2, Zenon DEF Locked
  <2> QED
    BY <2>1, <2>2
<1>3. ASSUME NEW q \in Procs, proc'[q].pc \in {"reserve", "read"}
      PROVE  (proc'[q].ctx = pin'.slots /\ proc'[q].fd = dir') \/ proc'[q].ctx \in excused'
  <2>1. CASE q = p
    BY <1>3, <2>1, Zenon
  <2>2. CASE q # p
    <3>1. proc'[q] = proc[q] /\ proc[q].pc \in {"reserve", "read"}
      BY <1>3, <2>2, Zenon
    <3>2. proc[q].ctx # 0 /\ ((proc[q].ctx = pin.slots /\ proc[q].fd = dir) \/ proc[q].ctx \in excused)
      BY <3>1, ReadersOpened, Zenon DEF LockInv, VerifiedIsCurrent
    <3> QED
      BY <3>1, <3>2, Zenon
  <2> QED
    BY <2>1, <2>2
<1> QED
  BY <1>1, <1>2, <1>3, Zenon DEF LockInv, VerifiedIsCurrent

\* A step of the manager in StartReserved or StopReleased; it may pin the slots map.
LEMMA LockMoves ==
    ASSUME NEW m \in Procs, Inv, ManagerInv(m), ManagerInv(m)', LockInv, Moves(m),
           proc[m].pc \in StartPCs \cup StopPCs, excused \subseteq excused',
           pin'.slots = pin.slots \/ pin.slots = 0
    PROVE  LockInv'
<1>1. /\ Role(m, m, proc[m]) /\ Role(m, m, proc'[m]) /\ Manager(proc[m]) /\ Manager(proc[m])'
  BY Zenon DEF ManagerInv, Roles
<1>2. /\ "start" \in ByName /\ "stopreleased" \in ByName /\ ByName \cap Verified = {}
      /\ {"reserve", "stats"} \subseteq Verified
      /\ (StartPCs \cup StopPCs) \cap {"open", "flock", "reserve", "read"} = {}
  BY DEF StartPCs, StopPCs, ByName, Verified
<1>3. proc[m].cmd \in ByName /\ proc'[m].cmd \in ByName
  BY <1>1, <1>2, Zenon DEF Role, Moves
<1>4. proc[m].fd = dir /\ proc'[m].fd = dir
  BY <1>1, <1>2, <1>3, Zenon DEF Manager, Moves
<1>5. dir \in Starts /\ holder[dir] = m
  BY <1>2, <1>3, <1>4, Zenon DEF LockInv, Locked
<1>6. Locked(m, proc[m])'
  BY <1>2, <1>3, <1>4, <1>5, Zenon DEF Locked, Moves
<1>7. proc'[m].pc \notin {"reserve", "read"}
  BY <1>2, Zenon DEF Moves
<1> QED
  <2>1. made \in Nat /\ made <= made /\ UNCHANGED <<dir, made, holder, shared>>
    BY DEF ManagerInv, Store, Moves
  <2> QED
    BY <1>6, <1>7, <2>1, LockFrame, Zenon DEF Moves

\* The kernel releases the locks of p and of no one else.
LEMMA LockReleased ==
    ASSUME LockInv, NEW p \in Procs, Release(p), Acts(p), proc'[p].cmd = "none", made' = made,
           VerifiedIsCurrent'
    PROVE  LockInv'
<1>1. LockShape'
  <2>1. holder' \in [Starts -> Procs \cup {NoOne}] /\ shared' \in [Starts -> SUBSET Procs]
    BY Zenon DEF LockInv, LockShape, Release
  <2>2. ASSUME NEW d \in Starts, holder'[d] # NoOne PROVE shared'[d] = {}
    <3>1. holder[d] # NoOne /\ shared'[d] = shared[d] \ {p}
      BY <2>2 DEF Release
    <3>2. shared[d] = {}
      BY <3>1, Zenon DEF LockInv, LockShape
    <3> QED
      BY <3>1, <3>2
  <2> QED
    BY <2>1, <2>2, Zenon DEF LockShape
<1>2. ASSUME NEW q \in Procs PROVE Locked(q, proc[q])'
  <2>1. CASE q = p
    <3>1. "none" \notin ByName \cup Verified /\ "none" # "reserve" /\ "none" # "stats"
      BY DEF ByName, Verified
    <3> QED
      BY <2>1, <3>1, Zenon DEF Locked
  <2>2. CASE q # p
    <3>1. Locked(q, proc[q]) /\ AsBefore(q)
      BY <2>2, Zenon DEF LockInv, Acts
    <3>2. \A d : holder[d] = q /\ d \in Starts => holder'[d] = q
      BY <2>2, Zenon DEF Release
    <3>3. \A d : q \in shared[d] /\ d \in Starts => q \in shared'[d]
      BY <2>2, Zenon DEF Release
    <3>4. {"reserve", "stats"} \subseteq Verified
      BY DEF Verified
    <3>5. proc'[q].pc = proc[q].pc /\ proc'[q].cmd = proc[q].cmd /\ proc'[q].fd = proc[q].fd
          /\ proc'[q].ctx = proc[q].ctx
      BY <3>1, Zenon DEF AsBefore
    <3> QED
      BY <3>1, <3>2, <3>3, <3>4, <3>5, Zenon DEF Locked
  <2> QED
    BY <2>1, <2>2
<1> QED
  BY <1>1, <1>2, Zenon DEF LockInv

\* A record replaced by one that is still in StartReserved or StopReleased.
LEMMA EditMoves ==
    ASSUME NEW m, Roles(m), NEW p \in Procs, NEW r, proc' = [proc EXCEPT ![p] = r],
           r.pc \in StartPCs \cup StopPCs, UNCHANGED <<dir, made, holder, shared>>
    PROVE  Moves(p)
<1>1. DOMAIN proc = Procs
  BY Zenon DEF Roles
<1> QED
  BY <1>1, Zenon DEF Moves

\* A process that goes on within its command, and leaves directory and locks alone.
LEMMA GoMoves ==
    ASSUME NEW m, Roles(m), NEW p \in Procs, NEW l \in StartPCs \cup StopPCs, Go(p, l),
           UNCHANGED <<dir, made, holder, shared>>
    PROVE  Moves(p)
<1>1. DOMAIN proc = Procs /\ DOMAIN proc[p] = FieldNames
  BY Zenon DEF Roles, Role
<1>2. DEFINE r == [proc[p] EXCEPT !.pc = l]
<1>3. proc' = [proc EXCEPT ![p] = r]
  BY <1>1, Zenon DEF Go
<1>4. r.pc = l
  BY <1>1 DEF FieldNames
<1> HIDE DEF r
<1> QED
  BY <1>3, <1>4, EditMoves, Zenon

\* Every step of StartReserved before UndoPins keeps the lock, or returns.
LEMMA StartKeepsLock ==
    ASSUME NEW m, Roles(m), NEW p \in Procs,
           Build(p) \/ UndoTransit(p) \/ UndoDummy(p) \/ UndoMgmt(p)
    PROVE  /\ excused \subseteq excused' /\ proc[p].pc \in StartPCs
           /\ Moves(p) \/ (Return(p) /\ UNCHANGED <<dir, made, pin>>)
<1> USE DEF At, fsVars, lockVars
<1>0. {"netns", "pinSlots", "pinRest", "dummy", "filter", "config", "slots",
       "mgmtAdd", "mgmtIndex", "mgmtConf", "services", "move", "transitConf",
       "undoTransit", "undoDummy", "undoMgmt", "undoPins"} = StartPCs
  BY DEF StartPCs
<1>1. DOMAIN proc = Procs /\ DOMAIN proc[p] = FieldNames
  BY Zenon DEF Roles, Role
<1>2. \A i : AfterPlane(i) \in StartPCs
  BY DEF AfterPlane, StartPCs
<1>3. Undone(p) => excused \subseteq excused'
  BY DEF Undone
<1>4. ASSUME NEW l \in StartPCs, Go(p, l), UNCHANGED <<dir, made, holder, shared>> PROVE Moves(p)
  BY <1>4, GoMoves, Zenon
<1>5. CASE Prepare(p) \/ PinMaps(p) \/ CreateDummyLink(p)
  <2>1. /\ UNCHANGED <<dir, made, holder, shared, excused>> /\ proc[p].pc \in StartPCs
        /\ \E l \in {"pinSlots", "pinRest", "dummy", "filter", "undoTransit"} : Go(p, l)
    BY <1>0, <1>5, Zenon DEF Prepare, PinMaps, PinMap, CreateDummyLink, Fails
  <2> QED
    BY <1>0, <1>4, <2>1, Zenon
<1>6. CASE WriteConfig(p) \/ InitSlotsReserved(p) \/ MgmtAdd(p) \/ Services(p)
  <2>1. UNCHANGED <<dir, made, holder, shared, excused>> /\ proc[p].pc \in StartPCs
    BY <1>0, <1>6 DEF WriteConfig, InitSlotsReserved, MgmtAdd, Services
  <2>2. \E l \in {"slots", AfterPlane(0), "mgmtIndex", "move", "undoTransit"} : Go(p, l)
    BY <1>6, Zenon DEF WriteConfig, InitSlotsReserved, MgmtAdd, Services, Fails
  <2> QED
    BY <1>0, <1>2, <1>4, <2>1, <2>2, Zenon
<1>7. CASE BlockFilter(p)
  <2>1. UNCHANGED <<dir, made, holder, shared>> /\ proc[p].pc \in StartPCs /\ excused \subseteq excused'
    BY <1>0, <1>7 DEF BlockFilter
  <2>2. CASE Go(p, "undoTransit")
    BY <1>0, <1>4, <2>1, <2>2, Zenon
  <2>3. CASE proc' = [proc EXCEPT ![p].dummyDevCreated = TRUE, ![p].pc = "config"]
    <3>1. DEFINE r == [proc[p] EXCEPT !.dummyDevCreated = TRUE, !.pc = "config"]
    <3>2. proc' = [proc EXCEPT ![p] = r]
      BY <1>1, <2>3, Zenon
    <3>3. r.pc = "config"
      BY <1>1 DEF FieldNames
    <3> HIDE DEF r
    <3> QED
      BY <1>0, <2>1, <3>2, <3>3, EditMoves, Zenon
  <2> QED
    BY <1>7, <2>2, <2>3, Zenon DEF BlockFilter, Fails
<1>8. CASE MgmtIndex(p)
  <2>1. UNCHANGED <<dir, made, holder, shared>> /\ proc[p].pc \in StartPCs /\ excused \subseteq excused'
    BY <1>0, <1>8 DEF MgmtIndex
  <2>2. CASE Go(p, "undoTransit")
    BY <1>0, <1>4, <2>1, <2>2, Zenon
  <2>3. ASSUME NEW S, proc' = [proc EXCEPT ![p].mgmtIfindexes = S, ![p].pc = "mgmtConf"]
        PROVE  Moves(p)
    <3>1. DEFINE r == [proc[p] EXCEPT !.mgmtIfindexes = S, !.pc = "mgmtConf"]
    <3>2. proc' = [proc EXCEPT ![p] = r]
      BY <1>1, <2>3, Zenon
    <3>3. r.pc = "mgmtConf"
      BY <1>1 DEF FieldNames
    <3> HIDE DEF r
    <3> QED
      BY <1>0, <2>1, <3>2, <3>3, EditMoves, Zenon
  <2> QED
    BY <1>8, <2>1, <2>2, <2>3, Zenon DEF MgmtIndex, Fails
<1>9. CASE MgmtConf(p)
  <2>1. UNCHANGED <<dir, made, holder, shared, excused>> /\ proc[p].pc \in StartPCs
    BY <1>0, <1>9 DEF MgmtConf
  <2>2. CASE Go(p, "undoTransit")
    BY <1>0, <1>4, <2>1, <2>2, Zenon
  <2>3. ASSUME NEW n, NEW i, proc' = [proc EXCEPT ![p].plane = n, ![p].pc = AfterPlane(i)]
        PROVE  Moves(p)
    <3>1. DEFINE r == [proc[p] EXCEPT !.plane = n, !.pc = AfterPlane(i)]
    <3>2. proc' = [proc EXCEPT ![p] = r]
      BY <1>1, <2>3, Zenon
    <3>3. r.pc = AfterPlane(i)
      BY <1>1 DEF FieldNames
    <3> HIDE DEF r
    <3> QED
      BY <1>2, <2>1, <3>2, <3>3, EditMoves, Zenon
  <2> QED
    BY <1>9, <2>1, <2>2, <2>3, Zenon DEF MgmtConf
<1>10. CASE MoveTransit(p)
  <2>1. UNCHANGED <<dir, made, holder, shared, excused>> /\ proc[p].pc \in StartPCs
    BY <1>0, <1>10 DEF MoveTransit
  <2>2. CASE Go(p, "undoTransit")
    BY <1>0, <1>4, <2>1, <2>2, Zenon
  <2>3. CASE proc' = [proc EXCEPT ![p].callerNs = TRUE, ![p].transitMoved = TRUE,
                                  ![p].pc = "transitConf"]
    <3>1. DEFINE r == [proc[p] EXCEPT !.callerNs = TRUE, !.transitMoved = TRUE, !.pc = "transitConf"]
    <3>2. proc' = [proc EXCEPT ![p] = r]
      BY <1>1, <2>3, Zenon
    <3>3. r.pc = "transitConf"
      BY <1>1 DEF FieldNames
    <3> HIDE DEF r
    <3> QED
      BY <1>0, <2>1, <3>2, <3>3, EditMoves, Zenon
  <2> QED
    BY <1>10, <2>2, <2>3, Zenon DEF MoveTransit, Fails
<1>11. CASE ConfigureTransit(p)
  <2>1. UNCHANGED <<dir, made, pin, excused>> /\ proc[p].pc \in StartPCs
    BY <1>0, <1>11 DEF ConfigureTransit
  <2>2. CASE Go(p, "undoTransit") /\ UNCHANGED lockVars
    BY <1>0, <1>4, <2>1, <2>2, Zenon
  <2> QED
    BY <1>11, <2>1, <2>2, Zenon DEF ConfigureTransit, Fails
<1>12. CASE UndoTransit(p)
  <2>1. UNCHANGED <<dir, made, holder, shared>> /\ proc[p].pc \in StartPCs /\ excused \subseteq excused'
    BY <1>0, <1>3, <1>12 DEF UndoTransit
  <2>2. DEFINE r == [proc[p] EXCEPT !.callerNs = FALSE, !.pc = "undoDummy"]
  <2>3. proc' = [proc EXCEPT ![p] = r]
    BY <1>1, <1>12, Zenon DEF UndoTransit
  <2>4. r.pc = "undoDummy"
    BY <1>1 DEF FieldNames
  <2> HIDE DEF r
  <2> QED
    BY <1>0, <2>1, <2>3, <2>4, EditMoves, Zenon
<1>13. CASE UndoDummy(p)
  <2>1. UNCHANGED <<dir, made, holder, shared>> /\ proc[p].pc \in StartPCs /\ excused \subseteq excused'
    BY <1>0, <1>3, <1>13, Zenon DEF UndoDummy
  <2> QED
    BY <1>0, <1>4, <1>13, <2>1, Zenon DEF UndoDummy
<1>14. CASE UndoMgmt(p)
  <2>1. UNCHANGED <<dir, made, holder, shared>> /\ proc[p].pc = "undoMgmt" /\ excused \subseteq excused'
    BY <1>3, <1>14, Zenon DEF UndoMgmt
  <2>2. CASE Go(p, "undoPins")
    BY <1>0, <1>4, <2>1, <2>2, Zenon
  <2>3. ASSUME NEW S, proc' = [proc EXCEPT ![p].mgmtIfindexes = S] PROVE Moves(p)
    <3>1. DEFINE r == [proc[p] EXCEPT !.mgmtIfindexes = S]
    <3>2. proc' = [proc EXCEPT ![p] = r]
      BY <1>1, <2>3, Zenon
    <3>3. r.pc = "undoMgmt"
      BY <1>1, <2>1, SMTT(20) DEF FieldNames
    <3> HIDE DEF r
    <3> QED
      BY <1>0, <2>1, <3>2, <3>3, EditMoves, Zenon
  <2> QED
    BY <1>0, <1>14, <2>1, <2>2, <2>3, Zenon DEF UndoMgmt
<1> QED
  BY <1>5, <1>6, <1>7, <1>8, <1>9, <1>10, <1>11, <1>12, <1>13, <1>14, Zenon DEF Build

\* Every step of StopReleased before Unpin keeps the lock, or returns.
LEMMA StopKeepsLock ==
    ASSUME NEW m, Roles(m), NEW p \in Procs,
           Validate(p) \/ DelMgmt(p) \/ MoveBack(p) \/ DelDummy(p)
    PROVE  /\ UNCHANGED <<dir, made, pin, excused>> /\ proc[p].pc \in StopPCs
           /\ Moves(p) \/ Return(p)
<1> USE DEF At, fsVars, lockVars, histVars
<1>0. {"validate", "delMgmt", "moveBack", "delDummy", "unpin"} = StopPCs
  BY DEF StopPCs
<1>1. DOMAIN proc = Procs /\ DOMAIN proc[p] = FieldNames
  BY Zenon DEF Roles, Role
<1>2. UNCHANGED <<dir, made, pin, excused>> /\ proc[p].pc \in StopPCs
  BY <1>0 DEF Validate, DelMgmt, MoveBack, DelDummy
<1>3. ASSUME NEW l \in StopPCs, Go(p, l), UNCHANGED <<holder, shared>> PROVE Moves(p)
  BY <1>2, <1>3, GoMoves, Zenon
<1>4. CASE Validate(p)
  <2>1. ASSUME NEW S, proc' = [proc EXCEPT ![p].mgmtIfindexes = S, ![p].pc = "delMgmt"],
               UNCHANGED <<holder, shared>>
        PROVE  Moves(p)
    <3>1. DEFINE r == [proc[p] EXCEPT !.mgmtIfindexes = S, !.pc = "delMgmt"]
    <3>2. proc' = [proc EXCEPT ![p] = r]
      BY <1>1, <2>1, Zenon
    <3>3. r.pc = "delMgmt"
      BY <1>1 DEF FieldNames
    <3> HIDE DEF r
    <3> QED
      BY <1>0, <1>2, <2>1, <3>2, <3>3, EditMoves, Zenon
  <2> QED
    BY <1>2, <1>4, <2>1, Zenon DEF Validate
<1>5. CASE DelMgmt(p)
  <2>1. ASSUME NEW S, proc' = [proc EXCEPT ![p].mgmtIfindexes = S], UNCHANGED <<holder, shared>>
        PROVE  Moves(p)
    <3>1. DEFINE r == [proc[p] EXCEPT !.mgmtIfindexes = S]
    <3>2. proc' = [proc EXCEPT ![p] = r]
      BY <1>1, <2>1, Zenon
    <3>3. r.pc = "delMgmt"
      BY <1>1, <1>5 DEF FieldNames, DelMgmt
    <3> HIDE DEF r
    <3> QED
      BY <1>0, <1>2, <2>1, <3>2, <3>3, EditMoves, Zenon
  <2> QED
    BY <1>0, <1>2, <1>3, <1>5, <2>1, Zenon DEF DelMgmt, StopFails
<1>6. CASE MoveBack(p) \/ DelDummy(p)
  BY <1>0, <1>2, <1>3, <1>6, Zenon DEF MoveBack, DelDummy, StopFails
<1> QED
  BY <1>4, <1>5, <1>6

\* A command that ends, or is killed, while nothing is unpinned.
LEMMA LockEnds ==
    ASSUME LockInv, NEW p \in Procs, IsOver(p), Release(p), UNCHANGED <<dir, made, pin>>,
           excused \subseteq excused'
    PROVE  LockInv'
<1>1. ASSUME NEW q \in Procs, proc'[q].pc \in {"reserve", "read"}
      PROVE  (proc'[q].ctx = pin'.slots /\ proc'[q].fd = dir') \/ proc'[q].ctx \in excused'
  <2>1. q # p
    BY <1>1 DEF IsOver
  <2>2. proc'[q].pc = proc[q].pc /\ proc'[q].ctx = proc[q].ctx /\ proc'[q].fd = proc[q].fd
    BY <2>1, Zenon DEF IsOver, Acts, AsBefore
  <2> QED
    BY <1>1, <2>2, Zenon DEF LockInv, VerifiedIsCurrent
<1> QED
  BY <1>1, LockReleased, Zenon DEF IsOver, VerifiedIsCurrent

\* The manager unpins the switch: it has the lock of the directory the name leads to,
\* so whoever still reads or reserves is in a switch that was forcibly cleaned up.
LEMMA LockUnpins ==
    ASSUME NEW m \in Procs, ManagerInv(m), LockInv, IsOver(m), Release(m), made' = made,
           proc[m].pc \in StartPCs \cup StopPCs, excused \subseteq excused'
    PROVE  LockInv'
<1>1. Roles(m) /\ Role(m, m, proc[m]) /\ Manager(proc[m])
  BY Zenon DEF ManagerInv, Roles
<1>2. /\ "start" \in ByName /\ "stopreleased" \in ByName
      /\ (StartPCs \cup StopPCs) \cap {"open", "flock"} = {}
  BY DEF StartPCs, StopPCs, ByName
<1>3. proc[m].cmd \in ByName /\ proc[m].fd = dir
  BY <1>1, <1>2, Zenon DEF Role, Manager
<1>4. dir \in Starts /\ holder[dir] = m
  BY <1>2, <1>3, Zenon DEF LockInv, Locked
<1>5. shared[dir] = {}
  BY <1>4, NoOneAssumption, Zenon DEF LockInv, LockShape
<1>6. ASSUME NEW q \in Procs, proc'[q].pc \in {"reserve", "read"}
      PROVE  proc'[q].ctx \in excused'
  <2>1. q # m
    BY <1>6 DEF IsOver
  <2>2. proc'[q].pc = proc[q].pc /\ proc'[q].ctx = proc[q].ctx
    BY <2>1, Zenon DEF IsOver, Acts, AsBefore
  <2>3. Locked(q, proc[q]) /\ Role(m, q, proc[q])
    BY <1>1, Zenon DEF LockInv, Roles
  <2>4. holder[proc[q].fd] = q \/ q \in shared[proc[q].fd]
    BY <1>6, <2>2, <2>3, Zenon DEF Locked, Role
  <2>5. proc[q].fd # dir
    BY <1>4, <1>5, <2>1, <2>4
  <2> QED
    BY <1>6, <2>2, <2>5, Zenon DEF LockInv, VerifiedIsCurrent
<1> QED
  BY <1>6, LockReleased, Zenon DEF IsOver, VerifiedIsCurrent

\* The steps of StartReserved and StopReleased.
LEMMA LockManager ==
    ASSUME NEW m \in Procs, Inv, ManagerInv(m), ManagerInv(m)', LockInv, NEW p \in Procs,
           Build(p) \/ Cleanup(p) \/ StopReleased(p)
    PROVE  LockInv'
<1> USE DEF At, fsVars, lockVars
<1>1. Roles(m) /\ Store
  BY Zenon DEF ManagerInv
<1>2. ASSUME proc[p].pc \in StartPCs \cup StopPCs PROVE p = m
  BY <1>2, StartKnows, StopKnows, Zenon
<1>3. {"undoPins", "unpin"} \subseteq StartPCs \cup StopPCs
  BY DEF StartPCs, StopPCs
<1>4. ASSUME Return(p), UNCHANGED <<dir, made, pin>>, excused \subseteq excused' PROVE LockInv'
  BY <1>1, <1>4, Returns, LockEnds, Zenon DEF Return
<1>5. CASE Build(p) \/ UndoTransit(p) \/ UndoDummy(p) \/ UndoMgmt(p)
  <2>1. /\ excused \subseteq excused' /\ proc[p].pc \in StartPCs
        /\ Moves(p) \/ (Return(p) /\ UNCHANGED <<dir, made, pin>>)
    BY <1>1, <1>5, StartKeepsLock, Zenon
  <2>2. pin'.slots = pin.slots \/ pin.slots = 0
    <3>1. CASE PinMaps(p)
      <4>1. DOMAIN pin = {"slots", "rest"}
        BY <1>1, Zenon DEF Store
      <4> QED
        BY <3>1, <4>1 DEF PinMaps, PinMap
    <3>2. CASE ~PinMaps(p)
      <4>1. pin' = pin
        BY <1>5, <3>2, Zenon
           DEF Build, Prepare, CreateDummyLink, BlockFilter, WriteConfig, InitSlotsReserved, MgmtAdd,
               MgmtIndex, MgmtConf, Services, MoveTransit, ConfigureTransit, UndoTransit,
               UndoDummy, UndoMgmt
      <4> QED
        BY <4>1
    <3> QED
      BY <3>1, <3>2, SMTT(20)
  <2> QED
    BY <1>2, <1>4, <2>1, <2>2, LockMoves, Zenon
<1>6. CASE Validate(p) \/ DelMgmt(p) \/ MoveBack(p) \/ DelDummy(p)
  <2>1. /\ UNCHANGED <<dir, made, pin, excused>> /\ proc[p].pc \in StopPCs
        /\ Moves(p) \/ Return(p)
    BY <1>1, <1>6, StopKeepsLock, Zenon
  <2>2. excused \subseteq excused' /\ pin'.slots = pin.slots
    BY <2>1
  <2> QED
    BY <1>2, <1>4, <2>1, <2>2, LockMoves, Zenon
<1>7. CASE UndoPins(p)
  <2>1. UNCHANGED excused /\ excused \subseteq excused' /\ proc[p].pc = "undoPins"
    BY <1>7, Zenon DEF UndoPins
  <2>2. CASE UnpinMaps(p, Idle) /\ Release(p)
    <3>1. IsOver(p) /\ made' = made
      BY <1>1, <2>2, Unpins, Zenon DEF UnpinMaps
    <3> QED
      BY <1>2, <1>3, <2>1, <2>2, <3>1, LockUnpins, Zenon
  <2> QED
    BY <1>4, <1>7, <2>1, <2>2, Zenon DEF UndoPins
<1>8. CASE Unpin(p)
  <2>1. excused \subseteq excused' /\ proc[p].pc = "unpin"
    BY <1>8, Zenon DEF Unpin
  <2>2. CASE UnpinMaps(p, Idle) /\ Release(p)
    <3>1. IsOver(p) /\ made' = made
      BY <1>1, <2>2, Unpins, Zenon DEF UnpinMaps
    <3> QED
      BY <1>2, <1>3, <2>1, <2>2, <3>1, LockUnpins, Zenon
  <2> QED
    BY <1>4, <1>8, <2>1, <2>2, Zenon DEF Unpin, StopFails
<1> QED
  BY <1>5, <1>6, <1>7, <1>8, Zenon DEF Cleanup, StopReleased

\* Commands that end, the ones that take no lock included.
LEMMA LockOthers ==
    ASSUME NEW m \in Procs, Inv, ManagerInv(m), LockInv, NEW p \in Procs,
           Finish(p) \/ Crash(p) \/ ProvisionPorts(p) \/ ReleasePorts(p) \/ ForceCleanup(p)
    PROVE  LockInv'
<1> USE DEF At, fsVars, lockVars, histVars
<1>1. Roles(m) /\ DOMAIN proc = Procs
  BY Zenon DEF ManagerInv, Roles
<1>2. CASE Finish(p) \/ Crash(p) \/ ProvisionPorts(p) \/ ReleasePorts(p)
  <2>1. Return(p) /\ UNCHANGED <<dir, made, pin, excused>>
    BY <1>2, Zenon DEF Finish, Crash, ProvisionPorts, ReleasePorts
  <2>2. excused \subseteq excused'
    BY <2>1
  <2> QED
    BY <1>1, <2>1, <2>2, Returns, LockEnds, Zenon DEF Return
<1>i. Idle.cmd = "none" /\ Idle.pc = "idle"
  BY IdleFields, Zenon
<1>n. "none" \notin ByName \cup Verified \cup {"reserve", "stats"} /\ "idle" \notin {"reserve", "read"}
  BY DEF ByName, Verified
<1>3. CASE ForceCleanup(p) /\ proc' = [proc EXCEPT ![p] = Idle] /\ UNCHANGED <<fsVars, excused>>
  <2>1. proc'[p] = Idle /\ (\A q \in Procs \ {p} : proc'[q] = proc[q]) /\ UNCHANGED <<holder, shared>>
    BY <1>1, <1>3, Zenon DEF ForceCleanup
  <2>2. Locked(p, proc[p])' /\ proc'[p].pc \notin {"reserve", "read"}
    BY <1>i, <1>n, <2>1, Zenon DEF Locked
  <2>3. UNCHANGED <<dir, made>> /\ pin'.slots = pin.slots /\ excused \subseteq excused'
    BY <1>3
  <2> QED
    BY <2>1, <2>2, <2>3, LockFrame, Zenon
<1>4. CASE /\ ForceCleanup(p) /\ dir # 0 /\ UnpinMaps(p, Idle)
           /\ excused' = (excused \cup {dir, pin.slots, pin.rest}) \ {0}
  <2>1. IsOver(p) /\ made' = made /\ UNCHANGED <<holder, shared>>
    BY <1>1, <1>4, Unpins, Zenon DEF UnpinMaps, ForceCleanup
  <2>2. LockShape'
    BY <2>1, Zenon DEF LockInv, LockShape
  <2>3. ASSUME NEW q \in Procs PROVE Locked(q, proc[q])'
    <3>1. CASE q = p
      BY <1>n, <2>1, <3>1, Zenon DEF IsOver, Locked
    <3>2. CASE q # p
      <4>1. Locked(q, proc[q]) /\ AsBefore(q)
        BY <2>1, <3>2, Zenon DEF LockInv, IsOver, Acts
      <4>2. proc'[q].pc = proc[q].pc /\ proc'[q].cmd = proc[q].cmd /\ proc'[q].fd = proc[q].fd
            /\ proc'[q].ctx = proc[q].ctx
        BY <4>1, Zenon DEF AsBefore
      <4> QED
        BY <2>1, <4>1, <4>2, Zenon DEF Locked
    <3> QED
      BY <3>1, <3>2
  <2>4. ASSUME NEW q \in Procs, proc'[q].pc \in {"reserve", "read"} PROVE proc'[q].ctx \in excused'
    <3>1. q # p
      BY <2>1, <2>4 DEF IsOver
    <3>2. proc'[q].pc = proc[q].pc /\ proc'[q].ctx = proc[q].ctx
      BY <2>1, <3>1, Zenon DEF IsOver, Acts, AsBefore
    <3>3. proc[q].ctx # 0 /\ proc[q].ctx \in excused \cup {pin.slots}
      BY <2>4, <3>2, ReadersOpened, Zenon DEF LockInv, VerifiedIsCurrent
    <3> QED
      BY <1>4, <3>2, <3>3, Zenon
  <2> QED
    BY <2>2, <2>3, <2>4, Zenon DEF LockInv, VerifiedIsCurrent
<1> QED
  BY <1>2, <1>3, <1>4, Zenon DEF ForceCleanup

\* From the beginning of a command to its verification.
LEMMA LockCalls ==
    ASSUME NEW m \in Procs, Inv, ManagerInv(m), LockInv, NEW p \in Procs,
           \/ \E c \in Commands[p] : Begin(p, c)
           \/ OpenLock(p) \/ OpenSwitch(p) \/ Verify(p) \/ Read(p)
    PROVE  LockInv'
<1> USE DEF At, fsVars, lockVars, histVars
<1>1. /\ Roles(m) /\ Store /\ DOMAIN proc = Procs /\ Role(m, p, proc[p]) /\ DOMAIN proc[p] = FieldNames
      /\ Locked(p, proc[p]) /\ (p = m => Manager(proc[p]))
  BY Zenon DEF ManagerInv, Roles, Role, LockInv
<1>2. /\ ByName \cap Verified = {} /\ {"reserve", "stats"} \subseteq Verified
      /\ proc[p].ctx \in 0 .. made /\ made \in Nat /\ pin.slots \in {0, dir} /\ dir \in {0, made}
      /\ made <= MaxStarts /\ MaxStarts \in Nat
  BY <1>1, BoundAssumption, Zenon DEF ByName, Verified, Inv, Numbered, Store
<1>3. ASSUME Return(p), UNCHANGED <<dir, made, pin, excused>> PROVE LockInv'
  <2>1. excused \subseteq excused'
    BY <1>3
  <2> QED
    BY <1>1, <1>3, <2>1, Returns, LockEnds, Zenon DEF Return
<1>4. ASSUME NEW r, proc' = [proc EXCEPT ![p] = r]
      PROVE  proc'[p] = r /\ \A q \in Procs \ {p} : proc'[q] = proc[q]
  BY <1>1, <1>4, Zenon
<1>5. ASSUME NEW c \in Commands[p], Begin(p, c) PROVE LockInv'
  <2>1. DEFINE new == c = "start" /\ dir = 0
               r == [Idle EXCEPT !.cmd = c, !.pc = IF c \in Verified THEN "openSwitch" ELSE "open",
                                 !.sid = IF new THEN made + 1 ELSE 0]
  <2>2. /\ proc' = [proc EXCEPT ![p] = r] /\ UNCHANGED <<pin, holder, shared, excused>>
        /\ dir' = (IF new THEN made + 1 ELSE dir) /\ made' = (IF new THEN made + 1 ELSE made)
    BY <1>5, Zenon DEF Begin
  <2>3. r.cmd = c /\ r.pc = IF c \in Verified THEN "openSwitch" ELSE "open"
    BY DEF Idle
  <2>4. \/ UNCHANGED <<dir, made>> /\ pin'.slots = pin.slots
        \/ pin.slots = 0 /\ made \in Nat /\ made' \in Nat /\ made <= made'
    BY <1>2, <2>2
  <2> HIDE DEF r, new
  <2>5. proc'[p] = r /\ \A q \in Procs \ {p} : proc'[q] = proc[q]
    BY <1>4, <2>2, Zenon
  <2>6. Locked(p, proc[p])' /\ proc'[p].pc \notin {"reserve", "read"}
    BY <1>2, <2>3, <2>5, SMTT(20) DEF Locked
  <2>7. excused \subseteq excused' /\ UNCHANGED <<holder, shared>>
    BY <2>2
  <2> QED
    BY <2>4, <2>5, <2>6, <2>7, LockFrame, Zenon
<1>6. CASE OpenLock(p)
  <2>1. UNCHANGED <<dir, made, pin, excused>> /\ proc[p].pc = "open"
    BY <1>6 DEF OpenLock
  <2>2. CASE dir # 0 /\ UNCHANGED lockVars /\ proc' = [proc EXCEPT ![p].fd = dir, ![p].pc = "flock"]
    <3>1. DEFINE r == [proc[p] EXCEPT !.fd = dir, !.pc = "flock"]
    <3>2. proc' = [proc EXCEPT ![p] = r]
      BY <1>1, <2>2, Zenon
    <3>3. r.pc = "flock" /\ r.fd = dir /\ r.cmd = proc[p].cmd /\ r.ctx = proc[p].ctx
      BY <1>1 DEF FieldNames
    <3> HIDE DEF r
    <3>4. proc'[p] = r /\ \A q \in Procs \ {p} : proc'[q] = proc[q]
      BY <1>4, <3>2, Zenon
    <3>5. dir \in Starts /\ dir <= made /\ proc[p].ctx <= dir
      BY <1>2, <2>2, SMTT(20) DEF Starts
    <3>6. Locked(p, proc[p])'
      BY <2>1, <3>3, <3>4, <3>5, Zenon DEF Locked
    <3>7. proc'[p].pc \notin {"reserve", "read"} /\ excused \subseteq excused' /\ pin'.slots = pin.slots
      BY <2>1, <3>3, <3>4, Zenon
    <3> QED
      BY <2>1, <2>2, <3>4, <3>6, <3>7, LockFrame, Zenon
  <2> QED
    BY <1>3, <1>6, <2>1, <2>2, Zenon DEF OpenLock
<1>7. CASE OpenSwitch(p)
  <2>1. UNCHANGED <<dir, made, pin, excused>> /\ proc[p].pc = "openSwitch" /\ excused \subseteq excused'
    BY <1>7 DEF OpenSwitch
  <2>2. CASE UNCHANGED lockVars /\ proc' = [proc EXCEPT ![p].ctx = pin.slots, ![p].pc = AfterOpen(p)]
    <3>1. DEFINE r == [proc[p] EXCEPT !.ctx = pin.slots, !.pc = AfterOpen(p)]
    <3>2. proc' = [proc EXCEPT ![p] = r]
      BY <1>1, <2>2, Zenon
    <3>3. r.pc = AfterOpen(p) /\ r.fd = proc[p].fd /\ r.cmd = proc[p].cmd
      BY <1>1 DEF FieldNames
    <3> HIDE DEF r
    <3>4. proc'[p] = r /\ \A q \in Procs \ {p} : proc'[q] = proc[q]
      BY <1>4, <3>2, Zenon
    <3>5. /\ proc[p].cmd \in Verified => AfterOpen(p) = "open"
          /\ proc[p].cmd \in ByName => AfterOpen(p) \notin {"reserve", "read"}
          /\ proc[p].cmd \in ByName \cup Verified
      BY <1>1, <2>1 DEF AfterOpen, ByName, Verified, Role
    <3>6. Locked(p, proc[p])'
      BY <1>1, <1>2, <2>1, <2>2, <3>3, <3>4, <3>5 DEF Locked
    <3>7. proc'[p].pc \notin {"reserve", "read"} /\ pin'.slots = pin.slots
      BY <2>1, <3>3, <3>4, <3>5
    <3> QED
      BY <2>1, <2>2, <3>4, <3>6, <3>7, LockFrame, Zenon
  <2>3. CASE Release(p) /\ proc' = [proc EXCEPT ![p] =
                  IF proc[p].cmd \in {"release", "stopreleased"}
                  THEN [Idle EXCEPT !.pc = "corrupted"] ELSE Idle]
    <3>1. DEFINE r == IF proc[p].cmd \in {"release", "stopreleased"}
                      THEN [Idle EXCEPT !.pc = "corrupted"] ELSE Idle
    <3>2. /\ DOMAIN r = FieldNames /\ r.cmd = "none" /\ r.pc \in {"idle", "corrupted"} /\ r.sid = 0
          /\ r.pc = "corrupted" => proc[p].cmd \in ByName
      BY DEF Idle, FieldNames, ByName
    <3>3. proc' = [proc EXCEPT ![p] = r]
      BY <2>3
    <3> HIDE DEF r
    <3>4. IsOver(p)
      BY <1>1, <3>2, <3>3, Replaces, Zenon DEF IsOver
    <3> QED
      BY <2>1, <2>3, <3>4, LockEnds, Zenon
  <2> QED
    BY <1>3, <1>7, <2>1, <2>2, <2>3, Zenon DEF OpenSwitch
<1>8. CASE Verify(p) \/ Read(p)
  <2>1. UNCHANGED <<dir, made, pin, excused>> /\ excused \subseteq excused' /\ proc[p].pc \in {"verify", "read"}
    BY <1>8, Zenon DEF Verify, Read
  <2>2. ASSUME NEW l, UNCHANGED lockVars, pin.slots = proc[p].ctx, Go(p, l), 
               \/ l = "report"
               \/ proc[p].pc = "verify" /\ l = IF proc[p].cmd = "stats" THEN "read" ELSE "reserve"
        PROVE  LockInv'
    <3>1. DEFINE r == [proc[p] EXCEPT !.pc = l]
    <3>2. proc' = [proc EXCEPT ![p] = r]
      BY <1>1, <2>2, Zenon DEF Go
    <3>3. r.pc = l /\ r.fd = proc[p].fd /\ r.cmd = proc[p].cmd /\ r.ctx = proc[p].ctx
      BY <1>1 DEF FieldNames
    <3> HIDE DEF r
    <3>4. proc'[p] = r /\ \A q \in Procs \ {p} : proc'[q] = proc[q]
      BY <1>4, <3>2, Zenon
    <3>5. proc[p].cmd \in {"reserve", "stats"}
      BY <1>1, <2>1, Zenon DEF Role, Verified, ByNamePCs, StartPCs, StopPCs
    <3>6. Locked(p, proc[p])'
      BY <1>1, <1>2, <2>1, <2>2, <3>3, <3>4, <3>5, Zenon DEF Locked, ByName, Verified
    <3>7. proc'[p].pc \in {"reserve", "read"} => proc'[p].ctx = pin'.slots /\ proc'[p].fd = dir'
      <4>1. SUFFICES ASSUME l \in {"reserve", "read"} PROVE proc[p].fd = dir
        BY <2>1, <2>2, <3>3, <3>4, Zenon
      <4>2. proc[p].ctx # 0 /\ proc[p].pc = "verify"
        BY <2>2, <4>1, Zenon DEF Inv, Opened
      <4>3. proc[p].fd \in Starts /\ proc[p].fd <= made /\ proc[p].ctx <= proc[p].fd
        BY <1>1, <1>2, <3>5, <4>2, Zenon DEF Locked
      <4>4. pin.slots \in {0, dir} /\ dir \in {0, made} /\ made \in Nat
        BY <1>1, Zenon DEF Store
      <4>5. proc[p].ctx = made /\ dir = made
        BY <2>2, <4>2, <4>4, Zenon
      <4> QED
        BY <4>3, <4>4, <4>5, SMTT(20) DEF Starts
    <3>8. pin'.slots = pin.slots
      BY <2>1
    <3> QED
      BY <2>1, <2>2, <3>4, <3>6, <3>7, <3>8, LockFrame, Zenon
  <2> QED
    BY <1>3, <1>8, <2>1, <2>2, Zenon DEF Verify, Read
<1> QED
  BY <1>5, <1>6, <1>7, <1>8

\* flock: an exclusive lock is only granted when no one has any, a shared one when
\* no one has the exclusive one.
LEMMA LockFlock ==
    ASSUME NEW m \in Procs, Inv, ManagerInv(m), LockInv, NEW p \in Procs, Flock(p)
    PROVE  LockInv'
<1> USE DEF At, fsVars, histVars
<1>1. /\ Roles(m) /\ Store /\ DOMAIN proc = Procs /\ Role(m, p, proc[p]) /\ DOMAIN proc[p] = FieldNames
      /\ Locked(p, proc[p]) /\ LockShape
  BY Zenon DEF ManagerInv, Roles, Role, LockInv
<1>2. UNCHANGED <<dir, made, pin, excused>> /\ proc[p].pc = "flock" /\ excused \subseteq excused'
  BY Zenon DEF Flock
<1>3. ByName \cap Verified = {} /\ {"reserve", "stats"} = Verified
  BY DEF ByName, Verified
<1>4. proc[p].cmd \in ByName \cup Verified
  BY <1>1, <1>2, Zenon DEF Role
<1>5. proc[p].fd \in Starts
  <2>1. CASE proc[p].cmd \in Verified
    BY <1>1, <1>2, <2>1, Zenon DEF Locked
  <2>2. CASE proc[p].cmd \in ByName
    <3>1. p = m
      BY <1>1, <2>2, Zenon DEF Role
    <3>2. proc[p].fd = dir /\ dir # 0
      BY <1>2, <2>2, <3>1, Zenon DEF ManagerInv, Manager
    <3>3. made \in Nat /\ made <= MaxStarts /\ dir \in {0, made}
      BY <1>1, Zenon DEF Store
    <3> QED
      BY <3>2, <3>3, BoundAssumption DEF Starts
  <2> QED
    BY <1>4, <2>1, <2>2, Zenon
<1>6. CASE Return(p)
  BY <1>1, <1>2, <1>6, Returns, LockEnds, Zenon DEF Return
<1>7. CASE Go(p, AfterLock(p))
  <2>1. DEFINE l == AfterLock(p)
               r == [proc[p] EXCEPT !.pc = l]
               d == proc[p].fd
  <2>2. proc' = [proc EXCEPT ![p] = r]
    BY <1>1, <1>7, Zenon DEF Go
  <2>3. r.pc = l /\ r.fd = d /\ r.cmd = proc[p].cmd /\ r.ctx = proc[p].ctx
    BY <1>1 DEF FieldNames
  <2>4. /\ proc[p].cmd \in Verified => l = "verify"
        /\ l \notin {"reserve", "read", "open", "flock"}
    BY DEF AfterLock
  <2>5. d \in Starts
    BY <1>5
  <2>6. \/ /\ proc[p].cmd # "stats" /\ holder[d] = NoOne /\ shared[d] = {}
           /\ holder' = [holder EXCEPT ![d] = p] /\ UNCHANGED shared
        \/ /\ proc[p].cmd = "stats" /\ holder[d] = NoOne
           /\ shared' = [shared EXCEPT ![d] = @ \cup {p}] /\ UNCHANGED holder
        \/ /\ Return(p)
    BY Zenon DEF Flock
  <2> HIDE DEF l, r
  <2>7. proc'[p] = r /\ \A q \in Procs \ {p} : proc'[q] = proc[q]
    BY <1>1, <2>2, Zenon
  <2>8. CASE \/ /\ proc[p].cmd # "stats" /\ holder[d] = NoOne /\ shared[d] = {}
                /\ holder' = [holder EXCEPT ![d] = p] /\ UNCHANGED shared
             \/ /\ proc[p].cmd = "stats" /\ holder[d] = NoOne
                /\ shared' = [shared EXCEPT ![d] = @ \cup {p}] /\ UNCHANGED holder
    <3>0. /\ holder \in [Starts -> Procs \cup {NoOne}] /\ shared \in [Starts -> SUBSET Procs]
          /\ \A e \in Starts : holder[e] # NoOne => shared[e] = {}
      BY <1>1, Zenon DEF LockShape
    <3>1. LockShape'
      <4>1. holder' \in [Starts -> Procs \cup {NoOne}] /\ shared' \in [Starts -> SUBSET Procs]
        BY <2>5, <2>8, <3>0, SMTT(30)
      <4>2. \A e \in Starts : holder'[e] # NoOne => shared'[e] = {}
        BY <2>5, <2>8, <3>0, SMTT(30)
      <4> QED
        BY <4>1, <4>2, Zenon DEF LockShape
    <3>2. /\ \A q \in Procs, e \in Starts : holder[e] = q => holder'[e] = q
          /\ \A q \in Procs, e \in Starts : q \in shared[e] => q \in shared'[e]
          /\ proc[p].cmd # "stats" => holder'[d] = p
          /\ proc[p].cmd = "stats" => p \in shared'[d]
      <4>1. \A q \in Procs, e \in Starts : holder[e] = q => holder'[e] = q
        BY <2>5, <2>8, <3>0, NoOneAssumption, SMTT(30)
      <4>2. \A q \in Procs, e \in Starts : q \in shared[e] => q \in shared'[e]
        BY <2>5, <2>8, <3>0, SMTT(30)
      <4>3. proc[p].cmd # "stats" => holder'[d] = p
        BY <2>5, <2>8, <3>0, SMTT(30)
      <4>4. proc[p].cmd = "stats" => p \in shared'[d]
        BY <2>5, <2>8, <3>0, SMTT(30)
      <4> QED
        BY <4>1, <4>2, <4>3, <4>4, Zenon
    <3>3. ASSUME NEW q \in Procs PROVE Locked(q, proc[q])'
      <4>1. CASE q = p
        <5>1. proc'[p].cmd = proc[p].cmd /\ proc'[p].fd = d /\ proc'[p].ctx = proc[p].ctx /\ proc'[p].pc = l
          BY <2>3, <2>7, Zenon
        <5>2. proc[p].cmd \in Verified => d <= made /\ proc[p].ctx <= d
          BY <1>1, <1>2, Zenon DEF Locked
        <5>3. proc[p].cmd \in ByName => proc[p].cmd # "stats"
          BY <1>3
        <5> QED
          BY <1>2, <1>3, <2>4, <2>5, <3>2, <4>1, <5>1, <5>2, <5>3 DEF Locked
      <4>2. CASE q # p
        <5>1. Locked(q, proc[q]) /\ proc'[q] = proc[q]
          BY <2>7, <4>2, Zenon DEF LockInv
        <5> QED
          BY <1>2, <1>3, <3>2, <5>1, Zenon DEF Locked
      <4> QED
        BY <4>1, <4>2, SMTT(20)
    <3>4. VerifiedIsCurrent'
      BY <1>2, <2>3, <2>4, <2>7, Zenon DEF LockInv, VerifiedIsCurrent
    <3> QED
      BY <3>1, <3>3, <3>4, Zenon DEF LockInv
  <2> QED
    BY <1>6, <2>6, <2>8, Zenon
<1> QED
  BY <1>6, <1>7, Zenon DEF Flock

\* No step of any process breaks what the lock protects.
LEMMA LockStep ==
    ASSUME NEW m \in Procs, Inv, ManagerInv(m), ManagerInv(m)', LockInv, [Next]_vars
    PROVE  LockInv'
<1>1. CASE UNCHANGED vars
  <2>1. UNCHANGED <<dir, made, pin, holder, shared, proc, excused>>
    BY <1>1 DEF vars, fsVars, lockVars, histVars
  <2> QED
    BY <2>1, Zenon DEF LockInv, LockShape, Locked, VerifiedIsCurrent
<1>2. ASSUME NEW p \in Procs, Step(p) \/ Crash(p) \/ \E c \in Commands[p] : Begin(p, c)
      PROVE  LockInv'
  <2>1. CASE \/ \E c \in Commands[p] : Begin(p, c)
             \/ OpenLock(p) \/ OpenSwitch(p) \/ Verify(p) \/ Read(p)
    BY <2>1, LockCalls, Zenon
  <2>2. CASE Flock(p)
    BY <2>2, LockFlock, Zenon
  <2>3. CASE Build(p) \/ Cleanup(p) \/ StopReleased(p)
    BY <2>3, LockManager, Zenon
  <2>4. CASE Finish(p) \/ Crash(p) \/ ProvisionPorts(p) \/ ReleasePorts(p) \/ ForceCleanup(p)
    BY <2>4, LockOthers, Zenon
  <2> QED
    BY <1>2, <2>1, <2>2, <2>3, <2>4, Zenon DEF Step
<1> QED
  BY <1>1, <1>2, Zenon DEF Next

\* With one process that starts and stops the switch and any number that reserve and
\* read the counters: whoever has passed the verification under the lock works on
\* the switch that is pinned under the name, until it lets the lock go; only a
\* forced cleanup, which asks for no lock, takes it away.
THEOREM LockKeepsCurrent ==
    ASSUME NEW m, OneManager(m)
    PROVE  Spec => []VerifiedIsCurrent
<1>1. Init => ManagerInv(m) /\ LockInv
  <2> SUFFICES ASSUME Init PROVE LockInv
    BY ManagerInit
  <2>1. \A q \in Procs : proc[q].pc = "idle" /\ proc[q].cmd = "none"
    BY IdleFields, Zenon DEF Init
  <2>2. "none" \notin ByName \cup Verified \cup {"reserve", "stats"} /\ "idle" \notin {"reserve", "read"}
    BY DEF ByName, Verified
  <2>3. LockShape
    BY DEF Init, LockShape
  <2>4. (\A q \in Procs : Locked(q, proc[q])) /\ VerifiedIsCurrent
    BY <2>1, <2>2, Zenon DEF Locked, VerifiedIsCurrent
  <2> QED
    BY <2>3, <2>4, Zenon DEF LockInv
<1>2. Inv /\ ManagerInv(m) /\ LockInv /\ [Next]_vars => ManagerInv(m)' /\ LockInv'
  BY ManagerStep, LockStep, Zenon DEF OneManager
<1>3. LockInv => VerifiedIsCurrent
  BY Zenon DEF LockInv
<1> QED
  BY <1>1, <1>2, <1>3, Invariant, PTL DEF Spec
=============================================================================
