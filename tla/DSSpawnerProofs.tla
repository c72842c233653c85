-------------------------- MODULE DSSpawnerProofs --------------------------
(***************************************************************************)
(* Proofs about DSSpawner: its type invariant, that match players are room *)
(* members (MatchInRoom) and that the owner dictionary is sound            *)
(* (OwnerMapSound), for any number of slots, players, threads, rooms,      *)
(* allocation objects and bridges.                                         *)
(*                                                                         *)
(* The three are proved together from the invariant Inv, whose parts say   *)
(* what each variable may refer to.  First come lemmas for the few ways an *)
(* action changes a part, then one lemma per group of actions.             *)
(*                                                                         *)
(* The second half is about the life of a round: that two rounds in use    *)
(* never have one slot (FreshSlotsExclusive), that settings stay as they   *)
(* are while a bridge runs with them (SettingsFrozen) and that a round     *)
(* armed again keeps its lobby (RearmKeepsLobby), from the invariant       *)
(* RoundInv.                                                               *)
(***************************************************************************)
EXTENDS DSSpawner, SequenceTheorems, TLAPS

-----------------------------------------------------------------------------
(* The inductive invariant                                                 *)

\* A well-formed allocation when n bridges have been started.
ObjOK(a, n) ==
  /\ a \in Allocation
  /\ a.bridge \in 0 .. n /\ a.pid \in 0 .. n
  /\ a.match \subseteq a.players

ObjsOK ==
  /\ objs \in Seq(Allocation) /\ Len(objs) <= MaxObj
  /\ \A o \in 1 .. Len(objs) : ObjOK(objs[o], Len(procs))

ProcsOK ==
  /\ procs \in Seq(Process) /\ Len(procs) <= MaxProc
  /\ \A p \in 1 .. Len(procs) : procs[p].obj \in 1 .. Len(objs)

RoomsOK ==
  /\ nRoom \in 0 .. MaxRooms
  /\ allocs \in [RoomId -> 0 .. Len(objs)]
  /\ \A r \in RoomId : allocs[r] # 0 <=> r <= nRoom
  /\ \A r \in RoomId : allocs[r] # 0 => objs[allocs[r]].room = r
  /\ \A o \in 1 .. Len(objs) : objs[o].room <= nRoom

OwnersOK ==
  /\ ownerToRoom \in [Players -> 0 .. nRoom]
  /\ \A p \in Players : ownerToRoom[p] # 0 => objs[allocs[ownerToRoom[p]]].owner = p

SetsOK ==
  /\ shutdown \in BOOLEAN
  /\ rows \subseteq 1 .. Len(objs) /\ closed \subseteq 1 .. Len(objs)

ThreadOK(h, m, n) ==
  /\ h \in Thread /\ h.obj \in 0 .. m /\ h.proc \in 0 .. n
  /\ h.pc \notin {"idle", "sdLoop", "sdDone"} => h.obj # 0
  /\ h.pc = "armWait" => h.proc # 0
ThreadsOK ==
  /\ th \in [Threads -> Thread]
  /\ \A t \in Threads : ThreadOK(th[t], Len(objs), Len(procs))

FilesOK ==
  /\ stateFile \in [ObjId -> StateFile] /\ pidFile \in [ObjId -> ProcId \cup {0}]
  /\ \A o \in ObjId : stateFile[o].pid \in 0 .. Len(procs) /\ pidFile[o] \in 0 .. Len(procs)

MonOK(m, n) ==
  /\ m \in Monitor /\ m.proc \in 0 .. n /\ m.file.pid \in 0 .. n
  /\ m.pc = "apply" => m.file.st # "none"
MonsOK ==
  /\ mon \in [ProcId -> Monitor]
  /\ \A p \in ProcId : MonOK(mon[p], Len(procs))

Inv == ObjsOK /\ ProcsOK /\ RoomsOK /\ OwnersOK /\ SetsOK /\ ThreadsOK /\ FilesOK /\ MonsOK

\* The invariant contains the three properties to be proved.
LEMMA InvImplies == Inv => TypeOK /\ MatchInRoom /\ OwnerMapSound
<1> SUFFICES ASSUME Inv PROVE TypeOK /\ MatchInRoom /\ OwnerMapSound
  OBVIOUS
<1>1. DOMAIN objs = 1 .. Len(objs) /\ DOMAIN procs = 1 .. Len(procs)
  BY LenProperties DEF Inv, ObjsOK, ProcsOK
<1>2. TypeOK
  BY <1>1 DEF Inv, ObjsOK, ProcsOK, RoomsOK, OwnersOK, SetsOK, ThreadsOK, ThreadOK,
              FilesOK, MonsOK, TypeOK
<1>3. MatchInRoom
  BY <1>1 DEF Inv, ObjsOK, ObjOK, MatchInRoom
<1>4. OwnerMapSound
  BY SpawnerAssumption DEF Inv, RoomsOK, OwnersOK, OwnerMapSound, Known, Cur, RoomId
<1> QED BY <1>2, <1>3, <1>4

LEMMA InitInv == Init => Inv
<1> SUFFICES ASSUME Init PROVE Inv
  OBVIOUS
<1>1. objs = <<>> /\ procs = <<>> /\ Len(objs) = 0 /\ Len(procs) = 0
  BY EmptySeq DEF Init
<1>2. ObjsOK /\ ProcsOK
  BY <1>1, EmptySeq, SpawnerAssumption DEF ObjsOK, ProcsOK
<1>3. RoomsOK
  BY <1>1, SpawnerAssumption DEF Init, RoomsOK, RoomId
<1>7. OwnersOK
  <2>1. ownerToRoom = [p \in Players |-> 0] /\ nRoom = 0
    BY DEF Init
  <2>2. \A p \in Players : ownerToRoom[p] = 0
    BY <2>1
  <2> QED BY <2>1, <2>2 DEF OwnersOK
<1>8. SetsOK
  BY <1>1 DEF Init, SetsOK
<1>4. ThreadsOK
  BY <1>1 DEF Init, ThreadsOK, ThreadOK, Thread, Idle, PC
<1>5. FilesOK
  BY <1>1 DEF Init, FilesOK, StateFile, NoFile, FileStates
<1>6. MonsOK
  BY <1>1 DEF Init, MonsOK, MonOK, Monitor, MonOff, StateFile, NoFile, FileStates
<1> QED BY <1>2, <1>3, <1>4, <1>5, <1>6, <1>7, <1>8 DEF Inv

-----------------------------------------------------------------------------
(* How steps change the parts                                              *)

\* Writing a well-formed allocation of the same room over object o.
LEMMA ObjUpdate ==
  ASSUME Inv, NEW o \in 1 .. Len(objs), NEW a, ObjOK(a, Len(procs)), SetObj(o, a)
  PROVE  /\ objs' \in Seq(Allocation) /\ Len(objs') = Len(objs)
         /\ \A q \in 1 .. Len(objs) : objs'[q] = IF q = o THEN a ELSE objs[q]
         /\ \A q \in 1 .. Len(objs) : ObjOK(objs'[q], Len(procs))
<1>1. objs \in Seq(Allocation) /\ a \in Allocation /\ objs' = [objs EXCEPT ![o] = a]
  BY DEF Inv, ObjsOK, ObjOK, SetObj
<1>2. /\ objs' \in Seq(Allocation)
      /\ Len(objs') = Len(objs)
      /\ \A q \in 1 .. Len(objs) : objs'[q] = IF q = o THEN a ELSE objs[q]
  BY <1>1, ExceptSeq
<1> QED BY <1>2 DEF Inv, ObjsOK

\* Appending a well-formed allocation.
LEMMA ObjAppend ==
  ASSUME Inv, NEW a, ObjOK(a, Len(procs) + 1), objs' = Append(objs, a)
  PROVE  /\ objs' \in Seq(Allocation) /\ Len(objs') = Len(objs) + 1
         /\ objs'[Len(objs) + 1] = a
         /\ \A q \in 1 .. Len(objs) : objs'[q] = objs[q]
<1>1. objs \in Seq(Allocation) /\ a \in Allocation
  BY DEF Inv, ObjsOK, ObjOK
<1> QED BY <1>1, AppendProperties

LEMMA ProcUpdate ==
  ASSUME Inv, NEW p \in 1 .. Len(procs), NEW q \in Process,
         q.obj = procs[p].obj, SetProc(p, q)
  PROVE  /\ procs' \in Seq(Process) /\ Len(procs') = Len(procs)
         /\ \A i \in 1 .. Len(procs) : procs'[i] = IF i = p THEN q ELSE procs[i]
         /\ \A i \in 1 .. Len(procs) : procs'[i].obj \in 1 .. Len(objs)
<1>1. procs \in Seq(Process) /\ procs' = [procs EXCEPT ![p] = q]
  BY DEF Inv, ProcsOK, SetProc
<1>2. /\ procs' \in Seq(Process)
      /\ Len(procs') = Len(procs)
      /\ \A i \in 1 .. Len(procs) : procs'[i] = IF i = p THEN q ELSE procs[i]
  BY <1>1, ExceptSeq
<1> QED BY <1>2 DEF Inv, ProcsOK

\* A thread moving on, while objects and bridges only grow in number.
LEMMA ThreadsMove ==
  ASSUME Inv, NEW t \in Threads, NEW pc, NEW o, NEW p, Goto(t, pc, o, p),
         ThreadOK([pc |-> pc, obj |-> o, proc |-> p], Len(objs'), Len(procs')),
         Len(objs) <= Len(objs'), Len(procs) <= Len(procs'),
         Len(objs') \in Nat, Len(procs') \in Nat
  PROVE  ThreadsOK'
<1>1. th' \in [Threads -> Thread]
  BY DEF Goto, Inv, ThreadsOK, ThreadOK
<1>2. ASSUME NEW u \in Threads PROVE ThreadOK(th'[u], Len(objs'), Len(procs'))
  <2>1. CASE u = t
    BY <2>1 DEF Goto, Inv, ThreadsOK
  <2>2. CASE u # t
    <3>1. th'[u] = th[u]
      BY <2>2 DEF Goto, Inv, ThreadsOK
    <3>2. ThreadOK(th[u], Len(objs), Len(procs)) /\ Len(objs) \in Nat /\ Len(procs) \in Nat
      BY LenProperties DEF Inv, ThreadsOK, ObjsOK, ProcsOK
    <3> QED BY <3>1, <3>2 DEF ThreadOK
  <2> QED BY <2>1, <2>2
<1> QED BY <1>1, <1>2 DEF ThreadsOK

LEMMA ThreadReturns ==
  ASSUME Inv, NEW t \in Threads, Return(t), Len(objs) <= Len(objs'), Len(procs) <= Len(procs'),
         Len(objs') \in Nat, Len(procs') \in Nat
  PROVE  ThreadsOK'
<1>1. Goto(t, "idle", 0, 0)
  BY DEF Goto, Return, Idle
<1>2. ThreadOK([pc |-> "idle", obj |-> 0, proc |-> 0], Len(objs'), Len(procs'))
  BY DEF ThreadOK, Thread, PC
<1> QED BY <1>1, <1>2, ThreadsMove

LEMMA ThreadsStay ==
  ASSUME Inv, UNCHANGED th, Len(objs) <= Len(objs'), Len(procs) <= Len(procs'),
         Len(objs') \in Nat, Len(procs') \in Nat
  PROVE  ThreadsOK'
<1>1. Len(objs) \in Nat /\ Len(procs) \in Nat
  BY LenProperties DEF Inv, ObjsOK, ProcsOK
<1> QED BY <1>1 DEF Inv, ThreadsOK, ThreadOK

\* Rooms and owners do not notice an object that keeps its room and owner.
LEMMA RoomsStay ==
  ASSUME Inv, UNCHANGED <<allocs, nRoom>>, Len(objs') = Len(objs),
         \A q \in 1 .. Len(objs) : objs'[q].room = objs[q].room
  PROVE  RoomsOK'
<1>1. Len(objs) \in Nat
  BY LenProperties DEF Inv, ObjsOK
<1> QED BY <1>1 DEF Inv, RoomsOK

LEMMA OwnersStay ==
  ASSUME Inv, UNCHANGED <<allocs, nRoom, ownerToRoom>>, Len(objs') = Len(objs),
         \A q \in 1 .. Len(objs) : objs'[q].owner = objs[q].owner
  PROVE  OwnersOK'
<1>1. \A p \in Players : ownerToRoom[p] # 0 => allocs[ownerToRoom[p]] \in 1 .. Len(objs)
  BY SpawnerAssumption, LenProperties DEF Inv, OwnersOK, RoomsOK, ObjsOK, RoomId
<1> QED BY <1>1 DEF Inv, OwnersOK

LEMMA FilesMonsStay ==
  ASSUME Inv, UNCHANGED <<stateFile, pidFile, mon>>, Len(procs) <= Len(procs'),
         Len(procs') \in Nat
  PROVE  FilesOK' /\ MonsOK'
<1>1. Len(procs) \in Nat
  BY LenProperties DEF Inv, ProcsOK
<1> QED BY <1>1 DEF Inv, FilesOK, MonsOK, MonOK

-----------------------------------------------------------------------------
(* One lemma per group of actions                                          *)

\* An object rewritten in place, whatever else the thread or a monitor does.
LEMMA ObjectStep ==
  ASSUME Inv, NEW o \in 1 .. Len(objs), NEW a, ObjOK(a, Len(procs)), SetObj(o, a),
         a.room = objs[o].room, a.owner = objs[o].owner,
         UNCHANGED <<allocs, nRoom, ownerToRoom, bridge>>,
         shutdown' \in BOOLEAN, closed' \subseteq 1 .. Len(objs), rows' \subseteq 1 .. Len(objs),
         ThreadsOK', MonsOK'
  PROVE  Inv'
<1>1. /\ objs' \in Seq(Allocation) /\ Len(objs') = Len(objs)
      /\ \A q \in 1 .. Len(objs) : objs'[q] = IF q = o THEN a ELSE objs[q]
      /\ \A q \in 1 .. Len(objs) : ObjOK(objs'[q], Len(procs))
  BY ObjUpdate
<1>2. procs' = procs /\ stateFile' = stateFile /\ pidFile' = pidFile
  BY DEF bridge
<1>3. ObjsOK' /\ ProcsOK'
  BY <1>1, <1>2 DEF Inv, ObjsOK, ProcsOK
<1>4. RoomsOK'
  BY <1>1, RoomsStay
<1>5. OwnersOK'
  BY <1>1, OwnersStay
<1>6. SetsOK' /\ FilesOK'
  BY <1>1, <1>2 DEF Inv, SetsOK, FilesOK
<1> QED BY <1>3, <1>4, <1>5, <1>6 DEF Inv

\* A step that changes no object and no bridge.
LEMMA ControlStep ==
  ASSUME Inv, UNCHANGED <<objs, allocs, nRoom, bridge>>, OwnersOK',
         shutdown' \in BOOLEAN, closed' \subseteq 1 .. Len(objs), rows' \subseteq 1 .. Len(objs),
         ThreadsOK', MonsOK'
  PROVE  Inv'
<1>1. procs' = procs /\ stateFile' = stateFile /\ pidFile' = pidFile /\ objs' = objs
  BY DEF bridge
<1> QED BY <1>1 DEF Inv, ObjsOK, ProcsOK, RoomsOK, SetsOK, FilesOK

\* The object a room points to.
LEMMA CurOK ==
  ASSUME Inv, NEW r \in RoomId, Known(r)
  PROVE  /\ allocs[r] \in 1 .. Len(objs) /\ Cur(r) = objs[allocs[r]]
         /\ ObjOK(Cur(r), Len(procs)) /\ Cur(r).room = r
<1>1. Len(objs) \in Nat
  BY LenProperties DEF Inv, ObjsOK
<1> QED BY <1>1 DEF Inv, ObjsOK, RoomsOK, Known, Cur

LEMMA Sizes == Inv => Len(objs) \in Nat /\ Len(procs) \in Nat
  BY LenProperties DEF Inv, ObjsOK, ProcsOK

\* A thread at a program point that holds an existing object and bridge.
LEMMA ThreadAt ==
  ASSUME Inv, NEW pc \in PC, NEW o \in 1 .. Len(objs), NEW p \in 0 .. Len(procs),
         pc = "armWait" => p # 0
  PROVE  ThreadOK([pc |-> pc, obj |-> o, proc |-> p], Len(objs), Len(procs))
<1>1. o \in ObjId /\ o # 0
  BY Sizes, SpawnerAssumption DEF Inv, ObjsOK, ObjId
<1>2. p \in ProcId \cup {0}
  BY Sizes, SpawnerAssumption DEF Inv, ProcsOK, ProcId
<1> QED BY <1>1, <1>2, Sizes DEF ThreadOK, Thread

\* Settings and membership calls that finish in one critical section.
LEMMA BookkeepingInv ==
  ASSUME Inv, NEW t \in Workers, NEW r \in RoomId, NEW p, NEW set, NEW starter,
         \/ set \in Settings /\ UpdateSettings(t, r, set)
         \/ p \in Players /\ RegisterRoomPlayer(t, r, p)
         \/ p \in Players /\ MarkPlayerInMatch(t, r, p)
         \/ starter \in Players \cup {0} /\ BeginMatch(t, r, starter)
  PROVE  Inv'
<1> DEFINE c == Cur(r)
           members == c.players \cup ({starter} \ {0})
           Rewrites(a) == /\ ObjOK(a, Len(procs)) /\ SetObj(allocs[r], a)
                          /\ a.room = c.room /\ a.owner = c.owner
<1>1. Known(r)
  BY DEF UpdateSettings, RegisterRoomPlayer, MarkPlayerInMatch, BeginMatch, LiveRoom
<1>2. /\ allocs[r] \in 1 .. Len(objs) /\ c = objs[allocs[r]] /\ ObjOK(c, Len(procs))
  BY <1>1, CurOK
<1>3. UNCHANGED <<allocs, nRoom, ownerToRoom, shutdown, closed, bridge, th, rows, mon>>
  BY DEF UpdateSettings, RegisterRoomPlayer, MarkPlayerInMatch, BeginMatch
<1>4. \E a : Rewrites(a)
  <2>1. CASE set \in Settings /\ UpdateSettings(t, r, set)
    <3> DEFINE a == [c EXCEPT !.settings = set]
    <3>1. SetObj(allocs[r], a) BY <2>1 DEF UpdateSettings
    <3>2. ObjOK(a, Len(procs)) /\ a.room = c.room /\ a.owner = c.owner
      BY <1>2, <2>1 DEF ObjOK, Allocation
    <3> QED BY <3>1, <3>2
  <2>2. CASE p \in Players /\ RegisterRoomPlayer(t, r, p)
    <3> DEFINE a == [c EXCEPT !.players = @ \cup {p}]
    <3>1. SetObj(allocs[r], a) BY <2>2 DEF RegisterRoomPlayer
    <3>2. ObjOK(a, Len(procs)) /\ a.room = c.room /\ a.owner = c.owner
      BY <1>2, <2>2 DEF ObjOK, Allocation
    <3> QED BY <3>1, <3>2
  <2>3. CASE p \in Players /\ MarkPlayerInMatch(t, r, p)
    <3> DEFINE a == [c EXCEPT !.players = @ \cup {p}, !.match = @ \cup {p}]
    <3>1. SetObj(allocs[r], a) BY <2>3 DEF MarkPlayerInMatch
    <3>2. ObjOK(a, Len(procs)) /\ a.room = c.room /\ a.owner = c.owner
      BY <1>2, <2>3 DEF ObjOK, Allocation
    <3> QED BY <3>1, <3>2
  <2>4. CASE starter \in Players \cup {0} /\ BeginMatch(t, r, starter)
    <3> DEFINE new == c.state \in {"RESERVED", "ROUND_ENDED"} \/ c.match = {}
               a == [c EXCEPT !.players = members,
                       !.match = IF new THEN members ELSE @ \cup ({starter} \ {0})]
    <3>1. SetObj(allocs[r], a) BY <2>4 DEF BeginMatch
    <3>2. ObjOK(a, Len(procs)) /\ a.room = c.room /\ a.owner = c.owner
      BY <1>2, <2>4 DEF ObjOK, Allocation
    <3> QED BY <3>1, <3>2
  <2> QED BY <2>1, <2>2, <2>3, <2>4
<1>5. PICK a : Rewrites(a)
  BY <1>4
<1>6. Len(objs') = Len(objs)
  BY <1>2, <1>5, ObjUpdate
<1>7. ThreadsOK' /\ MonsOK'
  <2>1. procs' = procs BY <1>3 DEF bridge
  <2> QED BY <1>3, <1>6, <2>1, Sizes, ThreadsStay, FilesMonsStay DEF bridge
<1> QED
  <2>1. shutdown' \in BOOLEAN /\ closed' \subseteq 1 .. Len(objs) /\ rows' \subseteq 1 .. Len(objs)
    BY <1>3 DEF Inv, SetsOK
  <2> QED BY <1>2, <1>3, <1>5, <1>7, <2>1, ObjectStep

\* end_round and release_lobby, entered directly or after a decision.
LEMMA TeardownEntryInv ==
  ASSUME Inv, NEW t \in Threads, NEW r \in RoomId,
         \/ EndRoundNothing(t, r) \/ EndRound(t, r)
         \/ ReleaseNothing(t, r) \/ ReleaseLobby(t, r)
  PROVE  Inv'
<1>1. ASSUME EndRoundNothing(t, r) \/ ReleaseNothing(t, r)
      PROVE  Inv'
  <2>1. Return(t) /\ UNCHANGED <<lobby, bridge, rows, mon>>
    BY <1>1 DEF EndRoundNothing, ReleaseNothing
  <2>2. objs' = objs /\ procs' = procs
    BY <2>1 DEF lobby, bridge
  <2>3. ThreadsOK' /\ MonsOK'
    BY <2>1, <2>2, Sizes, ThreadReturns, FilesMonsStay DEF bridge
  <2>4. OwnersOK'
    BY <2>1 DEF Inv, OwnersOK, lobby
  <2> QED BY <2>1, <2>3, <2>4, ControlStep DEF lobby, Inv, SetsOK
<1>2. ASSUME EndRoundEntry(t, r) \/ ReleaseEntry(t, r)
      PROVE  Known(r)
  <2>1. CASE Known(r)
    BY <2>1
  <2>2. CASE th[t].pc \in {"endRound", "release"} /\ r = PendingRoom(t)
    <3>1. th[t].obj \in 1 .. Len(objs)
      BY <2>2, Sizes DEF Inv, ThreadsOK, ThreadOK
    <3>2. objs[th[t].obj].room = r /\ r <= nRoom
      BY <2>2, <3>1 DEF PendingRoom, Inv, RoomsOK
    <3> QED BY <3>2 DEF Inv, RoomsOK, Known
  <2> QED BY <1>2, <2>1, <2>2 DEF EndRoundEntry, ReleaseEntry
<1>3. ASSUME EndRound(t, r)
      PROVE  Inv'
  <2> DEFINE a == [Cur(r) EXCEPT !.state = "ROUND_ENDED", !.match = {}]
  <2>1. Known(r)
    BY <1>2, <1>3 DEF EndRound
  <2>2. /\ allocs[r] \in 1 .. Len(objs) /\ Cur(r) = objs[allocs[r]]
        /\ ObjOK(Cur(r), Len(procs))
    BY <2>1, CurOK
  <2>3. ObjOK(a, Len(procs)) /\ a.room = Cur(r).room /\ a.owner = Cur(r).owner
    BY <2>2 DEF ObjOK, Allocation, AllocStates
  <2>4. /\ SetObj(allocs[r], a) /\ Goto(t, "stopHeavy", allocs[r], 0)
        /\ closed' = closed \cup {allocs[r]}
        /\ UNCHANGED <<allocs, nRoom, ownerToRoom, shutdown, bridge, rows, mon>>
    BY <1>3 DEF EndRound
  <2> HIDE DEF a
  <2>5. Len(objs') = Len(objs) /\ procs' = procs
    BY <2>2, <2>3, <2>4, ObjUpdate DEF bridge
  <2>6. ThreadOK([pc |-> "stopHeavy", obj |-> allocs[r], proc |-> 0], Len(objs), Len(procs))
    BY <2>2, ThreadAt, Sizes DEF PC
  <2>7. ThreadsOK' /\ MonsOK'
    BY <2>4, <2>5, <2>6, Sizes, ThreadsMove, FilesMonsStay DEF bridge
  <2>8. shutdown' \in BOOLEAN /\ closed' \subseteq 1 .. Len(objs) /\ rows' \subseteq 1 .. Len(objs)
    BY <2>2, <2>4 DEF Inv, SetsOK
  <2> QED BY <2>2, <2>3, <2>4, <2>7, <2>8, ObjectStep
<1>4. ASSUME ReleaseLobby(t, r)
      PROVE  Inv'
  <2> DEFINE a == [Cur(r) EXCEPT !.state = "RELEASED", !.players = {}, !.match = {}]
  <2>1. Known(r)
    BY <1>2, <1>4 DEF ReleaseLobby
  <2>2. /\ allocs[r] \in 1 .. Len(objs) /\ Cur(r) = objs[allocs[r]]
        /\ ObjOK(Cur(r), Len(procs))
    BY <2>1, CurOK
  <2>3. ObjOK(a, Len(procs)) /\ a.room = Cur(r).room /\ a.owner = Cur(r).owner
    BY <2>2 DEF ObjOK, Allocation, AllocStates
  <2>4. /\ SetObj(allocs[r], a) /\ Goto(t, "stopHeavy", allocs[r], 0)
        /\ closed' = closed \cup {allocs[r]}
        /\ ownerToRoom' = [ownerToRoom EXCEPT ![Cur(r).owner] = 0]
        /\ UNCHANGED <<allocs, nRoom, shutdown, bridge, rows, mon>>
    BY <1>4 DEF ReleaseLobby
  <2> HIDE DEF a
  <2>5. /\ Len(objs') = Len(objs) /\ procs' = procs
        /\ objs' \in Seq(Allocation)
        /\ \A q \in 1 .. Len(objs) : objs'[q] = IF q = allocs[r] THEN a ELSE objs[q]
        /\ \A q \in 1 .. Len(objs) : ObjOK(objs'[q], Len(procs))
    BY <2>2, <2>3, <2>4, ObjUpdate DEF bridge
  <2>6. ThreadOK([pc |-> "stopHeavy", obj |-> allocs[r], proc |-> 0], Len(objs), Len(procs))
    BY <2>2, ThreadAt, Sizes DEF PC
  <2>7. ThreadsOK' /\ FilesOK' /\ MonsOK'
    BY <2>4, <2>5, <2>6, Sizes, ThreadsMove, FilesMonsStay DEF bridge
  <2>8. SetsOK'
    BY <2>2, <2>4, <2>5 DEF Inv, SetsOK
  <2>9. RoomsOK'
    BY <2>2, <2>3, <2>4, <2>5, RoomsStay
  <2>10. OwnersOK'
    <3>1. \A p \in Players : ownerToRoom'[p] \in {0, ownerToRoom[p]}
      BY <2>4 DEF Inv, OwnersOK
    <3>2. ownerToRoom' \in [Players -> 0 .. nRoom']
      <4>1. 0 \in 0 .. nRoom /\ nRoom' = nRoom
        BY <2>4, SpawnerAssumption DEF Inv, RoomsOK
      <4> QED BY <2>4, <4>1 DEF Inv, OwnersOK
    <3>3. \A p \in Players : ownerToRoom[p] # 0 => allocs[ownerToRoom[p]] \in 1 .. Len(objs)
      BY SpawnerAssumption, Sizes DEF Inv, OwnersOK, RoomsOK, RoomId
    <3>4. \A q \in 1 .. Len(objs) : objs'[q].owner = objs[q].owner
      BY <2>2, <2>3, <2>5
    <3> QED BY <2>4, <3>1, <3>2, <3>3, <3>4 DEF Inv, OwnersOK
  <2>11. ObjsOK' /\ ProcsOK'
    BY <2>5 DEF Inv, ObjsOK, ProcsOK
  <2> QED BY <2>7, <2>8, <2>9, <2>10, <2>11 DEF Inv
<1> QED BY <1>1, <1>3, <1>4

\* Calls that change members under the lock and may go on to a teardown.
LEMMA LeaveInv ==
  ASSUME Inv, NEW t \in Workers, NEW r \in RoomId, NEW p \in Players,
         PrepareSettingsUpdate(t, r, p) \/ QuitMatchPlayer(t, r, p) \/ RemoveRoomPlayer(t, r, p)
  PROVE  Inv'
<1> DEFINE c == Cur(r)
           stay == c.players \ {p}
           left == c.match \ {p}
<1>1. Known(r) /\ t \in Threads
  BY DEF PrepareSettingsUpdate, QuitMatchPlayer, RemoveRoomPlayer, LiveRoom, Threads
<1>2. /\ allocs[r] \in 1 .. Len(objs) /\ c = objs[allocs[r]] /\ ObjOK(c, Len(procs))
      /\ c.room = r
  BY <1>1, CurOK
<1>3. \A pc \in {"endRound", "release"} :
        ThreadOK([pc |-> pc, obj |-> allocs[r], proc |-> 0], Len(objs), Len(procs))
  BY <1>2, ThreadAt, Sizes DEF PC
<1>4. UNCHANGED <<allocs, nRoom, shutdown, closed, bridge, rows, mon>>
  BY DEF PrepareSettingsUpdate, QuitMatchPlayer, RemoveRoomPlayer, lobby
<1>5. \/ UNCHANGED th
      \/ Goto(t, "endRound", allocs[r], 0)
      \/ Goto(t, "release", allocs[r], 0)
  BY DEF PrepareSettingsUpdate, QuitMatchPlayer, RemoveRoomPlayer
<1>6. ASSUME Len(objs') = Len(objs) PROVE ThreadsOK' /\ FilesOK' /\ MonsOK' /\ SetsOK'
  <2>1. procs' = procs BY <1>4 DEF bridge
  <2>2. ThreadsOK'
    BY <1>1, <1>3, <1>5, <1>6, <2>1, Sizes, ThreadsMove, ThreadsStay
  <2>3. SetsOK'
    BY <1>4, <1>6 DEF Inv, SetsOK
  <2> QED BY <1>4, <2>1, <2>2, <2>3, Sizes, FilesMonsStay DEF bridge
<1>7. CASE PrepareSettingsUpdate(t, r, p)
  <2>1. objs' = objs /\ ownerToRoom' = ownerToRoom BY <1>7 DEF PrepareSettingsUpdate, lobby
  <2>2. OwnersOK' BY <1>4, <2>1 DEF Inv, OwnersOK
  <2> QED BY <1>4, <1>6, <2>1, <2>2, ControlStep DEF Inv, SetsOK
<1>8. CASE QuitMatchPlayer(t, r, p)
  <2> DEFINE a == [c EXCEPT !.match = left]
  <2>1. SetObj(allocs[r], a) /\ ownerToRoom' = ownerToRoom
    BY <1>8 DEF QuitMatchPlayer
  <2>2. ObjOK(a, Len(procs)) /\ a.room = c.room /\ a.owner = c.owner
    BY <1>2 DEF ObjOK, Allocation
  <2> HIDE DEF a
  <2>3. Len(objs') = Len(objs)
    BY <1>2, <2>1, <2>2, ObjUpdate
  <2> QED BY <1>2, <1>4, <1>6, <2>1, <2>2, <2>3, ObjectStep DEF Inv, SetsOK
<1>9. CASE RemoveRoomPlayer(t, r, p) /\ UNCHANGED ownerToRoom /\ ~(c.owner = p /\ stay # {})
  <2> DEFINE a == [c EXCEPT !.players = stay, !.match = left]
  <2>1. SetObj(allocs[r], a)
    BY <1>9 DEF RemoveRoomPlayer
  <2>2. ObjOK(a, Len(procs)) /\ a.room = c.room /\ a.owner = c.owner
    BY <1>2 DEF ObjOK, Allocation
  <2> HIDE DEF a
  <2>3. Len(objs') = Len(objs)
    BY <1>2, <2>1, <2>2, ObjUpdate
  <2> QED BY <1>2, <1>4, <1>6, <1>9, <2>1, <2>2, <2>3, ObjectStep DEF Inv, SetsOK
<1>10. ASSUME RemoveRoomPlayer(t, r, p), NEW heir \in stay,
              SetObj(allocs[r], [c EXCEPT !.players = stay, !.match = left, !.owner = heir]),
              ownerToRoom' = Transfer(r, heir), c.owner = p
       PROVE  Inv'
  <2> DEFINE a == [c EXCEPT !.players = stay, !.match = left, !.owner = heir]
  <2>1. ObjOK(a, Len(procs)) /\ a.room = c.room /\ a.owner = heir /\ heir \in Players
    BY <1>2 DEF ObjOK, Allocation
  <2>2. SetObj(allocs[r], a)
    BY <1>10
  <2> HIDE DEF a
  <2>3. /\ Len(objs') = Len(objs) /\ procs' = procs
        /\ objs' \in Seq(Allocation)
        /\ \A q \in 1 .. Len(objs) : objs'[q] = IF q = allocs[r] THEN a ELSE objs[q]
        /\ \A q \in 1 .. Len(objs) : ObjOK(objs'[q], Len(procs))
    BY <1>2, <1>4, <2>1, <2>2, ObjUpdate DEF bridge
  <2>4. ObjsOK' /\ ProcsOK'
    BY <2>3 DEF Inv, ObjsOK, ProcsOK
  <2>5. RoomsOK'
    BY <1>2, <1>4, <2>1, <2>3, RoomsStay
  <2>6. OwnersOK'
    <3>1. ownerToRoom' = [ownerToRoom EXCEPT ![p] = 0, ![heir] = r] /\ nRoom' = nRoom
      BY <1>4, <1>10 DEF Transfer
    <3>2. r \in 0 .. nRoom /\ 0 \in 0 .. nRoom
      BY <1>1, <1>2, SpawnerAssumption DEF Inv, RoomsOK, Known, RoomId
    <3>3. ownerToRoom' \in [Players -> 0 .. nRoom]
      BY <2>1, <3>1, <3>2 DEF Inv, OwnersOK
    <3>4. ASSUME NEW q \in Players, ownerToRoom'[q] # 0
          PROVE  objs'[allocs[ownerToRoom'[q]]].owner = q
      <4>1. CASE q = heir
        BY <1>2, <2>1, <2>3, <3>1, <4>1 DEF Inv, OwnersOK
      <4>2. CASE q # heir
        <5>1. ownerToRoom'[q] = ownerToRoom[q] /\ q # p
          BY <3>1, <3>4, <4>2, <2>1 DEF Inv, OwnersOK
        <5>2. /\ objs[allocs[ownerToRoom[q]]].owner = q
              /\ allocs[ownerToRoom[q]] \in 1 .. Len(objs)
          BY <3>4, <5>1, SpawnerAssumption, Sizes DEF Inv, OwnersOK, RoomsOK, RoomId
        <5>3. allocs[ownerToRoom[q]] # allocs[r]
          BY <1>2, <1>10, <5>1, <5>2
        <5> QED BY <2>3, <5>1, <5>2, <5>3
      <4> QED BY <4>1, <4>2
    <3> QED BY <1>4, <3>1, <3>3, <3>4 DEF OwnersOK
  <2> QED BY <1>6, <2>3, <2>4, <2>5, <2>6 DEF Inv
<1>11. CASE RemoveRoomPlayer(t, r, p)
  BY <1>9, <1>10, <1>11 DEF RemoveRoomPlayer
<1> QED BY <1>7, <1>8, <1>11

\* reserve_lobby: a new object for a new room, owned by its creator.
LEMMA ReserveInv ==
  ASSUME Inv, NEW t \in Workers, NEW p \in Players, NEW set \in Settings,
         ReserveLobby(t, p, set)
  PROVE  Inv'
<1>1. PICK s \in Slots :
        objs' = Append(objs,
          [room |-> nRoom + 1, slot |-> s, owner |-> p, settings |-> set,
           state |-> "RESERVED", players |-> {p}, match |-> {}, gen |-> 0,
           bridge |-> 0, pid |-> 0])
  BY DEF ReserveLobby
<1> DEFINE a == [room |-> nRoom + 1, slot |-> s, owner |-> p, settings |-> set,
                 state |-> "RESERVED", players |-> {p}, match |-> {}, gen |-> 0,
                 bridge |-> 0, pid |-> 0]
           n == Len(objs)
<1>2. /\ nRoom < MaxRooms /\ n < MaxObj
      /\ nRoom' = nRoom + 1
      /\ allocs' = [allocs EXCEPT ![nRoom + 1] = n + 1]
      /\ ownerToRoom' = [ownerToRoom EXCEPT ![p] = nRoom + 1]
      /\ UNCHANGED <<shutdown, closed, procs, stateFile, pidFile, th, rows, mon>>
  BY DEF ReserveLobby, bridge
<1>3. n \in Nat /\ Len(procs) \in Nat /\ nRoom \in Nat /\ nRoom + 1 \in RoomId
  BY <1>2, Sizes, SpawnerAssumption DEF Inv, RoomsOK, RoomId
<1>4. ObjOK(a, Len(procs)) /\ ObjOK(a, Len(procs) + 1)
  BY <1>3 DEF ObjOK, Allocation, AllocStates
<1>5. a.room = nRoom + 1 /\ a.owner = p
  OBVIOUS
<1> HIDE DEF a
<1>6. /\ objs' \in Seq(Allocation) /\ Len(objs') = n + 1
      /\ objs'[n + 1] = a
      /\ \A q \in 1 .. n : objs'[q] = objs[q]
  BY <1>1, <1>4, ObjAppend DEF a
<1>7. ObjsOK' /\ ProcsOK'
  BY <1>2, <1>3, <1>4, <1>6, SpawnerAssumption DEF Inv, ObjsOK, ProcsOK
<1>8. RoomsOK'
  <2>1. nRoom' \in 0 .. MaxRooms /\ allocs' \in [RoomId -> 0 .. Len(objs')]
    BY <1>2, <1>3, <1>6, SpawnerAssumption DEF Inv, RoomsOK
  <2>2. \A r \in RoomId : allocs'[r] = IF r = nRoom + 1 THEN n + 1 ELSE allocs[r]
    BY <1>2, <1>3 DEF Inv, RoomsOK
  <2>3. \A r \in RoomId : allocs'[r] # 0 <=> r <= nRoom'
    BY <1>2, <1>3, <2>2 DEF Inv, RoomsOK, RoomId
  <2>4. ASSUME NEW r \in RoomId, allocs'[r] # 0 PROVE objs'[allocs'[r]].room = r
    <3>1. CASE r = nRoom + 1
      BY <1>3, <1>5, <1>6, <2>2, <3>1
    <3>2. CASE r # nRoom + 1
      <4>1. allocs[r] \in 1 .. n
        BY <1>3, <2>2, <2>4, <3>2 DEF Inv, RoomsOK
      <4> QED BY <1>6, <2>2, <2>4, <3>2, <4>1 DEF Inv, RoomsOK
    <3> QED BY <3>1, <3>2
  <2>5. ASSUME NEW o \in 1 .. Len(objs') PROVE objs'[o].room <= nRoom'
    <3>1. CASE o = n + 1
      BY <1>2, <1>3, <1>5, <1>6, <3>1
    <3>2. CASE o # n + 1
      <4>1. o \in 1 .. n
        BY <1>3, <1>6, <3>2
      <4>2. objs[o].room \in Nat
        BY <4>1, <1>3 DEF Inv, ObjsOK, ObjOK, Allocation, RoomId
      <4> QED BY <1>2, <1>3, <1>6, <4>1, <4>2 DEF Inv, RoomsOK
    <3> QED BY <3>1, <3>2
  <2> QED BY <2>1, <2>3, <2>4, <2>5 DEF RoomsOK
<1>9. OwnersOK'
  <2>1. ownerToRoom' \in [Players -> 0 .. nRoom']
    BY <1>2, <1>3 DEF Inv, OwnersOK
  <2>2. ASSUME NEW q \in Players, ownerToRoom'[q] # 0
        PROVE  objs'[allocs'[ownerToRoom'[q]]].owner = q
    <3>1. CASE q = p
      BY <1>2, <1>3, <1>5, <1>6, <3>1 DEF Inv, OwnersOK, RoomsOK
    <3>2. CASE q # p
      <4>1. ownerToRoom'[q] = ownerToRoom[q]
        BY <1>2, <3>2 DEF Inv, OwnersOK
      <4>2. ownerToRoom[q] \in RoomId /\ ownerToRoom[q] # nRoom + 1 /\ ownerToRoom[q] <= nRoom
        BY <1>2, <1>3, <2>2, <4>1, SpawnerAssumption DEF Inv, OwnersOK, RoomId
      <4>3. allocs'[ownerToRoom[q]] = allocs[ownerToRoom[q]] /\ allocs[ownerToRoom[q]] \in 1 .. n
        BY <1>2, <1>3, <4>2 DEF Inv, RoomsOK
      <4> QED BY <1>6, <2>2, <4>1, <4>3 DEF Inv, OwnersOK
    <3> QED BY <3>1, <3>2
  <2> QED BY <2>1, <2>2 DEF OwnersOK
<1>10. SetsOK'
  BY <1>2, <1>3, <1>6 DEF Inv, SetsOK
<1>11. ThreadsOK' /\ FilesOK' /\ MonsOK'
  BY <1>2, <1>3, <1>6, ThreadsStay, FilesMonsStay
<1> QED BY <1>7, <1>8, <1>9, <1>10, <1>11 DEF Inv

\* Appending a bridge process for an object that exists by then.
LEMMA LaunchOK ==
  ASSUME Inv, NEW t \in Threads, NEW o \in 1 .. Len(objs'), NEW set \in Settings,
         Launch(t, o, set), Len(objs') \in Nat, Len(objs) <= Len(objs'),
         Len(objs') <= MaxObj, UNCHANGED mon
  PROVE  /\ procs' \in Seq(Process) /\ Len(procs') = Len(procs) + 1
         /\ Len(procs') <= MaxProc
         /\ ProcsOK' /\ ThreadsOK' /\ FilesOK' /\ MonsOK'
<1> DEFINE q == [obj |-> o, settings |-> set, heavy |-> "off", st |-> "booting"]
<1>1. /\ Len(procs) < MaxProc /\ procs' = Append(procs, q)
      /\ stateFile' = [stateFile EXCEPT ![o] = NoFile]
      /\ pidFile' = [pidFile EXCEPT ![o] = 0]
      /\ Goto(t, "armWait", o, Len(procs) + 1)
  BY DEF Launch
<1>2. q \in Process /\ q.obj = o /\ o \in ObjId
  BY SpawnerAssumption DEF Process, ObjId
<1> HIDE DEF q
<1>3. Len(procs) \in Nat /\ procs \in Seq(Process)
  BY Sizes DEF Inv, ProcsOK
<1>4. /\ procs' \in Seq(Process) /\ Len(procs') = Len(procs) + 1
      /\ procs'[Len(procs) + 1] = q
      /\ \A i \in 1 .. Len(procs) : procs'[i] = procs[i]
  BY <1>1, <1>2, <1>3, AppendProperties
<1>5. ProcsOK'
  <2>1. ASSUME NEW i \in 1 .. Len(procs') PROVE procs'[i].obj \in 1 .. Len(objs')
    <3>1. CASE i = Len(procs) + 1
      BY <1>2, <1>4, <3>1
    <3>2. CASE i # Len(procs) + 1
      <4>1. i \in 1 .. Len(procs)
        BY <1>3, <1>4, <3>2
      <4> QED BY <1>4, <4>1, Sizes DEF Inv, ProcsOK
    <3> QED BY <3>1, <3>2
  <2> QED BY <1>1, <1>3, <1>4, <2>1, SpawnerAssumption DEF ProcsOK
<1>6. ThreadsOK'
  <2>1. ThreadOK([pc |-> "armWait", obj |-> o, proc |-> Len(procs) + 1], Len(objs'), Len(procs'))
    BY <1>1, <1>2, <1>3, <1>4, SpawnerAssumption DEF ThreadOK, Thread, PC, ProcId
  <2> QED BY <1>1, <1>3, <1>4, <2>1, ThreadsMove
<1>7. FilesOK'
  <2>1. stateFile' \in [ObjId -> StateFile] /\ pidFile' \in [ObjId -> ProcId \cup {0}]
    BY <1>1 DEF Inv, FilesOK, StateFile, NoFile, FileStates
  <2>2. ASSUME NEW u \in ObjId
        PROVE  stateFile'[u].pid \in 0 .. Len(procs') /\ pidFile'[u] \in 0 .. Len(procs')
    <3>1. stateFile[u].pid \in 0 .. Len(procs) /\ pidFile[u] \in 0 .. Len(procs)
      BY DEF Inv, FilesOK
    <3>2. stateFile'[u] \in {stateFile[u], NoFile} /\ pidFile'[u] \in {pidFile[u], 0}
      BY <1>1 DEF Inv, FilesOK
    <3> QED BY <1>3, <1>4, <3>1, <3>2 DEF NoFile
  <2> QED BY <2>1, <2>2 DEF FilesOK
<1>8. MonsOK'
  BY <1>3, <1>4 DEF Inv, MonsOK, MonOK
<1> QED BY <1>1, <1>3, <1>4, <1>5, <1>6, <1>7, <1>8, SpawnerAssumption

\* A well-formed allocation stays one when another bridge has been started.
LEMMA OneMoreBridge ==
  ASSUME NEW a, NEW n \in Nat, ObjOK(a, n)
  PROVE  ObjOK(a, n + 1)
BY DEF ObjOK

LEMMA ArmedOK ==
  ASSUME NEW c, ObjOK(c, Len(procs)), Len(procs) \in Nat, Len(procs) + 1 \in ProcId
  PROVE  /\ Armed(c) \in Allocation /\ ObjOK(Armed(c), Len(procs) + 1)
         /\ Armed(c).room = c.room /\ Armed(c).owner = c.owner
<1> DEFINE n == Len(procs)
           a == Armed(c)
<1>1. c \in Allocation /\ c.pid \in 0 .. n /\ c.match \subseteq c.players
  BY DEF ObjOK
<1>2. a = [c EXCEPT !.state = "ARMED", !.bridge = n + 1]
  BY DEF Armed
<1>3. a \in Allocation
  BY <1>1, <1>2 DEF Allocation, AllocStates
<1>4. /\ a.bridge = n + 1 /\ a.pid = c.pid /\ a.match = c.match /\ a.players = c.players
      /\ a.room = c.room /\ a.owner = c.owner
  BY <1>1, <1>2 DEF Allocation
<1> QED BY <1>1, <1>3, <1>4 DEF ObjOK

LEMMA NextRoundOK ==
  ASSUME NEW c, NEW n \in Nat, ObjOK(c, n), NEW s \in Slots
  PROVE  /\ NextRound(c, s) \in Allocation /\ ObjOK(NextRound(c, s), n)
         /\ NextRound(c, s).room = c.room /\ NextRound(c, s).owner = c.owner
<1> DEFINE a == NextRound(c, s)
<1>1. c \in Allocation /\ c.match \subseteq c.players /\ c.gen \in Nat
  BY DEF ObjOK, Allocation
<1>2. a = [c EXCEPT !.slot = s, !.state = "RESERVED", !.gen = c.gen + 1, !.bridge = 0, !.pid = 0]
  BY DEF NextRound
<1>3. c.gen + 1 \in Nat
  BY <1>1
<1>4. a \in Allocation
  BY <1>1, <1>2, <1>3 DEF Allocation, AllocStates
<1>5. /\ a.bridge = 0 /\ a.pid = 0 /\ a.match = c.match /\ a.players = c.players
      /\ a.room = c.room /\ a.owner = c.owner
  BY <1>1, <1>2 DEF Allocation
<1> QED BY <1>1, <1>4, <1>5 DEF ObjOK

\* The first arm of a reserved or resurrected object.
LEMMA ArmLaunchesInv ==
  ASSUME Inv, NEW t \in Workers, NEW r \in RoomId, ArmLaunches(t, r)
  PROVE  Inv'
<1> DEFINE c == Cur(r)
           a == Armed(c)
<1>1. /\ Known(r) /\ SetObj(allocs[r], a) /\ Launch(t, allocs[r], c.settings)
      /\ UNCHANGED <<allocs, nRoom, ownerToRoom, shutdown, closed, rows, mon>>
  BY DEF ArmLaunches
<1>2. allocs[r] \in 1 .. Len(objs) /\ c = objs[allocs[r]] /\ ObjOK(c, Len(procs))
  BY <1>1, CurOK
<1>3. Len(objs) \in Nat /\ Len(procs) \in Nat /\ objs \in Seq(Allocation)
  BY Sizes DEF Inv, ObjsOK
<1>4. /\ a \in Allocation /\ ObjOK(a, Len(procs) + 1)
      /\ a.room = c.room /\ a.owner = c.owner
  <2>1. Len(procs) + 1 \in ProcId
    BY <1>1, <1>3, SpawnerAssumption DEF Launch, ProcId
  <2> QED BY <1>2, <1>3, <2>1, ArmedOK
<1> HIDE DEF a
<1>5. /\ objs' \in Seq(Allocation) /\ Len(objs') = Len(objs)
      /\ \A q \in 1 .. Len(objs) : objs'[q] = IF q = allocs[r] THEN a ELSE objs[q]
  BY <1>1, <1>2, <1>3, <1>4, ExceptSeq DEF SetObj
<1>6. /\ Len(procs') = Len(procs) + 1
      /\ ProcsOK' /\ ThreadsOK' /\ FilesOK' /\ MonsOK'
  <2>1. t \in Threads /\ allocs[r] \in 1 .. Len(objs') /\ Len(objs') <= MaxObj
        /\ c.settings \in Settings
    BY <1>2, <1>5 DEF Threads, Inv, ObjsOK, ObjOK, Allocation
  <2> QED BY <1>1, <1>3, <1>5, <2>1, LaunchOK
<1>7. ObjsOK'
  <2>1. \A q \in 1 .. Len(objs) : ObjOK(objs'[q], Len(procs) + 1)
    BY <1>3, <1>4, <1>5, OneMoreBridge DEF Inv, ObjsOK
  <2> QED BY <1>5, <1>6, <2>1 DEF Inv, ObjsOK
<1>8. RoomsOK' /\ OwnersOK'
  <2>1. \A q \in 1 .. Len(objs) :
          objs'[q].room = objs[q].room /\ objs'[q].owner = objs[q].owner
    BY <1>2, <1>4, <1>5
  <2> QED BY <1>1, <1>5, <2>1, RoomsStay, OwnersStay
<1>9. SetsOK'
  BY <1>1, <1>5 DEF Inv, SetsOK
<1> QED BY <1>6, <1>7, <1>8, <1>9 DEF Inv

\* The dictionary after an ended room got a fresh object of the same lobby.
LEMMA FreshObject ==
  ASSUME Inv, NEW r \in RoomId, Known(r), NEW a, a.room = r, a.owner = Cur(r).owner,
         objs' \in Seq(Allocation), Len(objs') = Len(objs) + 1,
         objs'[Len(objs) + 1] = a,
         \A q \in 1 .. Len(objs) : objs'[q] = objs[q],
         allocs' = [allocs EXCEPT ![r] = Len(objs) + 1],
         ownerToRoom' = [ownerToRoom EXCEPT ![Cur(r).owner] = r],
         UNCHANGED <<nRoom, shutdown, closed, rows>>
  PROVE  RoomsOK' /\ OwnersOK' /\ SetsOK'
<1> DEFINE n == Len(objs)
<1>1. n \in Nat /\ nRoom \in Nat /\ r <= nRoom /\ r # 0
  BY Sizes, SpawnerAssumption DEF Inv, RoomsOK, RoomId, Known
<1>2. /\ allocs[r] \in 1 .. n /\ Cur(r) = objs[allocs[r]] /\ Cur(r).owner \in Players
  BY CurOK DEF ObjOK, Allocation
<1>3. \A q \in RoomId : allocs'[q] = IF q = r THEN n + 1 ELSE allocs[q]
  BY DEF Inv, RoomsOK
<1>4. RoomsOK'
  <2>1. allocs' \in [RoomId -> 0 .. Len(objs')] /\ nRoom' \in 0 .. MaxRooms
    BY <1>1 DEF Inv, RoomsOK
  <2>2. \A q \in RoomId : allocs'[q] # 0 <=> q <= nRoom'
    BY <1>1, <1>3 DEF Inv, RoomsOK
  <2>3. ASSUME NEW q \in RoomId, allocs'[q] # 0 PROVE objs'[allocs'[q]].room = q
    BY <1>1, <1>3, <2>3 DEF Inv, RoomsOK
  <2>4. ASSUME NEW o \in 1 .. Len(objs') PROVE objs'[o].room <= nRoom'
    <3>1. CASE o = n + 1
      BY <1>1, <3>1
    <3>2. CASE o # n + 1
      BY <1>1, <3>2 DEF Inv, RoomsOK
    <3> QED BY <3>1, <3>2
  <2> QED BY <2>1, <2>2, <2>3, <2>4 DEF RoomsOK
<1>5. OwnersOK'
  <2>1. ownerToRoom' \in [Players -> 0 .. nRoom']
    <3>1. r \in 0 .. nRoom /\ nRoom' = nRoom
      BY <1>1 DEF RoomId
    <3> QED BY <3>1 DEF Inv, OwnersOK
  <2>2. ASSUME NEW p \in Players, ownerToRoom'[p] # 0
        PROVE  objs'[allocs'[ownerToRoom'[p]]].owner = p
    <3>1. CASE p = Cur(r).owner
      BY <1>1, <1>2, <1>3, <3>1 DEF Inv, OwnersOK
    <3>2. CASE p # Cur(r).owner
      <4>1. ownerToRoom'[p] = ownerToRoom[p] /\ ownerToRoom[p] \in RoomId
        BY <1>1, <2>2, <3>2, SpawnerAssumption DEF Inv, OwnersOK, RoomsOK, RoomId
      <4>2. objs[allocs[ownerToRoom[p]]].owner = p /\ ownerToRoom[p] # r
        BY <1>2, <2>2, <3>2, <4>1 DEF Inv, OwnersOK
      <4>3. allocs[ownerToRoom[p]] \in 1 .. n
        BY <1>1, <2>2, <4>1 DEF Inv, RoomsOK, OwnersOK
      <4> QED BY <1>3, <4>1, <4>2, <4>3
    <3> QED BY <3>1, <3>2
  <2> QED BY <2>1, <2>2 DEF OwnersOK
<1>6. SetsOK'
  BY <1>1 DEF Inv, SetsOK
<1> QED BY <1>4, <1>5, <1>6

LEMMA ArmNextRoundInv ==
  ASSUME Inv, NEW t \in Workers, NEW r \in RoomId,
         ArmNextRound(t, r) \/ ArmNextRoundFails(t, r)
  PROVE  Inv'
<1> DEFINE c == Cur(r)
           n == Len(objs)
<1>1. /\ Known(r) /\ n < MaxObj
      /\ allocs' = [allocs EXCEPT ![r] = n + 1]
      /\ ownerToRoom' = [ownerToRoom EXCEPT ![c.owner] = r]
      /\ UNCHANGED <<nRoom, shutdown, closed, rows, mon>>
  BY DEF ArmNextRound, ArmNextRoundFails, ArmRound
<1>2. allocs[r] \in 1 .. n /\ c = objs[allocs[r]] /\ ObjOK(c, Len(procs)) /\ c.room = r
  BY <1>1, CurOK
<1>3. n \in Nat /\ Len(procs) \in Nat /\ objs \in Seq(Allocation)
  BY Sizes DEF Inv, ObjsOK
<1>4. ASSUME NEW s \in Slots
      PROVE  /\ ObjOK(NextRound(c, s), Len(procs)) /\ NextRound(c, s) \in Allocation
             /\ NextRound(c, s).room = r /\ NextRound(c, s).owner = c.owner
  BY <1>2, <1>3, NextRoundOK
<1>5. CASE ArmNextRoundFails(t, r)
  <2>1. PICK s \in Slots : objs' = Append(objs, NextRound(c, s))
    BY <1>5 DEF ArmNextRoundFails, ArmRound
  <2>2. procs' = procs /\ UNCHANGED <<th, stateFile, pidFile>>
    BY <1>5 DEF ArmNextRoundFails, bridge
  <2>3. ObjOK(NextRound(c, s), Len(procs)) /\ NextRound(c, s).room = r
        /\ NextRound(c, s).owner = c.owner /\ NextRound(c, s) \in Allocation
    BY <1>4
  <2>4. /\ objs' \in Seq(Allocation) /\ Len(objs') = n + 1
        /\ objs'[n + 1] = NextRound(c, s) /\ \A q \in 1 .. n : objs'[q] = objs[q]
    BY <1>3, <2>1, <2>3, AppendProperties
  <2>5. ObjsOK' /\ ProcsOK'
    <3>1. \A o \in 1 .. n + 1 : ObjOK(objs'[o], Len(procs))
      BY <1>3, <2>3, <2>4 DEF Inv, ObjsOK
    <3>2. ObjsOK'
      BY <1>1, <1>3, <2>2, <2>4, <3>1, SpawnerAssumption DEF ObjsOK
    <3>3. ProcsOK'
      BY <1>3, <2>2, <2>4 DEF Inv, ProcsOK
    <3> QED BY <3>2, <3>3
  <2>6. RoomsOK' /\ OwnersOK' /\ SetsOK'
    BY <1>1, <2>3, <2>4, FreshObject
  <2>7. ThreadsOK' /\ FilesOK' /\ MonsOK'
    BY <1>1, <1>3, <2>2, <2>4, ThreadsStay, FilesMonsStay
  <2> QED BY <2>5, <2>6, <2>7 DEF Inv
<1>6. CASE ArmNextRound(t, r)
  <2>1. PICK s \in Slots : objs' = Append(objs, Armed(NextRound(c, s)))
    BY <1>6 DEF ArmNextRound, ArmRound
  <2> DEFINE a == Armed(NextRound(c, s))
  <2>2. Launch(t, n + 1, c.settings)
    BY <1>6 DEF ArmNextRound
  <2>3. ObjOK(a, Len(procs) + 1) /\ a.room = r /\ a.owner = c.owner /\ a \in Allocation
    <3>1. Len(procs) + 1 \in ProcId
      BY <1>3, <2>2, SpawnerAssumption DEF Launch, ProcId
    <3>2. ObjOK(NextRound(c, s), Len(procs)) /\ NextRound(c, s).room = r
          /\ NextRound(c, s).owner = c.owner
      BY <1>4
    <3> QED BY <1>3, <3>1, <3>2, ArmedOK
  <2> HIDE DEF a
  <2>4. /\ objs' \in Seq(Allocation) /\ Len(objs') = n + 1
        /\ objs'[n + 1] = a /\ \A q \in 1 .. n : objs'[q] = objs[q]
    BY <1>3, <2>1, <2>3, AppendProperties DEF a
  <2>5. /\ Len(procs') = Len(procs) + 1
        /\ ProcsOK' /\ ThreadsOK' /\ FilesOK' /\ MonsOK'
    <3>1. t \in Threads /\ n + 1 \in 1 .. Len(objs') /\ Len(objs') <= MaxObj
          /\ c.settings \in Settings
      BY <1>1, <1>2, <1>3, <2>4, SpawnerAssumption, SMTT(30) DEF Threads, ObjOK, Allocation
    <3> QED BY <1>1, <1>3, <2>2, <2>4, <3>1, LaunchOK
  <2>6. ObjsOK'
    <3>1. \A o \in 1 .. n : ObjOK(objs'[o], Len(procs) + 1)
      BY <1>3, <2>4, OneMoreBridge DEF Inv, ObjsOK
    <3>2. \A o \in 1 .. n + 1 : ObjOK(objs'[o], Len(procs) + 1)
      BY <1>3, <2>3, <2>4, <3>1
    <3> QED BY <1>1, <1>3, <2>4, <2>5, <3>2, SpawnerAssumption DEF ObjsOK
  <2>7. RoomsOK' /\ OwnersOK' /\ SetsOK'
    BY <1>1, <2>3, <2>4, FreshObject
  <2> QED BY <2>5, <2>6, <2>7 DEF Inv
<1> QED BY <1>5, <1>6

\* arm_lobby on a room whose bridge was started before.
LEMMA ArmAgainInv ==
  ASSUME Inv, NEW t \in Workers, NEW r \in RoomId, ArmReturnsExisting(t, r)
  PROVE  Inv'
<1>1. /\ Known(r) /\ Goto(t, "armed", allocs[r], 0) /\ t \in Threads
      /\ UNCHANGED <<lobby, bridge, rows, mon>> /\ objs' = objs /\ procs' = procs
  BY DEF ArmReturnsExisting, lobby, bridge, Threads
<1>2. ThreadOK([pc |-> "armed", obj |-> allocs[r], proc |-> 0], Len(objs), Len(procs))
  BY <1>1, CurOK, ThreadAt, Sizes DEF PC
<1>3. ThreadsOK' /\ MonsOK' /\ OwnersOK'
  BY <1>1, <1>2, Sizes, ThreadsMove DEF Inv, MonsOK, OwnersOK, lobby
<1> QED BY <1>1, <1>3, ControlStep DEF lobby, Inv, SetsOK

\* The rest of arm_lobby, outside the lock.
LEMMA ArmWaitInv ==
  ASSUME Inv, NEW t \in Workers, ArmWait(t)
  PROVE  Inv'
<1>1. t \in Threads /\ Len(objs) \in Nat /\ Len(procs) \in Nat /\ ThreadOK(th[t], Len(objs), Len(procs))
  BY Sizes DEF Threads, Inv, ThreadsOK
<1>2. ASSUME UNCHANGED <<lobby, bridge, rows>>, ThreadsOK', MonsOK'
      PROVE  Inv'
  <2>1. OwnersOK'
    BY <1>2 DEF Inv, OwnersOK, lobby
  <2> QED BY <1>2, <2>1, ControlStep DEF lobby, Inv, SetsOK
<1>3. ASSUME UNCHANGED <<lobby, bridge>> PROVE objs' = objs /\ procs' = procs
  BY <1>3 DEF lobby, bridge
<1>4. CASE ArmSeesExit(t)
  <2>1. th[t].obj \in 1 .. Len(objs)
    BY <1>1, <1>4 DEF ArmSeesExit, ThreadOK
  <2>2. ThreadsOK'
    <3>1. ThreadOK([pc |-> "armExited", obj |-> th[t].obj, proc |-> 0], Len(objs), Len(procs))
      BY <1>1, <2>1, ThreadAt DEF PC
    <3> QED BY <1>1, <1>3, <1>4, <3>1, ThreadsMove DEF ArmSeesExit
  <2> QED BY <1>2, <1>3, <1>4, <2>2 DEF ArmSeesExit, Inv, MonsOK
<1>5. CASE ArmSeesListening(t)
  <2>1. th[t].obj \in 1 .. Len(objs) /\ th[t].proc \in ProcId
    BY <1>1, <1>5 DEF ArmSeesListening, ThreadOK, Thread
  <2>2. ThreadsOK'
    <3>1. ThreadOK([pc |-> "armed", obj |-> th[t].obj, proc |-> 0], Len(objs), Len(procs))
      BY <1>1, <2>1, ThreadAt DEF PC
    <3> QED BY <1>1, <1>3, <1>5, <3>1, ThreadsMove DEF ArmSeesListening
  <2>3. MonOK(MonCheck, Len(procs))
    BY <1>1 DEF MonOK, MonCheck, MonOff, Monitor, StateFile, NoFile, FileStates
  <2>4. MonsOK'
    BY <1>3, <1>5, <2>1, <2>3 DEF ArmSeesListening, Inv, MonsOK, MonOK
  <2> QED BY <1>2, <1>5, <2>2, <2>4 DEF ArmSeesListening
<1>6. CASE ArmReturns(t)
  <2>1. ThreadsOK'
    BY <1>1, <1>3, <1>6, ThreadReturns DEF ArmReturns
  <2> QED BY <1>2, <1>3, <1>6, <2>1 DEF ArmReturns, Inv, MonsOK
<1>7. CASE ArmFails(t) \/ ArmTimesOut(t)
  <2> DEFINE o == th[t].obj
             a == [objs[o] EXCEPT !.state = "FAILED"]
  <2>1. o \in 1 .. Len(objs) /\ ObjOK(objs[o], Len(procs))
    BY <1>1, <1>7 DEF ArmFails, ArmTimesOut, ThreadOK, Inv, ObjsOK
  <2>2. ObjOK(a, Len(procs)) /\ a.room = objs[o].room /\ a.owner = objs[o].owner
    BY <2>1 DEF ObjOK, Allocation, AllocStates
  <2>3. /\ SetObj(o, a)
        /\ Return(t) \/ Goto(t, "stopHeavy", o, 0)
        /\ UNCHANGED <<allocs, nRoom, ownerToRoom, shutdown, closed, bridge, rows, mon>>
    BY <1>7 DEF ArmFails, ArmTimesOut
  <2> HIDE DEF a
  <2>4. Len(objs') = Len(objs) /\ procs' = procs
    BY <2>1, <2>2, <2>3, ObjUpdate DEF bridge
  <2>5. ThreadOK([pc |-> "stopHeavy", obj |-> o, proc |-> 0], Len(objs), Len(procs))
    BY <1>1, <2>1, ThreadAt DEF PC
  <2>6. ThreadsOK' /\ MonsOK'
    BY <1>1, <2>3, <2>4, <2>5, ThreadReturns, ThreadsMove, FilesMonsStay DEF bridge
  <2> QED BY <2>1, <2>2, <2>3, <2>6, ObjectStep DEF Inv, SetsOK
<1> QED BY <1>4, <1>5, <1>6, <1>7 DEF ArmWait

\* A step that rewrites one bridge process and the files it owns.
LEMMA ProcessStep ==
  ASSUME Inv, UNCHANGED <<lobby, rows, mon>>,
         \/ UNCHANGED procs
         \/ \E p \in 1 .. Len(procs), q \in Process : q.obj = procs[p].obj /\ SetProc(p, q),
         FilesOK', ThreadsOK'
  PROVE  Inv'
<1>1. /\ procs' \in Seq(Process) /\ Len(procs') = Len(procs)
      /\ \A i \in 1 .. Len(procs) : procs'[i].obj \in 1 .. Len(objs)
  <2>1. CASE UNCHANGED procs
    BY <2>1 DEF Inv, ProcsOK
  <2>2. CASE \E p \in 1 .. Len(procs), q \in Process : q.obj = procs[p].obj /\ SetProc(p, q)
    BY <2>2, ProcUpdate
  <2> QED BY <2>1, <2>2
<1>2. ObjsOK' /\ ProcsOK' /\ RoomsOK' /\ OwnersOK' /\ SetsOK'
  BY <1>1 DEF lobby, Inv, ObjsOK, ProcsOK, RoomsOK, OwnersOK, SetsOK
<1>3. ThreadsOK' /\ MonsOK'
  BY <1>1, Sizes DEF Inv, MonsOK
<1> QED BY <1>2, <1>3 DEF Inv

LEMMA StopInv ==
  ASSUME Inv, NEW t \in Threads, StopHeavy(t) \/ StopBridge(t) \/ StopClear(t)
  PROVE  Inv'
<1> DEFINE o == th[t].obj
<1>1. /\ Len(objs) \in Nat /\ Len(procs) \in Nat
      /\ o \in 1 .. Len(objs) /\ ObjOK(objs[o], Len(procs)) /\ o \in ObjId
  <2>1. o \in 1 .. Len(objs)
    BY Sizes DEF StopHeavy, StopBridge, StopClear, Inv, ThreadsOK, ThreadOK
  <2> QED BY <2>1, Sizes, SpawnerAssumption DEF Inv, ObjsOK, ObjId
<1>2. \A pc \in {"stopBridge", "stopClear"} :
        ThreadOK([pc |-> pc, obj |-> o, proc |-> 0], Len(objs), Len(procs))
  BY <1>1, ThreadAt DEF PC
<1>3. CASE StopHeavy(t) \/ StopBridge(t)
  <2>1. /\ UNCHANGED <<lobby, stateFile, pidFile, rows, mon>> /\ objs' = objs
        /\ Goto(t, "stopBridge", o, 0) \/ Goto(t, "stopClear", o, 0)
    BY <1>3 DEF StopHeavy, StopBridge, lobby
  <2>2. \/ UNCHANGED procs
        \/ \E p \in 1 .. Len(procs), q \in Process : q.obj = procs[p].obj /\ SetProc(p, q)
    <3>1. KnownPid(o) \in 0 .. Len(procs) /\ objs[o].bridge \in 0 .. Len(procs)
      BY <1>1 DEF KnownPid, ObjOK, Inv, FilesOK
    <3>2. ASSUME NEW p \in 1 .. Len(procs)
          PROVE  /\ [procs[p] EXCEPT !.heavy = "off"] \in Process
                 /\ [procs[p] EXCEPT !.heavy = "off"].obj = procs[p].obj
                 /\ [procs[p] EXCEPT !.st = "dead"] \in Process
                 /\ [procs[p] EXCEPT !.st = "dead"].obj = procs[p].obj
      <4>1. procs[p] \in Process
        BY ElementOfSeq DEF Inv, ProcsOK
      <4> QED BY <4>1 DEF Process
    <3>3. CASE StopHeavy(t)
      <4>1. IF KnownPid(o) = 0 THEN UNCHANGED procs
            ELSE SetProc(KnownPid(o), [procs[KnownPid(o)] EXCEPT !.heavy = "off"])
        BY <3>3 DEF StopHeavy
      <4>2. CASE KnownPid(o) = 0
        BY <4>1, <4>2
      <4>3. CASE KnownPid(o) # 0
        <5>1. KnownPid(o) \in 1 .. Len(procs)
          BY <1>1, <3>1, <4>3
        <5> QED BY <3>2, <4>1, <4>3, <5>1
      <4> QED BY <4>2, <4>3
    <3>4. CASE StopBridge(t)
      <4> DEFINE p == objs[o].bridge
      <4>1. IF p = 0 THEN UNCHANGED procs ELSE SetProc(p, [procs[p] EXCEPT !.st = "dead"])
        BY <3>4 DEF StopBridge
      <4>2. CASE p = 0
        BY <4>1, <4>2
      <4>3. CASE p # 0
        <5>1. p \in 1 .. Len(procs)
          BY <1>1, <3>1, <4>3
        <5> QED BY <3>2, <4>1, <4>3, <5>1
      <4> QED BY <4>2, <4>3
    <3> QED BY <1>3, <3>3, <3>4
  <2>3. Len(procs') = Len(procs)
    BY <2>2, ProcUpdate
  <2>4. FilesOK'
    BY <2>1, <2>3 DEF Inv, FilesOK
  <2>5. ThreadsOK'
    BY <1>1, <1>2, <2>1, <2>3, ThreadsMove
  <2> QED BY <2>1, <2>2, <2>4, <2>5, ProcessStep
<1>4. CASE StopClear(t)
  <2> DEFINE a == [objs[o] EXCEPT !.bridge = 0, !.pid = 0]
  <2>1. ObjOK(a, Len(procs)) /\ a.room = objs[o].room /\ a.owner = objs[o].owner
    <3>1. objs[o] \in Allocation /\ objs[o].match \subseteq objs[o].players
      BY <1>1 DEF ObjOK
    <3>2. a \in Allocation /\ a.bridge = 0 /\ a.pid = 0 /\ a.match = objs[o].match
          /\ a.players = objs[o].players /\ a.room = objs[o].room /\ a.owner = objs[o].owner
      BY <3>1 DEF Allocation
    <3> QED BY <1>1, <3>1, <3>2 DEF ObjOK
  <2>2. /\ SetObj(o, a)
        /\ Return(t) \/ Goto(t, "sdLoop", 0, 0)
        /\ UNCHANGED <<allocs, nRoom, ownerToRoom, shutdown, closed, bridge, rows, mon>>
    BY <1>4 DEF StopClear
  <2> HIDE DEF a
  <2>3. Len(objs') = Len(objs) /\ procs' = procs
    BY <1>1, <2>1, <2>2, ObjUpdate DEF bridge
  <2>4. ThreadOK([pc |-> "sdLoop", obj |-> 0, proc |-> 0], Len(objs), Len(procs))
    BY <1>1 DEF ThreadOK, Thread, PC
  <2>5. ThreadsOK' /\ MonsOK'
    BY <1>1, <2>2, <2>3, <2>4, ThreadReturns, ThreadsMove, FilesMonsStay DEF bridge
  <2> QED BY <1>1, <2>1, <2>2, <2>5, ObjectStep DEF Inv, SetsOK
<1> QED BY <1>3, <1>4

LEMMA ShutdownInv ==
  ASSUME Inv, Shutdown
  PROVE  Inv'
<1>1. Len(objs) \in Nat /\ Len(procs) \in Nat /\ Main \in Threads
  BY Sizes DEF Threads
<1>2. \A pc \in {"sdLoop", "sdDone"} :
        ThreadOK([pc |-> pc, obj |-> 0, proc |-> 0], Len(objs), Len(procs))
  BY <1>1 DEF ThreadOK, Thread, PC
<1>3. CASE ShutdownAll
  <2>1. /\ UNCHANGED <<objs, allocs, nRoom, ownerToRoom, closed, bridge, mon>> /\ procs' = procs
        /\ Goto(Main, "sdLoop", 0, 0) /\ shutdown' = TRUE
    BY <1>3 DEF ShutdownAll, bridge
  <2>2. rows' \subseteq 1 .. Len(objs)
    BY <1>1, <1>3 DEF ShutdownAll, Inv, RoomsOK, Known
  <2>3. ThreadsOK' /\ MonsOK' /\ OwnersOK'
    BY <1>1, <1>2, <2>1, ThreadsMove DEF Inv, MonsOK, OwnersOK
  <2> QED BY <2>1, <2>2, <2>3, ControlStep DEF Inv, SetsOK
<1>4. CASE ShutdownDone
  <2>1. /\ UNCHANGED <<objs, allocs, nRoom, shutdown, closed, bridge, rows, mon>> /\ procs' = procs
        /\ Goto(Main, "sdDone", 0, 0) /\ ownerToRoom' = [p \in Players |-> 0]
    BY <1>4 DEF ShutdownDone, bridge
  <2>2. OwnersOK'
    <3>1. 0 \in 0 .. nRoom /\ \A p \in Players : ownerToRoom'[p] = 0
      BY <2>1, SpawnerAssumption DEF Inv, RoomsOK
    <3> QED BY <2>1, <3>1 DEF OwnersOK
  <2>3. ThreadsOK' /\ MonsOK'
    BY <1>1, <1>2, <2>1, ThreadsMove DEF Inv, MonsOK
  <2> QED BY <2>1, <2>2, <2>3, ControlStep DEF Inv, SetsOK
<1>5. ASSUME NEW o \in rows, ShutdownRow(o)
      PROVE  Inv'
  <2> DEFINE a == [objs[o] EXCEPT !.state = "RELEASED"]
  <2>1. o \in 1 .. Len(objs) /\ ObjOK(objs[o], Len(procs))
    BY DEF Inv, SetsOK, ObjsOK
  <2>2. ObjOK(a, Len(procs)) /\ a.room = objs[o].room /\ a.owner = objs[o].owner
    BY <2>1 DEF ObjOK, Allocation, AllocStates
  <2>3. /\ SetObj(o, a) /\ rows' = rows \ {o} /\ closed' = closed \cup {o}
        /\ UNCHANGED th \/ Goto(Main, "stopHeavy", o, 0)
        /\ UNCHANGED <<allocs, nRoom, ownerToRoom, shutdown, bridge, mon>>
    BY <1>5 DEF ShutdownRow
  <2> HIDE DEF a
  <2>4. Len(objs') = Len(objs) /\ procs' = procs
    BY <2>1, <2>2, <2>3, ObjUpdate DEF bridge
  <2>5. ThreadOK([pc |-> "stopHeavy", obj |-> o, proc |-> 0], Len(objs), Len(procs))
    BY <1>1, <2>1, ThreadAt DEF PC
  <2>6. ThreadsOK' /\ MonsOK'
    BY <1>1, <2>3, <2>4, <2>5, ThreadsStay, ThreadsMove, FilesMonsStay DEF bridge
  <2> QED BY <2>1, <2>2, <2>3, <2>6, ObjectStep DEF Inv, SetsOK
<1> QED BY <1>3, <1>4, <1>5 DEF Shutdown

\* A write of the state file that fails or is torn leaves it well-formed.
LEMMA WriteOK ==
  ASSUME Inv, NEW o, NEW f \in StateFile, f.pid \in 0 .. Len(procs), WriteState(o, f)
  PROVE  /\ stateFile' \in [ObjId -> StateFile]
         /\ \A u \in ObjId : stateFile'[u].pid \in 0 .. Len(procs)
<1>1. PICK g \in {f, stateFile[o], NoFile} : stateFile' = [stateFile EXCEPT ![o] = g]
  BY DEF WriteState
<1>2. NoFile \in StateFile /\ NoFile.pid = 0 /\ Len(procs) \in Nat
  BY Sizes DEF Inv, NoFile, StateFile, FileStates
<1>3. o \in ObjId => g \in StateFile /\ g.pid \in 0 .. Len(procs)
  BY <1>1, <1>2 DEF Inv, FilesOK
<1>4. \A u \in ObjId : stateFile'[u] = IF u = o THEN g ELSE stateFile[u]
  BY <1>1 DEF Inv, FilesOK
<1>5. stateFile' \in [ObjId -> StateFile]
  BY <1>1, <1>3 DEF Inv, FilesOK
<1> QED BY <1>3, <1>4, <1>5 DEF Inv, FilesOK

\* Publishing keeps the files well-formed.
LEMMA PublishOK ==
  ASSUME Inv, NEW p \in 1 .. Len(procs), NEW st \in FileStates, Publish(p, st),
         Len(procs') = Len(procs), UNCHANGED pidFile
  PROVE  FilesOK'
<1> DEFINE o == procs[p].obj
           v == [st |-> st, pid |-> IF procs[p].st \in {"booting", "LISTENING"} THEN 0 ELSE p]
<1>1. Len(procs) \in Nat /\ p \in ProcId
  BY Sizes, SpawnerAssumption DEF Inv, ProcsOK, ProcId
<1>2. v \in StateFile /\ v.pid \in 0 .. Len(procs)
  BY <1>1 DEF StateFile
<1>3. WriteState(o, v)
  BY DEF Publish
<1> HIDE DEF v
<1> QED BY <1>1, <1>2, <1>3, WriteOK DEF Inv, FilesOK

LEMMA BridgeInv ==
  ASSUME Inv, NEW p \in 1 .. Len(procs), BridgeStep(p)
  PROVE  Inv'
<1>1. procs[p] \in Process /\ Len(procs) \in Nat /\ procs[p].obj \in 1 .. Len(objs) /\ p \in ProcId
  BY ElementOfSeq, Sizes, SpawnerAssumption DEF Inv, ProcsOK, ProcId
<1>2. UNCHANGED <<lobby, th, rows, mon>> /\ objs' = objs
  BY DEF BridgeStep, BridgeBind, BridgeBindFails, BridgeSpawns, AfdevUp, BridgeReady,
         BridgeLive, BridgeFails, BridgeExits, lobby
<1>3. \E q \in Process : q.obj = procs[p].obj /\ SetProc(p, q)
  <2>1. \A st \in {"LISTENING", "AFDEV_READY", "READY", "failing", "dead"} :
          /\ [procs[p] EXCEPT !.st = st] \in Process
          /\ [procs[p] EXCEPT !.st = st].obj = procs[p].obj
    BY <1>1 DEF Process
  <2>2. /\ [procs[p] EXCEPT !.st = "SPAWNING", !.heavy = "boot"] \in Process
        /\ [procs[p] EXCEPT !.st = "SPAWNING", !.heavy = "boot"].obj = procs[p].obj
        /\ [procs[p] EXCEPT !.st = "dead", !.heavy = "off"] \in Process
        /\ [procs[p] EXCEPT !.st = "dead", !.heavy = "off"].obj = procs[p].obj
        /\ [procs[p] EXCEPT !.heavy = "up"] \in Process
        /\ [procs[p] EXCEPT !.heavy = "up"].obj = procs[p].obj
    BY <1>1 DEF Process
  <2> QED BY <2>1, <2>2 DEF BridgeStep, BridgeBind, BridgeBindFails, BridgeSpawns, AfdevUp,
                            BridgeReady, BridgeLive, BridgeFails, BridgeExits
<1>4. Len(procs') = Len(procs)
  BY <1>3, ProcUpdate
<1>5. FilesOK'
  <2>1. CASE UNCHANGED <<stateFile, pidFile>>
    BY <1>4, <2>1 DEF Inv, FilesOK
  <2>2. CASE UNCHANGED pidFile /\ \E st \in FileStates : Publish(p, st)
    BY <1>4, <2>2, PublishOK
  <2>3. CASE BridgeSpawns(p)
    <3> DEFINE v == [st |-> "SPAWNING", pid |-> p]
    <3>1. v \in StateFile /\ v.pid \in 0 .. Len(procs)
      BY <1>1 DEF StateFile, FileStates
    <3>2. WriteState(procs[p].obj, v)
          /\ pidFile' = [pidFile EXCEPT ![procs[p].obj] = p]
      BY <2>3 DEF BridgeSpawns
    <3> HIDE DEF v
    <3>3. /\ stateFile' \in [ObjId -> StateFile] /\ pidFile' \in [ObjId -> ProcId \cup {0}]
          /\ \A u \in ObjId : /\ stateFile'[u].pid \in 0 .. Len(procs)
                              /\ pidFile'[u] \in {pidFile[u], p}
      BY <1>1, <3>1, <3>2, WriteOK DEF Inv, FilesOK
    <3> QED BY <1>1, <1>4, <3>3 DEF Inv, FilesOK
  <2> QED BY <2>1, <2>2, <2>3 DEF BridgeStep, BridgeBind, BridgeBindFails, AfdevUp, BridgeReady,
                                  BridgeLive, BridgeFails, BridgeExits, FileStates
<1>6. ThreadsOK'
  BY <1>1, <1>2, <1>4, Sizes, ThreadsStay
<1> QED BY <1>2, <1>3, <1>5, <1>6, ProcessStep

LEMMA MonitorInv ==
  ASSUME Inv, NEW p \in 1 .. Len(procs), MonitorStep(p)
  PROVE  Inv'
<1> DEFINE o == MonObj(p)
<1>1. /\ Len(objs) \in Nat /\ Len(procs) \in Nat /\ p \in ProcId
      /\ o \in 1 .. Len(objs) /\ ObjOK(objs[o], Len(procs)) /\ o \in ObjId
      /\ MonOK(mon[p], Len(procs))
  <2>1. o \in 1 .. Len(objs) /\ p \in ProcId
    BY Sizes, SpawnerAssumption DEF MonObj, Inv, ProcsOK, ProcId
  <2> QED BY <2>1, Sizes, SpawnerAssumption DEF Inv, ObjsOK, ObjId, MonsOK
<1>2. MonOK(MonOff, Len(procs)) /\ MonOK(MonCheck, Len(procs))
  BY <1>1 DEF MonOK, Monitor, MonOff, MonCheck, StateFile, NoFile, FileStates
<1>3. ASSUME NEW m, MonOK(m, Len(procs)), SetMon(p, m), UNCHANGED bridge
      PROVE  MonsOK'
  <2>1. procs' = procs
    BY <1>3 DEF bridge
  <2> QED BY <1>1, <1>3, <2>1 DEF SetMon, Inv, MonsOK, MonOK
<1>4. ASSUME UNCHANGED <<lobby, bridge, th, rows>>, MonsOK'
      PROVE  Inv'
  <2>1. objs' = objs /\ procs' = procs
    BY <1>4 DEF lobby, bridge
  <2>2. ThreadsOK' /\ OwnersOK'
    BY <1>1, <1>4, <2>1, ThreadsStay DEF Inv, OwnersOK, lobby
  <2> QED BY <1>4, <2>2, ControlStep DEF lobby, Inv, SetsOK
<1>5. ASSUME NEW a, ObjOK(a, Len(procs)), a.room = objs[o].room, a.owner = objs[o].owner,
             SetObj(o, a), MonsOK',
             UNCHANGED <<allocs, nRoom, ownerToRoom, shutdown, closed, bridge, th, rows>>
      PROVE  Inv'
  <2>1. Len(objs') = Len(objs) /\ procs' = procs
    BY <1>1, <1>5, ObjUpdate DEF bridge
  <2>2. ThreadsOK'
    BY <1>1, <1>5, <2>1, ThreadsStay
  <2> QED BY <1>1, <1>5, <2>2, ObjectStep DEF Inv, SetsOK
<1>6. CASE MonitorChecks(p)
  <2> DEFINE m == [pc |-> "poll", proc |-> objs[o].bridge, file |-> NoFile]
  <2>1. MonOK(m, Len(procs))
    BY <1>1 DEF MonOK, Monitor, StateFile, NoFile, FileStates, ObjOK, Allocation
  <2>2. SetMon(p, m) \/ SetMon(p, MonOff)
    BY <1>6 DEF MonitorChecks
  <2> HIDE DEF m
  <2> QED BY <1>2, <1>3, <1>4, <1>6, <2>1, <2>2 DEF MonitorChecks
<1>7. CASE MonitorReads(p)
  <2> DEFINE m == [mon[p] EXCEPT !.pc = "apply", !.file = stateFile[o]]
  <2>1. stateFile[o] \in StateFile /\ stateFile[o].pid \in 0 .. Len(procs)
    BY <1>1 DEF Inv, FilesOK
  <2>2. CASE stateFile[o].st = "none"
    <3>1. SetMon(p, MonCheck)
      BY <1>7, <2>2 DEF MonitorReads
    <3> QED BY <1>2, <1>3, <1>4, <1>7, <3>1 DEF MonitorReads
  <2>3. CASE stateFile[o].st # "none"
    <3>1. MonOK(m, Len(procs))
      BY <1>1, <2>1, <2>3 DEF MonOK, Monitor
    <3>2. SetMon(p, m)
      BY <1>7, <2>3 DEF MonitorReads
    <3> QED BY <1>3, <1>4, <1>7, <3>1, <3>2 DEF MonitorReads
  <2> QED BY <2>2, <2>3
<1>8. CASE MonitorSeesExit(p)
  <2> DEFINE a == [objs[o] EXCEPT !.state = "FAILED"]
  <2>1. ObjOK(a, Len(procs)) /\ a.room = objs[o].room /\ a.owner = objs[o].owner
    BY <1>1 DEF ObjOK, Allocation, AllocStates
  <2>2. SetObj(o, a) \/ UNCHANGED objs
    BY <1>8 DEF MonitorSeesExit
  <2> HIDE DEF a
  <2>3. /\ UNCHANGED <<allocs, nRoom, ownerToRoom, shutdown, closed, bridge, th, rows>>
        /\ MonsOK'
    BY <1>2, <1>3, <1>8 DEF MonitorSeesExit
  <2> QED BY <1>4, <1>5, <2>1, <2>2, <2>3 DEF lobby
<1>9. CASE MonitorApplies(p)
  <2> DEFINE f == mon[p].file
             a == Applied(objs[o], f)
  <2>1. f \in StateFile /\ f.st # "none" /\ f.pid \in 0 .. Len(procs) /\ objs[o] \in Allocation
    BY <1>1, <1>9 DEF MonOK, Monitor, ObjOK, MonitorApplies
  <2>2. a \in Allocation /\ a.pid \in {f.pid, objs[o].pid} /\ a.bridge = objs[o].bridge
        /\ a.match = objs[o].match /\ a.players = objs[o].players
        /\ a.room = objs[o].room /\ a.owner = objs[o].owner
    BY <2>1 DEF Applied, Allocation, StateFile, FileStates, AllocStates
  <2>3. ObjOK(a, Len(procs))
    BY <1>1, <2>1, <2>2 DEF ObjOK
  <2>4. SetObj(o, a)
    BY <1>9 DEF MonitorApplies
  <2> HIDE DEF a
  <2>5. /\ UNCHANGED <<allocs, nRoom, ownerToRoom, shutdown, closed, bridge, th, rows>>
        /\ MonsOK'
    BY <1>2, <1>3, <1>9 DEF MonitorApplies
  <2> QED BY <1>5, <2>2, <2>3, <2>4, <2>5
<1> QED BY <1>6, <1>7, <1>8, <1>9 DEF MonitorStep

-----------------------------------------------------------------------------
(* The theorems                                                            *)

LEMMA NextInv == Inv /\ [Next]_vars => Inv'
<1> SUFFICES ASSUME Inv, [Next]_vars PROVE Inv'
  OBVIOUS
<1>1. ASSUME NEW t \in Workers, Request(t) PROVE Inv'
  <2>1. ASSUME NEW p \in Players, NEW set \in Settings, ReserveLobby(t, p, set) PROVE Inv'
    BY <2>1, ReserveInv
  <2>2. ASSUME NEW r \in RoomId, NEW set \in Settings, UpdateSettings(t, r, set) PROVE Inv'
    BY <2>2, BookkeepingInv
  <2>3. ASSUME NEW r \in RoomId, NEW p \in Players,
               RegisterRoomPlayer(t, r, p) \/ MarkPlayerInMatch(t, r, p)
        PROVE  Inv'
    BY <2>3, BookkeepingInv
  <2>4. ASSUME NEW r \in RoomId, NEW p \in Players,
               \/ PrepareSettingsUpdate(t, r, p) \/ QuitMatchPlayer(t, r, p)
               \/ RemoveRoomPlayer(t, r, p)
        PROVE  Inv'
    BY <2>4, LeaveInv
  <2>5. ASSUME NEW r \in RoomId, NEW p \in Players \cup {0}, BeginMatch(t, r, p) PROVE Inv'
    BY <2>5, BookkeepingInv
  <2>6. ASSUME NEW r \in RoomId,
               \/ ArmReturnsExisting(t, r) \/ ArmLaunches(t, r)
               \/ ArmNextRound(t, r) \/ ArmNextRoundFails(t, r)
        PROVE  Inv'
    BY <2>6, ArmAgainInv, ArmLaunchesInv, ArmNextRoundInv
  <2> QED BY <1>1, <2>1, <2>2, <2>3, <2>4, <2>5, <2>6 DEF Request
<1>2. ASSUME NEW t \in Threads, Teardown(t) PROVE Inv'
  BY <1>2, TeardownEntryInv, StopInv DEF Teardown
<1>3. ASSUME NEW t \in Workers, ArmWait(t) PROVE Inv'
  BY <1>3, ArmWaitInv
<1>4. CASE Shutdown
  BY <1>4, ShutdownInv
<1>5. ASSUME NEW p \in DOMAIN procs, BridgeStep(p) \/ MonitorStep(p) PROVE Inv'
  <2>1. p \in 1 .. Len(procs)
    BY LenProperties DEF Inv, ProcsOK
  <2> QED BY <1>5, <2>1, BridgeInv, MonitorInv
<1>6. CASE UNCHANGED vars
  BY <1>6 DEF vars, lobby, bridge, Inv, ObjsOK, ProcsOK, RoomsOK, OwnersOK, SetsOK,
              ThreadsOK, FilesOK, MonsOK
<1> QED BY <1>1, <1>2, <1>3, <1>4, <1>5, <1>6 DEF Next

\* The inductive invariant: the record of every room, process and thread stays
\* well formed and the maps of the allocator point where their keys say.
THEOREM SpecInv == Spec => []Inv
BY InitInv, NextInv, PTL DEF Spec

\* The type invariant holds for every instance of the allocator.
THEOREM TypeCorrect == Spec => []TypeOK
BY SpecInv, InvImplies, PTL

\* Match players are room members: for any number of rooms, players and threads.
THEOREM MatchStaysInRoom == Spec => []MatchInRoom
BY SpecInv, InvImplies, PTL

\* _owner_to_room never names somebody else's room, whatever is interleaved.
THEOREM OwnerMapStaysSound == Spec => []OwnerMapSound
BY SpecInv, InvImplies, PTL

-----------------------------------------------------------------------------
(* Rounds: slots and settings.  What is not torn down is neither released  *)
(* nor ended, so that a slot it has counts as occupied; a room that is     *)
(* still RESERVED has no bridge, so that new settings reach none.          *)

Over == {"RELEASED", "ROUND_ENDED"}
OpenOK == \A o \in 1 .. Len(objs) : o \notin closed => objs[o].state \notin Over
ReservedOK == \A o \in 1 .. Len(objs) : objs[o].state = "RESERVED" => objs[o].bridge = 0
SettingsOK ==
  \A o \in 1 .. Len(objs) : o \notin closed /\ objs[o].bridge # 0 =>
     procs[objs[o].bridge].settings = objs[o].settings
RoundInv == OpenOK /\ ReservedOK /\ SettingsOK /\ FreshSlotsExclusive

\* The bridges that were started keep what they were started with.
SameStart == \A i \in 1 .. Len(procs) : procs'[i].settings = procs[i].settings

\* An object rewritten in place.
LEMMA RoundObject ==
  ASSUME Inv, RoundInv, NEW o \in 1 .. Len(objs), NEW a \in Allocation, SetObj(o, a),
         UNCHANGED allocs, SameStart, closed \subseteq closed', a.slot = objs[o].slot,
         a.state = "RESERVED" => a.bridge = 0,
         o \notin closed' => a.state \notin Over,
         o \notin closed' /\ a.bridge # 0 => procs'[a.bridge].settings = a.settings
  PROVE  RoundInv'
<1>1. /\ Len(objs') = Len(objs)
      /\ \A q \in 1 .. Len(objs) : objs'[q] = IF q = o THEN a ELSE objs[q]
  BY ExceptSeq DEF Inv, ObjsOK, SetObj
<1>2. \A q \in 1 .. Len(objs) : objs[q].bridge \in 0 .. Len(procs) /\ Len(procs) \in Nat
  BY Sizes DEF Inv, ObjsOK, ObjOK
<1>3. ASSUME NEW q \in 1 .. Len(objs)
      PROVE  /\ q \notin closed' => objs'[q].state \notin Over
             /\ objs'[q].state = "RESERVED" => objs'[q].bridge = 0
             /\ q \notin closed' /\ objs'[q].bridge # 0 =>
                  procs'[objs'[q].bridge].settings = objs'[q].settings
  <2>1. CASE q = o
    <3>1. objs'[q] = a
      BY <1>1, <2>1
    <3> QED BY <2>1, <3>1
  <2>2. CASE q # o
    <3>1. objs'[q] = objs[q]
      BY <1>1, <2>2
    <3>2. q \notin closed' => q \notin closed
      OBVIOUS
    <3>3. /\ q \notin closed => objs[q].state \notin Over
          /\ objs[q].state = "RESERVED" => objs[q].bridge = 0
          /\ q \notin closed /\ objs[q].bridge # 0 =>
               procs[objs[q].bridge].settings = objs[q].settings
      BY DEF RoundInv, OpenOK, ReservedOK, SettingsOK
    <3>4. objs[q].bridge # 0 =>
            procs'[objs[q].bridge].settings = procs[objs[q].bridge].settings
      BY <1>2 DEF SameStart
    <3> QED BY <3>1, <3>2, <3>3, <3>4
  <2> QED BY <2>1, <2>2
<1>4. OpenOK' /\ ReservedOK' /\ SettingsOK'
  BY <1>1, <1>3 DEF OpenOK, ReservedOK, SettingsOK
<1>5. \A r \in RoomId : Known(r) => allocs[r] \in 1 .. Len(objs)
  BY CurOK
<1>6. FreshSlotsExclusive'
  BY <1>1, <1>5 DEF RoundInv, FreshSlotsExclusive, Known, Cur
<1> QED BY <1>4, <1>6 DEF RoundInv

\* A step that changes at most the bridges, and not what they were started with.
LEMMA RoundRest ==
  ASSUME Inv, RoundInv, UNCHANGED <<objs, allocs>>, SameStart, closed \subseteq closed'
  PROVE  RoundInv'
<1>1. \A q \in 1 .. Len(objs) : objs[q].bridge \in 0 .. Len(procs) /\ Len(procs) \in Nat
  BY Sizes DEF Inv, ObjsOK, ObjOK
<1>2. SettingsOK'
  BY <1>1 DEF RoundInv, SettingsOK, SameStart
<1>3. OpenOK' /\ ReservedOK' /\ FreshSlotsExclusive'
  BY DEF RoundInv, OpenOK, ReservedOK, FreshSlotsExclusive, Known, Cur
<1> QED BY <1>2, <1>3 DEF RoundInv

\* A new object, in a slot that nobody occupies.
LEMMA RoundAppend ==
  ASSUME Inv, RoundInv, NEW a \in Allocation, objs' = Append(objs, a), NEW r \in RoomId,
         allocs' = [allocs EXCEPT ![r] = Len(objs) + 1], UNCHANGED closed, SameStart,
         a.slot \notin Occupied, a.state \notin Over, a.state = "RESERVED" => a.bridge = 0,
         a.bridge # 0 => procs'[a.bridge].settings = a.settings
  PROVE  RoundInv'
<1>0. objs \in Seq(Allocation) /\ Len(objs) \in Nat /\ Len(procs) \in Nat
  BY Sizes DEF Inv, ObjsOK
<1>1. /\ Len(objs') = Len(objs) + 1 /\ objs'[Len(objs) + 1] = a
      /\ \A q \in 1 .. Len(objs) : objs'[q] = objs[q]
  BY <1>0, AppendProperties
<1>2. \A q \in 1 .. Len(objs') : q \in 1 .. Len(objs) \/ q = Len(objs) + 1
  BY <1>0, <1>1
<1>3. OpenOK' /\ ReservedOK'
  BY <1>1, <1>2 DEF RoundInv, OpenOK, ReservedOK
<1>4. SettingsOK'
  <2>1. \A q \in 1 .. Len(objs) : objs[q].bridge \in 0 .. Len(procs)
    BY DEF Inv, ObjsOK, ObjOK
  <2>2. ASSUME NEW q \in 1 .. Len(objs), q \notin closed, objs[q].bridge # 0
        PROVE  procs'[objs[q].bridge].settings = objs[q].settings
    BY <1>0, <2>1, <2>2 DEF RoundInv, SettingsOK, SameStart
  <2> QED BY <1>1, <1>2, <2>2 DEF SettingsOK
<1>5. FreshSlotsExclusive'
  <2>1. /\ allocs'[r] = Len(objs) + 1
        /\ \A q \in RoomId : q # r => allocs'[q] = allocs[q]
    BY DEF Inv, RoomsOK
  <2>2. \A q \in RoomId : Known(q) => allocs[q] \in 1 .. Len(objs)
    BY CurOK
  <2>3. \A q \in RoomId : q # r /\ Known(q) /\ allocs[q] \notin closed => objs[allocs[q]].slot # a.slot
    BY <2>2 DEF RoundInv, OpenOK, Over, Occupied, Cur
  <2>4. \A q \in RoomId : q # r => (Known(q)' <=> Known(q)) /\ (Known(q) => Cur(q)' = Cur(q))
    BY <1>1, <2>1, <2>2 DEF Known, Cur
  <2>5. Cur(r)' = a
    BY <1>1, <2>1 DEF Cur
  <2>6. ASSUME NEW q \in RoomId, NEW p \in RoomId, q # p, Known(q)', Known(p)',
               allocs'[q] \notin closed, allocs'[p] \notin closed
        PROVE  Cur(q)'.slot # Cur(p)'.slot
    <3>1. CASE q = r
      <4>1. Cur(q)' = a
        BY <2>5, <3>1
      <4>2. p # r /\ Known(p) /\ allocs[p] \notin closed /\ Cur(p)' = objs[allocs[p]]
        BY <2>1, <2>4, <2>6, <3>1 DEF Cur
      <4> QED BY <2>3, <4>1, <4>2
    <3>2. CASE p = r
      BY <2>1, <2>3, <2>4, <2>5, <2>6, <3>2 DEF Cur
    <3>3. CASE q # r /\ p # r
      BY <2>1, <2>4, <2>6, <3>3 DEF RoundInv, FreshSlotsExclusive
    <3> QED BY <3>1, <3>2, <3>3
  <2> QED BY <2>6 DEF FreshSlotsExclusive
<1> QED BY <1>3, <1>4, <1>5 DEF RoundInv

\* An object that keeps its slot and settings, and its bridge unless that was
\* cleared, moves on in its round or is torn down.
LEMMA RoundTouch ==
  ASSUME Inv, RoundInv, NEW o \in 1 .. Len(objs), NEW a \in Allocation, SetObj(o, a),
         UNCHANGED <<allocs, procs>>, closed \subseteq closed',
         a.slot = objs[o].slot, a.settings = objs[o].settings, a.bridge \in {0, objs[o].bridge},
         \/ a.state = objs[o].state
         \/ a.state \in {"STARTING", "AFDEV_READY", "READY", "FAILED"}
         \/ a.state \in Over /\ o \in closed'
  PROVE  RoundInv'
<1>1. /\ o \notin closed => objs[o].state \notin Over
      /\ objs[o].state = "RESERVED" => objs[o].bridge = 0
      /\ o \notin closed /\ objs[o].bridge # 0 =>
           procs[objs[o].bridge].settings = objs[o].settings
  BY DEF RoundInv, OpenOK, ReservedOK, SettingsOK
<1>2. o \notin closed' => o \notin closed
  OBVIOUS
<1>3. a.state = "RESERVED" => a.bridge = 0
  BY <1>1 DEF Over
<1>4. o \notin closed' => a.state \notin Over
  BY <1>1, <1>2 DEF Over
<1>5. o \notin closed' /\ a.bridge # 0 => procs'[a.bridge].settings = a.settings
  BY <1>1, <1>2
<1>6. SameStart
  BY DEF SameStart
<1> QED BY <1>3, <1>4, <1>5, <1>6, RoundObject

LEMMA RoundInit == Init => RoundInv
<1> SUFFICES ASSUME Init PROVE RoundInv
  OBVIOUS
<1>1. Len(objs) = 0 /\ allocs = [r \in RoomId |-> 0]
  BY EmptySeq DEF Init
<1>2. OpenOK /\ ReservedOK /\ SettingsOK
  BY <1>1 DEF OpenOK, ReservedOK, SettingsOK
<1>3. FreshSlotsExclusive
  BY <1>1 DEF FreshSlotsExclusive, Known
<1> QED BY <1>2, <1>3 DEF RoundInv

\* Settings and membership calls, and the decisions taken in them: new settings
\* reach a room that is RESERVED, without a bridge, or one that is torn down.
LEMMA BookkeepingRound ==
  ASSUME Inv, RoundInv, NEW t \in Workers, NEW r \in RoomId, NEW p, NEW set, NEW starter,
         \/ set \in Settings /\ UpdateSettings(t, r, set)
         \/ p \in Players /\ RegisterRoomPlayer(t, r, p)
         \/ p \in Players /\ MarkPlayerInMatch(t, r, p)
         \/ starter \in Players \cup {0} /\ BeginMatch(t, r, starter)
         \/ p \in Players /\ QuitMatchPlayer(t, r, p)
         \/ p \in Players /\ RemoveRoomPlayer(t, r, p)
  PROVE  RoundInv'
<1> DEFINE c == Cur(r)
<1>1. Known(r)
  BY DEF UpdateSettings, RegisterRoomPlayer, MarkPlayerInMatch, BeginMatch, QuitMatchPlayer,
         RemoveRoomPlayer, LiveRoom
<1>2. /\ allocs[r] \in 1 .. Len(objs) /\ c = objs[allocs[r]]
      /\ c \in Allocation /\ c.match \subseteq c.players
  BY <1>1, CurOK DEF ObjOK
<1>3. UNCHANGED <<allocs, closed>> /\ procs' = procs
  BY DEF UpdateSettings, RegisterRoomPlayer, MarkPlayerInMatch, BeginMatch, QuitMatchPlayer,
         RemoveRoomPlayer, bridge
<1>4. CASE set \in Settings /\ UpdateSettings(t, r, set)
  <2> DEFINE a == [c EXCEPT !.settings = set]
  <2>1. SetObj(allocs[r], a) /\ c.state \in {"RESERVED", "ROUND_ENDED"}
    BY <1>4 DEF UpdateSettings
  <2>2. a \in Allocation /\ a.slot = c.slot /\ a.state = c.state /\ a.bridge = c.bridge
    BY <1>2, <1>4 DEF Allocation
  <2> HIDE DEF a
  <2>3. /\ allocs[r] \notin closed => c.state \notin Over
        /\ c.state = "RESERVED" => c.bridge = 0
    BY <1>2 DEF RoundInv, OpenOK, ReservedOK
  <2>4. allocs[r] \notin closed => a.bridge = 0
    BY <2>1, <2>2, <2>3 DEF Over
  <2> QED BY <1>2, <1>3, <2>1, <2>2, <2>3, <2>4, RoundObject DEF SameStart
<1>5. CASE ~(set \in Settings /\ UpdateSettings(t, r, set))
  <2> DEFINE Rewrites(a) == /\ a \in Allocation /\ SetObj(allocs[r], a)
                            /\ a.slot = c.slot /\ a.settings = c.settings
                            /\ a.bridge = c.bridge /\ a.state = c.state
  <2>1. ASSUME NEW mem \in SUBSET Players, NEW mat \in SUBSET Players, NEW own \in Players
        PROVE  /\ SetObj(allocs[r], [c EXCEPT !.players = mem]) => \E a : Rewrites(a)
               /\ SetObj(allocs[r], [c EXCEPT !.match = mat]) => \E a : Rewrites(a)
               /\ SetObj(allocs[r], [c EXCEPT !.players = mem, !.match = mat])
                    => \E a : Rewrites(a)
               /\ SetObj(allocs[r], [c EXCEPT !.players = mem, !.match = mat, !.owner = own])
                    => \E a : Rewrites(a)
    <3>1. Rewrites([c EXCEPT !.players = mem]) <=> SetObj(allocs[r], [c EXCEPT !.players = mem])
      BY <1>2 DEF Allocation
    <3>2. Rewrites([c EXCEPT !.match = mat]) <=> SetObj(allocs[r], [c EXCEPT !.match = mat])
      BY <1>2 DEF Allocation
    <3>3. Rewrites([c EXCEPT !.players = mem, !.match = mat])
            <=> SetObj(allocs[r], [c EXCEPT !.players = mem, !.match = mat])
      BY <1>2 DEF Allocation
    <3>4. Rewrites([c EXCEPT !.players = mem, !.match = mat, !.owner = own])
            <=> SetObj(allocs[r], [c EXCEPT !.players = mem, !.match = mat, !.owner = own])
      BY <1>2 DEF Allocation
    <3> HIDE DEF Rewrites
    <3> QED BY <3>1, <3>2, <3>3, <3>4
  <2>2. c.players \in SUBSET Players /\ c.match \in SUBSET Players /\ c.owner \in Players
    BY <1>2 DEF Allocation
  <2> HIDE DEF Rewrites
  <2>3. CASE p \in Players /\ RegisterRoomPlayer(t, r, p)
    <3>1. SetObj(allocs[r], [c EXCEPT !.players = c.players \cup {p}])
      BY <2>3 DEF RegisterRoomPlayer
    <3> QED
      <4>1. c.players \cup {p} \in SUBSET Players BY <2>2, <2>3
      <4>2. \E a : Rewrites(a) BY <2>1, <2>2, <3>1, <4>1
      <4> QED BY <1>2, <1>3, <4>2, RoundTouch DEF Rewrites
  <2>4. CASE p \in Players /\ MarkPlayerInMatch(t, r, p)
    <3>1. SetObj(allocs[r], [c EXCEPT !.players = c.players \cup {p},
                                      !.match = c.match \cup {p}])
      BY <2>4 DEF MarkPlayerInMatch
    <3>2. c.players \cup {p} \in SUBSET Players /\ c.match \cup {p} \in SUBSET Players
      BY <2>2, <2>4
    <3>3. \E a : Rewrites(a) BY <2>1, <2>2, <3>1, <3>2
    <3> QED BY <1>2, <1>3, <3>3, RoundTouch DEF Rewrites
  <2>5. CASE starter \in Players \cup {0} /\ BeginMatch(t, r, starter)
    <3> DEFINE joined == {starter} \ {0}
               members == c.players \cup joined
               new == c.state \in {"RESERVED", "ROUND_ENDED"} \/ c.match = {}
               match == IF new THEN members ELSE c.match \cup joined
    <3>1. SetObj(allocs[r], [c EXCEPT !.players = members, !.match = match])
      BY <2>5 DEF BeginMatch
    <3>2. members \in SUBSET Players /\ match \in SUBSET Players
      BY <2>2, <2>5
    <3> HIDE DEF members, match
    <3>3. \E a : Rewrites(a) BY <2>1, <2>2, <3>1, <3>2
    <3> QED BY <1>2, <1>3, <3>3, RoundTouch DEF Rewrites
  <2>6. CASE p \in Players /\ QuitMatchPlayer(t, r, p)
    <3>1. SetObj(allocs[r], [c EXCEPT !.match = c.match \ {p}])
      BY <2>6 DEF QuitMatchPlayer
    <3>2. c.match \ {p} \in SUBSET Players BY <2>2
    <3>3. \E a : Rewrites(a) BY <2>1, <2>2, <3>1, <3>2
    <3> QED BY <1>2, <1>3, <3>3, RoundTouch DEF Rewrites
  <2>7. CASE p \in Players /\ RemoveRoomPlayer(t, r, p)
    <3> DEFINE stay == c.players \ {p}
               match == c.match \ {p}
    <3>1. \/ \E heir \in stay :
               SetObj(allocs[r], [c EXCEPT !.players = stay, !.match = match, !.owner = heir])
          \/ SetObj(allocs[r], [c EXCEPT !.players = stay, !.match = match])
      BY <2>7 DEF RemoveRoomPlayer
    <3>2. stay \in SUBSET Players /\ match \in SUBSET Players
      BY <2>2
    <3> HIDE DEF stay, match
    <3>3. \E a : Rewrites(a) BY <2>1, <2>2, <3>1, <3>2
    <3> QED BY <1>2, <1>3, <3>3, RoundTouch DEF Rewrites
  <2> QED BY <1>5, <2>3, <2>4, <2>5, <2>6, <2>7
<1> QED BY <1>4, <1>5

\* reserve_lobby takes a slot that is free.
LEMMA ReserveRound ==
  ASSUME Inv, RoundInv, NEW t \in Workers, NEW p \in Players, NEW set \in Settings,
         ReserveLobby(t, p, set)
  PROVE  RoundInv'
<1>1. PICK s \in Slots :
        /\ ChosenSlot(s)
        /\ objs' = Append(objs,
             [room |-> nRoom + 1, slot |-> s, owner |-> p, settings |-> set,
              state |-> "RESERVED", players |-> {p}, match |-> {}, gen |-> 0,
              bridge |-> 0, pid |-> 0])
  BY DEF ReserveLobby
<1> DEFINE a == [room |-> nRoom + 1, slot |-> s, owner |-> p, settings |-> set,
                 state |-> "RESERVED", players |-> {p}, match |-> {}, gen |-> 0,
                 bridge |-> 0, pid |-> 0]
<1>2. /\ nRoom < MaxRooms /\ allocs' = [allocs EXCEPT ![nRoom + 1] = Len(objs) + 1]
      /\ UNCHANGED closed /\ procs' = procs
  BY DEF ReserveLobby, bridge
<1>3. nRoom + 1 \in RoomId
  BY <1>2, SpawnerAssumption DEF Inv, RoomsOK, RoomId
<1>4. /\ a \in Allocation /\ a.slot = s /\ a.state = "RESERVED" /\ a.bridge = 0
  BY <1>3 DEF Allocation, AllocStates
<1>5. objs' = Append(objs, a)
  BY <1>1
<1> HIDE DEF a
<1>6. s \notin Occupied
  BY <1>1 DEF ChosenSlot, Choosable
<1>7. SameStart /\ "RESERVED" \notin Over
  BY <1>2 DEF SameStart, Over
<1> QED BY <1>2, <1>3, <1>4, <1>5, <1>6, <1>7, RoundAppend

\* The bridge that arm_lobby starts gets the settings its room shows.
LEMMA LaunchStart ==
  ASSUME Inv, NEW t, NEW o \in ObjId, NEW set \in Settings, Launch(t, o, set)
  PROVE  /\ SameStart /\ Len(procs) + 1 \in ProcId
         /\ procs'[Len(procs) + 1].settings = set
<1> DEFINE q == [obj |-> o, settings |-> set, heavy |-> "off", st |-> "booting"]
<1>1. Len(procs) < MaxProc /\ procs' = Append(procs, q)
  BY DEF Launch
<1>2. q \in Process /\ q.settings = set
  BY DEF Process
<1> HIDE DEF q
<1>3. Len(procs) \in Nat /\ procs \in Seq(Process)
  BY Sizes DEF Inv, ProcsOK
<1>4. /\ procs'[Len(procs) + 1] = q
      /\ \A i \in 1 .. Len(procs) : procs'[i] = procs[i]
  BY <1>1, <1>2, <1>3, AppendProperties
<1> QED BY <1>1, <1>2, <1>3, <1>4, SpawnerAssumption DEF SameStart, ProcId

\* What arming changes in an object.
LEMMA ArmedRound ==
  ASSUME NEW c \in Allocation, Len(procs) \in Nat, Len(procs) + 1 \in ProcId
  PROVE  /\ Armed(c) \in Allocation
         /\ Armed(c).slot = c.slot /\ Armed(c).settings = c.settings
         /\ Armed(c).state = "ARMED" /\ Armed(c).bridge = Len(procs) + 1
BY DEF Armed, Allocation, AllocStates

LEMMA NextRoundFresh ==
  ASSUME NEW c \in Allocation, NEW s \in Slots
  PROVE  /\ NextRound(c, s) \in Allocation
         /\ NextRound(c, s).slot = s /\ NextRound(c, s).settings = c.settings
         /\ NextRound(c, s).state = "RESERVED" /\ NextRound(c, s).bridge = 0
<1>1. c.gen + 1 \in Nat
  BY DEF Allocation
<1> QED BY <1>1 DEF NextRound, Allocation, AllocStates

LEMMA ArmLaunchesRound ==
  ASSUME Inv, RoundInv, NEW t \in Workers, NEW r \in RoomId, ArmLaunches(t, r)
  PROVE  RoundInv'
<1> DEFINE c == Cur(r)
<1>1. /\ Known(r) /\ SetObj(allocs[r], Armed(c)) /\ Launch(t, allocs[r], c.settings)
      /\ UNCHANGED <<allocs, closed>>
  BY DEF ArmLaunches
<1>2. /\ allocs[r] \in 1 .. Len(objs) /\ c = objs[allocs[r]] /\ c \in Allocation
      /\ allocs[r] \in ObjId /\ c.settings \in Settings
  <2>1. allocs[r] \in 1 .. Len(objs) /\ c = objs[allocs[r]] /\ c \in Allocation
    BY <1>1, CurOK DEF ObjOK
  <2>2. allocs[r] \in ObjId
    BY <2>1, Sizes, SpawnerAssumption DEF Inv, ObjsOK, ObjId
  <2> QED BY <2>1, <2>2 DEF Allocation
<1>3. /\ SameStart /\ Len(procs) + 1 \in ProcId
      /\ procs'[Len(procs) + 1].settings = c.settings
  BY <1>1, <1>2, LaunchStart
<1>4. /\ Armed(c) \in Allocation
      /\ Armed(c).slot = c.slot /\ Armed(c).settings = c.settings
      /\ Armed(c).state = "ARMED" /\ Armed(c).bridge = Len(procs) + 1
  BY <1>2, <1>3, Sizes, ArmedRound
<1>5. "ARMED" \notin Over /\ "ARMED" # "RESERVED"
  BY DEF Over
<1> HIDE DEF c
<1> QED BY <1>1, <1>2, <1>3, <1>4, <1>5, RoundObject

LEMMA ArmNextRoundRound ==
  ASSUME Inv, RoundInv, NEW t \in Workers, NEW r \in RoomId,
         ArmNextRound(t, r) \/ ArmNextRoundFails(t, r)
  PROVE  RoundInv'
<1> DEFINE c == Cur(r)
<1>1. /\ Known(r) /\ Len(objs) < MaxObj /\ UNCHANGED closed
      /\ allocs' = [allocs EXCEPT ![r] = Len(objs) + 1]
  BY DEF ArmNextRound, ArmNextRoundFails, ArmRound
<1>2. /\ c \in Allocation /\ c.settings \in Settings
      /\ Len(objs) \in Nat /\ Len(procs) \in Nat /\ Len(objs) + 1 \in ObjId
  BY <1>1, CurOK, Sizes, SpawnerAssumption DEF ObjOK, ObjId, Allocation
<1>3. ASSUME NEW s \in Slots
      PROVE  /\ NextRound(c, s) \in Allocation
             /\ NextRound(c, s).slot = s /\ NextRound(c, s).settings = c.settings
             /\ NextRound(c, s).state = "RESERVED" /\ NextRound(c, s).bridge = 0
  BY <1>2, NextRoundFresh
<1>4. "ARMED" \notin Over /\ "ARMED" # "RESERVED" /\ "RESERVED" \notin Over
  BY DEF Over
<1> HIDE DEF c
<1>5. CASE ArmNextRoundFails(t, r)
  <2>1. PICK s \in Slots : ChosenSlot(s) /\ objs' = Append(objs, NextRound(c, s))
    BY <1>5 DEF ArmNextRoundFails, ArmRound, c
  <2>2. SameStart /\ s \notin Occupied
    BY <1>5, <2>1 DEF ArmNextRoundFails, bridge, SameStart, ChosenSlot, Choosable
  <2> QED BY <1>1, <1>3, <1>4, <2>1, <2>2, RoundAppend
<1>6. CASE ArmNextRound(t, r)
  <2>1. PICK s \in Slots : ChosenSlot(s) /\ objs' = Append(objs, Armed(NextRound(c, s)))
    BY <1>6 DEF ArmNextRound, ArmRound, c
  <2> DEFINE a == Armed(NextRound(c, s))
  <2>2. Launch(t, Len(objs) + 1, c.settings) /\ s \notin Occupied
    BY <1>6, <2>1 DEF ArmNextRound, ChosenSlot, Choosable, c
  <2>3. /\ SameStart /\ Len(procs) + 1 \in ProcId
        /\ procs'[Len(procs) + 1].settings = c.settings
    BY <1>2, <2>2, LaunchStart
  <2>4. /\ a \in Allocation /\ a.slot = s /\ a.settings = c.settings
        /\ a.state = "ARMED" /\ a.bridge = Len(procs) + 1
    BY <1>2, <1>3, <2>3, ArmedRound
  <2> HIDE DEF a
  <2>5. objs' = Append(objs, a)
    BY <2>1 DEF a
  <2> QED BY <1>1, <1>4, <2>2, <2>3, <2>4, <2>5, RoundAppend
<1> QED BY <1>5, <1>6

\* A bridge process that goes on keeps what it was started with.
LEMMA ProcessGoesOn ==
  ASSUME Inv, NEW p, NEW h, NEW st,
         \/ SetProc(p, [procs[p] EXCEPT !.heavy = h])
         \/ SetProc(p, [procs[p] EXCEPT !.st = st])
         \/ SetProc(p, [procs[p] EXCEPT !.st = st, !.heavy = h])
  PROVE  SameStart
<1>1. PICK q : SetProc(p, q) /\ (procs[p] \in Process => q.settings = procs[p].settings)
  <2>1. procs[p] \in Process =>
          /\ [procs[p] EXCEPT !.heavy = h].settings = procs[p].settings
          /\ [procs[p] EXCEPT !.st = st].settings = procs[p].settings
          /\ [procs[p] EXCEPT !.st = st, !.heavy = h].settings = procs[p].settings
    BY DEF Process
  <2> QED BY <2>1
<1>2. procs \in Seq(Process)
  BY DEF Inv, ProcsOK
<1>3. ASSUME NEW i \in 1 .. Len(procs) PROVE procs'[i].settings = procs[i].settings
  <2>1. procs[i] \in Process
    BY <1>2, ElementOfSeq
  <2>2. procs' = [procs EXCEPT ![p] = q] /\ i \in DOMAIN procs
    BY <1>1, <1>2, LenProperties DEF SetProc
  <2>3. CASE i = p
    BY <1>1, <2>1, <2>2, <2>3
  <2>4. CASE i # p
    BY <2>2, <2>4
  <2> QED BY <2>3, <2>4
<1> QED BY <1>3 DEF SameStart

\* Teardown, from the call that decides it to the last field it clears.
LEMMA TeardownRound ==
  ASSUME Inv, RoundInv, NEW t \in Threads, Teardown(t)
  PROVE  RoundInv'
<1>1. ASSUME NEW r \in RoomId, EndRound(t, r) \/ ReleaseLobby(t, r)
      PROVE  RoundInv'
  <2> DEFINE c == Cur(r)
             e == [c EXCEPT !.state = "ROUND_ENDED", !.match = {}]
             d == [c EXCEPT !.state = "RELEASED", !.players = {}, !.match = {}]
  <2>1. Known(r)
    <3>1. CASE (Called(t, "end") \/ Called(t, "release")) /\ Known(r)
      BY <3>1
    <3>2. CASE th[t].pc \in {"endRound", "release"} /\ r = PendingRoom(t)
      <4>1. th[t].obj \in 1 .. Len(objs)
        BY <3>2, Sizes DEF Inv, ThreadsOK, ThreadOK
      <4> QED BY <3>2, <4>1 DEF PendingRoom, Inv, RoomsOK, Known
    <3> QED BY <1>1, <3>1, <3>2 DEF EndRound, ReleaseLobby, EndRoundEntry, ReleaseEntry
  <2>2. allocs[r] \in 1 .. Len(objs) /\ c = objs[allocs[r]] /\ c \in Allocation
    BY <2>1, CurOK DEF ObjOK
  <2>3. /\ SetObj(allocs[r], e) \/ SetObj(allocs[r], d)
        /\ closed' = closed \cup {allocs[r]} /\ allocs' = allocs /\ procs' = procs
    BY <1>1 DEF EndRound, ReleaseLobby, bridge
  <2>4. /\ e \in Allocation /\ e.slot = c.slot /\ e.settings = c.settings
        /\ e.bridge = c.bridge /\ e.state = "ROUND_ENDED"
    BY <2>2 DEF Allocation, AllocStates
  <2>5. /\ d \in Allocation /\ d.slot = c.slot /\ d.settings = c.settings
        /\ d.bridge = c.bridge /\ d.state = "RELEASED"
    BY <2>2 DEF Allocation, AllocStates
  <2>6. "ROUND_ENDED" \in Over /\ "RELEASED" \in Over
    BY DEF Over
  <2> HIDE DEF c, d, e
  <2>7. CASE SetObj(allocs[r], e)
    BY <2>2, <2>3, <2>4, <2>6, <2>7, RoundTouch
  <2>8. CASE SetObj(allocs[r], d)
    BY <2>2, <2>3, <2>5, <2>6, <2>8, RoundTouch
  <2> QED BY <2>3, <2>7, <2>8
<1>2. ASSUME NEW r \in RoomId, EndRoundNothing(t, r) \/ ReleaseNothing(t, r)
      PROVE  RoundInv'
  <2>1. UNCHANGED <<objs, allocs, closed, procs>>
    BY <1>2 DEF EndRoundNothing, ReleaseNothing, lobby, bridge
  <2> QED BY <2>1, RoundRest DEF SameStart
<1>3. CASE StopHeavy(t) \/ StopBridge(t)
  <2>1. UNCHANGED <<objs, allocs, closed>>
    BY <1>3 DEF StopHeavy, StopBridge, lobby
  <2>2. SameStart
    <3> DEFINE k == KnownPid(th[t].obj)
               b == objs[th[t].obj].bridge
    <3>1. \/ procs' = procs
          \/ SetProc(k, [procs[k] EXCEPT !.heavy = "off"])
          \/ SetProc(b, [procs[b] EXCEPT !.st = "dead"])
      BY <1>3 DEF StopHeavy, StopBridge
    <3>2. CASE procs' = procs
      BY <3>2 DEF SameStart
    <3>3. CASE SetProc(k, [procs[k] EXCEPT !.heavy = "off"])
      BY <3>3, ProcessGoesOn
    <3>4. CASE SetProc(b, [procs[b] EXCEPT !.st = "dead"])
      BY <3>4, ProcessGoesOn
    <3> QED BY <3>1, <3>2, <3>3, <3>4
  <2> QED BY <2>1, <2>2, RoundRest
<1>4. CASE StopClear(t)
  <2> DEFINE o == th[t].obj
             a == [objs[o] EXCEPT !.bridge = 0, !.pid = 0]
  <2>1. SetObj(o, a) /\ UNCHANGED <<allocs, closed, procs>>
    BY <1>4 DEF StopClear, bridge
  <2>2. o \in 1 .. Len(objs)
    BY <1>4, Sizes DEF StopClear, Inv, ThreadsOK, ThreadOK
  <2>3. objs[o] \in Allocation
    BY <2>2 DEF Inv, ObjsOK, ObjOK
  <2>4. /\ a \in Allocation /\ a.slot = objs[o].slot /\ a.settings = objs[o].settings
        /\ a.bridge = 0 /\ a.state = objs[o].state
    BY <2>3 DEF Allocation
  <2> HIDE DEF a
  <2> QED BY <2>1, <2>2, <2>4, RoundTouch
<1> QED BY <1>1, <1>2, <1>3, <1>4 DEF Teardown

\* arm_lobby's wait, and a call that only decides.
LEMMA ArmWaitRound ==
  ASSUME Inv, RoundInv, NEW t \in Workers, ArmWait(t)
  PROVE  RoundInv'
<1>1. CASE ArmSeesExit(t) \/ ArmSeesListening(t) \/ ArmReturns(t)
  <2>1. UNCHANGED <<objs, allocs, closed, procs>>
    BY <1>1 DEF ArmSeesExit, ArmSeesListening, ArmReturns, lobby, bridge
  <2> QED BY <2>1, RoundRest DEF SameStart
<1>2. CASE ArmFails(t) \/ ArmTimesOut(t)
  <2> DEFINE o == th[t].obj
             a == [objs[o] EXCEPT !.state = "FAILED"]
  <2>1. SetObj(o, a) /\ UNCHANGED <<allocs, closed, procs>>
    BY <1>2 DEF ArmFails, ArmTimesOut, bridge
  <2>2. o \in 1 .. Len(objs)
    BY <1>2, Sizes DEF ArmFails, ArmTimesOut, Threads, Inv, ThreadsOK, ThreadOK
  <2>3. objs[o] \in Allocation
    BY <2>2 DEF Inv, ObjsOK, ObjOK
  <2>4. /\ a \in Allocation /\ a.slot = objs[o].slot /\ a.settings = objs[o].settings
        /\ a.bridge = objs[o].bridge /\ a.state = "FAILED"
    BY <2>3 DEF Allocation, AllocStates
  <2> HIDE DEF a
  <2> QED BY <2>1, <2>2, <2>4, RoundTouch
<1> QED BY <1>1, <1>2 DEF ArmWait

LEMMA ShutdownRound ==
  ASSUME Inv, RoundInv, Shutdown
  PROVE  RoundInv'
<1>1. CASE ShutdownAll \/ ShutdownDone
  <2>1. UNCHANGED <<objs, allocs, closed, procs>>
    BY <1>1 DEF ShutdownAll, ShutdownDone, bridge
  <2> QED BY <2>1, RoundRest DEF SameStart
<1>2. ASSUME NEW o \in rows, ShutdownRow(o)
      PROVE  RoundInv'
  <2> DEFINE a == [objs[o] EXCEPT !.state = "RELEASED"]
  <2>1. /\ SetObj(o, a) /\ closed' = closed \cup {o} /\ UNCHANGED <<allocs, procs>>
    BY <1>2 DEF ShutdownRow, bridge
  <2>2. o \in 1 .. Len(objs) /\ objs[o] \in Allocation
    BY DEF Inv, SetsOK, ObjsOK, ObjOK
  <2>3. /\ a \in Allocation /\ a.slot = objs[o].slot /\ a.settings = objs[o].settings
        /\ a.bridge = objs[o].bridge /\ a.state = "RELEASED"
    BY <2>2 DEF Allocation, AllocStates
  <2> HIDE DEF a
  <2> QED BY <2>1, <2>2, <2>3, RoundTouch DEF Over
<1> QED BY <1>1, <1>2 DEF Shutdown

LEMMA BridgeRound ==
  ASSUME Inv, RoundInv, NEW p \in 1 .. Len(procs), BridgeStep(p)
  PROVE  RoundInv'
<1>1. UNCHANGED <<objs, allocs, closed>>
  BY DEF BridgeStep, BridgeBind, BridgeBindFails, BridgeSpawns, AfdevUp, BridgeReady,
         BridgeLive, BridgeFails, BridgeExits, lobby
<1>2. \E h, st : \/ SetProc(p, [procs[p] EXCEPT !.heavy = h])
                \/ SetProc(p, [procs[p] EXCEPT !.st = st])
                \/ SetProc(p, [procs[p] EXCEPT !.st = st, !.heavy = h])
  BY DEF BridgeStep, BridgeBind, BridgeBindFails, BridgeSpawns, AfdevUp, BridgeReady,
         BridgeLive, BridgeFails, BridgeExits
<1>3. SameStart
  BY <1>2, ProcessGoesOn
<1> QED BY <1>1, <1>3, RoundRest

\* A monitor that writes its object never makes it RESERVED, ended or released.
LEMMA MonitorRound ==
  ASSUME Inv, RoundInv, NEW p \in 1 .. Len(procs), MonitorStep(p)
  PROVE  RoundInv'
<1> DEFINE o == MonObj(p)
<1>1. /\ UNCHANGED <<allocs, closed, procs>>
      /\ o \in 1 .. Len(objs) /\ objs[o] \in Allocation
  <2>1. o \in 1 .. Len(objs)
    BY DEF MonObj, Inv, ProcsOK
  <2> QED BY <2>1 DEF MonitorStep, MonitorChecks, MonitorSeesExit, MonitorReads, MonitorApplies,
                      lobby, bridge, Inv, ObjsOK, ObjOK
<1>2. CASE UNCHANGED objs
  BY <1>1, <1>2, RoundRest DEF SameStart
<1>3. CASE MonitorSeesExit(p)
  <2> DEFINE a == [objs[o] EXCEPT !.state = "FAILED"]
  <2>1. SetObj(o, a) \/ UNCHANGED objs
    BY <1>3 DEF MonitorSeesExit
  <2>2. /\ a \in Allocation /\ a.slot = objs[o].slot /\ a.settings = objs[o].settings
        /\ a.bridge = objs[o].bridge /\ a.state = "FAILED"
    BY <1>1 DEF Allocation, AllocStates
  <2> HIDE DEF a
  <2> QED BY <1>1, <1>2, <2>1, <2>2, RoundTouch
<1>4. CASE MonitorApplies(p)
  <2> DEFINE f == mon[p].file
             a == Applied(objs[o], f)
  <2>1. f \in StateFile /\ f.st # "none"
    <3>1. p \in ProcId
      BY Sizes, SpawnerAssumption DEF Inv, ProcsOK, ProcId
    <3> QED BY <1>4, <3>1 DEF Inv, MonsOK, MonOK, Monitor, MonitorApplies
  <2>2. /\ a \in Allocation /\ a.slot = objs[o].slot /\ a.settings = objs[o].settings
        /\ a.bridge = objs[o].bridge
        /\ a.state = objs[o].state \/ a.state \in {"STARTING", "AFDEV_READY", "READY", "FAILED"}
    BY <1>1, <2>1 DEF Applied, Allocation, StateFile, FileStates, AllocStates
  <2>3. SetObj(o, a)
    BY <1>4 DEF MonitorApplies
  <2> HIDE DEF a
  <2> QED BY <1>1, <2>2, <2>3, RoundTouch
<1> QED BY <1>2, <1>3, <1>4 DEF MonitorStep, MonitorChecks, MonitorReads, lobby

LEMMA RoundStep == Inv /\ RoundInv /\ [Next]_vars => RoundInv'
<1> SUFFICES ASSUME Inv, RoundInv, [Next]_vars PROVE RoundInv'
  OBVIOUS
<1>1. ASSUME NEW t \in Workers, Request(t) PROVE RoundInv'
  <2>1. ASSUME NEW p \in Players, NEW set \in Settings, ReserveLobby(t, p, set) PROVE RoundInv'
    BY <2>1, ReserveRound
  <2>2. ASSUME NEW r \in RoomId, NEW set \in Settings, UpdateSettings(t, r, set) PROVE RoundInv'
    BY <2>2, BookkeepingRound
  <2>3. ASSUME NEW r \in RoomId, NEW p \in Players,
               \/ RegisterRoomPlayer(t, r, p) \/ MarkPlayerInMatch(t, r, p)
               \/ QuitMatchPlayer(t, r, p) \/ RemoveRoomPlayer(t, r, p)
        PROVE  RoundInv'
    BY <2>3, BookkeepingRound
  <2>4. ASSUME NEW r \in RoomId, NEW p \in Players \cup {0}, BeginMatch(t, r, p) PROVE RoundInv'
    BY <2>4, BookkeepingRound
  <2>5. ASSUME NEW r \in RoomId, NEW p,
               PrepareSettingsUpdate(t, r, p) \/ ArmReturnsExisting(t, r)
        PROVE  RoundInv'
    <3>1. UNCHANGED <<objs, allocs, closed, procs>>
      BY <2>5 DEF PrepareSettingsUpdate, ArmReturnsExisting, lobby, bridge
    <3> QED BY <3>1, RoundRest DEF SameStart
  <2>6. ASSUME NEW r \in RoomId,
               ArmLaunches(t, r) \/ ArmNextRound(t, r) \/ ArmNextRoundFails(t, r)
        PROVE  RoundInv'
    BY <2>6, ArmLaunchesRound, ArmNextRoundRound
  <2> QED BY <1>1, <2>1, <2>2, <2>3, <2>4, <2>5, <2>6 DEF Request
<1>2. ASSUME NEW t \in Threads, Teardown(t) PROVE RoundInv'
  BY <1>2, TeardownRound
<1>3. ASSUME NEW t \in Workers, ArmWait(t) PROVE RoundInv'
  BY <1>3, ArmWaitRound
<1>4. CASE Shutdown
  BY <1>4, ShutdownRound
<1>5. ASSUME NEW p \in DOMAIN procs, BridgeStep(p) \/ MonitorStep(p) PROVE RoundInv'
  <2>1. p \in 1 .. Len(procs)
    BY LenProperties DEF Inv, ProcsOK
  <2> QED BY <1>5, <2>1, BridgeRound, MonitorRound
<1>6. CASE UNCHANGED vars
  <2>1. UNCHANGED <<objs, allocs, closed, procs>>
    BY <1>6 DEF vars, lobby, bridge
  <2> QED BY <2>1, RoundRest DEF SameStart
<1> QED BY <1>1, <1>2, <1>3, <1>4, <1>5, <1>6 DEF Next

\* Slots, settings and the reservations they rest on, for every reachable state.
THEOREM SpecRound == Spec => [](Inv /\ RoundInv)
<1>1. Init => Inv /\ RoundInv
  BY InitInv, RoundInit
<1>2. Inv /\ RoundInv /\ [Next]_vars => (Inv /\ RoundInv)'
  BY NextInv, RoundStep
<1> QED BY <1>1, <1>2, PTL DEF Spec

\* Two rounds that nobody has ended never share a slot, nor so a port, however
\* many rooms are reserved, armed, failed and re-armed beside each other.
THEOREM SlotsExclusive == Spec => []FreshSlotsExclusive
<1>1. RoundInv => FreshSlotsExclusive
  BY DEF RoundInv
<1> QED BY <1>1, SpecRound, PTL

\* The bridge a round waits for runs with the settings its lobby shows.
THEOREM SettingsStayFrozen == Spec => []SettingsFrozen
<1>1. Inv /\ RoundInv => SettingsFrozen
  <2>1. Inv => DOMAIN objs = 1 .. Len(objs)
    BY LenProperties DEF Inv, ObjsOK
  <2> QED BY <2>1 DEF RoundInv, SettingsOK, SettingsFrozen
<1> QED BY <1>1, SpecRound, PTL

-----------------------------------------------------------------------------
(* Re-arming: the only steps that point a known room to another object     *)

LEMMA RearmStep ==
  ASSUME Inv, [Next]_vars, NEW r \in RoomId, Known(r), allocs'[r] # allocs[r]
  PROVE  \E t \in Workers : ArmNextRound(t, r) \/ ArmNextRoundFails(t, r)
<1>1. allocs' # allocs
  OBVIOUS
<1>2. PICK t \in Workers : Request(t)
  <2>1. ASSUME NEW t \in Threads, Teardown(t) PROVE allocs' = allocs
    BY <2>1 DEF Teardown, EndRoundNothing, EndRound, ReleaseNothing, ReleaseLobby, StopHeavy,
                StopBridge, StopClear, lobby
  <2>2. ASSUME NEW t \in Workers, ArmWait(t) PROVE allocs' = allocs
    BY <2>2 DEF ArmWait, ArmSeesExit, ArmFails, ArmSeesListening, ArmTimesOut, ArmReturns, lobby
  <2>3. Shutdown => allocs' = allocs
    BY DEF Shutdown, ShutdownAll, ShutdownDone, ShutdownRow
  <2>4. ASSUME NEW p \in DOMAIN procs, BridgeStep(p) \/ MonitorStep(p) PROVE allocs' = allocs
    <3>1. BridgeStep(p) => allocs' = allocs
      BY DEF BridgeStep, BridgeBind, BridgeBindFails, BridgeSpawns, AfdevUp, BridgeReady,
             BridgeLive, BridgeFails, BridgeExits, lobby
    <3>2. MonitorStep(p) => allocs' = allocs
      BY DEF MonitorStep, MonitorChecks, MonitorSeesExit, MonitorReads, MonitorApplies, lobby
    <3> QED BY <2>4, <3>1, <3>2
  <2>5. UNCHANGED vars => allocs' = allocs
    BY DEF vars, lobby
  <2> QED BY <1>1, <2>1, <2>2, <2>3, <2>4, <2>5 DEF Next
<1>3. ASSUME NEW p \in Players, NEW set \in Settings, ReserveLobby(t, p, set) PROVE FALSE
  <2>1. allocs' = [allocs EXCEPT ![nRoom + 1] = Len(objs) + 1]
    BY <1>3 DEF ReserveLobby
  <2>2. r # nRoom + 1
    BY SpawnerAssumption DEF Inv, RoomsOK, Known, RoomId
  <2> QED BY <2>1, <2>2 DEF Inv, RoomsOK
<1>4. PICK q \in RoomId : ArmNextRound(t, q) \/ ArmNextRoundFails(t, q)
  <2>1. ASSUME NEW q \in RoomId, NEW p, NEW set,
               \/ UpdateSettings(t, q, set) \/ RegisterRoomPlayer(t, q, p)
               \/ MarkPlayerInMatch(t, q, p) \/ PrepareSettingsUpdate(t, q, p)
               \/ QuitMatchPlayer(t, q, p) \/ RemoveRoomPlayer(t, q, p)
               \/ BeginMatch(t, q, p) \/ ArmReturnsExisting(t, q) \/ ArmLaunches(t, q)
        PROVE  allocs' = allocs
    BY <2>1 DEF UpdateSettings, RegisterRoomPlayer, MarkPlayerInMatch, PrepareSettingsUpdate,
                QuitMatchPlayer, RemoveRoomPlayer, BeginMatch, ArmReturnsExisting, ArmLaunches,
                lobby
  <2> QED BY <1>1, <1>2, <1>3, <2>1 DEF Request
<1>5. q = r
  <2>1. allocs' = [allocs EXCEPT ![q] = Len(objs) + 1]
    BY <1>4 DEF ArmNextRound, ArmNextRoundFails, ArmRound
  <2> QED BY <2>1 DEF Inv, RoomsOK
<1> QED BY <1>4, <1>5

LEMMA RearmKeeps ==
  ASSUME Inv, NEW t \in Workers, NEW r \in RoomId,
         ArmNextRound(t, r) \/ ArmNextRoundFails(t, r)
  PROVE  LET old == Cur(r)
             new == objs'[allocs'[r]]
         IN  /\ old.state = "ROUND_ENDED"
             /\ allocs'[r] \notin closed' \cup DOMAIN objs
             /\ new = [old EXCEPT !.gen = @ + 1, !.slot = new.slot, !.state = new.state,
                                  !.bridge = new.bridge, !.pid = 0]
<1> DEFINE c == Cur(r)
           new == objs'[Len(objs) + 1]
<1>1. /\ Known(r) /\ c.state = "ROUND_ENDED" /\ closed' = closed
      /\ allocs' = [allocs EXCEPT ![r] = Len(objs) + 1]
  BY DEF ArmNextRound, ArmNextRoundFails, ArmRound
<1>2. /\ c \in Allocation /\ Len(objs) \in Nat /\ objs \in Seq(Allocation)
      /\ DOMAIN objs = 1 .. Len(objs) /\ closed \subseteq 1 .. Len(objs)
  BY <1>1, CurOK, Sizes, LenProperties DEF ObjOK, Inv, ObjsOK, SetsOK
<1>3. allocs'[r] = Len(objs) + 1 /\ allocs'[r] \notin closed' \cup DOMAIN objs
  BY <1>1, <1>2 DEF Inv, RoomsOK
<1>4. PICK s \in Slots : \/ objs' = Append(objs, Armed(NextRound(c, s))) /\ Len(procs) + 1 \in ProcId
                        \/ objs' = Append(objs, NextRound(c, s))
  <2>1. CASE ArmNextRound(t, r)
    <3>1. \E s \in Slots : objs' = Append(objs, Armed(NextRound(c, s)))
      BY <2>1 DEF ArmNextRound, ArmRound
    <3>2. Len(procs) < MaxProc
      BY <2>1 DEF ArmNextRound, Launch
    <3> QED BY <3>1, <3>2, Sizes, SpawnerAssumption DEF ProcId
  <2>2. CASE ArmNextRoundFails(t, r)
    BY <2>2 DEF ArmNextRoundFails, ArmRound
  <2> QED BY <2>1, <2>2
<1>5. NextRound(c, s) \in Allocation
  BY <1>2, NextRoundFresh
<1>6. \/ new = Armed(NextRound(c, s))
      \/ new = NextRound(c, s)
  <2>1. CASE objs' = Append(objs, Armed(NextRound(c, s))) /\ Len(procs) + 1 \in ProcId
    BY <1>2, <1>5, <2>1, ArmedRound, Sizes, AppendProperties
  <2>2. CASE objs' = Append(objs, NextRound(c, s))
    BY <1>2, <1>5, <2>2, AppendProperties
  <2> QED BY <1>4, <2>1, <2>2
<1>7. new = [c EXCEPT !.gen = c.gen + 1, !.slot = new.slot, !.state = new.state,
                      !.bridge = new.bridge, !.pid = 0]
  <2> HIDE DEF c, new
  <2>1. c = [room |-> c.room, slot |-> c.slot, owner |-> c.owner, settings |-> c.settings,
             state |-> c.state, players |-> c.players, match |-> c.match, gen |-> c.gen,
             bridge |-> c.bridge, pid |-> c.pid]
    BY <1>2 DEF Allocation
  <2> QED BY <1>6, <2>1 DEF NextRound, Armed
<1> QED BY <1>1, <1>3, <1>7

\* A room changes its object only when an ended round is armed again, for one
\* that no teardown knows yet and that shows the same lobby.
THEOREM RearmKeepsTheLobby == Spec => RearmKeepsLobby
<1> DEFINE Rearms ==
      \A r \in RoomId : (Known(r) /\ allocs'[r] # allocs[r]) =>
        LET old == Cur(r)
            new == objs'[allocs'[r]]
        IN  /\ old.state = "ROUND_ENDED"
            /\ allocs'[r] \notin closed' \cup DOMAIN objs
            /\ new = [old EXCEPT !.gen = @ + 1, !.slot = new.slot, !.state = new.state,
                                 !.bridge = new.bridge, !.pid = 0]
<1>1. Inv /\ [Next]_vars => [Rearms]_vars
  <2> SUFFICES ASSUME Inv, [Next]_vars PROVE Rearms
    OBVIOUS
  <2>1. ASSUME NEW r \in RoomId, Known(r), allocs'[r] # allocs[r]
        PROVE  LET old == Cur(r)
                   new == objs'[allocs'[r]]
               IN  /\ old.state = "ROUND_ENDED"
                   /\ allocs'[r] \notin closed' \cup DOMAIN objs
                   /\ new = [old EXCEPT !.gen = @ + 1, !.slot = new.slot, !.state = new.state,
                                        !.bridge = new.bridge, !.pid = 0]
    <3>1. PICK t \in Workers : ArmNextRound(t, r) \/ ArmNextRoundFails(t, r)
      BY <2>1, RearmStep
    <3> QED BY <3>1, RearmKeeps
  <2> QED BY <2>1
<1>2. Spec => [][Rearms]_vars
  BY <1>1, SpecInv, PTL DEF Spec
<1> QED BY <1>2 DEF RearmKeepsLobby
=============================================================================
