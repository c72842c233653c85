----------------------------- MODULE DSSpawner -----------------------------
(***************************************************************************)
(* The dedicated-server allocator, server/assaultfire_ds_spawner.py.       *)
(*                                                                         *)
(* Request threads call DedicatedServerSpawner concurrently.  What a call  *)
(* does under `with self._lock` is one action here; where the code leaves  *)
(* the lock in the middle of a call (arm_lobby's wait for the bridge,      *)
(* end_round and release_lobby called after the decision to call them,     *)
(* _stop_allocation) the call goes on as further actions of its thread.    *)
(* Beside them run one monitor thread per armed bridge, the bridge         *)
(* processes themselves, and shutdown_all on the main thread.              *)
(*                                                                         *)
(* A DSAllocation is an object: arm_lobby replaces the one of an ended     *)
(* room while threads still hold the old one, so objects have identities   *)
(* (ObjId), and `allocs` is the dictionary from room ids to them.          *)
(***************************************************************************)
EXTENDS Naturals, Sequences, FiniteSets

CONSTANTS
  MaxInstances,  \* config.max_instances: the number of slots
  Players,       \* uins; natural numbers, because min() picks a new owner
  Settings,      \* values of (mode, map, sub mode, flags) a lobby can show
  Workers,       \* request threads
  Main,          \* the thread that runs shutdown_all
  Requests,      \* the calls the request threads make in a run
  MaxRooms, MaxObj, MaxProc   \* bounds: rooms, DSAllocation objects, bridges

AllRequests == {"reserve", "update", "prepare", "arm", "register", "begin",
                "mark", "end", "quit", "remove", "release", "shutdown"}

ASSUME SpawnerAssumption ==
  /\ MaxInstances \in Nat /\ MaxRooms \in Nat /\ MaxObj \in Nat /\ MaxProc \in Nat
  /\ Players \subseteq Nat \ {0}
  /\ Requests \subseteq AllRequests
  /\ Main \notin Workers

Slots  == 0 .. MaxInstances - 1
RoomId == 1 .. MaxRooms
ObjId  == 1 .. MaxObj
ProcId == 1 .. MaxProc
Threads == Workers \cup {Main}

AllocStates == {"RESERVED", "ARMED", "STARTING", "AFDEV_READY", "READY",
                "FAILED", "ROUND_ENDED", "RELEASED"}
FileStates == {"none", "LISTENING", "SPAWNING", "AFDEV_READY", "READY", "FAILED"}

Allocation ==
  [room : RoomId, slot : Slots, owner : Players, settings : Settings,
   state : AllocStates, players : SUBSET Players, match : SUBSET Players,
   gen : Nat, bridge : ProcId \cup {0}, pid : ProcId \cup {0}]
StateFile == [st : FileStates, pid : ProcId \cup {0}]
NoFile == [st |-> "none", pid |-> 0]

VARIABLES
  objs,        \* the DSAllocation objects, in order of creation
  allocs,      \* _allocations: room id -> object, 0 if there is none
  nRoom,       \* _next_room_id - 1
  ownerToRoom, \* _owner_to_room: player -> room id, 0 if there is none
  shutdown,    \* _shutdown
  th,          \* thread -> where its call is, with the locals it still needs
  rows,        \* shutdown_all's list of objects left to visit
  procs,       \* the bridge processes, in order of creation
  stateFile,   \* ObjId -> BRIDGE_STATE.json of the instance directory
  pidFile,     \* ObjId -> the bridge whose loader wrote the pid files, or 0
  mon,         \* ProcId -> the _monitor_bridge thread arm_lobby started for it
  closed       \* history: objects a teardown call has ended or released

lobby  == <<objs, allocs, nRoom, ownerToRoom, shutdown, closed>>
bridge == <<procs, stateFile, pidFile>>
vars   == <<lobby, bridge, th, rows, mon>>

PC == {"idle", "armWait", "armExited", "armed", "endRound", "release",
       "stopHeavy", "stopBridge", "stopClear", "sdLoop", "sdDone"}
Thread  == [pc : PC, obj : ObjId \cup {0}, proc : ProcId \cup {0}]
Process == [obj : ObjId, settings : Settings, heavy : {"off", "boot", "up"},
            st : {"booting", "LISTENING", "SPAWNING", "AFDEV_READY", "READY",
                  "failing", "dead"}]
Monitor == [pc : {"off", "check", "poll", "apply"}, proc : ProcId \cup {0},
            file : StateFile]

Idle   == [pc |-> "idle", obj |-> 0, proc |-> 0]
MonOff == [pc |-> "off", proc |-> 0, file |-> NoFile]
MonCheck == [MonOff EXCEPT !.pc = "check"]

Cur(r) == objs[allocs[r]]
Known(r) == allocs[r] # 0
LiveRoom(r) == Known(r) /\ Cur(r).state # "RELEASED"

-----------------------------------------------------------------------------
(* Slots and ports                                                         *)

\* The bridge holds the public port of its slot from its bind to its exit.
Bound == {"LISTENING", "SPAWNING", "AFDEV_READY", "READY", "failing"}
PublicPortBusy(s) ==
  \E p \in DOMAIN procs : procs[p].st \in Bound /\ objs[procs[p].obj].slot = s
\* AFDEV holds the target port of its slot while it runs.
TargetPortBusy(s) ==
  \E p \in DOMAIN procs : procs[p].heavy = "up" /\ objs[procs[p].obj].slot = s

\* Fault: a failed round no longer occupies its slot.
BadOccupied ==
  {objs[allocs[r]].slot :
     r \in {q \in RoomId : Known(q) /\ Cur(q).state \notin
                             {"RELEASED", "ROUND_ENDED", "FAILED", "RESERVED"}}}
Occupied ==
  {objs[allocs[r]].slot :
     r \in {q \in RoomId : Known(q) /\ Cur(q).state \notin {"RELEASED", "ROUND_ENDED"}}}

Choosable(s) == s \notin Occupied /\ ~PublicPortBusy(s) /\ ~TargetPortBusy(s)
\* _choose_slot_locked: the lowest slot no allocation occupies and no process holds.
ChosenSlot(s) == Choosable(s) /\ \A q \in Slots : Choosable(q) => s <= q

-----------------------------------------------------------------------------
Init ==
  /\ objs = <<>> /\ nRoom = 0 /\ procs = <<>>
  /\ allocs = [r \in RoomId |-> 0]
  /\ ownerToRoom = [p \in Players |-> 0]
  /\ shutdown = FALSE
  /\ th = [t \in Threads |-> Idle]
  /\ rows = {} /\ closed = {}
  /\ stateFile = [o \in ObjId |-> NoFile]
  /\ pidFile = [o \in ObjId |-> 0]
  /\ mon = [p \in ProcId |-> MonOff]

\* Thread t goes on at pc with the object o (and bridge p) in its locals.
Goto(t, pc, o, p) == th' = [th EXCEPT ![t] = [pc |-> pc, obj |-> o, proc |-> p]]
Return(t) == th' = [th EXCEPT ![t] = Idle]
Called(t, request) == t \in Workers /\ th[t].pc = "idle" /\ request \in Requests
SetObj(o, a) == objs' = [objs EXCEPT ![o] = a]
SetProc(p, q) == procs' = [procs EXCEPT ![p] = q]

-----------------------------------------------------------------------------
(* Calls that finish inside one critical section                           *)

\* reserve_lobby.  An owner who already has a live room gets it back, and one
\* who created a room less than create_cooldown ago is refused; neither changes
\* anything, and the cooldown only refuses, so a call here is one that goes on.
ReserveLobby(t, p, set) ==
  /\ Called(t, "reserve")
  /\ ~(ownerToRoom[p] # 0 /\ LiveRoom(ownerToRoom[p]))
  /\ nRoom < MaxRooms /\ Len(objs) < MaxObj
  /\ \E s \in Slots :
       /\ ChosenSlot(s)
       /\ objs' = Append(objs,
            [room |-> nRoom + 1, slot |-> s, owner |-> p, settings |-> set,
             state |-> "RESERVED", players |-> {p}, match |-> {}, gen |-> 0,
             bridge |-> 0, pid |-> 0])
  /\ nRoom' = nRoom + 1
  /\ allocs' = [allocs EXCEPT ![nRoom + 1] = Len(objs) + 1]
  /\ ownerToRoom' = [ownerToRoom EXCEPT ![p] = nRoom + 1]
  /\ UNCHANGED <<shutdown, closed, bridge, th, rows, mon>>

\* Fault: settings can still change once the bridge is armed.
BadUpdateSettings(t, r, set) ==
  /\ Called(t, "update") /\ Known(r)
  /\ Cur(r).state \in {"RESERVED", "ARMED", "ROUND_ENDED"}
  /\ SetObj(allocs[r], [Cur(r) EXCEPT !.settings = set])
  /\ UNCHANGED <<allocs, nRoom, ownerToRoom, shutdown, closed, bridge, th, rows, mon>>
\* update_lobby_settings, refused unless the room is RESERVED or ROUND_ENDED.
UpdateSettings(t, r, set) ==
  /\ Called(t, "update") /\ Known(r)
  /\ Cur(r).state \in {"RESERVED", "ROUND_ENDED"}
  /\ SetObj(allocs[r], [Cur(r) EXCEPT !.settings = set])
  /\ UNCHANGED <<allocs, nRoom, ownerToRoom, shutdown, closed, bridge, th, rows, mon>>

RegisterRoomPlayer(t, r, p) ==
  /\ Called(t, "register") /\ LiveRoom(r)
  /\ SetObj(allocs[r], [Cur(r) EXCEPT !.players = @ \cup {p}])
  /\ UNCHANGED <<allocs, nRoom, ownerToRoom, shutdown, closed, bridge, th, rows, mon>>

\* begin_match; starter 0 is the call without a starter.
BeginMatch(t, r, starter) ==
  /\ Called(t, "begin") /\ LiveRoom(r)
  /\ LET a == Cur(r)
         joined  == {starter} \ {0}
         members == a.players \cup joined
         newRound == a.state \in {"RESERVED", "ROUND_ENDED"} \/ a.match = {}
     IN SetObj(allocs[r],
          [a EXCEPT !.players = members,
                    !.match = IF newRound THEN members ELSE @ \cup joined])
  /\ UNCHANGED <<allocs, nRoom, ownerToRoom, shutdown, closed, bridge, th, rows, mon>>

\* Fault: the player is put into the match without joining the room.
BadMarkPlayerInMatch(t, r, p) ==
  /\ Called(t, "mark") /\ LiveRoom(r)
  /\ SetObj(allocs[r], [Cur(r) EXCEPT !.match = @ \cup {p}])
  /\ UNCHANGED <<allocs, nRoom, ownerToRoom, shutdown, closed, bridge, th, rows, mon>>
MarkPlayerInMatch(t, r, p) ==
  /\ Called(t, "mark") /\ LiveRoom(r)
  /\ SetObj(allocs[r], [Cur(r) EXCEPT !.players = @ \cup {p}, !.match = @ \cup {p}])
  /\ UNCHANGED <<allocs, nRoom, ownerToRoom, shutdown, closed, bridge, th, rows, mon>>

-----------------------------------------------------------------------------
(* Calls that decide under the lock and tear down after leaving it.  A     *)
(* direct call enters end_round or release_lobby from "idle"; the others   *)
(* reach the same critical section later, from "endRound" or "release".    *)

\* The room whose end_round / release_lobby thread t is about to enter.
PendingRoom(t) == objs[th[t].obj].room

EndRoundEntry(t, r) ==
  \/ Called(t, "end") /\ Known(r)
  \/ th[t].pc = "endRound" /\ r = PendingRoom(t)
\* Fault: a round that failed meanwhile is taken for one that is over.
BadEndRoundNothing(t, r) ==
  /\ th[t].pc = "endRound" /\ r = PendingRoom(t)
  /\ Cur(r).state \in {"RELEASED", "ROUND_ENDED", "FAILED"}
  /\ Return(t)
  /\ UNCHANGED <<lobby, bridge, rows, mon>>
\* end_round: nothing left to do, or ROUND_ENDED and on to _stop_allocation.
EndRoundNothing(t, r) ==
  /\ th[t].pc = "endRound" /\ r = PendingRoom(t)
  /\ Cur(r).state \in {"RELEASED", "ROUND_ENDED"}
  /\ Return(t)
  /\ UNCHANGED <<lobby, bridge, rows, mon>>
EndRound(t, r) ==
  /\ EndRoundEntry(t, r)
  /\ Cur(r).state \notin {"RELEASED", "ROUND_ENDED"}
  /\ SetObj(allocs[r], [Cur(r) EXCEPT !.state = "ROUND_ENDED", !.match = {}])
  /\ closed' = closed \cup {allocs[r]}
  /\ Goto(t, "stopHeavy", allocs[r], 0)
  /\ UNCHANGED <<allocs, nRoom, ownerToRoom, shutdown, bridge, rows, mon>>

ReleaseEntry(t, r) ==
  \/ Called(t, "release") /\ Known(r)
  \/ th[t].pc = "release" /\ r = PendingRoom(t)
ReleaseNothing(t, r) ==
  /\ th[t].pc = "release" /\ r = PendingRoom(t)
  /\ Cur(r).state = "RELEASED"
  /\ Return(t)
  /\ UNCHANGED <<lobby, bridge, rows, mon>>
ReleaseLobby(t, r) ==
  /\ ReleaseEntry(t, r)
  /\ Cur(r).state # "RELEASED"
  /\ SetObj(allocs[r], [Cur(r) EXCEPT !.state = "RELEASED", !.players = {}, !.match = {}])
  /\ ownerToRoom' = [ownerToRoom EXCEPT ![Cur(r).owner] = 0]
  /\ closed' = closed \cup {allocs[r]}
  /\ Goto(t, "stopHeavy", allocs[r], 0)
  /\ UNCHANGED <<allocs, nRoom, shutdown, bridge, rows, mon>>

\* prepare_lobby_settings_update, when it ends a stale or failed round; every
\* other outcome is an error or a plain return.
PrepareSettingsUpdate(t, r, requester) ==
  /\ Called(t, "prepare") /\ Known(r)
  /\ \/ /\ Cur(r).state \in {"READY", "AFDEV_READY"}
        /\ Cur(r).match \subseteq {requester}
     \/ Cur(r).state = "FAILED"
  /\ Goto(t, "endRound", allocs[r], 0)
  /\ UNCHANGED <<lobby, bridge, rows, mon>>

RoundRuns(a) == a.state \notin {"RESERVED", "ROUND_ENDED"}

QuitMatchPlayer(t, r, p) ==
  /\ Called(t, "quit") /\ LiveRoom(r)
  /\ LET left == Cur(r).match \ {p} IN
     /\ SetObj(allocs[r], [Cur(r) EXCEPT !.match = left])
     /\ IF left = {} /\ RoundRuns(Cur(r))
          THEN Goto(t, "endRound", allocs[r], 0) ELSE UNCHANGED th
  /\ UNCHANGED <<allocs, nRoom, ownerToRoom, shutdown, closed, bridge, rows, mon>>

\* Fault: the old owner keeps the dictionary entry.
BadTransfer(r, heir) == [ownerToRoom EXCEPT ![heir] = r]
\* remove_room_player: ownership goes to the smallest uin left in the room.
Transfer(r, heir) ==
  [ownerToRoom EXCEPT ![Cur(r).owner] = 0, ![heir] = r]
RemoveRoomPlayer(t, r, p) ==
  /\ Called(t, "remove") /\ LiveRoom(r)
  /\ LET a     == Cur(r)
         stay  == a.players \ {p}
         match == a.match \ {p}
     IN
     /\ \/ /\ a.owner = p /\ stay # {}
           /\ \E heir \in stay :
                /\ \A q \in stay : heir <= q
                /\ SetObj(allocs[r],
                     [a EXCEPT !.players = stay, !.match = match, !.owner = heir])
                /\ ownerToRoom' = Transfer(r, heir)
        \/ /\ ~(a.owner = p /\ stay # {})
           /\ SetObj(allocs[r], [a EXCEPT !.players = stay, !.match = match])
           /\ UNCHANGED ownerToRoom
     /\ IF stay = {} THEN Goto(t, "release", allocs[r], 0)
        ELSE IF match = {} /\ RoundRuns(a) THEN Goto(t, "endRound", allocs[r], 0)
        ELSE UNCHANGED th
  /\ UNCHANGED <<allocs, nRoom, shutdown, closed, bridge, rows, mon>>

-----------------------------------------------------------------------------
(* arm_lobby                                                               *)

\* Popen of the bridge for object o, its state files unlinked before it.
Launch(t, o, set) ==
  /\ Len(procs) < MaxProc
  /\ procs' = Append(procs, [obj |-> o, settings |-> set, heavy |-> "off", st |-> "booting"])
  /\ stateFile' = [stateFile EXCEPT ![o] = NoFile]
  /\ pidFile' = [pidFile EXCEPT ![o] = 0]
  /\ Goto(t, "armWait", o, Len(procs) + 1)
Armed(a) == [a EXCEPT !.state = "ARMED", !.bridge = Len(procs) + 1]

AlreadyArmed(a) == a.state \in {"ARMED", "STARTING", "READY"} /\ a.bridge # 0

\* The bridge was started before: return at once.
ArmReturnsExisting(t, r) ==
  /\ Called(t, "arm") /\ Known(r) /\ AlreadyArmed(Cur(r))
  /\ Goto(t, "armed", allocs[r], 0)
  /\ UNCHANGED <<lobby, bridge, rows, mon>>

ArmLaunches(t, r) ==
  /\ Called(t, "arm") /\ Known(r) /\ ~AlreadyArmed(Cur(r))
  /\ Cur(r).state \notin {"RELEASED", "ROUND_ENDED", "FAILED"}
  /\ SetObj(allocs[r], Armed(Cur(r)))
  /\ Launch(t, allocs[r], Cur(r).settings)
  /\ UNCHANGED <<allocs, nRoom, ownerToRoom, shutdown, closed, rows, mon>>

\* Fault: only the owner is carried over to the next round.
BadNextRound(a, s) ==
  [a EXCEPT !.slot = s, !.state = "RESERVED", !.gen = @ + 1, !.bridge = 0, !.pid = 0,
            !.match = {}]
\* An ended room gets a fresh object, slot and instance directory.
NextRound(a, s) ==
  [a EXCEPT !.slot = s, !.state = "RESERVED", !.gen = @ + 1, !.bridge = 0, !.pid = 0]
ArmRound(t, r, launched) ==
  /\ Called(t, "arm") /\ Known(r) /\ Cur(r).state = "ROUND_ENDED"
  /\ Len(objs) < MaxObj
  /\ \E s \in Slots : 
       /\ ChosenSlot(s)
       /\ objs' = Append(objs, IF launched THEN Armed(NextRound(Cur(r), s))
                               ELSE NextRound(Cur(r), s))
  /\ allocs' = [allocs EXCEPT ![r] = Len(objs) + 1]
  /\ ownerToRoom' = [ownerToRoom EXCEPT ![Cur(r).owner] = r]
ArmNextRound(t, r) ==
  /\ ArmRound(t, r, TRUE)
  /\ Launch(t, Len(objs) + 1, Cur(r).settings)
  /\ UNCHANGED <<nRoom, shutdown, closed, rows, mon>>
\* A missing bridge or loader script is found after the object was replaced.
ArmNextRoundFails(t, r) ==
  /\ ArmRound(t, r, FALSE)
  /\ UNCHANGED <<nRoom, shutdown, closed, bridge, th, rows, mon>>

\* The wait outside the lock: t polls the bridge, then reads the state file.
Exited(o) == objs[o].bridge # 0 /\ procs[objs[o].bridge].st = "dead"
ArmSeesExit(t) ==
  /\ th[t].pc = "armWait" /\ Exited(th[t].obj)
  /\ Goto(t, "armExited", th[t].obj, 0)
  /\ UNCHANGED <<lobby, bridge, rows, mon>>
ArmFails(t) ==
  /\ th[t].pc = "armExited"
  /\ SetObj(th[t].obj, [objs[th[t].obj] EXCEPT !.state = "FAILED"])
  /\ Return(t)
  /\ UNCHANGED <<allocs, nRoom, ownerToRoom, shutdown, closed, bridge, rows, mon>>
ArmSeesListening(t) ==
  /\ th[t].pc = "armWait" /\ ~Exited(th[t].obj)
  /\ stateFile[th[t].obj].st = "LISTENING"
  /\ mon' = [mon EXCEPT ![th[t].proc] = MonCheck]
  /\ Goto(t, "armed", th[t].obj, 0)
  /\ UNCHANGED <<lobby, bridge, rows>>
\* Fault: the deadline is forgotten once the bridge has published anything.
BadArmTimesOut(t) ==
  /\ th[t].pc = "armWait" /\ stateFile[th[t].obj].st = "none"
  /\ SetObj(th[t].obj, [objs[th[t].obj] EXCEPT !.state = "FAILED"])
  /\ Goto(t, "stopHeavy", th[t].obj, 0)
  /\ UNCHANGED <<allocs, nRoom, ownerToRoom, shutdown, closed, bridge, rows, mon>>
\* bridge_ready_timeout passed; the loop can time out whatever it last saw.
ArmTimesOut(t) ==
  /\ th[t].pc = "armWait"
  /\ SetObj(th[t].obj, [objs[th[t].obj] EXCEPT !.state = "FAILED"])
  /\ Goto(t, "stopHeavy", th[t].obj, 0)
  /\ UNCHANGED <<allocs, nRoom, ownerToRoom, shutdown, closed, bridge, rows, mon>>
\* The caller gets the endpoint and sends it to the client.
ArmReturns(t) ==
  /\ th[t].pc = "armed"
  /\ Return(t)
  /\ UNCHANGED <<lobby, bridge, rows, mon>>

-----------------------------------------------------------------------------
(* _stop_allocation, all of it outside the lock                            *)

\* Kill AFDEV and the loader by the pids the object or else the files hold.
KnownPid(o) == IF objs[o].pid # 0 THEN objs[o].pid ELSE pidFile[o]
StopHeavy(t) ==
  /\ th[t].pc = "stopHeavy"
  /\ LET p == KnownPid(th[t].obj) IN
     IF p = 0 THEN UNCHANGED procs ELSE SetProc(p, [procs[p] EXCEPT !.heavy = "off"])
  /\ Goto(t, "stopBridge", th[t].obj, 0)
  /\ UNCHANGED <<lobby, stateFile, pidFile, rows, mon>>
\* Terminate the process bridge_proc names; a terminated bridge cleans nothing up.
StopBridge(t) ==
  /\ th[t].pc = "stopBridge"
  /\ LET p == objs[th[t].obj].bridge IN
     IF p = 0 THEN UNCHANGED procs ELSE SetProc(p, [procs[p] EXCEPT !.st = "dead"])
  /\ Goto(t, "stopClear", th[t].obj, 0)
  /\ UNCHANGED <<lobby, stateFile, pidFile, rows, mon>>
StopClear(t) ==
  /\ th[t].pc = "stopClear"
  /\ SetObj(th[t].obj, [objs[th[t].obj] EXCEPT !.bridge = 0, !.pid = 0])
  /\ IF t = Main THEN Goto(t, "sdLoop", 0, 0) ELSE Return(t)
  /\ UNCHANGED <<allocs, nRoom, ownerToRoom, shutdown, closed, bridge, rows, mon>>

-----------------------------------------------------------------------------
(* shutdown_all                                                            *)

ShutdownAll ==
  /\ "shutdown" \in Requests /\ ~shutdown /\ th[Main].pc = "idle"
  /\ shutdown' = TRUE
  /\ rows' = {allocs[r] : r \in {q \in RoomId : Known(q)}}
  /\ Goto(Main, "sdLoop", 0, 0)
  /\ UNCHANGED <<objs, allocs, nRoom, ownerToRoom, closed, bridge, mon>>
\* Without the lock: mark the next object RELEASED and stop what may run.
ShutdownRow(o) ==
  /\ th[Main].pc = "sdLoop" /\ o \in rows
  /\ rows' = rows \ {o}
  /\ SetObj(o, [objs[o] EXCEPT !.state = "RELEASED"])
  /\ closed' = closed \cup {o}
  /\ IF objs[o].state \in {"RELEASED", "ROUND_ENDED"}
       THEN UNCHANGED th ELSE Goto(Main, "stopHeavy", o, 0)
  /\ UNCHANGED <<allocs, nRoom, ownerToRoom, shutdown, bridge, mon>>
ShutdownDone ==
  /\ th[Main].pc = "sdLoop" /\ rows = {}
  /\ ownerToRoom' = [p \in Players |-> 0]
  /\ Goto(Main, "sdDone", 0, 0)
  /\ UNCHANGED <<objs, allocs, nRoom, shutdown, closed, bridge, rows, mon>>

-----------------------------------------------------------------------------
(* The bridge process and the AFDEV it starts, as the spawner sees them:   *)
(* its life, its state file and its ports (module Bridge has the relay).   *)

SlotOf(p) == objs[procs[p].obj].slot
\* A write that fails leaves the old file, or an empty one if it is torn.
WriteState(o, f) ==
  \E g \in {f, stateFile[o], NoFile} : stateFile' = [stateFile EXCEPT ![o] = g]
\* The loader pid stays in what the bridge publishes once it has one.
Publish(p, st) ==
  WriteState(procs[p].obj,
             [st |-> st, pid |-> IF procs[p].st \in {"booting", "LISTENING"} THEN 0 ELSE p])

BridgeBind(p) ==
  /\ procs[p].st = "booting" /\ ~PublicPortBusy(SlotOf(p))
  /\ SetProc(p, [procs[p] EXCEPT !.st = "LISTENING"])
  /\ Publish(p, "LISTENING")
  /\ UNCHANGED <<lobby, pidFile, th, rows, mon>>
\* The bind is outside the bridge's try: it exits without a word, whoever has
\* the port.
BridgeBindFails(p) ==
  /\ procs[p].st = "booting"
  /\ SetProc(p, [procs[p] EXCEPT !.st = "dead"])
  /\ UNCHANGED <<lobby, stateFile, pidFile, th, rows, mon>>
\* First valid client packet: the loader is started and its pid written.
BridgeSpawns(p) ==
  /\ procs[p].st = "LISTENING"
  /\ SetProc(p, [procs[p] EXCEPT !.st = "SPAWNING", !.heavy = "boot"])
  /\ pidFile' = [pidFile EXCEPT ![procs[p].obj] = p]
  /\ WriteState(procs[p].obj, [st |-> "SPAWNING", pid |-> p])
  /\ UNCHANGED <<lobby, th, rows, mon>>
\* AFDEV binds the target port; another AFDEV on it makes the loader fail.
AfdevUp(p) ==
  /\ procs[p].heavy = "boot" /\ ~TargetPortBusy(SlotOf(p))
  /\ SetProc(p, [procs[p] EXCEPT !.heavy = "up"])
  /\ UNCHANGED <<lobby, stateFile, pidFile, th, rows, mon>>
BridgeReady(p) ==
  /\ procs[p].st = "SPAWNING" /\ procs[p].heavy = "up"
  /\ SetProc(p, [procs[p] EXCEPT !.st = "AFDEV_READY"])
  /\ Publish(p, "AFDEV_READY")
  /\ UNCHANGED <<lobby, pidFile, th, rows, mon>>
BridgeLive(p) ==
  /\ procs[p].st = "AFDEV_READY" /\ procs[p].heavy = "up"
  /\ SetProc(p, [procs[p] EXCEPT !.st = "READY"])
  /\ Publish(p, "READY")
  /\ UNCHANGED <<lobby, pidFile, th, rows, mon>>
\* Any exception in the relay loop: publish FAILED, then clean up and exit; on
\* Ctrl+C, as when that write fails, the file keeps what it had.
BridgeFails(p) ==
  /\ procs[p].st \in Bound \ {"failing"}
  /\ SetProc(p, [procs[p] EXCEPT !.st = "failing"])
  /\ Publish(p, "FAILED")
  /\ UNCHANGED <<lobby, pidFile, th, rows, mon>>
BridgeExits(p) ==
  /\ procs[p].st = "failing"
  /\ SetProc(p, [procs[p] EXCEPT !.st = "dead", !.heavy = "off"])
  /\ UNCHANGED <<lobby, stateFile, pidFile, th, rows, mon>>

-----------------------------------------------------------------------------
(* _monitor_bridge                                                         *)

SetMon(p, m) == mon' = [mon EXCEPT ![p] = m]
MonObj(p) == procs[p].obj

\* Fault: the monitor looks at the object it was given, not at the dictionary.
BadMonGoesOn(p) == objs[MonObj(p)].state # "RELEASED" /\ ~shutdown
MonGoesOn(p) ==
  /\ allocs[objs[MonObj(p)].room] = MonObj(p)
  /\ objs[MonObj(p)].state # "RELEASED"
  /\ ~shutdown
MonitorChecks(p) ==
  /\ mon[p].pc = "check"
  /\ SetMon(p, IF MonGoesOn(p)
                 THEN [pc |-> "poll", proc |-> objs[MonObj(p)].bridge, file |-> NoFile]
                 ELSE MonOff)
  /\ UNCHANGED <<lobby, bridge, th, rows>>

MonSeesDead(p) == mon[p].proc # 0 /\ procs[mon[p].proc].st = "dead"
\* The bridge is gone: FAILED, unless released meanwhile, and the thread ends.
MonitorSeesExit(p) ==
  /\ mon[p].pc = "poll" /\ MonSeesDead(p)
  /\ IF objs[MonObj(p)].state # "RELEASED"
       THEN SetObj(MonObj(p), [objs[MonObj(p)] EXCEPT !.state = "FAILED"])
       ELSE UNCHANGED objs
  /\ SetMon(p, MonOff)
  /\ UNCHANGED <<allocs, nRoom, ownerToRoom, shutdown, closed, bridge, th, rows>>
MonitorReads(p) ==
  /\ mon[p].pc = "poll" /\ ~MonSeesDead(p)
  /\ SetMon(p, IF stateFile[MonObj(p)].st = "none" THEN MonCheck
               ELSE [mon[p] EXCEPT !.pc = "apply", !.file = stateFile[MonObj(p)]])
  /\ UNCHANGED <<lobby, bridge, th, rows>>
\* Fault: the bridge's state name is stored as it is.
BadApplied(a, f) ==
  [a EXCEPT !.pid = IF f.pid # 0 THEN f.pid ELSE @, !.state = f.st]
\* What the file says becomes the object's state, whatever that is by now.
Applied(a, f) ==
  [a EXCEPT !.pid = IF f.pid # 0 THEN f.pid ELSE @,
            !.state = CASE f.st = "LISTENING" -> @
                        [] f.st = "SPAWNING" -> "STARTING"
                        [] OTHER -> f.st]
MonitorApplies(p) ==
  /\ mon[p].pc = "apply"
  /\ SetObj(MonObj(p), Applied(objs[MonObj(p)], mon[p].file))
  /\ SetMon(p, IF mon[p].file.st = "FAILED" THEN MonOff ELSE MonCheck)
  /\ UNCHANGED <<allocs, nRoom, ownerToRoom, shutdown, closed, bridge, th, rows>>

-----------------------------------------------------------------------------
Request(t) ==
  \/ \E p \in Players, set \in Settings : ReserveLobby(t, p, set)
  \/ \E r \in RoomId :
       \/ \E set \in Settings : UpdateSettings(t, r, set)
       \/ \E p \in Players :
            \/ RegisterRoomPlayer(t, r, p)
            \/ MarkPlayerInMatch(t, r, p)
            \/ PrepareSettingsUpdate(t, r, p)
            \/ QuitMatchPlayer(t, r, p)
            \/ RemoveRoomPlayer(t, r, p)
       \/ \E p \in Players \cup {0} : BeginMatch(t, r, p)
       \/ ArmReturnsExisting(t, r)
       \/ ArmLaunches(t, r)
       \/ ArmNextRound(t, r)
       \/ ArmNextRoundFails(t, r)

\* The rest of a call that has left its first critical section.
Teardown(t) ==
  \/ \E r \in RoomId :
       EndRoundNothing(t, r) \/ EndRound(t, r) \/ ReleaseNothing(t, r) \/ ReleaseLobby(t, r)
  \/ StopHeavy(t) \/ StopBridge(t) \/ StopClear(t)
ArmWait(t) ==
  ArmSeesExit(t) \/ ArmFails(t) \/ ArmSeesListening(t) \/ ArmTimesOut(t) \/ ArmReturns(t)

Shutdown == ShutdownAll \/ ShutdownDone \/ \E o \in rows : ShutdownRow(o)

BridgeStep(p) ==
  \/ BridgeBind(p) \/ BridgeBindFails(p) \/ BridgeSpawns(p) \/ AfdevUp(p)
  \/ BridgeReady(p) \/ BridgeLive(p) \/ BridgeFails(p) \/ BridgeExits(p)
MonitorStep(p) ==
  MonitorChecks(p) \/ MonitorSeesExit(p) \/ MonitorReads(p) \/ MonitorApplies(p)

Next ==
  \/ \E t \in Workers : Request(t)
  \/ \E t \in Threads : Teardown(t)
  \/ \E t \in Workers : ArmWait(t)
  \/ Shutdown
  \/ \E p \in DOMAIN procs : BridgeStep(p) \/ MonitorStep(p)

Spec == Init /\ [][Next]_vars

\* A call that was entered runs on, and so do the monitor threads: the lock is
\* held for bounded work only, and every wait in the code has a deadline.
Continue(t) == th[t].pc # "idle" /\ (Teardown(t) \/ ArmWait(t))
ShutdownGoesOn == th[Main].pc # "idle" /\ Shutdown
Fairness ==
  /\ \A t \in Workers : WF_vars(Continue(t))
  /\ WF_vars(Teardown(Main)) /\ WF_vars(ShutdownGoesOn)
  /\ \A p \in ProcId : WF_vars(p \in DOMAIN procs /\ MonitorStep(p))
FairSpec == Spec /\ Fairness

-----------------------------------------------------------------------------
(* Properties                                                              *)

\* Every variable keeps its shape; in particular a thread past its first
\* critical section, a process and a dictionary entry name existing objects.
TypeOK ==
  /\ objs \in Seq(Allocation) /\ Len(objs) <= MaxObj
  /\ procs \in Seq(Process) /\ Len(procs) <= MaxProc
  /\ nRoom \in 0 .. MaxRooms
  /\ allocs \in [RoomId -> 0 .. Len(objs)]
  /\ ownerToRoom \in [Players -> 0 .. nRoom]
  /\ shutdown \in BOOLEAN
  /\ th \in [Threads -> Thread]
  /\ \A t \in Threads : th[t].obj \in 0 .. Len(objs) /\ th[t].proc \in 0 .. Len(procs)
  /\ rows \subseteq DOMAIN objs /\ closed \subseteq DOMAIN objs
  /\ stateFile \in [ObjId -> StateFile]
  /\ pidFile \in [ObjId -> ProcId \cup {0}]
  /\ mon \in [ProcId -> Monitor]

\* Whoever is in a match is a member of its room, whatever joins, quits, leaves,
\* round ends and re-arms are interleaved.
MatchInRoom == \A o \in DOMAIN objs : objs[o].match \subseteq objs[o].players

\* _owner_to_room never sends a player to somebody else's room: the room it
\* names exists and is owned by that player, through every ownership transfer,
\* re-arm and release (the converse fails: a player can own two rooms).
OwnerMapSound ==
  \A p \in Players :
    ownerToRoom[p] # 0 => Known(ownerToRoom[p]) /\ Cur(ownerToRoom[p]).owner = p

\* Two rooms whose current allocation nobody has ended never share a slot, so
\* never a port: rounds that failed but were not torn down count as well.
FreshSlotsExclusive ==
  \A q, r \in RoomId :
    (q # r /\ Known(q) /\ Known(r) /\ allocs[q] \notin closed /\ allocs[r] \notin closed)
      => Cur(q).slot # Cur(r).slot

\* While a round has not been ended, the bridge it waits for runs with exactly
\* the settings its lobby shows (AFDEV takes mode and map from the bridge).
SettingsFrozen ==
  \A o \in DOMAIN objs \ closed :
    objs[o].bridge # 0 => procs[objs[o].bridge].settings = objs[o].settings

\* An object is replaced in the dictionary only by arm_lobby on an ended round,
\* by a fresh one of the next generation with the same lobby: owner, members,
\* players already marked for the match, and settings.
RearmKeepsLobby ==
  [][\A r \in RoomId : (Known(r) /\ allocs'[r] # allocs[r]) =>
       LET old == Cur(r)
           new == objs'[allocs'[r]]
       IN /\ old.state = "ROUND_ENDED"
          /\ allocs'[r] \notin closed' \cup DOMAIN objs
          /\ new = [old EXCEPT !.gen = @ + 1, !.slot = new.slot, !.state = new.state,
                               !.bridge = new.bridge, !.pid = 0]
    ]_vars

\* A decision to end a round or release a room, taken under the lock but carried
\* out after leaving it, takes effect: that allocation is eventually torn down
\* (for a release, the allocation its room has by then).
Decided(what, o) == \E t \in Workers : th[t].pc = what /\ th[t].obj = o
DecisionsTakeEffect ==
  \A o \in ObjId :
    /\ Decided("endRound", o) ~> (o \in closed)
    /\ Decided("release", o) ~> (o \in DOMAIN objs /\ allocs[objs[o].room] \in closed)

\* No call hangs: every arm, teardown and shutdown that was entered comes back.
CallsReturn ==
  \A t \in Threads : (th[t].pc # "idle") ~> (th[t].pc \in {"idle", "sdDone"})

\* Each of the monitor's own ways to end works, whatever calls interleave: once
\* arm_lobby has replaced the allocation it watches, after shutdown_all, when its
\* bridge dies, and in a released room, it ends, unless a teardown clears
\* bridge_proc first or a snapshot it had in hand puts a released room back.
\* A monitor past those two has no way to end left but the first two.
Watched(p) == objs[MonObj(p)]
MonitorsStop ==
  \A p \in ProcId :
    /\ (mon[p].pc # "off" /\ (shutdown \/ allocs[Watched(p).room] # MonObj(p)))
         ~> (mon[p].pc = "off")
    /\ (mon[p].pc # "off" /\ Watched(p).bridge = p /\ procs[p].st = "dead")
         ~> (mon[p].pc = "off" \/ Watched(p).bridge # p)
    /\ (mon[p].pc # "off" /\ Watched(p).state = "RELEASED")
         ~> (mon[p].pc = "off" \/ Watched(p).state # "RELEASED")

-----------------------------------------------------------------------------
(* What the comments and docstrings of the code claim                      *)

\* "room survives as ROUND_ENDED" (line 10): an ended round stays ended until
\* the room is released.
EndedRoundStays ==
  [][\A o \in DOMAIN objs : objs[o].state = "ROUND_ENDED" =>
       objs'[o].state \in {"ROUND_ENDED", "RELEASED"}]_vars

\* "Shared AFDEV survives while any match player remains" (line 774): a round
\* ended because its last player quit or left has no match player.
RoundSurvivesItsPlayers ==
  [][\A t \in Workers : (th[t].pc = "endRound" /\ th'[t].pc = "stopHeavy") =>
       objs[th'[t].obj].match = {}]_vars
=============================================================================
