# Verification of the Assault Fire emulator

TLA+ models of the emulator's backend, with the TLC configurations that check
them on small instances and the TLAPS proofs that hold for every instance.
Paths are relative to the repository.

## 1. The system

| part | source | state it keeps | operations |
|---|---|---|---|
| dedicated-server allocator | `server/assaultfire_ds_spawner.py` | allocations by room, owner index, slots, one bridge process and one monitor thread per armed round | reserve, settings, register, begin, arm, mark, quit, leave, end, release, shutdown |
| UDP bridge v9 | `tools/bridge/..._v9_...py` | peers with a latched packet and a live flag, one loader, one AFDEV, a state file | bind, latch, spawn, poll, send latched, retry, relay, reply, fail, exit |
| UDP bridge v5 | `tools/bridge/..._v5_...py` | a list of clients, the first of which gets all replies | diagnostic predecessor of v9 |
| AFDEV loader | `tools/server_spawner/AFDevLoader_v26...py` | AFDEV's process, the suspend count and stack of its game thread, remote memory with trampolines and result words, a guard thread | create suspended, patch, resume, wait for the engine, inject a console command, sample, scan memory, guard the PVE host |
| backend: Version, Auth, Dir | `server/assaultfire_server_v94.py` | a connection's step and what it has read of the current request | accept, read exactly, answer, linger, close |
| backend: Zone, player | same | the player's session and state, shop, inventory, equipment | load, save, BUY, PROPOPERATION |
| backend: Zone, lobby | same | per connection: the pending profile, the nickname, the friend and its invite, a match room, the clan; on disk: the clan file | login, ready, nickname, friends, chat, clan, rooms, channels |
| backend: TGame key anchor | same | `_TGAME_USED_AUTH_ANCHORS` by pid; per connection the key and its mode | identify, read the ticket, scan TGame, SYN, verify SYNACK, change key |
| backend: TPDU stream | same | `post_chgskey_tail`, `post_chgskey_frame_queue` | collect the first burst, split, queue, fall back |
| TCLS and TGame patchers | `tools/patches/*.py` | a suspended process, saved bytes and page protection | find, suspend, patch, verify, restore, resume |
| setup tools | `tools/setup/*` | a key pair, hosts entries | write, install |

How they interact.

* The allocator starts a bridge process for a round (`arm_lobby`) and learns about it only
  through the bridge's exit status and its JSON state file, which a monitor thread polls.
  The bridge starts the loader when the first valid client packet arrives; the loader starts
  AFDEV and writes pid and ready files that the bridge polls.
* The allocator is called from the backend's request threads. Every operation works under one
  lock, but `quit_match_player`, `remove_room_player`, `prepare_lobby_settings_update`,
  `end_round`, `release_lobby`, `arm_lobby` and `shutdown_all` leave the lock before the slow
  part (stopping processes, waiting for the bind).
* The backend serves every connection on a thread of its own. Connections of one player meet in
  the state file and in the session id that lets only the newest one save; connections of
  several players meet in the match rooms and in the shared clan record.
* The backend of this repository does not import the allocator: the hooks that call it (the
  handlers of A10A, A113, A117) are in a later server version. The allocator is therefore
  modelled with every public call allowed at any time.

Hard behaviours: calls that leave the lock between a decision and its effect; a monitor thread
that applies what it read earlier; processes killed while others still start them; bind, start-up
and kill time-outs racing the late answer; latched packets and retries on an unreliable socket;
retransmitted purchases; overlapping sessions of one player.

What makes each part correct:

* allocator: no slot shared by two rounds in use, the membership and owner maps consistent under
  all interleavings, settings frozen while a round runs, a decision taken under the lock takes
  effect, every call returns, and a monitor ends once its allocation is replaced, the server shuts
  down, or its bridge is dead or its room released while it still holds them;
* bridge: nothing reaches AFDEV before it is ready and nothing but one latched packet per attempt
  before it answers, packets of one peer never reach another, peers and retries are bounded,
  the state file is never ahead of what has happened and never goes back, the start ends one way or
  the other, a bridge that cleans up leaves no loader behind and no AFDEV whose pid it was told, and
  once it has started its loader it kills no process that an earlier run named;
* player state: a stale session never overwrites a newer one, an acknowledged purchase is on disk
  and charged once, gids are unique and equipped items owned;
* framing: what is split does not depend on how the bytes arrive, and each whole request gets one answer;
* key anchor: the key is that of the connection it is used for, never of an earlier object with the
  same ticket;
* lobby: profile and invite are told once; a clan whose creation was confirmed, or that was told and saved,
  outlives connection and server;
* patchers: no jump to code that is not written yet, START as it was, no date before 1900;
* loader: nothing runs before the patches are in, the game thread is never left suspended, its general
  registers, flags and stack come back, a reported result is that of the call it is reported for, and
  while the loader runs a PVE host keeps its observer bit.

## 2. Modules

| module | models | status |
|---|---|---|
| `DSSpawner` | the allocator, its bridge processes as it sees them, its monitors | done |
| `MCDSSpawner` | instances of `DSSpawner` for TLC | done |
| `DSSpawnerProofs` | inductive invariants and theorems of `DSSpawner` | done |
| `Bridge` | bridge v9 with its peers, state file, loader and AFDEV | done |
| `HandshakeRelay` | what the bridge promises each client, without files, processes and failures | done |
| `MCBridge` | instances of `Bridge` for TLC | done |
| `BridgeProofs` | invariants of `Bridge`; `Bridge` implements `HandshakeRelay` | done |
| `PlayerState` | the state file, the Zone connections over it, BUY, equipment | done |
| `MCPlayerState` | instances of `PlayerState` for TLC | done |
| `SuspendedPatch` | the launch helper and the date patcher with the launcher and the games around them | done |
| `AFDevLoader` | the loader's life cycle and one injection after the other into AFDEV's game thread | done |
| `HostGuard` | the loader's guard thread against the game's own writes and travels | done |
| `Trampolines` | the machine code the loader and the date patcher write, instruction by instruction | done |
| `MemoryScan` | the loader's search for live objects in memory that changes | done |
| `ActorDump` | bridge v5: relay, packet decoder (the same in v9), dump file | done |
| `GameKeys` | the TGame handshake and the key found by ticket | done |
| `ZoneStream` | a connection's bytes and the TPDUs taken from them | done |
| `Services` | Version, Auth and Dir: listener, exact reads, handlers | done |
| `ZoneLobby` | the Zone port beyond wallet and inventory; the clan file | done |
| `MCParts` | instances of the ten modules above for TLC | done |
| `PlayerStateProofs` | what the operators of `PlayerState` return and keep; its inductive invariants and theorems | done |
| `SuspendedPatchProofs` | inductive invariants and theorems of `SuspendedPatch` | done |
| `AFDevLoaderProofs` | inductive invariants and theorems of `AFDevLoader` and `Trampolines` | done |
| `ByteStreamProofs` | inductive invariants and theorems of `ZoneStream`, `Services` and `MemoryScan` | done |
| `ZoneProofs` | inductive invariants and theorems of `ZoneLobby` and `GameKeys` | done |
| `PartsProofs` | the properties of the run `parts` follow from the theorems of its modules | done |

Allocator, bridge and loader are not composed into one module: what passes between them (exit status,
state file, pid and ready files) is in `DSSpawner` and `Bridge` as each side sees it, stale and torn files
included, with every behaviour of the other side allowed.

### DSSpawner

State and code:

* `objs` is the heap of `DSAllocation` objects (a round that is re-armed gets a fresh object, the
  threads of the old one keep theirs), `allocs` is `_allocations`, `ownerToRoom` is
  `_owner_to_room`, `nRoom` is `_next_room_id - 1`, `shutdown` is `_shutdown`.
* `th[t]` is where the call of thread `t` stands. A critical section of the source is one action;
  a call that leaves the lock is in a phase named for what it does next: `endRound`, `release`
  (decided, not yet entered), `stopHeavy`, `stopBridge`, `stopClear` (the steps of
  `_stop_allocation`), `armWait`, `armed` (the wait for LISTENING and the return), and for
  `shutdown_all` the rows it still has to stop.
* `procs` are the bridge processes ever started with the settings they were started with;
  `stateFile`, `pidFile` are the files of an allocation's instance directory; `mon` is the monitor
  thread of a bridge: check under the lock, poll, read the file, apply under the lock.
* `closed` is a history variable: the objects some call has ended, released, failed to arm or shut
  down. Nothing in the code depends on it and no guard reads it.

The bridge is modelled here as the allocator can observe it (bind, first packet, ready, first
reply, failure, exit at any moment), straight from bridge v9. Its writes of the state file may fail
or be torn, its bind may fail whoever has the port, and on Ctrl+C it exits without FAILED.

Bounds: `MaxInstances` slots, `MaxRooms` rooms ever created, `MaxObj` allocation objects,
`MaxProc` bridge processes; they bound guards that the code does not have and only keep the state
space finite. `Requests` selects the calls of an instance. Time-outs are modelled as a choice the
loop may make whenever it has not seen what it waits for.

Left out: the create cool-down (a clock; it only rejects calls), log lines, the snapshot file
(written, never read), counters copied from the state file, `wait_ready` (reads only, after
`arm_lobby`), and the order of the port probes at the end of a teardown (diagnostic only).

### Bridge and HandshakeRelay

State and code: `phase` is where `main()` of the bridge stands: before the bind (`boot`), in the `loop`,
with a peer that `make_peer` has published under the old word (526) and nothing done for it yet
(`admitted`), with the loader started or a datagram out and SPAWNING or READY not published yet (570 to
581; `served`), inside `send_all_waiting` (`sendAll`), in the two halves of the `finally` block, ended,
killed; `known`, `latched`,
`live`, `attempts` are the entries of `peers`; `pub` is `state["state"]` in memory and `file` what
a reader of the JSON file finds, since a write can fail or be torn; `loader`, `afdev`, `pidFile`,
`readyFile` are the processes and files the bridge meets; `bystander` is the process whose pid a stale
pid file holds, which the clean-up kills if the bridge fails before `spawn_loader` has unlinked that
file; `up` is what each peer's own socket sent
to AFDEV, `replies` who has datagrams waiting there; `lazy` is `--lazy-spawn`.

Apart from those phases each handler is one action, with its failing outcome as an alternative of the same action where the
source lets an exception out of the loop. The loop over the waiting peers after SESSION_READY is a
phase because a send can fail half way. `Killed` is the allocator's `terminate()`: no `finally`.
Clock comparisons (`startup_timeout`, `first_reply_retry`) are choices, and fairness makes them
come true. Packets are valid datagrams; dropped ones change nothing.

`HandshakeRelay` is the promise: of a client the server hears, before it answers that client, only
the first packet, at most `MaxTries` times, never before the server is up; then all packets in
order. `Bridge` maps to it by `Served` (live peers that have sent something), `CameWith` (the latched
packet, or the first one sent) and `Serving` (the bridge has not left its loop).

Bounds: `MaxRelayed` datagrams upstream per peer (in `Forward` only); `Leftovers` what an earlier
run left at the pid and ready paths.

### PlayerState

State and code: `disk` is `assaultfire_player_state.json`; `counter` and `active` are the two session
globals; per connection, `sid` is its thread's session, `mem` its `local_*` variables, `cache` the
answered purchases of `processed_buy_requests`, and `pc` where its thread is: no session (`closed`),
a session but no state (`begun`), a state that must be saved first (`init`), between requests
(`open`), saved and not yet answered (`answer`), about to save a last time (`ending`).

A request computes, saves and then answers. Nothing another thread does can come between computing
and saving except a new session, which only decides whether the save goes through, so computing and
saving are one action and answering is another. What an exception does is part of each action: in a
request it is caught (memory keeps what was committed, nothing is answered or remembered); elsewhere
it ends the connection with the `finally` save. `Normalize` is what every load and every save applies.
`BUY` is planned and committed as in the code: each cart line takes the next free gid, and the
charge is the sum of the lines.

Two parts of the state are history: `charges` counts how often a sequence number was charged on a
connection, and a state's `books` is what wallet and props together must be worth. No guard reads
them, except that a file with no books is recognised as one the server has not written.

Bounds: `MaxSessions` sessions between two starts, `MaxProps` props. `CacheSize` is the code's 64,
`GidSpace` its 2^64, `WalletCap` its 0x7fffffff. Left out: ROLE and GEO sockets, which run the same
handlers on defaults and never save; the nickname; prop fields no operation reads; the million-step
limit of `_v89_next_free_gid`.

### SuspendedPatch

The helper and the patcher are two programs at `pc["helper"]` and `pc["dater"]`; the launcher's four
bytes are `site`, a TGame is an object with its pid, its suspended flag, its entry and the stubs
written for it. A pid may be given again to a later game, and each tool names its game by pid
(`aim`) until it opens a handle (`hand`), as the code does. `write_code` is three steps (check, write,
verify) used for arming, restoring and the emergency restore of `job`; a short write and a read-back
that differs are outcomes of the steps. `Finally` is the `finally` of the inner try. Ctrl+C can come
at every step of `InterruptAt`; between the write of START's bytes and the line that sets
`tcls_armed` it cannot come as the model takes them for one step: there the code would leave START
suspended. The read of START in the `finally` may fail (fault `"finally"`), which leaves it too; a second
Ctrl+C in the middle of the `finally` is not modelled.

### AFDevLoader, HostGuard, Trampolines, MemoryScan

Together they are the v26 loader; the allocator starts a v48 that is not in the repository.

* `AFDevLoader`: `main` is where `main()` stands, `phase` where its current injection is (`Prepare`
  allocates, `Sentinel` is the word written before, `Suspend`, `Hijack`, `ResumeThread`, the polls,
  `Finally`). `frames` are the trampolines the game thread has entered and not left, `slot` the result
  words. AFDEV starts and drops its engine, loads its map and dies at any moment; GetWorldInfo, called with
  the world `main()` had read, null or gone as it may be, may bring it down. The calls of `Plan`
  are a shortened list of those `main()` makes; the guard thread is `HostGuard`. The first
  `ResumeThread` (4424) stands outside the `try`: if it fails, an AFDEV that never ran is left
  suspended. The `ResumeThread` of the `finally` (4159, 1326) is not looked at, and if it fails the thread
  stays suspended. The run excludes these two faults (`"start"`, `"finally"`). A failed read of the
  milestones goes on to the sampler whatever they are.
* `Trampolines`: each code sequence is a tuple of instructions over symbolic registers and a stack of
  symbolic slots; a call may be sent at any instruction, also of another trampoline, as it is after a
  time-out. The LoadMap milestone hook and the date stub run in the same machine. What the engine's
  functions do is their calling convention: which arguments they take off the stack, which registers
  they may change. `fpu` is the x87 and SSE state, which they may change and `pushfd`/`pushad` does not save.
* `MemoryScan`: words of two bytes instead of four, three pages; the game writes a word or gets or
  loses a page between any two steps of the scan.
* `HostGuard`: the guard reads the flags word, and writes and verifies it in later steps, while the game
  travels, rewrites the word or exits; a PRI the game has given back may still be readable, with anything in
  it. The guard is a daemon thread: with `parent`, the loader's `main()`, it ends, and AFDEV goes on.

The other memory inspections of the loader (local players, controller core, pawns) and its log
scans only print what they read.

### ActorDump

Packets are encoded to bits as the game's writer does and decoded by `Parse`, `read_int` with the
widths of its maxima; `Edges` has the least and greatest value of every field. The relay and the choice
of bunches for the dump file are v5's; the decoder's text is the same in v9, which drops a datagram
that does not parse.

### GameKeys, ZoneStream, Services, ZoneLobby

* `GameKeys`: the game's heap has an object per connection, at an address that may be one used before;
  it is filled in (`valid`) and linked later. The server sees it only by `Recovers`, one scan of the
  ten. `used` is `_TGAME_USED_AUTH_ANCHORS`, which nothing clears: two runs of the game have the same
  pid here. An address that is used again is then excluded, and the connection gets no SYN. The
  properties allow that: no key is no wrong key.
* `ZoneStream`: the client's frames are fixed byte lengths and a `recv` returns any number of the bytes
  written. Before the key change a `recv` is taken for a frame, so a SYNACK that comes in two pieces
  is lost, and so is a first burst with a gap of more than a quarter of a second: the client gets no
  SYN or no key change, and no request is handled wrongly.
* `Services`: a handler is a sequence of exact reads, answers and a last `recv`; a time-out and a close
  by the client end a read with what there is. `recv_exact` swallows the time-out, so the
  `except socket.timeout` around the wait for cmd 5 (889) never fires; the model takes that way.
* `ZoneLobby`: one action per request of the dispatch, those without state in one table
  (`Stateless`). A message is its name; what matters of a name is whether it is ASCII, since the parsers
  take latin-1 and the builders raise on everything else, which ends a handler where it stands. Sends
  may break off after any message. The clan has a number, the file holds one of them. `granted` are the
  clans whose creation A602 confirmed, `shown` those whose ClanID an A005 told: the profile's, the one after
  a creation, and the one after a purchase or an equip (`Refreshes`). It is that of the clan in memory, whose
  save may have failed (`unsaved`). The three are history. An empty clan name is refused, one that is too long is not answered.

Each of the four is about one thread per connection; what connections share (`used`, the files, the
session) is in the modules.

## 3. Runs

| run | question | instance |
|---|---|---|
| `spawner_lobby` | members, match players and owners stay consistent: `MatchInRoom`, `OwnerMapSound` | 2 players, 2 rooms, 2 threads and shutdown, no processes |
| `spawner_slots` | two rooms never share a slot in use: `FreshSlotsExclusive` | 2 players, 2 rooms, 2 slots, 3 objects, one bridge: arming, failing, ending, re-arming, releasing |
| `spawner_rounds` | records well formed; settings frozen while a bridge runs; a re-armed round keeps its lobby: `TypeOK`, `SettingsFrozen`, `RearmKeepsLobby` | 1 room, 2 rounds, 2 settings, 2 threads |
| `spawner_decisions` | a decision taken under the lock takes effect, every call returns, a monitor's ways to end work (fair): `DecisionsTakeEffect`, `CallsReturn`, `MonitorsStop` | 1 room, 2 rounds, 2 threads |
| `bridge_relay` | the bridge implements `HandshakeRelay`, never publishes what has not happened, uses no stale ready file, kills no process of an earlier run, never moves the file backwards: `TypeOK`, `OnlyVerifiedServer`, `PublishedStateTrue`, `RelayImplemented`, `FileNeverRegresses` | 3 clients for 2 places, 2 packets, 2 attempts, 3 datagrams each, with and without `--lazy-spawn`, stale files |
| `bridge_start` | start, retries and clean-up come to an end (fair): `CleansUp`, `StartResolves`, `PeersSettled` | 2 clients, 1 packet, 2 attempts |
| `zone_state` | a stale connection never undoes a purchase, what the last session reports is on disk, charges and grants match (failing saves and answers): `ShownIsSaved`, `Accounted`, `NothingUnspent` | 2 connections, 2 sessions between restarts, a purchase and a cart of two, 2 sequence numbers, 1 remembered answer |
| `zone_edited` | inventories stay well formed: balances, gids, sockets, current role (failing reads): `TypeOK`, `GidsUnique`, `SocketsExclusive`, `RoleOwned` | 1 connection, no file or one of two edited ones, purchases, wrap-around of gids, equip, take-off, drop |
| `parts` | each of the ten further modules: section below | one instance each; the first state says which |

The run `parts` has one instance per module, which share no state: `MCParts` starts in one of ten initial
conditions and takes steps of that part alone, so a part is explored as it would be by itself.

| part | property | what it says | instance |
|---|---|---|---|
| launch | `DatesFixed`, `StubFirst`, `TclsRestored` | a game the helper resumed never works with a date before 1900; no entry jumps to a stub not written; START is as it was when the helper ends | 2 pids, 2 games, years 1899 and 1900; every access to the game may fail, none to the launcher's memory (`CarefulRun`); Ctrl+C but at the write and the finally |
| loader | `NotLeftHeld`, `ResultsAreOwn` | nothing runs before the patches are in, nothing is left suspended; a reported result belongs to its call | 5 patches, 4 calls, 3 milestones, 2 samples |
| guard | `GuardRestores` | while the loader runs, a PVE host without the observer bit gets it back (fair) | 2 hosts, 2 rewrites |
| code | `ThreadRestored`, `CallsRight` | interrupted code gets general registers, flags and stack back; calls have the object and arguments their trampolines were made with | three pairs of calls that cover all five functions, one inside the other; both sides of 1900 |
| scan | `ScanSound` | the scan reports what was there, once, in order, and misses nothing that stayed | 3 pages of 4 bytes, 1 change, limit of 3 hits |
| dump | `PacketsDecoded`, `BunchesDumped` | decoding inverts encoding; the dump holds opens and the first bunches per direction and channel, no others | every field at both ends, packets of several bunches, 4 bunches, limits 3 and 2 |
| keys | `KeysRight` | after the key change the key is the connection's own; a connection after orderly ones never has another's | 2 addresses, 2 connections, 2 runs, 2 tries |
| stream, services | `RequestsOnce` | every TPDU handled once and in order however it is cut; the k-th answer after exactly the bytes of its request | 5 or 6 frames, one bad; requests of 2 to 4 bytes |
| lobby | `ToldOnce`, `ClanKept` | one profile per login, one invite; pages cover the room list; a clan whose creation was confirmed, or whose ClanID was told and whose save did not fail, is on disk unless the file could not be read | 2 connections, 4 requests, a crash |
| launch, loader, services | `AllEnd` | each comes to its end (fair) | as above |

In `AFDevLoader` a time-out is needed for a second trampoline on top of the first, and the plan has one
of each kind twice; in `GameKeys` two addresses give an object that is stale and one that is fresh, two
runs of the game an address that comes again. Four requests hold a login with its profile, another login, and
the invite before and after a friend. A bound that cut a case off would show as an action or disjunct
that is never taken; all are.

Two players suffice for an owner who inherits a room while he owns another one, and two rooms for
anything about slots and the owner index; two rounds let the monitor of an old object meet its
successor. In the bridge a third client meets the full table, two packets tell the latched one from
a later one, and two attempts tell a retry from the last one. Two connections are a stale and a
current one; the edited files have the last gid in use or next, so one cart runs over the end of the
space, and a balance above the cap of 4. The sockets property is stated of files whose sockets were
exclusive, as neither the code nor a comment promises to repair others.

Three further runs check what the code's comments say of it and find it violated: `v_ended_stays`
(`EndedRoundStays`), `v_round_survives` (`RoundSurvivesItsPlayers`), `v_charged_once` (`ChargedOnce`);
section 6.

`ShownIsSaved` and `NothingUnspent` are checked with reads that succeed: after a read that fails the
code starts the player anew by design, and overwrites the old save if it could not be moved aside.

Fairness. Parts: a tool, a loader, the guard thread while its loader runs, and a service's threads go on when
they can (`Runner`);
their waits are time-outs. Not fair are a failing read that would end a poll (`PollFails`), Ctrl+C, and
every step of a game, launcher or client. Allocator: weak fairness of every entered call and every monitor; the lock is held for
bounded work, every wait has a deadline, threads are preemptive. Nothing is assumed of the players,
the bridge's start-up, or new requests. Bridge: the loop never blocks longer than `select`'s
0.05 s, so polls, retries, the two halves of a new peer's handling (`Admitted`, `Announce`), the sends of
`send_all_waiting` and the clean-up are weakly fair; nothing is assumed of clients, loader or AFDEV.

## 4. Proofs

`DSSpawnerProofs` proves, for any number of players, rooms, slots, objects, processes and threads
(`SpawnerAssumption`: the bounds are naturals, players are positive, the main thread is not a
worker):

* `TypeCorrect`: `Spec => []TypeOK`;
* `MatchStaysInRoom`: `Spec => []MatchInRoom`;
* `OwnerMapStaysSound`: `Spec => []OwnerMapSound`.

`MatchInRoom` and `OwnerMapSound` are not inductive alone: an entry of `allocs` could name an
object of another room, which the next ownership transfer would turn into a wrong owner entry, and
a monitor could hold a bridge index that does not exist. The invariant `Inv` adds that each room's
object is filed under that room (`RoomsOK`), that objects, processes, threads, files and monitors
refer to things that exist (`ObjsOK`, `ProcsOK`, `ThreadsOK`, `FilesOK`, `MonsOK`), and keeps the
owner index sound (`OwnersOK`). The proof has one lemma per group of actions that change the same
state (membership, leaving, reserving, arming, re-arming, waiting, teardown, shutdown, bridge,
monitor), each resting on `ObjectStep`, `ControlStep` and `ProcessStep`, which say what a step that
rewrites one object, moves one thread or moves one process preserves.

Under the same assumption, about the life of a round:

* `SlotsExclusive`: `Spec => []FreshSlotsExclusive`;
* `SettingsStayFrozen`: `Spec => []SettingsFrozen`;
* `RearmKeepsTheLobby`: `Spec => RearmKeepsLobby`.

`FreshSlotsExclusive` alone is not inductive: a slot is given out when no room's object holds it in a
state other than RELEASED and ROUND_ENDED, so it must be known that an object nobody closed is in
neither (`OpenOK`); settings may change in RESERVED and ROUND_ENDED, so `SettingsFrozen` needs that a
RESERVED object has no bridge (`ReservedOK`). `RoundInv` is the conjunction. One lemma says what
rewriting an object keeps, one what appending a fresh one keeps, and each action is one of the two or
changes neither.

`BridgeProofs` proves, for any clients, packets and limits (`BridgeAssumption`):

* `TypeCorrect`, `ServerIsVerified`, `PublishesTheTruth`: `Spec => []TypeOK`, `[]OnlyVerifiedServer`,
  `[]PublishedStateTrue`;
* `BridgeImplementsRelay`: `Spec => RelayImplemented`;
* `FileOnlyAdvances`: `Spec => FileNeverRegresses`.

Its invariant `Inv` says of each peer that what was sent from its socket is its latched packet, once
per attempt, while it is not live (`PeersOK`); that a ready file acted on is this loader's own, since
`spawn_loader` unlinks the old one first (`ServerOK`); that the loader is started with the first peer
(`PhaseOK`); and that the published word is a function of peers, loader and readiness (`PubOK`). The
refinement has one lemma per kind of step: a new peer is a `Connect`, a `Knock` or, when its
handling fails, a `Stop`; a send a `Try`; AFDEV's first answer an `Open`; everything else a stutter
or the `Stop`. That the file never goes back needs `FileOK`: what it holds, after any failed or torn
writes, is never ahead of what is published; and that what is published only rises in the order of
the states.

`PlayerStateProofs` proves, for any catalogue, requests, operations, connections, cache size and
numbers of sessions:

* `TypeCorrect`, `UniqueGids`, `ExclusiveSockets`, `OwnedRole`, `BooksKept`: `Spec => []TypeOK`,
  `[]GidsUnique`, `[]SocketsExclusive`, `[]RoleOwned`, `[]Accounted`, whatever fails;
* `ShownSaved`, `NeverUnspent`: `Spec => []ShownIsSaved` and `Spec => NothingUnspent`, where reads of the
  file succeed (`"read" \notin Faults`); with reads that fail both are false, by design (section 3).

Assumed are `PlayerStateAssumption` (prices are naturals, the opening balance is within the cap, the gid
space is larger than an inventory, the canonical place of the starter role is a role's) and
`EditedAssumption`: a file a user left behind has fields of the right kind with numbers of any size,
and the inventory it comes down to fits and has no two props in one socket.

The invariant is `Stored` (every state in memory and on disk is `Good`: typed, gids unique, sockets
exclusive, starters and a current role there, books balanced; or the file is an untouched edited one),
`Sessions` (no two connections have one session, and `active` is the newest) and `Talk` (the answers
remembered). All five properties read the same states, so they are proved as one. A save goes out only
for the newest session, and `Fresh` says why it takes nothing back: that session's balance is never above
the file's, and between a save and its answer the two are alike. The weight is in the
lemmas on the operators: a free gid exists and is free, a cart gives each prop a gid of its own and charges the sum of its
prices, an operation exchanges places and never shares one, `Normalize` adds starters without a
clash and does nothing to a good state. A cart is folded line by line: the folds are recursive functions,
and the inductions over them are written out with a smallest counterexample, as induction rules with
an operator parameter are out of reach.

`SuspendedPatchProofs` proves, for any pids, games, years and faults (`PatchAssumption`):

* `DatesStayFixed`, `StubsComeFirst`: `Spec => []DatesFixed`, `[]StubFirst`, whatever fails and wherever
  Ctrl+C comes;
* `StartIsRestored`: `Spec => []TclsRestored`, if no access to the launcher's memory fails and Ctrl+C comes
  neither between the write and the line that notes it nor at the finally (`CarefulRun`).

A game is resumed by pid, and the pid may be another game's by then. That it has a patched entry all the
same follows from `PidsOK` (no two living games have one pid), `HandsOK` (a handle names the game aimed at
or a dead one), and `SiteOK`: by then START creates no suspended games any more, so a new game with
that pid cannot be the suspended one. `CodeOK` says in which places of the helper the temporary bytes are
in the launcher; each of them leads to their restoration.

`AFDevLoaderProofs` proves, for any patches, plan, milestones, samples and faults (`LoaderAssumption`):

* `NeverRunsUnpatched`, `ReportsOwnResults`: `Spec => []UnpatchedNeverRuns` and `Spec => []ResultsAreOwn`;
* `NeverLeftHeld`: `Spec => []NotLeftHeld`, if neither the ResumeThread that starts AFDEV fails (it is
  outside of the `try` that would terminate the process) nor that of a `finally`.

`ResultsAreOwn` rests on each call being on the thread's stack at most once (`FramesOK`), on the calls to
come having left no trace (`CallsOK`), and on a result being written by its call alone (`SlotsOK`): a
trampoline main() gave up may still write, but into memory of its own. `HeldOK` counts who holds the
thread.

It also proves, for any plans of calls and any years (`TrampolineAssumption`), of the machine code:

* `ThreadComesBack`: `Spec => []ThreadRestored`, of the general registers, flags and stack;
* `CallsAreRight`: `Spec => []CallsRight`.

A call may interrupt another one's trampoline at any instruction, so a thread that is back somewhere must
have there what it had when it was taken away, and under that what the one interrupted had, and so on.
`CodeInv` says there is, for each call made, the registers and stack it interrupted (`\E c`), such that the
thread (`Here`) and each of these (`Below`) is `At` a place of its program: in the game's own code or a stub with
the stack that place has (`Place`), at an instruction of a trampoline over the stack it interrupted
(`CallFrame`), or in an engine function above it (`InEngine`). Programs are not run instruction by instruction
in the proof: all five trampolines have one `Shape` (save, load, push, call, store, restore, go back), and
only where registers are loaded do they differ (`Loaded`). It rests on each function taking its own arguments
off the stack and leaving EBX alone, as the calling convention in the model says.

`ZoneProofs` proves, for any addresses, modes, connections, runs of the game and numbers of scans
(`KeyAssumption`), `OwnKeys`: `Spec => []KeysRight`. The used anchors are the only thing that tells an
old object from a new one, and they are noted when a key was found, not when it was right. The
argument: a game opens a connection only when those before it have switched or closed (`Ordered`), so
until it switches memory holds its own object and older ones (`HeapOK`); an older one that echoed the
challenge rightly was found at its own address, which was noted before the SYN went out (`FoundOK`,
`RightOK`), and so is left out of every later scan (`SeenOK`).

Of the lobby, `ZoneProofs` proves, for any connections, requests and crashes:

* `ClanOutlives`: `Spec => []ClanKept`. `ClanInv` adds that clans are numbered as they are created, and that
  what a connection has in memory is on disk or its save has failed;
* `ToldAsPromised`: `Spec => []ToldOnce`. The property counts messages of a kind in what a connection was
  told. `ToldInv` has a `Row` for each connection: its log so far is as promised (`Fine`), and while the
  connection is up, a profile still to be sent has a login without one, no block of a profile is half
  sent, an invite not noted as sent has not been told, and where no friend is noted as accepted,
  each FRIEND told was followed by an UNFRIENDED (`Answered`). `FineOneMore` is what it takes for the log to get one message
  more.

`ByteStreamProofs` proves what is made of bytes that arrive in pieces:

* `FramesHandledOnce`: `Spec => []FramesOnce`, for any header size, `recv` size and streams of frames
  (`StreamAssumption`). `StreamInv` says that handled and queued frames are in order and end before the
  tail (`OrderOK`), and that without a bad header the tail begins at the end of a frame up to which all are
  handled or queued, and holds no whole frame (`CompleteOK`). A recursive sum over the frames is
  given by its recurrence (`EndSteps`), and what `Splits` takes off is an induction on the frames within
  reach, written out with a smallest counterexample;
* `AnswersServed`: `Spec => []Served`, for any request sizes (`ServiceAssumption`). `ServiceInv` relates the
  place in a handler's program to the bytes taken: those of the reads before it, and a part of its own;
* `ScanFindsWhatStays`: `Spec => []ScanSound`, for any sizes of word, page and chunk and any target that
  cannot overlap itself (`ScanAssumption`). The search steps over no match as matches cannot overlap;
  an aligned address that held the target all the time is in the chunk that covers it, and no address
  is in two. `ScanInv` is this for the addresses passed so far.

`PartsProofs` takes these to the run: `PartSpec => []P` for each property `P` of the run `parts` but those named
below. In each of its parts, the run's behaviours are behaviours of that part's module with the run's
values (`LaunchRuns`, `LoaderRuns`, ...), and the property of another part holds as it speaks only of its
own. The proof modules have instances of their own; that two instances of one module with the same
values are the same specification is the `Same...` lemma of each part.

Only model-checked:

* `PacketsDecoded` of `ActorDump`: what the decoder returns for every packet is induction over the packet;
  `BunchesDumped`, which is about a fold over the list of clients' bunches;
* the liveness properties `DecisionsTakeEffect`, `CallsReturn`, `MonitorsStop`, `CleansUp`, `StartResolves`,
  `PeersSettled`, `GuardRestores` (the only one of `HostGuard`) and `AllEnd`: fairness and ENABLED are out of
  the prover's reach.

## 5. Not modelled

* Contents of packets, hashes and ciphers of the backend: no control depends on them. With them the one
  TACC answer of the ROLE port to `client.exe`, and the older key scanners that nothing calls.
* Of the loader: inspections that only print, its log tail and configuration scan.
* The key-pair generator and the hosts script: run once by hand, sequential, with no state over time.
* Clocks: a time-out is a choice, and a connection's fixed lifetime (3600 s or 120 s, never refreshed)
  ends it at any moment.

## 6. Where code and comments differ

| run | comment | what happens |
|---|---|---|
| `v_ended_stays` | "room survives as ROUND_ENDED" (`assaultfire_ds_spawner.py:10`) | the monitor sees the bridge that `end_round` killed and writes FAILED; `arm_lobby` then refuses the room |
| `v_round_survives` | "Shared AFDEV survives while any match player remains" (`:774`) | a player marked between the decision and `end_round` loses the round |
| `v_charged_once` | "Key by the client app sequence and replay the original A506 instead of charging or granting twice" (`assaultfire_server_v94.py:6667`) | a purchase is committed in memory before the save; if the save raises it is neither answered nor remembered, and its retransmission is charged again |

Behaviour of the first two roots, seen while modelling and not given runs of their own: a monitor that
read the state file before a release writes STARTING or READY over RELEASED, and the slot stays
occupied (`:584`); a player who registers between the decision to release and the release goes with
the room (`:816`); a second `arm_lobby` returns while the first still waits for the bind (`:447`);
a monitor whose bridge a teardown has cleared and whose stale snapshot has then overwritten RELEASED
sees none of its ends any more, and loops until the room is armed again or the server shuts down; a
bridge that gets its first packet between the two kills of `_stop_allocation` leaves its loader
running (`:893-899`). In the bridge, a loader or AFDEV that dies after SESSION_READY goes unnoticed,
and LISTENING is written once: if that write fails, `arm_lobby` waits until it times out.

In the further parts. These follow from the code as modelled and have no run of their own; the properties
that come near them say in their comments what they leave out:

* "Preserve exact interrupted CPU state", say the loader's comments (2118, 3522), and "Registers/flags
  restored" (3916): `pushfd` and `pushad` leave out the x87 and SSE registers, which the engine function
  called from an arbitrary instruction may change (`Trampolines!CpuRestored`, not checked by a run).
* "if bit 2 is ever cleared, restore it", says the guard's worker (932-933): it is a daemon thread, an
  injection that raises (4499-4505, 4739) ends it with the loader, and AFDEV goes on
  (`HostGuard!GuardOutlives`, not checked by a run).
* A clan whose save raises (7728) is in memory by then (7712): every later A005 of its connection tells a
  ClanID that no file has. `ClanKept` names the exception (`unsaved`).
* The guard of the PVE host "sets ONLY" the observer bit by its docstring (`AFDevLoader_v26...py:829`), but
  writes back the whole word it has read: a flag the game sets in between is lost
  (`HostGuard!OnlyTheObserverBit`, not checked by a run).
* The comment at `main()`'s capacity commands (4630) says that the world exists by then; the result of the
  wait for it is not looked at (`AFDevLoader!CapacityOnWorld`, not checked by a run).
* `main()` prints "Both loading-screen paths have now been explicitly stopped/hidden" (4697); neither
  function is called (4584-4593).
* Without an engine the Exec trampoline writes no result, and the caller waits for its 60 s.
* A nickname with a letter outside of ASCII is saved, and from then on every `FF05` raises: no profile any
  more, in this session or a later one. A room with such a name or owner makes every list it is in fail; a
  clan with such a name passes the check with `errors="replace"` (5546), is saved, and is never answered.
* `v92_friend_uin` and `v92_friend_name` are stored (7574) and never read: the status list always shows the
  one built-in friend.
