------------------------------- MODULE MCParts -------------------------------
(***************************************************************************)
(* The parts of the server that share no state with the rest, and the      *)
(* tools beside the servers.  A run of this module checks each of them by  *)
(* itself: the first state says which one runs, and the variables of the   *)
(* others stand still.                                                     *)
(***************************************************************************)
EXTENDS ActorDump

CONSTANT PartsRun   \* the parts to run

VARIABLES
  part,
  \* SuspendedPatch, its client called tcls here
  tcls, site, game, pc, job, armed, existing, aim, hand,
  \* AFDevLoader
  main, done, at, phase, life, susp, frames, slot, pages, ran, got, samples,
  engine, url, stage, world,
  \* HostGuard
  up, parent, host, hosts, pve, flags, wants, rewrites, step, target, old,
  \* Trampolines
  eip, reg, fpu, stack, sent, home, word, made, marker, GEngine,
  \* MemoryScan
  page, open, writes, address, limit, hits, steady, kept, had,
  \* GameKeys, its client called peer here
  run, heap, peer, born, used, server, seen, tried, found, mode, key, right,
  \* ZoneStream, its phase called mood
  script, written, read, mood, tail, queue, handled,
  \* Services, its at, got and sent called pos, have and wrote
  label, sane, pos, have, taken, wrote, gone, answers, late,
  \* ZoneLobby
  link, told, pending, nick, invited, accepted, room, clan, session, saved, file,
  clans, granted, shown, unsaved, asideAt, requests

launchVars == <<tcls, site, game, pc, job, armed, existing, aim, hand>>
loaderVars == <<main, done, at, phase, life, susp, frames, slot, pages, ran, got, samples,
                engine, url, stage, world>>
guardVars == <<up, parent, host, hosts, pve, flags, wants, rewrites, step, target, old>>
codeVars == <<eip, reg, fpu, stack, sent, home, word, made, marker, GEngine>>
scanVars == <<page, open, writes, address, limit, hits, steady, kept, had>>
keysVars == <<run, heap, peer, born, used, server, seen, tried, found, mode, key, right>>
streamVars == <<script, written, read, mood, tail, queue, handled>>
servicesVars == <<label, sane, pos, have, taken, wrote, gone, answers, late>>
lobbyVars == <<link, told, pending, nick, invited, accepted, room, clan, session, saved, file,
               clans, granted, shown, unsaved, asideAt, requests>>

-----------------------------------------------------------------------------
(* The suspended launch: two pids, a game that dies may be followed by one *)
(* with its pid.  Ctrl+C may come anywhere but between the write and the   *)
(* line that notes it, where TclsRestored cannot hold.                     *)

AnyStep == {"debugger", "client", "module", "list", "check", "write", "await",
            "open", "read", "stub", "entry", "reread", "resume"}
PatchFaults == {"read", "stub", "entry", "reread"}
Launch == INSTANCE SuspendedPatch WITH
  Pids <- {11, 12}, MaxGames <- 2, Years <- {1899, 1900}, Faults <- PatchFaults, InterruptAt <- AnyStep,
  client <- tcls

(* The loader: all its injections.  Every system call may fail but two     *)
(* kinds of ResumeThread, after which a suspended AFDEV stays behind: the  *)
(* one that starts AFDEV, outside of the try that terminates it, and the   *)
(* one in a finally, whose result nobody looks at.                         *)
AllPatches == <<"login", "devlogin", "mutex", "hooks", "boot">>
SomeCalls == <<"open", "worldinfo", "exec", "exec">>
LoaderFaults == {"patch", "alloc", "suspend", "context", "resume", "read"}
Loader == INSTANCE AFDevLoader WITH
  Patches <- AllPatches, Plan <- SomeCalls, Stages <- 3, Samples <- 2, Faults <- LoaderFaults

Guard == INSTANCE HostGuard WITH Others <- {"f"}, MaxHosts <- 2, MaxRewrites <- 2

(* One call inside of another, each function in both places or alone, and  *)
(* the years on both sides of the limit.                                   *)
Code == INSTANCE Trampolines WITH
  Plans <- {<<"exec", "worldinfo">>, <<"player", "hide">>, <<"stop", "exec">>},
  Dates <- {1899, 1900}, engine <- GEngine

(* Two-byte words, three pages, chunks of two: a target across a page, at  *)
(* an odd address, twice in a page, and one more than the limit of hits.   *)
SomePages == {<<1, 2, 1, 2>>, <<2, 1, 2, 1>>, <<1, 1, 2, 2>>}
Scan == INSTANCE MemoryScan WITH
  WordSize <- 2, PageSize <- 4, Chunk <- 8, MaxHits <- 3, Target <- <<1, 2>>,
  Pages <- SomePages, NPages <- 3, MaxWrites <- 1

(* Packets with the least and the greatest value of every field, others    *)
(* that spread bunches over packets, and bits that are no packet.          *)
Ack(n) == [ack |-> 1, id |-> n]
Bunch(kind, rel, ch, seq, type, payload) ==
  [ack |-> 0, ctl |-> IF kind = "data" THEN 0 ELSE 1, op |-> IF kind = "open" THEN 1 ELSE 0,
   cl |-> IF kind = "close" THEN 1 ELSE 0, rel |-> rel, ch |-> ch, seq |-> rel * seq,
   type |-> IF rel = 1 \/ kind = "open" THEN type ELSE 0, payload |-> payload]
Packet(id, records) == [id |-> id, records |-> records]
Edges ==
  {Packet(16383, <<Bunch(kind, rel, ch, 1023, 7, <<1, 0, 1>>), Ack(16383)>>) :
     kind \in {"open", "close", "data"}, rel \in {0, 1}, ch \in {0, 1022}}
Traffic ==
  {Packet(0, <<Ack(0)>>),
   Packet(1, <<Bunch("open", 1, 2, 1, 2, <<1>>), Bunch("data", 0, 3, 0, 0, <<0>>)>>),
   Packet(2, <<Bunch("data", 1, 2, 2, 2, <<1, 1, 1, 1, 1, 1, 1, 1, 1>>)>>),
   Packet(3, <<Bunch("data", 0, 3, 0, 0, <<>>), Ack(2), Bunch("data", 0, 3, 0, 0, <<1>>)>>)}
SomePackets == Edges \cup Traffic
Garbage == {<<>>, <<0, 0, 0, 0, 0, 0, 0, 0>>, <<1, 0, 0, 0, 0, 0, 0, 0>>,
            Bits(5, 14) \o <<0, 0, 0>> \o Bits(2, 10) \o Bits(9, 12) \o <<1, 1>>}

(* Two addresses for the objects of two connections, in one run of the     *)
(* game or in two: a stale object, an excluded address, a key of either.   *)
Keys == INSTANCE GameKeys WITH
  Anchors <- {1, 2}, Modes <- {2, 3}, Tries <- 2, MaxConns <- 2, MaxRuns <- 2,
  client <- peer

(* Every cut of a stream with frames of a header only and longer ones, and *)
(* one with a header gone bad after a good frame; a recv() holds two or    *)
(* three frames, with the next one's header in part or whole.              *)
Good(n) == [size |-> n, good |-> TRUE]
Bad(n) == [size |-> n, good |-> FALSE]
SomeScripts == {<<Good(3), Good(3), Good(2), Good(4), Good(3)>>,
                <<Good(3), Good(3), Good(3), Bad(3), Good(2), Good(3)>>}
Stream == INSTANCE ZoneStream WITH
  Header <- 2, RecvMax <- 7, Scripts <- SomeScripts, phase <- mood

(* Requests of a few bytes, so that every way to cut or join them occurs.  *)
FewBytes == [VERSION |-> 3, AUTH |-> 4, DIR |-> 2]
Serve == INSTANCE Services WITH
  RequestSize <- FewBytes, HeadSize <- 2, BodySize <- 3,
  at <- pos, got <- have, sent <- wrote

(* Four requests on two connections: a login with its profile twice, the   *)
(* invite before and after, a clan each.                                   *)
Lobby == INSTANCE ZoneLobby WITH
  Sockets <- {1, 2}, Asked <- {"startroomalloc"}, MaxRequests <- 4

ASSUME PartAssumptions ==
  /\ Launch!PatchAssumption /\ Loader!LoaderAssumption /\ Guard!GuardAssumption
  /\ Code!TrampolineAssumption /\ Scan!ScanAssumption /\ DumpAssumption
  /\ Keys!KeyAssumption /\ Stream!StreamAssumption /\ Serve!ServiceAssumption
  /\ Lobby!LobbyAssumption

-----------------------------------------------------------------------------
PartInit ==
  /\ part \in PartsRun
  /\ IF part = "launch" THEN Launch!Init
     ELSE /\ tcls = 0 /\ site = 0 /\ game = 0 /\ pc = 0 /\ job = 0 /\ armed = 0
          /\ existing = 0 /\ aim = 0 /\ hand = 0
  /\ IF part = "loader" THEN Loader!Init
     ELSE /\ main = 0 /\ done = 0 /\ at = 0 /\ phase = 0 /\ life = 0 /\ susp = 0
          /\ frames = 0 /\ slot = 0 /\ pages = 0 /\ ran = 0 /\ got = 0 /\ samples = 0
          /\ engine = 0 /\ url = 0 /\ stage = 0 /\ world = 0
  /\ IF part = "guard" THEN Guard!Init
     ELSE /\ up = 0 /\ parent = 0 /\ host = 0 /\ hosts = 0 /\ pve = 0 /\ flags = 0 /\ wants = 0
          /\ rewrites = 0 /\ step = 0 /\ target = 0 /\ old = 0
  /\ IF part = "code" THEN Code!Init
     ELSE /\ eip = 0 /\ reg = 0 /\ fpu = 0 /\ stack = 0 /\ sent = 0 /\ home = 0 /\ word = 0
          /\ made = 0 /\ marker = 0 /\ GEngine = 0
  /\ IF part = "scan" THEN Scan!Init
     ELSE /\ page = 0 /\ open = 0 /\ writes = 0 /\ address = 0 /\ limit = 0
          /\ hits = 0 /\ steady = 0 /\ kept = 0 /\ had = 0
  /\ IF part = "dump" THEN Init
     ELSE client = 0 /\ wire = 0 /\ log = 0
  /\ IF part = "keys" THEN Keys!Init
     ELSE /\ run = 0 /\ heap = 0 /\ peer = 0 /\ born = 0 /\ used = 0 /\ server = 0
          /\ seen = 0 /\ tried = 0 /\ found = 0 /\ mode = 0 /\ key = 0 /\ right = 0
  /\ IF part = "stream" THEN Stream!Init
     ELSE /\ script = 0 /\ written = 0 /\ read = 0 /\ mood = 0 /\ tail = 0
          /\ queue = 0 /\ handled = 0
  /\ IF part = "services" THEN Serve!Init
     ELSE /\ label = 0 /\ sane = 0 /\ pos = 0 /\ have = 0 /\ taken = 0 /\ wrote = 0
          /\ gone = 0 /\ answers = 0 /\ late = 0
  /\ IF part = "lobby" THEN Lobby!Init
     ELSE /\ link = 0 /\ told = 0 /\ pending = 0 /\ nick = 0 /\ invited = 0
          /\ accepted = 0 /\ room = 0 /\ clan = 0 /\ session = 0 /\ saved = 0
          /\ file = 0 /\ clans = 0 /\ granted = 0 /\ shown = 0 /\ unsaved = 0
          /\ asideAt = 0 /\ requests = 0

OnlyLaunch ==
  part = "launch" /\ UNCHANGED <<part, loaderVars, guardVars, codeVars, scanVars, vars,
                                 keysVars, streamVars, servicesVars, lobbyVars>>
OnlyLoader ==
  part = "loader" /\ UNCHANGED <<part, launchVars, guardVars, codeVars, scanVars, vars,
                                 keysVars, streamVars, servicesVars, lobbyVars>>
OnlyGuard ==
  part = "guard" /\ UNCHANGED <<part, launchVars, loaderVars, codeVars, scanVars, vars,
                                 keysVars, streamVars, servicesVars, lobbyVars>>
OnlyCode ==
  part = "code" /\ UNCHANGED <<part, launchVars, loaderVars, guardVars, scanVars, vars,
                                 keysVars, streamVars, servicesVars, lobbyVars>>
OnlyScan ==
  part = "scan" /\ UNCHANGED <<part, launchVars, loaderVars, guardVars, codeVars, vars,
                                 keysVars, streamVars, servicesVars, lobbyVars>>
OnlyDump ==
  part = "dump" /\ UNCHANGED <<part, launchVars, loaderVars, guardVars, codeVars, scanVars,
                                 keysVars, streamVars, servicesVars, lobbyVars>>
OnlyKeys ==
  part = "keys" /\ UNCHANGED <<part, launchVars, loaderVars, guardVars, codeVars, scanVars,
                                 vars, streamVars, servicesVars, lobbyVars>>
OnlyStream ==
  part = "stream" /\ UNCHANGED <<part, launchVars, loaderVars, guardVars, codeVars, scanVars,
                                 vars, keysVars, servicesVars, lobbyVars>>
OnlyServe ==
  part = "services" /\ UNCHANGED <<part, launchVars, loaderVars, guardVars, codeVars, scanVars,
                                 vars, keysVars, streamVars, lobbyVars>>
OnlyLobby ==
  part = "lobby" /\ UNCHANGED <<part, launchVars, loaderVars, guardVars, codeVars, scanVars,
                                 vars, keysVars, streamVars, servicesVars>>

PartNext ==
  \/ OnlyLaunch /\ Launch!Next
  \/ OnlyLoader /\ Loader!Next
  \/ OnlyGuard /\ Guard!Next
  \/ OnlyCode /\ Code!Next
  \/ OnlyScan /\ Scan!Next
  \/ OnlyDump /\ Next
  \/ OnlyKeys /\ Keys!Next
  \/ OnlyStream /\ Stream!Next
  \/ OnlyServe /\ Serve!Next
  \/ OnlyLobby /\ Lobby!Next

allVars == <<part, launchVars, loaderVars, guardVars, codeVars, scanVars, vars,
             keysVars, streamVars, servicesVars, lobbyVars>>
\* What is sure to go on: the tools and the server's threads, not the processes and the
\* clients they work with.  One part runs in a behaviour, so one condition serves them all.
Runner ==
  \/ OnlyLaunch /\ Launch!Helper
  \/ OnlyLoader /\ Loader!Loader
  \/ OnlyGuard /\ Guard!Guard
  \/ OnlyServe /\ (Serve!Accepts \/ Serve!Handler)
PartSpec == PartInit /\ [][PartNext]_allVars /\ WF_allVars(Runner)

-----------------------------------------------------------------------------
(* The properties of the parts; each module says more about its own.       *)

\* A game the launch helper has resumed never works with a date before 1900.
DatesFixed == part = "launch" => Launch!DatesFixed

\* No living TGame has an entry that jumps to a trampoline not written yet.
StubFirst == part = "launch" => Launch!StubFirst

\* A launch helper that has ended leaves START as it found it, unless an access to the
\* launcher failed or Ctrl+C came just after a write.
TclsRestored == part = "launch" => Launch!TclsRestored

\* No instruction of AFDEV runs before every patch is in, a loader that could not patch
\* leaves no process behind, and after that it never goes on or ends with AFDEV's game
\* thread suspended, as long as the ResumeThread of the finally works.
NotLeftHeld == part = "loader" => Loader!UnpatchedNeverRuns /\ Loader!NotLeftHeld

\* A result main() reports is that of its own call, made exactly once.
ResultsAreOwn == part = "loader" => Loader!ResultsAreOwn

\* While the loader runs, the guard sets the observer bit of a PVE host that is without.
GuardRestores == []<>(part = "guard" => Guard!Restored)

\* The interrupted code of the game gets its general registers, flags and stack back.
ThreadRestored == part = "code" => Code!ThreadRestored

\* Each call gets the object and the arguments its trampoline was made with.
CallsRight == part = "code" => Code!CallsRight

\* The memory scan reports what was there, and misses nothing that stayed.
ScanSound == part = "scan" => Scan!ScanSound

\* Every packet decodes to what its sender meant.
PacketsDecoded == part = "dump" => DecodedRight

\* The dump holds the bunches worth a look, and no others.
BunchesDumped == part = "dump" => DumpComplete

\* The server's key is that of the connection it has it for.
KeysRight == part = "keys" => Keys!KeysRight

\* The bytes of a connection become the requests its client sent, each one once, and
\* each whole request its answer.
RequestsOnce ==
  /\ part = "stream" => Stream!FramesOnce
  /\ part = "services" => Serve!Served

\* A client is told its profile once per login, is asked by its friend once, and finds
\* every room on the pages of the room list.
ToldOnce == part = "lobby" => Lobby!ToldOnce /\ Lobby!PagesCover

\* A clan whose creation was confirmed, or whose ClanID was told and whose save did not
\* fail, outlives the connection and the server.
ClanKept == part = "lobby" => Lobby!ClanKept

\* The launch helper ends, the loader comes to its last wait or its end, and the services
\* close every connection, whatever their peers do or fail to do.
AllEnd ==
  <>(/\ part = "launch" => Launch!HasEnded
     /\ part = "loader" => Loader!Resolved
     /\ part = "services" => Serve!IsClosed)
=============================================================================
