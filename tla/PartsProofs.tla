----------------------------- MODULE PartsProofs -----------------------------
(***************************************************************************)
(* The properties of MCParts' run follow from the theorems about its       *)
(* parts.  Each part is an instance of a model, and is proved about as the *)
(* same instance of the model's proof module: with the same values the     *)
(* definitions of the two are the same (the Same lemmas), a behaviour of   *)
(* the run in which a part runs is one of its specification (the Runs      *)
(* lemmas), and in the others its property says nothing.                   *)
(***************************************************************************)
EXTENDS MCParts, TLAPS

LaunchProof == INSTANCE SuspendedPatchProofs WITH
  Pids <- {11, 12}, MaxGames <- 2, Years <- {1899, 1900}, Faults <- PatchFaults,
  InterruptAt <- AnyStep, client <- tcls
LoaderProof == INSTANCE AFDevLoaderProofs WITH
  Patches <- AllPatches, Plan <- SomeCalls, Stages <- 3, Samples <- 2, Faults <- LoaderFaults,
  Plans <- {<<"exec", "worldinfo">>, <<"player", "hide">>, <<"stop", "exec">>}, Dates <- {1899, 1900}
Bytes == INSTANCE ByteStreamProofs WITH
  Header <- 2, RecvMax <- 7, Scripts <- SomeScripts, phase <- mood,
  RequestSize <- FewBytes, HeadSize <- 2, BodySize <- 3, at <- pos, got <- have, sent <- wrote,
  WordSize <- 2, PageSize <- 4, Chunk <- 8, MaxHits <- 3, Target <- <<1, 2>>,
  Pages <- SomePages, NPages <- 3, MaxWrites <- 1
Zone == INSTANCE ZoneProofs WITH
  Sockets <- {1, 2}, Asked <- {"startroomalloc"}, MaxRequests <- 4,
  Anchors <- {1, 2}, KeyModes <- {2, 3}, Tries <- 2, MaxConns <- 2, MaxRuns <- 2, client <- peer

-----------------------------------------------------------------------------
(* One part runs                                                           *)

\* The part that runs is chosen at the start.
LEMMA SamePart == ASSUME [PartNext]_allVars PROVE part' = part
  BY DEF PartNext, allVars, OnlyLaunch, OnlyLoader, OnlyGuard, OnlyCode, OnlyScan, OnlyDump,
         OnlyKeys, OnlyStream, OnlyServe, OnlyLobby

-----------------------------------------------------------------------------
(* SuspendedPatch                                                          *)

\* Two instances of SuspendedPatch with the same values are one specification.
LEMMA SameLaunch ==
  /\ Launch!Init <=> LaunchProof!Init
  /\ Launch!Next <=> LaunchProof!Next
  /\ UNCHANGED launchVars => UNCHANGED LaunchProof!vars
  /\ Launch!PatchAssumption <=> LaunchProof!PatchAssumption
  /\ Launch!DatesFixed <=> LaunchProof!DatesFixed
  /\ Launch!StubFirst <=> LaunchProof!StubFirst
  /\ Launch!TclsRestored <=> LaunchProof!TclsRestored
<1>1. Launch!Init <=> LaunchProof!Init
  BY DEF Launch!Games, LaunchProof!Games, Launch!Init, LaunchProof!Init, Launch!Tools,
         LaunchProof!Tools, Launch!Unborn, LaunchProof!Unborn
<1>2. Launch!Next <=> LaunchProof!Next
  BY DEF Launch!Alive, LaunchProof!Alive, Launch!AsksDate, LaunchProof!AsksDate, Launch!CheckCode,
         LaunchProof!CheckCode, Launch!ChecksDebugger, LaunchProof!ChecksDebugger,
         Launch!ClickStart, LaunchProof!ClickStart, Launch!Created, LaunchProof!Created,
         Launch!Dater, LaunchProof!Dater, Launch!DaterStops, LaunchProof!DaterStops, Launch!Dies,
         LaunchProof!Dies, Launch!Expected, LaunchProof!Expected, Launch!Fails, LaunchProof!Fails,
         Launch!Finally, LaunchProof!Finally, Launch!FindsClient, LaunchProof!FindsClient,
         Launch!FindsGame, LaunchProof!FindsGame, Launch!FindsImage, LaunchProof!FindsImage,
         Launch!FindsModule, LaunchProof!FindsModule, Launch!Fixed, LaunchProof!Fixed,
         Launch!Games, LaunchProof!Games, Launch!Goto, LaunchProof!Goto, Launch!Helper,
         LaunchProof!Helper, Launch!InTry, LaunchProof!InTry, Launch!Interrupt,
         LaunchProof!Interrupt, Launch!Launcher, LaunchProof!Launcher, Launch!ListsGames,
         LaunchProof!ListsGames, Launch!NewGames, LaunchProof!NewGames, Launch!Next,
         LaunchProof!Next, Launch!PidsFor, LaunchProof!PidsFor, Launch!Raise, LaunchProof!Raise,
         Launch!Raises, LaunchProof!Raises, Launch!ReadEntry, LaunchProof!ReadEntry,
         Launch!Replacement, LaunchProof!Replacement, Launch!Reread, LaunchProof!Reread,
         Launch!Rest, LaunchProof!Rest, Launch!Restores, LaunchProof!Restores, Launch!Resume,
         LaunchProof!Resume, Launch!Stranger, LaunchProof!Stranger, Launch!TGame,
         LaunchProof!TGame, Launch!TimesOut, LaunchProof!TimesOut, Launch!Unborn,
         LaunchProof!Unborn, Launch!VerifyCode, LaunchProof!VerifyCode, Launch!World,
         LaunchProof!World, Launch!WriteCode, LaunchProof!WriteCode, Launch!WriteEntry,
         LaunchProof!WriteEntry, Launch!WriteStub, LaunchProof!WriteStub, Launch!Writes,
         LaunchProof!Writes, Launch!tools, LaunchProof!tools
<1>3. UNCHANGED launchVars => UNCHANGED LaunchProof!vars
  BY DEF Launch!tools, LaunchProof!tools, Launch!vars, LaunchProof!vars, launchVars
<1>4. Launch!PatchAssumption <=> LaunchProof!PatchAssumption
  BY DEF Launch!PatchAssumption, LaunchProof!PatchAssumption
<1>5. Launch!DatesFixed <=> LaunchProof!DatesFixed
  BY DEF Launch!DatesFixed, LaunchProof!DatesFixed, Launch!Games, LaunchProof!Games
<1>6. Launch!StubFirst <=> LaunchProof!StubFirst
  BY DEF Launch!Alive, LaunchProof!Alive, Launch!Games, LaunchProof!Games, Launch!StubFirst,
         LaunchProof!StubFirst, Launch!TGame, LaunchProof!TGame
<1>7. Launch!TclsRestored <=> LaunchProof!TclsRestored
  BY DEF Launch!HasEnded, LaunchProof!HasEnded, Launch!Stopped, LaunchProof!Stopped,
         Launch!TclsRestored, LaunchProof!TclsRestored
<1>. QED
  BY <1>1, <1>2, <1>3, <1>4, <1>5, <1>6, <1>7

\* A run in which it is the part that runs is one of its specification.
LEMMA LaunchRuns == PartSpec /\ part = "launch" => LaunchProof!Spec
<1>1. PartInit /\ part = "launch" => LaunchProof!Init
  BY SameLaunch DEF PartInit
<1>2. part = "launch" /\ [PartNext]_allVars
        => (part = "launch")' /\ [LaunchProof!Next]_(LaunchProof!vars)
  <2>1. CASE UNCHANGED allVars
    BY <2>1, SameLaunch DEF allVars
  <2>2. CASE PartNext
    BY <2>2, SameLaunch DEF PartNext, OnlyLaunch, OnlyLoader, OnlyGuard, OnlyCode, OnlyScan,
                          OnlyDump, OnlyKeys, OnlyStream, OnlyServe, OnlyLobby
  <2>. QED
    BY <2>1, <2>2
<1>. QED
  BY <1>1, <1>2, PTL DEF PartSpec, LaunchProof!Spec

-----------------------------------------------------------------------------
(* AFDevLoader                                                             *)

\* Two instances of AFDevLoader with the same values are one specification.
LEMMA SameLoader ==
  /\ Loader!Init <=> LoaderProof!Init
  /\ Loader!Next <=> LoaderProof!Next
  /\ UNCHANGED loaderVars => UNCHANGED LoaderProof!vars
  /\ Loader!LoaderAssumption <=> LoaderProof!LoaderAssumption
  /\ Loader!UnpatchedNeverRuns <=> LoaderProof!UnpatchedNeverRuns
  /\ Loader!NotLeftHeld <=> LoaderProof!NotLeftHeld
  /\ Loader!ResultsAreOwn <=> LoaderProof!ResultsAreOwn
<1>1. Loader!Init <=> LoaderProof!Init
  BY DEF Loader!Calls, LoaderProof!Calls, Loader!Init, LoaderProof!Init
<1>2. Loader!Next <=> LoaderProof!Next
  BY DEF Loader!After, LoaderProof!After, Loader!Alive, LoaderProof!Alive, Loader!ArmGuard,
         LoaderProof!ArmGuard, Loader!CallExec, LoaderProof!CallExec, Loader!CallOpen,
         LoaderProof!CallOpen, Loader!CallSkipped, LoaderProof!CallSkipped, Loader!CallWorldInfo,
         LoaderProof!CallWorldInfo, Loader!Called, LoaderProof!Called, Loader!Dies,
         LoaderProof!Dies, Loader!EngineChanges, LoaderProof!EngineChanges, Loader!Fault,
         LoaderProof!Fault, Loader!Finally, LoaderProof!Finally, Loader!Game, LoaderProof!Game,
         Loader!Goto, LoaderProof!Goto, Loader!Hijack, LoaderProof!Hijack, Loader!HijackExec,
         LoaderProof!HijackExec, Loader!HijackWorldInfo, LoaderProof!HijackWorldInfo, Loader!Hold,
         LoaderProof!Hold, Loader!Loader, LoaderProof!Loader, Loader!LoadsMap,
         LoaderProof!LoadsMap, Loader!MakesCall, LoaderProof!MakesCall, Loader!MarkTop,
         LoaderProof!MarkTop, Loader!MonitorStages, LoaderProof!MonitorStages,
         Loader!MonitorTravel, LoaderProof!MonitorTravel, Loader!Next, LoaderProof!Next,
         Loader!Patch, LoaderProof!Patch, Loader!PatchFails, LoaderProof!PatchFails,
         Loader!PollFails, LoaderProof!PollFails, Loader!PollGone, LoaderProof!PollGone,
         Loader!PollSees, LoaderProof!PollSees, Loader!PollTimesOut, LoaderProof!PollTimesOut,
         Loader!Popped, LoaderProof!Popped, Loader!Prepare, LoaderProof!Prepare, Loader!Raise,
         LoaderProof!Raise, Loader!ResumeMain, LoaderProof!ResumeMain, Loader!Resumed,
         LoaderProof!Resumed, Loader!ResumeThread,
         LoaderProof!ResumeThread, Loader!Returns, LoaderProof!Returns, Loader!Runs,
         LoaderProof!Runs, Loader!SampleEnds, LoaderProof!SampleEnds, Loader!SampleHolds,
         LoaderProof!SampleHolds, Loader!SampleResumes, LoaderProof!SampleResumes,
         Loader!SeenLength, LoaderProof!SeenLength, Loader!Sentinel, LoaderProof!Sentinel,
         Loader!Suspend, LoaderProof!Suspend, Loader!Terminated, LoaderProof!Terminated,
         Loader!Top, LoaderProof!Top, Loader!WaitForEngine, LoaderProof!WaitForEngine,
         Loader!WaitForPendingUrlClear, LoaderProof!WaitForPendingUrlClear, Loader!WaitForWorld,
         LoaderProof!WaitForWorld, Loader!WritesResult, LoaderProof!WritesResult, Loader!loader,
         LoaderProof!loader, Loader!map, LoaderProof!map, Loader!thread, LoaderProof!thread
<1>3. UNCHANGED loaderVars => UNCHANGED LoaderProof!vars
  BY DEF Loader!loader, LoaderProof!loader, Loader!map, LoaderProof!map, Loader!thread,
         LoaderProof!thread, Loader!vars, LoaderProof!vars, loaderVars
<1>4. Loader!LoaderAssumption <=> LoaderProof!LoaderAssumption
  BY DEF Loader!Kinds, LoaderProof!Kinds, Loader!LoaderAssumption, LoaderProof!LoaderAssumption
<1>5. Loader!UnpatchedNeverRuns <=> LoaderProof!UnpatchedNeverRuns
  BY DEF Loader!Alive, LoaderProof!Alive, Loader!Runs, LoaderProof!Runs,
         Loader!UnpatchedNeverRuns, LoaderProof!UnpatchedNeverRuns
<1>6. Loader!NotLeftHeld <=> LoaderProof!NotLeftHeld
  BY DEF Loader!Alive, LoaderProof!Alive, Loader!NotLeftHeld, LoaderProof!NotLeftHeld
<1>7. Loader!ResultsAreOwn <=> LoaderProof!ResultsAreOwn
  BY DEF Loader!Calls, LoaderProof!Calls, Loader!ResultsAreOwn, LoaderProof!ResultsAreOwn
<1>. QED
  BY <1>1, <1>2, <1>3, <1>4, <1>5, <1>6, <1>7

\* A run in which it is the part that runs is one of its specification.
LEMMA LoaderRuns == PartSpec /\ part = "loader" => LoaderProof!Spec
<1>1. PartInit /\ part = "loader" => LoaderProof!Init
  BY SameLoader DEF PartInit
<1>2. part = "loader" /\ [PartNext]_allVars
        => (part = "loader")' /\ [LoaderProof!Next]_(LoaderProof!vars)
  <2>1. CASE UNCHANGED allVars
    BY <2>1, SameLoader DEF allVars
  <2>2. CASE PartNext
    BY <2>2, SameLoader DEF PartNext, OnlyLaunch, OnlyLoader, OnlyGuard, OnlyCode, OnlyScan,
                          OnlyDump, OnlyKeys, OnlyStream, OnlyServe, OnlyLobby
  <2>. QED
    BY <2>1, <2>2
<1>. QED
  BY <1>1, <1>2, PTL DEF PartSpec, LoaderProof!Spec

-----------------------------------------------------------------------------
(* Trampolines                                                             *)

\* Two instances of Trampolines with the same values are one specification.
LEMMA SameCode ==
  /\ Code!Init <=> LoaderProof!Cpu!Init
  /\ Code!Next <=> LoaderProof!Cpu!Next
  /\ UNCHANGED codeVars => UNCHANGED LoaderProof!Cpu!vars
  /\ Code!TrampolineAssumption <=> LoaderProof!Cpu!TrampolineAssumption
  /\ Code!ThreadRestored <=> LoaderProof!Cpu!ThreadRestored
  /\ Code!CallsRight <=> LoaderProof!Cpu!CallsRight
<1>1. Code!Init <=> LoaderProof!Cpu!Init
  BY DEF Code!Address, LoaderProof!Cpu!Address, Code!Game, LoaderProof!Cpu!Game, Code!Idle,
         LoaderProof!Cpu!Idle, Code!Init, LoaderProof!Cpu!Init, Code!Own, LoaderProof!Cpu!Own,
         Code!Slot, LoaderProof!Cpu!Slot
<1>2. Code!Next <=> LoaderProof!Cpu!Next
  BY DEF Code!Address, LoaderProof!Cpu!Address, Code!Arguments, LoaderProof!Cpu!Arguments,
         Code!BackTo, LoaderProof!Cpu!BackTo, Code!Call, LoaderProof!Cpu!Call, Code!Callee,
         LoaderProof!Cpu!Callee, Code!CmpYear, LoaderProof!Cpu!CmpYear, Code!Code,
         LoaderProof!Cpu!Code, Code!Compute, LoaderProof!Cpu!Compute, Code!Crashed,
         LoaderProof!Cpu!Crashed, Code!DateDone, LoaderProof!Cpu!DateDone, Code!DateStub,
         LoaderProof!Cpu!DateStub, Code!Drop, LoaderProof!Cpu!Drop, Code!EngineComes,
         LoaderProof!Cpu!EngineComes, Code!Enter, LoaderProof!Cpu!Enter, Code!Exec,
         LoaderProof!Cpu!Exec, Code!Game, LoaderProof!Cpu!Game, Code!Hide, LoaderProof!Cpu!Hide,
         Code!Hijack, LoaderProof!Cpu!Hijack, Code!Hook, LoaderProof!Cpu!Hook, Code!Instr,
         LoaderProof!Cpu!Instr, Code!Is, LoaderProof!Cpu!Is, Code!Jge, LoaderProof!Cpu!Jge,
         Code!Jmp, LoaderProof!Cpu!Jmp, Code!Jumps, LoaderProof!Cpu!Jumps, Code!Junk,
         LoaderProof!Cpu!Junk, Code!Jz, LoaderProof!Cpu!Jz, Code!Leave, LoaderProof!Cpu!Leave,
         Code!Load, LoaderProof!Cpu!Load, Code!LoadMap, LoaderProof!Cpu!LoadMap, Code!LoadYear,
         LoaderProof!Cpu!LoadYear, Code!Locals, LoaderProof!Cpu!Locals, Code!MakesDate,
         LoaderProof!Cpu!MakesDate, Code!Mark, LoaderProof!Cpu!Mark, Code!Milestone,
         LoaderProof!Cpu!Milestone, Code!Misc, LoaderProof!Cpu!Misc, Code!Next,
         LoaderProof!Cpu!Next, Code!Next1, LoaderProof!Cpu!Next1, Code!Own, LoaderProof!Cpu!Own,
         Code!PlayerExec, LoaderProof!Cpu!PlayerExec, Code!PopAd, LoaderProof!Cpu!PopAd,
         Code!PopFd, LoaderProof!Cpu!PopFd, Code!PushAd, LoaderProof!Cpu!PushAd, Code!PushEbx,
         LoaderProof!Cpu!PushEbx, Code!PushFd, LoaderProof!Cpu!PushFd, Code!PushHome,
         LoaderProof!Cpu!PushHome, Code!PushImm, LoaderProof!Cpu!PushImm, Code!PushReg,
         LoaderProof!Cpu!PushReg, Code!Quiet, LoaderProof!Cpu!Quiet, Code!Regs,
         LoaderProof!Cpu!Regs, Code!Ret, LoaderProof!Cpu!Ret, Code!Returns,
         LoaderProof!Cpu!Returns, Code!Running, LoaderProof!Cpu!Running, Code!Sentinel,
         LoaderProof!Cpu!Sentinel, Code!SetDate, LoaderProof!Cpu!SetDate, Code!Skip,
         LoaderProof!Cpu!Skip, Code!Slot, LoaderProof!Cpu!Slot, Code!Stacks,
         LoaderProof!Cpu!Stacks, Code!StopMovie, LoaderProof!Cpu!StopMovie, Code!Store,
         LoaderProof!Cpu!Store, Code!Test, LoaderProof!Cpu!Test, Code!Top, LoaderProof!Cpu!Top,
         Code!WorldInfo, LoaderProof!Cpu!WorldInfo, Code!Year, LoaderProof!Cpu!Year
<1>3. UNCHANGED codeVars => UNCHANGED LoaderProof!Cpu!vars
  BY DEF Code!vars, LoaderProof!Cpu!vars, codeVars
<1>4. Code!TrampolineAssumption <=> LoaderProof!Cpu!TrampolineAssumption
  BY DEF Code!TrampolineAssumption, LoaderProof!Cpu!TrampolineAssumption
<1>5. Code!ThreadRestored <=> LoaderProof!Cpu!ThreadRestored
  BY DEF Code!Address, LoaderProof!Cpu!Address, Code!Game, LoaderProof!Cpu!Game, Code!Idle,
         LoaderProof!Cpu!Idle, Code!Own, LoaderProof!Cpu!Own, Code!Slot, LoaderProof!Cpu!Slot,
         Code!ThreadRestored, LoaderProof!Cpu!ThreadRestored
<1>6. Code!CallsRight <=> LoaderProof!Cpu!CallsRight
  BY DEF Code!Callee, LoaderProof!Cpu!Callee, Code!CallsRight, LoaderProof!Cpu!CallsRight,
         Code!Enter, LoaderProof!Cpu!Enter, Code!Exec, LoaderProof!Cpu!Exec, Code!Leave,
         LoaderProof!Cpu!Leave, Code!PlayerExec, LoaderProof!Cpu!PlayerExec, Code!Sentinel,
         LoaderProof!Cpu!Sentinel, Code!Skip, LoaderProof!Cpu!Skip
<1>. QED
  BY <1>1, <1>2, <1>3, <1>4, <1>5, <1>6

\* A run in which it is the part that runs is one of its specification.
LEMMA CodeRuns == PartSpec /\ part = "code" => LoaderProof!Cpu!Spec
<1>1. PartInit /\ part = "code" => LoaderProof!Cpu!Init
  BY SameCode DEF PartInit
<1>2. part = "code" /\ [PartNext]_allVars
        => (part = "code")' /\ [LoaderProof!Cpu!Next]_(LoaderProof!Cpu!vars)
  <2>1. CASE UNCHANGED allVars
    BY <2>1, SameCode DEF allVars
  <2>2. CASE PartNext
    BY <2>2, SameCode DEF PartNext, OnlyLaunch, OnlyLoader, OnlyGuard, OnlyCode, OnlyScan,
                          OnlyDump, OnlyKeys, OnlyStream, OnlyServe, OnlyLobby
  <2>. QED
    BY <2>1, <2>2
<1>. QED
  BY <1>1, <1>2, PTL DEF PartSpec, LoaderProof!Cpu!Spec

-----------------------------------------------------------------------------
(* MemoryScan                                                              *)

\* Two instances of MemoryScan with the same values are one specification.
LEMMA SameScan ==
  /\ Scan!Init <=> Bytes!Scan!Init
  /\ Scan!Next <=> Bytes!Scan!Next
  /\ UNCHANGED scanVars => UNCHANGED Bytes!Scan!vars
  /\ Scan!ScanAssumption <=> Bytes!Scan!ScanAssumption
  /\ Scan!ScanSound <=> Bytes!Scan!ScanSound
<1>1. Scan!Init <=> Bytes!Scan!Init
  BY DEF Scan!Byte, Bytes!Scan!Byte, Scan!Bytes, Bytes!Scan!Bytes, Scan!End, Bytes!Scan!End,
         Scan!Holding, Bytes!Scan!Holding, Scan!Init, Bytes!Scan!Init, Scan!PageOf,
         Bytes!Scan!PageOf, Scan!Words, Bytes!Scan!Words
<1>2. Scan!Next <=> Bytes!Scan!Next
  BY DEF Scan!Behind, Bytes!Scan!Behind, Scan!Byte, Bytes!Scan!Byte, Scan!Bytes, Bytes!Scan!Bytes,
         Scan!Done, Bytes!Scan!Done, Scan!End, Bytes!Scan!End, Scan!Find, Bytes!Scan!Find,
         Scan!Follow, Bytes!Scan!Follow, Scan!Found, Bytes!Scan!Found, Scan!Holding,
         Bytes!Scan!Holding, Scan!Next, Bytes!Scan!Next, Scan!PageOf, Bytes!Scan!PageOf,
         Scan!Query, Bytes!Scan!Query, Scan!ReadChunk, Bytes!Scan!ReadChunk, Scan!RegionEnd,
         Bytes!Scan!RegionEnd, Scan!Words, Bytes!Scan!Words, Scan!Writes, Bytes!Scan!Writes,
         Scan!game, Bytes!Scan!game, Scan!scan, Bytes!Scan!scan
<1>3. UNCHANGED scanVars => UNCHANGED Bytes!Scan!vars
  BY DEF Scan!game, Bytes!Scan!game, Scan!scan, Bytes!Scan!scan, Scan!vars, Bytes!Scan!vars,
         scanVars
<1>4. Scan!ScanAssumption <=> Bytes!Scan!ScanAssumption
  BY DEF Scan!ScanAssumption, Bytes!Scan!ScanAssumption
<1>5. Scan!ScanSound <=> Bytes!Scan!ScanSound
  BY DEF Scan!Done, Bytes!Scan!Done, Scan!End, Bytes!Scan!End, Scan!ScanSound,
         Bytes!Scan!ScanSound, Scan!ToSet, Bytes!Scan!ToSet
<1>. QED
  BY <1>1, <1>2, <1>3, <1>4, <1>5

\* A run in which it is the part that runs is one of its specification.
LEMMA ScanRuns == PartSpec /\ part = "scan" => Bytes!Scan!Spec
<1>1. PartInit /\ part = "scan" => Bytes!Scan!Init
  BY SameScan DEF PartInit
<1>2. part = "scan" /\ [PartNext]_allVars
        => (part = "scan")' /\ [Bytes!Scan!Next]_(Bytes!Scan!vars)
  <2>1. CASE UNCHANGED allVars
    BY <2>1, SameScan DEF allVars
  <2>2. CASE PartNext
    BY <2>2, SameScan DEF PartNext, OnlyLaunch, OnlyLoader, OnlyGuard, OnlyCode, OnlyScan,
                          OnlyDump, OnlyKeys, OnlyStream, OnlyServe, OnlyLobby
  <2>. QED
    BY <2>1, <2>2
<1>. QED
  BY <1>1, <1>2, PTL DEF PartSpec, Bytes!Scan!Spec

-----------------------------------------------------------------------------
(* GameKeys                                                                *)

\* Two instances of GameKeys with the same values are one specification.
LEMMA SameKeys ==
  /\ Keys!Init <=> Zone!Keys!Init
  /\ Keys!Next <=> Zone!Keys!Next
  /\ UNCHANGED keysVars => UNCHANGED Zone!Keys!vars
  /\ Keys!KeyAssumption <=> Zone!Keys!KeyAssumption
  /\ Keys!KeysRight <=> Zone!Keys!KeysRight
<1>1. Keys!Init <=> Zone!Keys!Init
  BY DEF Keys!Conns, Zone!Keys!Conns, Keys!Free, Zone!Keys!Free, Keys!Init, Zone!Keys!Init,
         Keys!NoKey, Zone!Keys!NoKey
<1>2. Keys!Next <=> Zone!Keys!Next
  BY DEF Keys!Best, Zone!Keys!Best, Keys!Better, Zone!Keys!Better, Keys!Closes, Zone!Keys!Closes,
         Keys!Conns, Zone!Keys!Conns, Keys!Echoes, Zone!Keys!Echoes, Keys!Ends, Zone!Keys!Ends,
         Keys!FillsIn, Zone!Keys!FillsIn, Keys!Free, Zone!Keys!Free, Keys!Fresh, Zone!Keys!Fresh,
         Keys!Goes, Zone!Keys!Goes, Keys!Identifies, Zone!Keys!Identifies, Keys!IsOpen,
         Zone!Keys!IsOpen, Keys!Next, Zone!Keys!Next, Keys!NoKey, Zone!Keys!NoKey, Keys!OpenConns,
         Zone!Keys!OpenConns, Keys!Opens, Zone!Keys!Opens, Keys!ReadsAuth, Zone!Keys!ReadsAuth,
         Keys!Recovers, Zone!Keys!Recovers, Keys!Registers, Zone!Keys!Registers, Keys!Restarts,
         Zone!Keys!Restarts, Keys!Reusable, Zone!Keys!Reusable, Keys!Switches, Zone!Keys!Switches,
         Keys!Valid, Zone!Keys!Valid, Keys!Verifies, Zone!Keys!Verifies, Keys!game,
         Zone!Keys!game, Keys!handler, Zone!Keys!handler
<1>3. UNCHANGED keysVars => UNCHANGED Zone!Keys!vars
  BY DEF Keys!game, Zone!Keys!game, Keys!handler, Zone!Keys!handler, Keys!vars, Zone!Keys!vars,
         keysVars
<1>4. Keys!KeyAssumption <=> Zone!Keys!KeyAssumption
  BY DEF Keys!KeyAssumption, Zone!Keys!KeyAssumption
<1>5. Keys!KeysRight <=> Zone!Keys!KeysRight
  BY DEF Keys!Conns, Zone!Keys!Conns, Keys!FreshKeys, Zone!Keys!FreshKeys, Keys!IsOpen,
         Zone!Keys!IsOpen, Keys!KeysRight, Zone!Keys!KeysRight, Keys!NoKey, Zone!Keys!NoKey,
         Keys!Orderly, Zone!Keys!Orderly, Keys!StreamKeys, Zone!Keys!StreamKeys
<1>. QED
  BY <1>1, <1>2, <1>3, <1>4, <1>5

\* A run in which it is the part that runs is one of its specification.
LEMMA KeysRuns == PartSpec /\ part = "keys" => Zone!Keys!Spec
<1>1. PartInit /\ part = "keys" => Zone!Keys!Init
  BY SameKeys DEF PartInit
<1>2. part = "keys" /\ [PartNext]_allVars
        => (part = "keys")' /\ [Zone!Keys!Next]_(Zone!Keys!vars)
  <2>1. CASE UNCHANGED allVars
    BY <2>1, SameKeys DEF allVars
  <2>2. CASE PartNext
    BY <2>2, SameKeys DEF PartNext, OnlyLaunch, OnlyLoader, OnlyGuard, OnlyCode, OnlyScan,
                          OnlyDump, OnlyKeys, OnlyStream, OnlyServe, OnlyLobby
  <2>. QED
    BY <2>1, <2>2
<1>. QED
  BY <1>1, <1>2, PTL DEF PartSpec, Zone!Keys!Spec

-----------------------------------------------------------------------------
(* ZoneStream                                                              *)

\* Two instances of ZoneStream with the same values are one specification.
LEMMA SameStream ==
  /\ Stream!Init <=> Bytes!Stream!Init
  /\ Stream!Next <=> Bytes!Stream!Next
  /\ UNCHANGED streamVars => UNCHANGED Bytes!Stream!vars
  /\ Stream!StreamAssumption <=> Bytes!Stream!StreamAssumption
  /\ Stream!FramesOnce <=> Bytes!Stream!FramesOnce
<1>1. Stream!Init <=> Bytes!Stream!Init
  BY DEF Stream!Init, Bytes!Stream!Init
<1>2. Stream!Next <=> Bytes!Stream!Next
  BY DEF Stream!BurstEnds, Bytes!Stream!BurstEnds, Stream!Closes, Bytes!Stream!Closes,
         Stream!CollectsBurst, Bytes!Stream!CollectsBurst, Stream!Desync, Bytes!Stream!Desync,
         Stream!End, Bytes!Stream!End, Stream!FallsBack, Bytes!Stream!FallsBack, Stream!FrameAt,
         Bytes!Stream!FrameAt, Stream!Frames, Bytes!Stream!Frames, Stream!GoodAt,
         Bytes!Stream!GoodAt, Stream!HandlesQueued, Bytes!Stream!HandlesQueued, Stream!InOrder,
         Bytes!Stream!InOrder, Stream!MayWrite, Bytes!Stream!MayWrite, Stream!Next,
         Bytes!Stream!Next, Stream!Reached, Bytes!Stream!Reached, Stream!Receives,
         Bytes!Stream!Receives, Stream!ReceivesSynack, Bytes!Stream!ReceivesSynack, Stream!Splits,
         Bytes!Stream!Splits, Stream!Start, Bytes!Stream!Start, Stream!Whole, Bytes!Stream!Whole,
         Stream!Writes, Bytes!Stream!Writes, Stream!Min, Bytes!Stream!Min, Stream!Max,
         Bytes!Stream!Max, Stream!Cardinality, Bytes!Stream!Cardinality
<1>3. UNCHANGED streamVars => UNCHANGED Bytes!Stream!vars
  BY DEF Stream!vars, Bytes!Stream!vars, streamVars
<1>4. Stream!StreamAssumption <=> Bytes!Stream!StreamAssumption
  BY DEF Stream!StreamAssumption, Bytes!Stream!StreamAssumption
<1>5. Stream!FramesOnce <=> Bytes!Stream!FramesOnce
  BY DEF Stream!End, Bytes!Stream!End, Stream!Frames, Bytes!Stream!Frames, Stream!FramesOnce,
         Bytes!Stream!FramesOnce, Stream!ToSet, Bytes!Stream!ToSet
<1>. QED
  BY <1>1, <1>2, <1>3, <1>4, <1>5

\* A run in which it is the part that runs is one of its specification.
LEMMA StreamRuns == PartSpec /\ part = "stream" => Bytes!Stream!Spec
<1>1. PartInit /\ part = "stream" => Bytes!Stream!Init
  BY SameStream DEF PartInit
<1>2. part = "stream" /\ [PartNext]_allVars
        => (part = "stream")' /\ [Bytes!Stream!Next]_(Bytes!Stream!vars)
  <2>1. CASE UNCHANGED allVars
    BY <2>1, SameStream DEF allVars
  <2>2. CASE PartNext
    BY <2>2, SameStream DEF PartNext, OnlyLaunch, OnlyLoader, OnlyGuard, OnlyCode, OnlyScan,
                          OnlyDump, OnlyKeys, OnlyStream, OnlyServe, OnlyLobby
  <2>. QED
    BY <2>1, <2>2
<1>. QED
  BY <1>1, <1>2, PTL DEF PartSpec, Bytes!Stream!Spec

-----------------------------------------------------------------------------
(* Services                                                                *)

\* Two instances of Services with the same values are one specification.
LEMMA SameServe ==
  /\ Serve!Init <=> Bytes!Serve!Init
  /\ Serve!Next <=> Bytes!Serve!Next
  /\ UNCHANGED servicesVars => UNCHANGED Bytes!Serve!vars
  /\ Serve!ServiceAssumption <=> Bytes!Serve!ServiceAssumption
  /\ Serve!Served <=> Bytes!Serve!Served
<1>1. Serve!Init <=> Bytes!Serve!Init
  BY DEF Serve!Init, Bytes!Serve!Init, Serve!ServiceNames, Bytes!Serve!ServiceNames
<1>2. Serve!Next <=> Bytes!Serve!Next
  BY DEF Serve!Accepts, Bytes!Serve!Accepts, Serve!Answers, Bytes!Serve!Answers, Serve!Closes,
         Bytes!Serve!Closes, Serve!EndsShort, Bytes!Serve!EndsShort, Serve!GoesOn,
         Bytes!Serve!GoesOn, Serve!Handler, Bytes!Serve!Handler, Serve!Leaves, Bytes!Serve!Leaves,
         Serve!Lingers, Bytes!Serve!Lingers, Serve!Next, Bytes!Serve!Next, Serve!Parts,
         Bytes!Serve!Parts, Serve!Program, Bytes!Serve!Program, Serve!Reads, Bytes!Serve!Reads,
         Serve!Receives, Bytes!Serve!Receives, Serve!Replies, Bytes!Serve!Replies, Serve!Sends,
         Bytes!Serve!Sends, Serve!Size, Bytes!Serve!Size, Serve!Step, Bytes!Serve!Step,
         Serve!Upto, Bytes!Serve!Upto, Serve!Wanted, Bytes!Serve!Wanted, Serve!client,
         Bytes!Serve!client, Serve!handle_auth, Bytes!Serve!handle_auth, Serve!handle_dir,
         Bytes!Serve!handle_dir, Serve!handle_version, Bytes!Serve!handle_version,
         Serve!recv_ap_frame, Bytes!Serve!recv_ap_frame, Serve!Min, Bytes!Serve!Min
<1>3. UNCHANGED servicesVars => UNCHANGED Bytes!Serve!vars
  BY DEF Serve!client, Bytes!Serve!client, Serve!vars, Bytes!Serve!vars, servicesVars
<1>4. Serve!ServiceAssumption <=> Bytes!Serve!ServiceAssumption
  BY DEF Serve!ServiceAssumption, Bytes!Serve!ServiceAssumption, Serve!ServiceNames,
         Bytes!Serve!ServiceNames
<1>5. Serve!Served <=> Bytes!Serve!Served
  BY DEF Serve!AnswerSteps, Bytes!Serve!AnswerSteps, Serve!Answers, Bytes!Serve!Answers,
         Serve!Lingers, Bytes!Serve!Lingers, Serve!Program, Bytes!Serve!Program, Serve!Reads,
         Bytes!Serve!Reads, Serve!Served, Bytes!Serve!Served, Serve!Size, Bytes!Serve!Size,
         Serve!Upto, Bytes!Serve!Upto, Serve!handle_auth, Bytes!Serve!handle_auth,
         Serve!handle_dir, Bytes!Serve!handle_dir, Serve!handle_version,
         Bytes!Serve!handle_version, Serve!recv_ap_frame, Bytes!Serve!recv_ap_frame,
         Serve!Cardinality, Bytes!Serve!Cardinality
<1>. QED
  BY <1>1, <1>2, <1>3, <1>4, <1>5

\* A run in which it is the part that runs is one of its specification.
LEMMA ServeRuns == PartSpec /\ part = "services" => Bytes!Serve!Spec
<1>1. PartInit /\ part = "services" => Bytes!Serve!Init
  BY SameServe DEF PartInit
<1>2. part = "services" /\ [PartNext]_allVars
        => (part = "services")' /\ [Bytes!Serve!Next]_(Bytes!Serve!vars)
  <2>1. CASE UNCHANGED allVars
    BY <2>1, SameServe DEF allVars
  <2>2. CASE PartNext
    BY <2>2, SameServe DEF PartNext, OnlyLaunch, OnlyLoader, OnlyGuard, OnlyCode, OnlyScan,
                          OnlyDump, OnlyKeys, OnlyStream, OnlyServe, OnlyLobby
  <2>. QED
    BY <2>1, <2>2
<1>. QED
  BY <1>1, <1>2, PTL DEF PartSpec, Bytes!Serve!Spec

-----------------------------------------------------------------------------
(* ZoneLobby                                                               *)

\* Two instances of ZoneLobby with the same values are one specification.
LEMMA SameLobby ==
  /\ Lobby!Init <=> Zone!Init
  /\ Lobby!Next <=> Zone!Next
  /\ UNCHANGED lobbyVars => UNCHANGED Zone!vars
  /\ Lobby!LobbyAssumption <=> Zone!LobbyAssumption
  /\ Lobby!ToldOnce <=> Zone!ToldOnce
  /\ Lobby!PagesCover <=> Zone!PagesCover
  /\ Lobby!ClanKept <=> Zone!ClanKept
<1>1. Lobby!Init <=> Zone!Init
  BY DEF Lobby!Init, Zone!Init, Lobby!NoClan, Zone!NoClan
<1>2. Lobby!Next <=> Zone!Next
  <2>1. Lobby!Crashes <=> Zone!Crashes
    BY DEF Lobby!Crashes, Zone!Crashes, Lobby!Forgets, Zone!Forgets, Lobby!NoClan, Zone!NoClan,
           Lobby!disk, Zone!disk
  <2>2. ASSUME NEW c
        PROVE  Lobby!Opens(c) <=> Zone!Opens(c)
    BY DEF Lobby!LoadsClan, Zone!LoadsClan, Lobby!NoClan, Zone!NoClan, Lobby!Opens, Zone!Opens,
           Lobby!social, Zone!social
  <2>3. ASSUME NEW c
        PROVE  Lobby!Ends(c) <=> Zone!Ends(c)
    BY DEF Lobby!Ends, Zone!Ends, Lobby!Forgets, Zone!Forgets, Lobby!NoClan, Zone!NoClan
  <2>4. ASSUME NEW c
        PROVE  Lobby!Login(c) <=> Zone!Login(c)
    BY DEF Lobby!Asks, Zone!Asks, Lobby!Delivers, Zone!Delivers, Lobby!DeliversFirst,
           Zone!DeliversFirst, Lobby!Login, Zone!Login, Lobby!Noted, Zone!Noted, Lobby!Only,
           Zone!Only, Lobby!Whole, Zone!Whole, Lobby!disk, Zone!disk, Lobby!social, Zone!social,
           Lobby!Cardinality, Zone!Cardinality
  <2>5. ASSUME NEW c
        PROVE  Lobby!Ready(c) <=> Zone!Ready(c)
    BY DEF Lobby!Asks, Zone!Asks, Lobby!Delivers, Zone!Delivers, Lobby!DeliversFirst,
           Zone!DeliversFirst, Lobby!Noted, Zone!Noted, Lobby!Only, Zone!Only, Lobby!Profile,
           Zone!Profile, Lobby!Ready, Zone!Ready, Lobby!SendsProfile, Zone!SendsProfile,
           Lobby!Shows, Zone!Shows, Lobby!NoClan, Zone!NoClan, Lobby!DiskKept, Zone!DiskKept,
           Lobby!Whole, Zone!Whole, Lobby!social, Zone!social, Lobby!Cardinality,
           Zone!Cardinality
  <2>6. ASSUME NEW c
        PROVE  Lobby!DeleteFriend(c) <=> Zone!DeleteFriend(c)
    BY DEF Lobby!Asks, Zone!Asks, Lobby!DeleteFriend, Zone!DeleteFriend, Lobby!Delivers,
           Zone!Delivers, Lobby!DeliversFirst, Zone!DeliversFirst, Lobby!Noted, Zone!Noted,
           Lobby!Only, Zone!Only, Lobby!disk, Zone!disk, Lobby!Cardinality, Zone!Cardinality
  <2>7. ASSUME NEW c, NEW x
        PROVE  Lobby!CreateAccount(c, x) <=> Zone!CreateAccount(c, x)
    BY DEF Lobby!Asks, Zone!Asks, Lobby!CreateAccount, Zone!CreateAccount, Lobby!Delivers,
           Zone!Delivers, Lobby!DeliversFirst, Zone!DeliversFirst, Lobby!Noted, Zone!Noted,
           Lobby!Only, Zone!Only, Lobby!Whole, Zone!Whole, Lobby!social, Zone!social,
           Lobby!Cardinality, Zone!Cardinality
  <2>8. ASSUME NEW c, NEW x
        PROVE  Lobby!AddFriend(c, x) <=> Zone!AddFriend(c, x)
    BY DEF Lobby!AddFriend, Zone!AddFriend, Lobby!Asks, Zone!Asks, Lobby!Delivers, Zone!Delivers,
           Lobby!DeliversFirst, Zone!DeliversFirst, Lobby!Noted, Zone!Noted, Lobby!Only,
           Zone!Only, Lobby!disk, Zone!disk, Lobby!Cardinality, Zone!Cardinality
  <2>9. ASSUME NEW c, NEW x
        PROVE  Lobby!CreateRoom(c, x) <=> Zone!CreateRoom(c, x)
    BY DEF Lobby!Asks, Zone!Asks, Lobby!CreateRoom, Zone!CreateRoom, Lobby!Delivers,
           Zone!Delivers, Lobby!DeliversFirst, Zone!DeliversFirst, Lobby!Noted, Zone!Noted,
           Lobby!Only, Zone!Only, Lobby!disk, Zone!disk, Lobby!Cardinality, Zone!Cardinality
  <2>10. ASSUME NEW c, NEW x
        PROVE  Lobby!CreateClan(c, x) <=> Zone!CreateClan(c, x)
    BY DEF Lobby!Asks, Zone!Asks, Lobby!CreateClan, Zone!CreateClan, Lobby!CreatesClan,
           Zone!CreatesClan, Lobby!Delivers, Zone!Delivers, Lobby!DeliversFirst,
           Zone!DeliversFirst, Lobby!Names, Zone!Names, Lobby!Noted, Zone!Noted, Lobby!Only,
           Zone!Only, Lobby!Refusal, Zone!Refusal, Lobby!Shows, Zone!Shows, Lobby!NoClan,
           Zone!NoClan, Lobby!Valid, Zone!Valid, Lobby!social, Zone!social, Lobby!Cardinality,
           Zone!Cardinality
  <2>11. ASSUME NEW c, NEW x
        PROVE  Lobby!FriendStatus(c, x) <=> Zone!FriendStatus(c, x)
    BY DEF Lobby!Asks, Zone!Asks, Lobby!Delivers, Zone!Delivers, Lobby!DeliversFirst,
           Zone!DeliversFirst, Lobby!FriendStatus, Zone!FriendStatus, Lobby!Noted, Zone!Noted,
           Lobby!Only, Zone!Only, Lobby!Whole, Zone!Whole, Lobby!disk, Zone!disk,
           Lobby!Cardinality, Zone!Cardinality
  <2>12. ASSUME NEW c, NEW x
        PROVE  Lobby!AnswerInvite(c, x) <=> Zone!AnswerInvite(c, x)
    BY DEF Lobby!AnswerInvite, Zone!AnswerInvite, Lobby!Asks, Zone!Asks, Lobby!Delivers,
           Zone!Delivers, Lobby!DeliversFirst, Zone!DeliversFirst, Lobby!Noted, Zone!Noted,
           Lobby!Only, Zone!Only, Lobby!disk, Zone!disk, Lobby!Cardinality, Zone!Cardinality
  <2>13. ASSUME NEW c, NEW x, NEW s, NEW w
        PROVE  Lobby!RoomList(c, x, s, w) <=> Zone!RoomList(c, x, s, w)
    BY ZenonT(60) DEF Lobby!Asks, Zone!Asks, Lobby!DefaultRooms, Zone!DefaultRooms, Lobby!Delivers,
           Zone!Delivers, Lobby!DeliversFirst, Zone!DeliversFirst, Lobby!HasMode, Zone!HasMode,
           Lobby!Noted, Zone!Noted, Lobby!OfMode, Zone!OfMode, Lobby!Only, Zone!Only, Lobby!Page,
           Zone!Page, Lobby!PageMax, Zone!PageMax, Lobby!RoomList, Zone!RoomList, Lobby!Rooms,
           Zone!Rooms, Lobby!disk, Zone!disk, Lobby!social, Zone!social, Lobby!ToSet, Zone!ToSet,
           Lobby!Min, Zone!Min, Lobby!Cardinality, Zone!Cardinality
  <2>14. ASSUME NEW c, NEW x
        PROVE  Lobby!AsksOnly(c, x) <=> Zone!AsksOnly(c, x)
    BY DEF Lobby!Answering, Zone!Answering, Lobby!Asks, Zone!Asks, Lobby!AsksOnly, Zone!AsksOnly,
           Lobby!Channels, Zone!Channels, Lobby!Chat, Zone!Chat, Lobby!Deferred, Zone!Deferred,
           Lobby!Delivers, Zone!Delivers, Lobby!DeliversFirst, Zone!DeliversFirst, Lobby!Geo,
           Zone!Geo, Lobby!Heartbeat, Zone!Heartbeat, Lobby!Noted, Zone!Noted, Lobby!Only,
           Zone!Only, Lobby!RoomAlloc, Zone!RoomAlloc, Lobby!Stateless, Zone!Stateless,
           Lobby!VerifyClanName, Zone!VerifyClanName, Lobby!Wallet, Zone!Wallet, Lobby!disk,
           Zone!disk, Lobby!social, Zone!social, Lobby!Cardinality, Zone!Cardinality
  <2>15. ASSUME NEW c
        PROVE  Lobby!Refreshes(c) <=> Zone!Refreshes(c)
    BY DEF Lobby!Asks, Zone!Asks, Lobby!DeliversFirst, Zone!DeliversFirst, Lobby!Noted,
           Zone!Noted, Lobby!Only, Zone!Only, Lobby!Refreshes, Zone!Refreshes, Lobby!Shows,
           Zone!Shows, Lobby!NoClan, Zone!NoClan, Lobby!DiskKept, Zone!DiskKept, Lobby!social,
           Zone!social, Lobby!Cardinality, Zone!Cardinality
  <2>. QED
    BY <2>1, <2>2, <2>3, <2>4, <2>5, <2>6, <2>7, <2>8, <2>9, <2>10, <2>11, <2>12, <2>13, <2>14,
       <2>15
       DEF Lobby!Next, Zone!Next, Lobby!Names, Zone!Names
<1>3. UNCHANGED lobbyVars => UNCHANGED Zone!vars
  BY DEF Lobby!disk, Zone!disk, Lobby!social, Zone!social, Lobby!vars, Zone!vars, lobbyVars
<1>4. Lobby!LobbyAssumption <=> Zone!LobbyAssumption
  BY DEF Lobby!Answering, Zone!Answering, Lobby!Channels, Zone!Channels, Lobby!Chat, Zone!Chat,
         Lobby!Deferred, Zone!Deferred, Lobby!Geo, Zone!Geo, Lobby!Heartbeat, Zone!Heartbeat,
         Lobby!LobbyAssumption, Zone!LobbyAssumption, Lobby!RoomAlloc, Zone!RoomAlloc,
         Lobby!Stateless, Zone!Stateless, Lobby!VerifyClanName, Zone!VerifyClanName, Lobby!Wallet,
         Zone!Wallet
<1>5. Lobby!ToldOnce <=> Zone!ToldOnce
  BY DEF Lobby!Count, Zone!Count, Lobby!Profile, Zone!Profile, Lobby!ToldOnce, Zone!ToldOnce,
         Lobby!Upto, Zone!Upto, Lobby!Cardinality, Zone!Cardinality
<1>6. Lobby!PagesCover <=> Zone!PagesCover
  BY DEF Lobby!DefaultRooms, Zone!DefaultRooms, Lobby!HasMode, Zone!HasMode, Lobby!Modes,
         Zone!Modes, Lobby!OfMode, Zone!OfMode, Lobby!Only, Zone!Only, Lobby!Page, Zone!Page,
         Lobby!PageMax, Zone!PageMax, Lobby!PagesCover, Zone!PagesCover, Lobby!Rooms, Zone!Rooms,
         Lobby!ToSet, Zone!ToSet, Lobby!Min, Zone!Min, Lobby!Cardinality, Zone!Cardinality
<1>7. Lobby!ClanKept <=> Zone!ClanKept
  BY DEF Lobby!ClanKept, Zone!ClanKept
<1>. QED
  BY <1>1, <1>2, <1>3, <1>4, <1>5, <1>6, <1>7

\* A run in which it is the part that runs is one of its specification.
LEMMA LobbyRuns == PartSpec /\ part = "lobby" => Zone!Spec
<1>1. PartInit /\ part = "lobby" => Zone!Init
  BY SameLobby DEF PartInit
<1>2. part = "lobby" /\ [PartNext]_allVars
        => (part = "lobby")' /\ [Zone!Next]_(Zone!vars)
  <2>1. CASE UNCHANGED allVars
    BY <2>1, SameLobby DEF allVars
  <2>2. CASE PartNext
    BY <2>2, SameLobby DEF PartNext, OnlyLaunch, OnlyLoader, OnlyGuard, OnlyCode, OnlyScan,
                          OnlyDump, OnlyKeys, OnlyStream, OnlyServe, OnlyLobby
  <2>. QED
    BY <2>1, <2>2
<1>. QED
  BY <1>1, <1>2, PTL DEF PartSpec, Zone!Spec

-----------------------------------------------------------------------------
(* The properties of the run                                               *)

\* In the run, a game the launch helper has resumed never works with a date before 1900:
\* the trampoline write_remote_exact() wrote and reread is in it, whatever fails or is
\* interrupted, and whichever game takes over a dead one's pid.
THEOREM RunFixesDates == PartSpec => []DatesFixed
<1>1. LaunchProof!PatchAssumption
  BY PartAssumptions, SameLaunch
<1>2. LaunchProof!Spec => []LaunchProof!DatesFixed
  BY <1>1, LaunchProof!DatesStayFixed
<1>3. LaunchProof!DatesFixed => DatesFixed
  BY SameLaunch DEF DatesFixed
<1>4. part # "launch" => DatesFixed
  BY DEF DatesFixed
<1>5. part # "launch" /\ [PartNext]_allVars => (part # "launch")'
  BY SamePart
<1>6. part = "launch" \/ part # "launch"
  OBVIOUS
<1>. QED
  BY <1>2, <1>3, <1>4, <1>5, <1>6, LaunchRuns, PTL DEF PartSpec

\* In the run, no living TGame has an entry that jumps to a trampoline not written yet.
THEOREM RunWritesStubsFirst == PartSpec => []StubFirst
<1>1. LaunchProof!PatchAssumption
  BY PartAssumptions, SameLaunch
<1>2. LaunchProof!Spec => []LaunchProof!StubFirst
  BY <1>1, LaunchProof!StubsComeFirst
<1>3. LaunchProof!StubFirst => StubFirst
  BY SameLaunch DEF StubFirst
<1>4. part # "launch" => StubFirst
  BY DEF StubFirst
<1>5. part # "launch" /\ [PartNext]_allVars => (part # "launch")'
  BY SamePart
<1>6. part = "launch" \/ part # "launch"
  OBVIOUS
<1>. QED
  BY <1>2, <1>3, <1>4, <1>5, <1>6, LaunchRuns, PTL DEF PartSpec

\* In the run, a launch helper that has ended leaves START as it found it: the faults are
\* those of reading and patching the game, and Ctrl+C comes at AnyStep.
THEOREM RunRestoresStart == PartSpec => []TclsRestored
<1>1. LaunchProof!PatchAssumption
  BY PartAssumptions, SameLaunch
<1>2. LaunchProof!CarefulRun
  BY DEF LaunchProof!CarefulRun, PatchFaults, AnyStep
<1>3. LaunchProof!Spec => []LaunchProof!TclsRestored
  BY <1>1, <1>2, LaunchProof!StartIsRestored
<1>4. LaunchProof!TclsRestored => TclsRestored
  BY SameLaunch DEF TclsRestored
<1>5. part # "launch" => TclsRestored
  BY DEF TclsRestored
<1>6. part # "launch" /\ [PartNext]_allVars => (part # "launch")'
  BY SamePart
<1>7. part = "launch" \/ part # "launch"
  OBVIOUS
<1>. QED
  BY <1>3, <1>4, <1>5, <1>6, <1>7, LaunchRuns, PTL DEF PartSpec

\* In the run, no instruction of AFDEV runs before every patch is in, and main() leaves
\* no process it could not patch and no thread of AFDEV's it suspended.
THEOREM RunLeavesNoneHeld == PartSpec => []NotLeftHeld
<1>1. LoaderProof!LoaderAssumption
  BY PartAssumptions, SameLoader
<1>2. LoaderProof!Spec => []LoaderProof!UnpatchedNeverRuns
  BY <1>1, LoaderProof!NeverRunsUnpatched
<1>3. {"start", "finally"} \cap LoaderFaults = {}
  BY DEF LoaderFaults
<1>4. LoaderProof!Spec => []LoaderProof!NotLeftHeld
  BY <1>1, <1>3, LoaderProof!NeverLeftHeld
<1>5. LoaderProof!UnpatchedNeverRuns /\ LoaderProof!NotLeftHeld => NotLeftHeld
  BY SameLoader DEF NotLeftHeld
<1>6. part # "loader" => NotLeftHeld
  BY DEF NotLeftHeld
<1>7. part # "loader" /\ [PartNext]_allVars => (part # "loader")'
  BY SamePart
<1>8. part = "loader" \/ part # "loader"
  OBVIOUS
<1>. QED
  BY <1>2, <1>4, <1>5, <1>6, <1>7, <1>8, LoaderRuns, PTL DEF PartSpec

\* In the run, a result main() reports is that of its own call.
THEOREM RunReportsOwnResults == PartSpec => []ResultsAreOwn
<1>1. LoaderProof!LoaderAssumption
  BY PartAssumptions, SameLoader
<1>2. LoaderProof!Spec => []LoaderProof!ResultsAreOwn
  BY <1>1, LoaderProof!ReportsOwnResults
<1>3. LoaderProof!ResultsAreOwn => ResultsAreOwn
  BY SameLoader DEF ResultsAreOwn
<1>4. part # "loader" => ResultsAreOwn
  BY DEF ResultsAreOwn
<1>5. part # "loader" /\ [PartNext]_allVars => (part # "loader")'
  BY SamePart
<1>6. part = "loader" \/ part # "loader"
  OBVIOUS
<1>. QED
  BY <1>2, <1>3, <1>4, <1>5, <1>6, LoaderRuns, PTL DEF PartSpec

\* In the run, the game's code finds its general registers, flags and stack as it left
\* them after the calls the loader sends its thread on.
THEOREM RunRestoresThread == PartSpec => []ThreadRestored
<1>1. LoaderProof!Cpu!TrampolineAssumption
  BY PartAssumptions, SameCode
<1>2. LoaderProof!Cpu!Spec => []LoaderProof!Cpu!ThreadRestored
  BY <1>1, LoaderProof!ThreadComesBack
<1>3. LoaderProof!Cpu!ThreadRestored => ThreadRestored
  BY SameCode DEF ThreadRestored
<1>4. part # "code" => ThreadRestored
  BY DEF ThreadRestored
<1>5. part # "code" /\ [PartNext]_allVars => (part # "code")'
  BY SamePart
<1>6. part = "code" \/ part # "code"
  OBVIOUS
<1>. QED
  BY <1>2, <1>3, <1>4, <1>5, <1>6, CodeRuns, PTL DEF PartSpec

\* In the run, each of those calls has the object and the arguments its function takes, and
\* a result is of a call that was made.
THEOREM RunCallsRight == PartSpec => []CallsRight
<1>1. LoaderProof!Cpu!TrampolineAssumption
  BY PartAssumptions, SameCode
<1>2. LoaderProof!Cpu!Spec => []LoaderProof!Cpu!CallsRight
  BY <1>1, LoaderProof!CallsAreRight
<1>3. LoaderProof!Cpu!CallsRight => CallsRight
  BY SameCode DEF CallsRight
<1>4. part # "code" => CallsRight
  BY DEF CallsRight
<1>5. part # "code" /\ [PartNext]_allVars => (part # "code")'
  BY SamePart
<1>6. part = "code" \/ part # "code"
  OBVIOUS
<1>. QED
  BY <1>2, <1>3, <1>4, <1>5, <1>6, CodeRuns, PTL DEF PartSpec

\* In the run, the memory scan reports what was there when it read it, and misses nothing
\* that stayed, though a chunk ends in the middle of a word and the game writes meanwhile.
THEOREM RunScansSoundly == PartSpec => []ScanSound
<1>1. Bytes!Scan!ScanAssumption
  BY PartAssumptions, SameScan
<1>2. Bytes!Scan!Spec => []Bytes!Scan!ScanSound
  BY <1>1, Bytes!ScanFindsWhatStays
<1>3. Bytes!Scan!ScanSound => ScanSound
  BY SameScan DEF ScanSound
<1>4. part # "scan" => ScanSound
  BY DEF ScanSound
<1>5. part # "scan" /\ [PartNext]_allVars => (part # "scan")'
  BY SamePart
<1>6. part = "scan" \/ part # "scan"
  OBVIOUS
<1>. QED
  BY <1>2, <1>3, <1>4, <1>5, <1>6, ScanRuns, PTL DEF PartSpec

\* In the run, the key the server has for a connection is that connection's.
THEOREM RunHasRightKeys == PartSpec => []KeysRight
<1>1. Zone!Keys!KeyAssumption
  BY PartAssumptions, SameKeys
<1>2. Zone!Keys!Spec => []Zone!Keys!KeysRight
  BY <1>1, Zone!OwnKeys
<1>3. Zone!Keys!KeysRight => KeysRight
  BY SameKeys DEF KeysRight
<1>4. part # "keys" => KeysRight
  BY DEF KeysRight
<1>5. part # "keys" /\ [PartNext]_allVars => (part # "keys")'
  BY SamePart
<1>6. part = "keys" \/ part # "keys"
  OBVIOUS
<1>. QED
  BY <1>2, <1>3, <1>4, <1>5, <1>6, KeysRuns, PTL DEF PartSpec

\* In the run, the bytes of a Zone connection become the frames its client sent, each
\* handled once and in order, and a Version, Auth or Dir connection gets its answers.
THEOREM RunServesOnce == PartSpec => []RequestsOnce
<1>1. Bytes!Stream!StreamAssumption /\ Bytes!Serve!ServiceAssumption
  BY PartAssumptions, SameStream, SameServe
<1>2. Bytes!Stream!Spec => []Bytes!Stream!FramesOnce
  BY <1>1, Bytes!FramesHandledOnce
<1>3. Bytes!Serve!Spec => []Bytes!Serve!Served
  BY <1>1, Bytes!AnswersServed
<1>4. part # "services" /\ Bytes!Stream!FramesOnce => RequestsOnce
  BY SameStream DEF RequestsOnce
<1>5. part # "stream" /\ Bytes!Serve!Served => RequestsOnce
  BY SameServe DEF RequestsOnce
<1>6. part # "stream" /\ part # "services" => RequestsOnce
  BY DEF RequestsOnce
<1>7. part = "stream" => part # "services"
  OBVIOUS
<1>8. part # "stream" /\ [PartNext]_allVars => (part # "stream")'
  BY SamePart
<1>9. part # "services" /\ [PartNext]_allVars => (part # "services")'
  BY SamePart
<1>10. /\ part = "stream" \/ part # "stream"
       /\ part = "services" \/ part # "services"
  OBVIOUS
<1>. QED
  BY <1>2, <1>3, <1>4, <1>5, <1>6, <1>7, <1>8, <1>9, <1>10, StreamRuns, ServeRuns,
     PTL DEF PartSpec

\* In the run, a client is told its profile once per login and is asked by its friend
\* once, and the pages of a room list are the whole list.
THEOREM RunTellsOnce == PartSpec => []ToldOnce
<1>1. Zone!LobbyAssumption
  BY PartAssumptions, SameLobby
<1>2. Zone!Spec => []Zone!ToldOnce
  BY <1>1, Zone!ToldAsPromised
<1>3. Zone!PagesCover
  BY Zone!PagesCoverAll
<1>4. Zone!ToldOnce /\ Zone!PagesCover => ToldOnce
  BY SameLobby DEF ToldOnce
<1>5. part # "lobby" => ToldOnce
  BY DEF ToldOnce
<1>6. part # "lobby" /\ [PartNext]_allVars => (part # "lobby")'
  BY SamePart
<1>7. part = "lobby" \/ part # "lobby"
  OBVIOUS
<1>. QED
  BY <1>2, <1>3, <1>4, <1>5, <1>6, <1>7, LobbyRuns, PTL DEF PartSpec

\* In the run, a clan whose creation was confirmed to its client outlives the connection
\* and the server.
THEOREM RunKeepsClan == PartSpec => []ClanKept
<1>1. Zone!Spec => []Zone!ClanKept
  BY Zone!ClanOutlives
<1>2. Zone!ClanKept => ClanKept
  BY SameLobby DEF ClanKept
<1>3. part # "lobby" => ClanKept
  BY DEF ClanKept
<1>4. part # "lobby" /\ [PartNext]_allVars => (part # "lobby")'
  BY SamePart
<1>5. part = "lobby" \/ part # "lobby"
  OBVIOUS
<1>. QED
  BY <1>1, <1>2, <1>3, <1>4, <1>5, LobbyRuns, PTL DEF PartSpec
=============================================================================
