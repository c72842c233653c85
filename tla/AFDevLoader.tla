----------------------------- MODULE AFDevLoader -----------------------------
(***************************************************************************)
(* The AFDEV map loader,                                                   *)
(* tools/server_spawner/AFDevLoader_v26_pve_natural_loading_completion.py. *)
(*                                                                         *)
(* main() creates AFDEV suspended, patches it, resumes it, waits for the   *)
(* engine and then makes AFDEV's own game thread run console commands: it  *)
(* suspends the thread, points it at a trampoline that calls the engine    *)
(* and comes back to the interrupted instruction, resumes it, and polls a  *)
(* result word.  The game thread, the map load it is busy with, and the    *)
(* death of the process run beside it.  A trampoline that has not come     *)
(* back when the next one is set up is interrupted in its turn, so the     *)
(* thread holds a stack of them.                                           *)
(***************************************************************************)
EXTENDS Naturals, Sequences, FiniteSets

CONSTANTS
  Patches,   \* what must be in the image before it may run, in order
  Plan,      \* the kinds of the calls main() injects, in order
  Stages,    \* the last LoadMap milestone
  Samples,   \* how often the stuck thread is sampled
  Faults     \* system calls that may fail

Kinds == {"open", "worldinfo", "exec"}

LoaderAssumption ==
  /\ Plan \in Seq(Kinds) /\ Len(Plan) > 1 /\ Plan[1] = "open"
  /\ Stages \in Nat \ {0} /\ Samples \in Nat /\ Len(Patches) \in Nat \ {0}

VARIABLES
  main,     \* where main() is
  done,     \* how many of the patches are in the image
  at,       \* the number of the injection main() is at
  phase,    \* where that injection is
  life,     \* the AFDEV process
  susp,     \* the suspend count of its game thread
  frames,   \* the trampolines on that thread, innermost last
  slot,     \* the result word of each injection
  pages,    \* the injections whose memory is allocated
  ran,      \* how often each injected call has been made
  got,      \* how main() saw each injection end
  samples,  \* samples taken
  engine,   \* GEngine and GLog: not set yet, set, gone again
  url,      \* PendingURL is not empty
  stage,    \* the LoadMap marker
  world     \* GWorld is the new world

loader == <<main, done, at, phase, got, samples>>
thread == <<life, susp, frames, slot, pages, ran>>
map    == <<engine, url, stage, world>>
vars   == <<loader, thread, map>>

Calls == 1..Len(Plan)
Alive == life = "alive"
Fault(f) == f \in Faults \/ ~Alive
Runs == Alive /\ susp = 0

Init ==
  /\ main = "patch" /\ done = 0 /\ at = 0 /\ phase = "idle" /\ samples = 0
  /\ life = "alive" /\ susp = 1   \* CREATE_SUSPENDED
  /\ frames = <<>> /\ pages = {}
  /\ slot = [i \in Calls |-> "none"] /\ got = [i \in Calls |-> "none"]
  /\ ran = [i \in Calls |-> 0]
  /\ engine = "none" /\ url = FALSE /\ stage = 0 /\ world = FALSE

Goto(where) == main' = where /\ UNCHANGED <<done, at, phase, got, samples>>

-----------------------------------------------------------------------------
(* Before the process runs.                                                *)

\* verify_and_patch and its relatives: the bytes must be the validated ones, are
\* written, and are read back.  An exception terminates the process.
Patch ==
  /\ main = "patch" /\ Alive
  /\ done' = done + 1
  /\ main' = IF done' = Len(Patches) THEN "resume" ELSE "patch"
  /\ UNCHANGED <<at, phase, got, samples, thread, map>>

Terminated == life' = "dead" /\ frames' = <<>>
PatchFails ==
  /\ main = "patch" /\ Fault("patch")
  /\ Terminated /\ Goto("failed")
  /\ UNCHANGED <<susp, slot, pages, ran, map>>

\* A ResumeThread that fails here is outside of the try that terminates.
ResumeMain ==
  /\ main = "resume"
  /\ \/ Alive /\ susp' = susp - 1 /\ Goto("engine")
     \/ Fault("start") /\ Goto("failed") /\ UNCHANGED susp
  /\ UNCHANGED <<life, frames, slot, pages, ran, map>>

-----------------------------------------------------------------------------
(* The waits of main().                                                    *)

\* wait_for_engine, the delay and the check after it.
WaitForEngine ==
  /\ main = "engine"
  /\ \/ engine = "up" /\ Alive /\ Goto("guard")
     \/ Goto("failed")
  /\ UNCHANGED <<thread, map>>

ArmGuard ==
  /\ main = "guard"
  /\ main' = "inject" /\ at' = 1
  /\ UNCHANGED <<done, phase, got, samples, thread, map>>

\* Thirty seconds, the last milestone, a dead process or a failed read end it, and the
\* last milestone counts only when it was read.
MonitorStages ==
  /\ main = "stages"
  /\ \/ stage = Stages /\ Goto("pending")
     \/ (stage < Stages \/ Fault("read")) /\ Goto("sample")
  /\ UNCHANGED <<thread, map>>

\* The finally of everything that suspends the thread does not look at what its
\* ResumeThread returns.
Resumed == susp' = IF Alive THEN susp - 1 ELSE susp
BadFinally == susp' = susp
Finally == Resumed \/ ("finally" \in Faults /\ UNCHANGED susp)

\* Each sample suspends the thread, reads it and resumes it in a finally.
SampleHolds ==
  /\ main = "sample" /\ phase = "idle" /\ Alive /\ samples < Samples
  /\ susp' = susp + 1 /\ phase' = "sampling"
  /\ UNCHANGED <<main, done, at, got, samples, life, frames, slot, pages, ran, map>>
SampleResumes ==
  /\ phase = "sampling"
  /\ Finally
  /\ phase' = "idle" /\ samples' = samples + 1
  /\ UNCHANGED <<main, done, at, got, life, frames, slot, pages, ran, map>>
SampleEnds ==
  /\ main = "sample" /\ phase = "idle"
  /\ samples = Samples \/ Fault("suspend") \/ Fault("context")
  /\ Goto("pending")
  /\ UNCHANGED <<thread, map>>

\* A length of zero is a consumed request.  A read that fails gives zero too.
SeenLength == {IF url THEN 1 ELSE 0} \cup (IF Fault("read") THEN {0} ELSE {})
WaitForPendingUrlClear ==
  /\ main = "pending"
  /\ \/ 0 \in SeenLength /\ Alive /\ Goto("world")
     \/ Goto("travel")
  /\ UNCHANGED <<thread, map>>

\* The controller and GWorld are waited for, and used after the time-out as well.
WaitForWorld ==
  /\ main = "world"
  /\ main' = "inject" /\ at' = 2
  /\ UNCHANGED <<done, phase, got, samples, thread, map>>

MonitorTravel ==
  /\ main = "travel"
  /\ Goto("hold")
  /\ UNCHANGED <<thread, map>>

\* WaitForSingleObject(INFINITE).
Hold ==
  /\ main = "hold" /\ ~Alive
  /\ Goto("ended")
  /\ UNCHANGED <<thread, map>>

-----------------------------------------------------------------------------
(* One injection.                                                          *)

\* How main() goes on: the OPEN must have returned, the authority probe and each
\* capacity command only report an error.
After(i, outcome) ==
  /\ got' = [got EXCEPT ![i] = outcome]
  /\ phase' = "idle"
  /\ IF outcome = "error" /\ Plan[i] \in {"open"}
     THEN main' = "failed" /\ UNCHANGED at
     ELSE IF i = 1 THEN main' = "stages" /\ UNCHANGED at
     ELSE IF i = Len(Plan) THEN main' = "travel" /\ UNCHANGED at
     ELSE at' = i + 1 /\ UNCHANGED main
  /\ UNCHANGED <<done, samples>>
Raise == After(at, "error")

\* Memory of its own, the sentinel in the result word.
BadSentinel == "zero"
Sentinel == "waiting"
Prepare ==
  /\ main = "inject" /\ phase = "idle"
  /\ \/ /\ Alive
        /\ pages' = pages \cup {at}
        /\ slot' = [slot EXCEPT ![at] = Sentinel]
        /\ phase' = "ready"
        /\ UNCHANGED <<main, done, at, got, samples>>
     \/ Fault("alloc") /\ Raise /\ UNCHANGED <<pages, slot>>
  /\ UNCHANGED <<life, susp, frames, ran, map>>

Suspend ==
  /\ phase = "ready"
  /\ \/ Alive /\ susp' = susp + 1 /\ phase' = "held" /\ UNCHANGED <<main, done, at, got, samples>>
     \/ Fault("suspend") /\ Raise /\ UNCHANGED susp
  /\ UNCHANGED <<life, frames, slot, pages, ran, map>>

\* Context, trampoline, EIP: the frame goes on top of whatever the thread was doing.
\* Whatever raises here passes the finally, which resumes the thread.
Hijack(kinds) ==
  /\ phase = "held" /\ Plan[at] \in kinds
  /\ \/ /\ Alive
        /\ frames' = Append(frames, [call |-> at, step |-> "entered"])
        /\ phase' = "aimed"
        /\ UNCHANGED <<main, done, at, got, samples, susp>>
     \/ Fault("context") /\ Finally /\ Raise /\ UNCHANGED frames
  /\ UNCHANGED <<life, slot, pages, ran, map>>
HijackExec == Hijack({"open", "exec"})
HijackWorldInfo == Hijack({"worldinfo"})

\* A ResumeThread that fails is an error, but the finally resumes once more and the
\* trampoline runs.
ResumeThread ==
  /\ phase = "aimed"
  /\ \/ Alive /\ Resumed /\ phase' = "polling" /\ UNCHANGED <<main, done, at, got, samples>>
     \/ Fault("resume") /\ Finally /\ Raise
  /\ UNCHANGED <<life, frames, slot, pages, ran, map>>

\* The result word is polled until it is not the sentinel, the process is gone, a
\* read fails or the time is up.  The memory is kept.
PollSees ==
  /\ phase = "polling" /\ Alive /\ slot[at] # "waiting"
  /\ After(at, "value")
  /\ UNCHANGED <<thread, map>>
PollGone == phase = "polling" /\ ~Alive /\ Raise /\ UNCHANGED <<thread, map>>
PollFails ==
  /\ phase = "polling" /\ "read" \in Faults
  /\ Raise
  /\ UNCHANGED <<thread, map>>
PollTimesOut ==
  /\ phase = "polling" /\ slot[at] = "waiting"
  /\ Raise
  /\ UNCHANGED <<thread, map>>

-----------------------------------------------------------------------------
(* The game thread and its process.                                        *)

Top == frames[Len(frames)]
Popped == SubSeq(frames, 1, Len(frames) - 1)
MarkTop(step) == [frames EXCEPT ![Len(frames)].step = step]

\* The call itself.  OPEN leaves a URL to travel to; GetWorldInfo gets the world main()
\* has read before, which may be null or gone and then brings the process down; without
\* an engine the Exec trampoline calls nothing and writes no result.
Called(kinds) == Plan[Top.call] \in kinds /\ ran' = [ran EXCEPT ![Top.call] = @ + 1]
CallOpen ==
  /\ engine = "up" /\ Called({"open"})
  /\ url' = TRUE /\ frames' = MarkTop("called") /\ UNCHANGED life
CallSkipped ==
  /\ engine = "gone" /\ Plan[Top.call] \in {"open", "exec"}
  /\ frames' = MarkTop("written") /\ UNCHANGED <<life, url, ran>>
CallWorldInfo ==
  /\ Called({"worldinfo"})
  /\ \/ frames' = MarkTop("called") /\ UNCHANGED life
     \/ Terminated
  /\ UNCHANGED url
CallExec ==
  /\ engine = "up" /\ Called({"exec"})
  /\ frames' = MarkTop("called") /\ UNCHANGED <<life, url>>
MakesCall ==
  /\ Runs /\ frames # <<>> /\ Top.step = "entered"
  /\ CallOpen \/ CallSkipped \/ CallWorldInfo \/ CallExec
  /\ UNCHANGED <<loader, susp, slot, pages, engine, stage, world>>

WritesResult ==
  /\ Runs /\ frames # <<>> /\ Top.step = "called"
  /\ slot' = [slot EXCEPT ![Top.call] = "value"]
  /\ frames' = MarkTop("written")
  /\ UNCHANGED <<loader, life, susp, pages, ran, map>>

\* popad, popfd, ret: back to the interrupted instruction.
Returns ==
  /\ Runs /\ frames # <<>> /\ Top.step = "written"
  /\ frames' = Popped
  /\ UNCHANGED <<loader, life, susp, slot, pages, ran, map>>

\* Outside of any trampoline the thread starts the engine, loads the map, and
\* drops the engine when it shuts down.
EngineChanges ==
  /\ Runs /\ frames = <<>>
  /\ \/ engine = "none" /\ engine' = "up"
     \/ engine = "up" /\ engine' = "gone"
  /\ UNCHANGED <<loader, thread, url, stage, world>>
LoadsMap ==
  /\ Runs /\ frames = <<>> /\ engine = "up"
  /\ \/ (url \/ stage > 0) /\ stage < Stages /\ stage' = stage + 1 /\ UNCHANGED <<url, world>>
     \/ url /\ stage > 0 /\ url' = FALSE /\ UNCHANGED <<stage, world>>
     \/ ~url /\ stage = Stages /\ ~world /\ world' = TRUE /\ UNCHANGED <<stage, url>>
  /\ UNCHANGED <<loader, thread, engine>>

Dies ==
  /\ Alive /\ Terminated
  /\ UNCHANGED <<loader, susp, slot, pages, ran, map>>

-----------------------------------------------------------------------------
Loader ==
  \/ Patch \/ PatchFails \/ ResumeMain
  \/ WaitForEngine \/ ArmGuard \/ MonitorStages
  \/ SampleHolds \/ SampleResumes \/ SampleEnds
  \/ WaitForPendingUrlClear \/ WaitForWorld \/ MonitorTravel \/ Hold
  \/ Prepare \/ Suspend \/ HijackExec \/ HijackWorldInfo
  \/ ResumeThread \/ PollSees \/ PollGone \/ PollTimesOut
Game == MakesCall \/ WritesResult \/ Returns \/ EngineChanges \/ LoadsMap \/ Dies

Next == Loader \/ PollFails \/ Game
Spec == Init /\ [][Next]_vars
\* The loader is a running program, whose waits end by their time-outs and not
\* because a read happens to fail; nothing is promised of AFDEV.
FairSpec == Spec /\ WF_vars(Loader)

-----------------------------------------------------------------------------
\* No instruction of AFDEV runs before every patch is in, and a loader that could
\* not patch leaves no process behind.
UnpatchedNeverRuns ==
  /\ Runs => done = Len(Patches)
  /\ main = "failed" /\ done < Len(Patches) => ~Alive

\* Whatever failed in between, the loader never goes on or ends with the game
\* thread suspended, if the ResumeThread of no finally fails.
NotLeftHeld ==
  Alive /\ phase \in {"idle", "ready", "polling"} /\ main \notin {"patch", "resume"} => susp = 0

\* A result main() reports is that of its own call, which was made exactly once.
ResultsAreOwn == \A i \in Calls : got[i] = "value" => ran[i] = 1

\* The loader always comes to the last wait or to an end.
Resolved == main \in {"hold", "ended", "failed"}
LoaderResolves == <>Resolved

\* The comment at main()'s capacity commands says that the GameInfo exists by then.  The
\* code does not see to it: the wait for the world is not checked, and no run checks this.
CapacityOnWorld == [][\A i \in Calls : i > 2 /\ ran'[i] > ran[i] => world]_vars
=============================================================================
