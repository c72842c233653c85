-------------------------- MODULE AFDevLoaderProofs --------------------------
(***************************************************************************)
(* Proofs about AFDevLoader for any patches, plan, milestones, samples and *)
(* faults: that no instruction of AFDEV runs before the patches are in     *)
(* (UnpatchedNeverRuns), that a result main() reports is that of its own   *)
(* call, made once (ResultsAreOwn), and, where neither the ResumeThread    *)
(* that starts AFDEV nor that of a finally fails, that the game thread is  *)
(* never left suspended (NotLeftHeld).                                     *)
(*                                                                         *)
(* And about the machine code it writes, Trampolines, for any plans of     *)
(* calls and any years: that the interrupted code gets general registers,  *)
(* flags and stack back (ThreadRestored), and that each call has the       *)
(* object and the arguments its function takes (CallsRight).               *)
(***************************************************************************)
EXTENDS AFDevLoader, Integers, SequenceTheorems, TLAPS

-----------------------------------------------------------------------------
(* The inductive invariant                                                 *)

Frame == [call : Calls, step : {"entered", "called", "written"}]
Starting == {"patch", "resume", "engine", "guard"}
Between == {"stages", "sample", "pending", "world"}
Over == {"failed", "travel", "hold", "ended"}
Injecting == {"ready", "held", "aimed", "polling"}

TypesOK ==
  /\ main \in Starting \cup Between \cup Over \cup {"inject"}
  /\ phase \in Injecting \cup {"idle", "sampling"}
  /\ done \in Nat /\ at \in Nat /\ susp \in Nat /\ life \in {"alive", "dead"}
  /\ frames \in Seq(Frame) /\ pages \subseteq Calls
  /\ slot \in [Calls -> {"none", "waiting", "value"}]
  /\ got \in [Calls -> {"none", "error", "value"}]
  /\ ran \in [Calls -> Nat]

\* Which injection main() is at follows from where it is.
MainOK ==
  /\ main \in Starting => at = 0
  /\ main \in Between => at = 1
  /\ main = "inject" => at \in Calls
  /\ phase \in Injecting => main = "inject"
  /\ phase = "sampling" => main = "sample"

\* AFDEV stays suspended until every patch is in, or is dead.
PatchOK ==
  /\ main = "patch" => done < Len(Patches)
  /\ main \notin {"patch", "failed"} => done = Len(Patches)
  /\ main = "failed" => done = Len(Patches) \/ (done < Len(Patches) /\ ~Alive)
  /\ Alive /\ main \in {"patch", "resume"} => susp = 1

\* Once AFDEV runs, its thread is suspended while main() holds it, and only then if the
\* ResumeThread of no finally fails.
Holds == IF phase \in {"sampling", "held", "aimed"} THEN 1 ELSE 0
HeldOK ==
  Alive /\ main \notin {"patch", "resume", "failed"} =>
    /\ susp >= Holds
    /\ "finally" \notin Faults => susp = Holds

\* A call is on the thread's stack at most once, and has been made when its frame is past it.
FramesOK ==
  /\ \A j, k \in 1..Len(frames) : frames[j].call = frames[k].call => j = k
  /\ \A k \in 1..Len(frames) :
       /\ frames[k].call \in pages
       /\ frames[k].step = "entered" => ran[frames[k].call] = 0 /\ slot[frames[k].call] = "waiting"
       /\ frames[k].step = "called" => ran[frames[k].call] = 1

\* A result was written by the call, and reported only then.
SlotsOK ==
  \A i \in Calls :
    /\ i \in pages => slot[i] # "none"
    /\ slot[i] = "value" => ran[i] = 1
    /\ got[i] = "value" => slot[i] = "value"

\* The calls that are still to come leave no trace yet.
Coming(i) == i > at \/ (i = at /\ main = "inject" /\ phase \in {"idle", "ready", "held"})
CallsOK ==
  /\ \A i \in Calls : Coming(i) =>
       /\ ran[i] = 0 /\ got[i] # "value"
       /\ \A k \in 1..Len(frames) : frames[k].call # i
  /\ phase \in Injecting => at \in pages
  /\ phase \in {"ready", "held"} => slot[at] = "waiting"

Inv == TypesOK /\ MainOK /\ PatchOK /\ HeldOK /\ FramesOK /\ SlotsOK /\ CallsOK

\* A loader that has failed, after it had resumed AFDEV, has not left it suspended.
FailedOK == Alive /\ main = "failed" => susp = 0

LEMMA InitInv == ASSUME LoaderAssumption, Init PROVE Inv /\ FailedOK
<1>1. Len(Plan) \in Nat /\ Len(Patches) \in Nat \ {0}
  BY DEF LoaderAssumption
<1>2. frames \in Seq(Frame) /\ Len(frames) = 0
  BY DEF Init
<1>3. TypesOK
  BY <1>2 DEF Init, TypesOK, Starting
<1>4. MainOK /\ PatchOK /\ HeldOK /\ FailedOK
  BY <1>1 DEF Init, MainOK, PatchOK, HeldOK, Holds, FailedOK, Starting, Between, Injecting
<1>5. FramesOK /\ SlotsOK
  BY <1>2 DEF Init, FramesOK, SlotsOK
<1>6. CallsOK
  BY <1>2 DEF Init, CallsOK, Coming, Injecting
<1> QED BY <1>3, <1>4, <1>5, <1>6 DEF Inv

LEMMA InvImplies ==
  ASSUME LoaderAssumption, Inv PROVE UnpatchedNeverRuns /\ ResultsAreOwn
<1>1. Len(Patches) \in Nat
  BY DEF LoaderAssumption
<1>2. UnpatchedNeverRuns
  BY <1>1 DEF Inv, TypesOK, PatchOK, HeldOK, Holds, UnpatchedNeverRuns, Runs
<1>3. ResultsAreOwn
  BY DEF Inv, SlotsOK, ResultsAreOwn
<1> QED BY <1>2, <1>3

LEMMA FrameType ==
  ASSUME TypesOK PROVE \A k \in 1..Len(frames) : frames[k] \in Frame
BY ElementOfSeq DEF TypesOK

-----------------------------------------------------------------------------
(* main() without the injections                                           *)

\* A step that leaves the calls, their results and their frames alone, and begins none.
LEMMA QuietStep ==
  ASSUME Inv, UNCHANGED <<frames, slot, pages, ran, got>>, TypesOK', MainOK', PatchOK', HeldOK',
         \A i \in Calls : Coming(i)' => Coming(i),
         phase' \in Injecting => phase \in Injecting /\ at' = at,
         phase' \in {"ready", "held"} => phase \in {"ready", "held"}
  PROVE  Inv'
<1>1. FramesOK' /\ SlotsOK'
  BY DEF Inv, FramesOK, SlotsOK
<1>2. CallsOK'
  BY DEF Inv, CallsOK, Injecting
<1> QED BY <1>1, <1>2 DEF Inv

\* The same where main() stays at its injection and in its phase.
LEMMA MainStep ==
  ASSUME Inv, UNCHANGED <<at, phase, got, frames, slot, pages, ran>>, TypesOK', PatchOK', HeldOK',
         phase = "idle", main # "inject", main' \notin {"inject"},
         main' \in Starting => main \in Starting,
         main' \in Between => main \in Between
  PROVE  Inv'
<1>1. MainOK'
  BY DEF Inv, MainOK, Injecting
<1>2. \A i \in Calls : Coming(i)' => Coming(i)
  BY DEF Coming
<1> QED BY <1>1, <1>2, QuietStep DEF Injecting

LEMMA StartInv ==
  ASSUME LoaderAssumption, Inv,
         Patch \/ ResumeMain \/ WaitForEngine
  PROVE  Inv'
<1>0. TypesOK /\ MainOK /\ PatchOK /\ HeldOK /\ Len(Patches) \in Nat \ {0} /\ phase = "idle"
  BY DEF LoaderAssumption, Inv, Patch, ResumeMain, WaitForEngine, TypesOK, MainOK, Injecting
<1>1. UNCHANGED <<at, phase, got, frames, slot, pages, ran, life>>
  BY DEF Patch, ResumeMain, WaitForEngine, Goto, thread
<1>2. CASE Patch
  <2>1. /\ main = "patch" /\ done' = done + 1 /\ susp' = susp
        /\ main' = IF done' = Len(Patches) THEN "resume" ELSE "patch"
    BY <1>2 DEF Patch, thread
  <2>2. TypesOK' /\ PatchOK' /\ HeldOK'
    BY <1>0, <1>1, <2>1 DEF TypesOK, PatchOK, HeldOK, Holds, Alive, Starting
  <2> QED BY <1>0, <1>1, <2>1, <2>2, MainStep DEF Starting, Between
<1>3. CASE ResumeMain
  <2>1. /\ main = "resume" /\ done' = done
        /\ \/ main' = "engine" /\ Alive /\ susp' = susp - 1
           \/ main' = "failed" /\ susp' = susp
    BY <1>3 DEF ResumeMain, Goto
  <2>2. TypesOK' /\ PatchOK' /\ HeldOK'
    BY <1>0, <1>1, <2>1 DEF TypesOK, PatchOK, HeldOK, Holds, Alive, Starting, Over
  <2> QED BY <1>0, <1>1, <2>1, <2>2, MainStep DEF Starting, Between
<1>4. CASE WaitForEngine
  <2>1. main = "engine" /\ main' \in {"guard", "failed"} /\ UNCHANGED <<done, susp>>
    BY <1>4 DEF WaitForEngine, Goto, thread
  <2>2. TypesOK' /\ PatchOK' /\ HeldOK'
    BY <1>0, <1>1, <2>1 DEF TypesOK, PatchOK, HeldOK, Holds, Alive, Starting, Over
  <2> QED BY <1>0, <1>1, <2>1, <2>2, MainStep DEF Starting, Between
<1> QED BY <1>2, <1>3, <1>4

LEMMA WaitInv ==
  ASSUME Inv,
         MonitorStages \/ SampleEnds \/ WaitForPendingUrlClear \/ MonitorTravel \/ Hold
  PROVE  Inv'
<1>0. TypesOK /\ MainOK /\ PatchOK /\ HeldOK /\ phase = "idle"
  BY DEF Inv, MonitorStages, SampleEnds, WaitForPendingUrlClear, MonitorTravel, Hold, TypesOK,
         MainOK, Injecting
<1>1. UNCHANGED <<at, phase, got, frames, slot, pages, ran, life, susp, done>>
  BY DEF MonitorStages, SampleEnds, WaitForPendingUrlClear, MonitorTravel, Hold, Goto, thread
<1>2. /\ main \in Between \cup {"travel", "hold"}
      /\ main' \in {"pending", "sample", "world", "travel", "hold", "ended"}
      /\ main' \in Between => main \in Between
  BY DEF MonitorStages, SampleEnds, WaitForPendingUrlClear, MonitorTravel, Hold, Goto, Between
<1>3. TypesOK' /\ PatchOK' /\ HeldOK'
  BY <1>0, <1>1, <1>2 DEF TypesOK, PatchOK, HeldOK, Holds, Alive, Between, Over
<1> QED BY <1>0, <1>1, <1>2, <1>3, MainStep DEF Starting, Between

\* On to the first injection, and after the world to the second.
LEMMA NextCallInv == ASSUME LoaderAssumption, Inv, ArmGuard \/ WaitForWorld PROVE Inv'
<1>0. TypesOK /\ MainOK /\ PatchOK /\ HeldOK /\ phase = "idle" /\ Len(Plan) \in Nat /\ Len(Plan) > 1
  BY DEF LoaderAssumption, Inv, ArmGuard, WaitForWorld, TypesOK, MainOK, Injecting
<1>1. /\ UNCHANGED <<phase, got, frames, slot, pages, ran, life, susp, done>>
      /\ main \in {"guard", "world"} /\ main' = "inject" /\ at' = at + 1
  BY <1>0 DEF ArmGuard, WaitForWorld, thread, MainOK, Starting, Between
<1>2. at' \in Calls
  BY <1>0, <1>1 DEF Calls, ArmGuard, WaitForWorld
<1>3. TypesOK' /\ PatchOK' /\ HeldOK' /\ MainOK'
  BY <1>0, <1>1, <1>2 DEF TypesOK, PatchOK, HeldOK, Holds, MainOK, Alive, Between, Starting,
     Injecting
<1>4. \A i \in Calls : Coming(i)' => Coming(i)
  BY <1>0, <1>1 DEF Coming, Calls, TypesOK
<1> QED BY <1>0, <1>1, <1>3, <1>4, QuietStep DEF Injecting

LEMMA SampleInv == ASSUME Inv, SampleHolds \/ SampleResumes PROVE Inv'
<1>0. TypesOK /\ MainOK /\ PatchOK /\ HeldOK
  BY DEF Inv
<1>1. /\ UNCHANGED <<main, done, at, got, life, frames, slot, pages, ran>>
      /\ main = "sample" /\ phase' \in {"sampling", "idle"} /\ phase \in {"sampling", "idle"}
  BY <1>0 DEF SampleHolds, SampleResumes, MainOK
<1>2. susp' \in Nat /\ HeldOK'
  <2>1. CASE SampleHolds
    BY <1>0, <1>1, <2>1 DEF SampleHolds, TypesOK, HeldOK, Holds, Alive
  <2>2. CASE SampleResumes
    BY <1>0, <1>1, <2>2 DEF SampleResumes, Finally, Resumed, TypesOK, HeldOK, Holds, Alive
  <2> QED BY <2>1, <2>2
<1>3. TypesOK' /\ PatchOK' /\ HeldOK' /\ MainOK'
  BY <1>0, <1>1, <1>2 DEF TypesOK, PatchOK, MainOK, Alive, Starting, Between, Injecting
<1>4. \A i \in Calls : Coming(i)' => Coming(i)
  BY <1>1 DEF Coming
<1> QED BY <1>1, <1>3, <1>4, QuietStep DEF Injecting
-----------------------------------------------------------------------------
(* One injection                                                           *)

\* However an injection ends, the next one to come has left no trace.
LEMMA AfterInv ==
  ASSUME LoaderAssumption, Inv, main = "inject", NEW outcome \in {"error", "value"},
         After(at, outcome), outcome = "value" => slot[at] = "value",
         UNCHANGED <<life, frames, slot, pages, ran>>, susp' \in Nat,
         Alive /\ "finally" \notin Faults => susp' = 0
  PROVE  Inv'
<1>0. /\ TypesOK /\ MainOK /\ PatchOK /\ at \in Calls
      /\ Plan \in Seq(Kinds) /\ Len(Plan) \in Nat /\ Len(Plan) > 1
  BY DEF LoaderAssumption, Inv, MainOK
<1>1. /\ done' = done /\ phase' = "idle" /\ got' = [got EXCEPT ![at] = outcome]
      /\ \/ main' = "failed" /\ at' = at
         \/ main' = "stages" /\ at = 1 /\ at' = at
         \/ main' = "travel" /\ at' = at
         \/ main' = "inject" /\ at # Len(Plan) /\ at' = at + 1
  BY DEF After
<1>2. at \in Nat /\ (main' = "inject" => at' \in Calls)
  BY <1>0, <1>1 DEF Calls
<1>3. got' \in [Calls -> {"none", "error", "value"}]
      /\ \A i \in Calls : got'[i] = IF i = at THEN outcome ELSE got[i]
  BY <1>0, <1>1 DEF TypesOK
<1>4. TypesOK'
  BY <1>0, <1>1, <1>2, <1>3 DEF TypesOK, Over, Between
<1>5. MainOK' /\ PatchOK' /\ HeldOK'
  BY <1>0, <1>1, <1>2 DEF MainOK, PatchOK, HeldOK, Holds, Alive, Starting, Between, Injecting,
     TypesOK
<1>6. FramesOK'
  BY DEF Inv, FramesOK
<1>7. SlotsOK'
  BY <1>3 DEF Inv, SlotsOK
<1>8. \A i \in Calls : Coming(i)' => Coming(i) /\ i # at
  BY <1>1, <1>2 DEF Coming, Calls
<1>9. CallsOK'
  BY <1>1, <1>3, <1>8 DEF Inv, CallsOK, Injecting
<1> QED BY <1>4, <1>5, <1>6, <1>7, <1>9 DEF Inv

LEMMA PrepareInv == ASSUME LoaderAssumption, Inv, Prepare PROVE Inv'
<1>0. /\ TypesOK /\ MainOK /\ PatchOK /\ HeldOK /\ at \in Calls
      /\ main = "inject" /\ phase = "idle" /\ UNCHANGED <<life, susp, frames, ran>>
  BY DEF Inv, MainOK, Prepare
<1>1. CASE Raise /\ UNCHANGED <<pages, slot>>
  <2>1. Alive /\ "finally" \notin Faults => susp' = 0
    BY <1>0 DEF HeldOK, Holds
  <2> QED BY <1>0, <1>1, <2>1, AfterInv DEF Raise, TypesOK
<1>2. CASE /\ pages' = pages \cup {at} /\ slot' = [slot EXCEPT ![at] = Sentinel]
           /\ phase' = "ready" /\ UNCHANGED <<main, done, at, got>>
  <2>1. /\ slot' \in [Calls -> {"none", "waiting", "value"}]
        /\ \A i \in Calls : slot'[i] = IF i = at THEN "waiting" ELSE slot[i]
    BY <1>0, <1>2 DEF TypesOK, Sentinel
  <2>2. Coming(at)
    BY <1>0 DEF Coming
  <2>3. TypesOK' /\ MainOK' /\ PatchOK' /\ HeldOK'
    BY <1>0, <1>2, <2>1 DEF TypesOK, MainOK, PatchOK, HeldOK, Holds, Alive, Starting, Between,
       Injecting
  <2>4. SlotsOK'
    BY <1>0, <1>2, <2>1, <2>2 DEF Inv, SlotsOK, CallsOK
  <2>5. \A k \in 1..Len(frames) : frames[k].call # at /\ frames[k].call \in Calls
    BY <1>0, <2>2, FrameType DEF Inv, CallsOK, Frame
  <2>6. FramesOK'
    BY <1>0, <1>2, <2>1, <2>5 DEF Inv, FramesOK
  <2>7. \A i \in Calls : Coming(i)' => Coming(i)
    BY <1>0, <1>2 DEF Coming
  <2>8. CallsOK'
    BY <1>0, <1>2, <2>1, <2>7 DEF Inv, CallsOK
  <2> QED BY <2>3, <2>4, <2>6, <2>8 DEF Inv
<1> QED BY <1>1, <1>2 DEF Prepare

LEMMA SuspendInv == ASSUME LoaderAssumption, Inv, Suspend PROVE Inv'
<1>0. /\ TypesOK /\ MainOK /\ PatchOK /\ HeldOK
      /\ main = "inject" /\ phase = "ready" /\ UNCHANGED <<life, slot, pages, frames, ran>>
  BY DEF Inv, MainOK, Suspend, Injecting
<1>1. CASE Raise /\ UNCHANGED susp
  <2>1. Alive /\ "finally" \notin Faults => susp' = 0
    BY <1>0, <1>1 DEF HeldOK, Holds
  <2> QED BY <1>0, <1>1, <2>1, AfterInv DEF Raise, TypesOK
<1>2. CASE /\ susp' = susp + 1 /\ phase' = "held" /\ UNCHANGED <<main, done, at, got>>
  <2>1. TypesOK' /\ MainOK' /\ PatchOK' /\ HeldOK'
    BY <1>0, <1>2 DEF TypesOK, MainOK, PatchOK, HeldOK, Holds, Alive, Starting, Between, Injecting
  <2>2. \A i \in Calls : Coming(i)' => Coming(i)
    BY <1>0, <1>2 DEF Coming
  <2> QED BY <1>0, <1>2, <2>1, <2>2, QuietStep DEF Injecting
<1> QED BY <1>1, <1>2 DEF Suspend

\* The thread gets a frame of the call that had none.
LEMMA HijackInv == ASSUME LoaderAssumption, Inv, NEW kinds, Hijack(kinds) PROVE Inv'
<1>0. /\ TypesOK /\ MainOK /\ PatchOK /\ HeldOK /\ at \in Calls
      /\ main = "inject" /\ phase = "held" /\ UNCHANGED <<life, slot, pages, ran>>
  BY DEF Inv, MainOK, Hijack, Injecting
<1>1. CASE Finally /\ Raise /\ UNCHANGED frames
  <2>1. susp' \in Nat /\ (Alive /\ "finally" \notin Faults => susp' = 0)
    BY <1>0, <1>1 DEF HeldOK, Holds, Finally, Resumed, TypesOK
  <2> QED BY <1>0, <1>1, <2>1, AfterInv DEF Raise
<1>2. CASE /\ frames' = Append(frames, [call |-> at, step |-> "entered"])
           /\ phase' = "aimed" /\ UNCHANGED <<main, done, at, got, susp>>
  <2> DEFINE new == [call |-> at, step |-> "entered"]
  <2>1. new \in Frame /\ new.call = at /\ new.step = "entered" /\ frames \in Seq(Frame)
    BY <1>0 DEF Frame, TypesOK
  <2> HIDE DEF new
  <2>2. frames' = Append(frames, new)
    BY <1>2 DEF new
  <2>3. /\ frames' \in Seq(Frame) /\ Len(frames) \in Nat /\ Len(frames') = Len(frames) + 1
        /\ \A k \in 1..Len(frames) : frames'[k] = frames[k]
        /\ frames'[Len(frames) + 1] = new
    BY <2>1, <2>2, AppendProperties
  <2>4. TypesOK' /\ MainOK' /\ PatchOK' /\ HeldOK'
    BY <1>0, <1>2, <2>3 DEF TypesOK, MainOK, PatchOK, HeldOK, Holds, Alive, Starting, Between,
       Injecting
  <2>5. Coming(at) /\ at \in pages /\ slot[at] = "waiting"
    BY <1>0 DEF Coming, Inv, CallsOK, Injecting
  <2>6. ran[at] = 0 /\ \A k \in 1..Len(frames) : frames[k].call # at
    BY <1>0, <2>5 DEF Inv, CallsOK
  <2>7. \A k \in 1..Len(frames') : k \in 1..Len(frames) \/ k = Len(frames) + 1
    BY <2>3
  <2>8. FramesOK'
    BY <1>0, <2>1, <2>3, <2>5, <2>6, <2>7 DEF Inv, FramesOK
  <2>9. SlotsOK'
    BY <1>0, <1>2 DEF Inv, SlotsOK
  <2>10. \A i \in Calls : Coming(i)' => Coming(i) /\ i # at
    BY <1>0, <1>2 DEF Coming, Calls
  <2>11. CallsOK'
    BY <1>0, <1>2, <2>1, <2>3, <2>5, <2>7, <2>10 DEF Inv, CallsOK
  <2> QED BY <2>4, <2>8, <2>9, <2>11 DEF Inv
<1> QED BY <1>1, <1>2 DEF Hijack

LEMMA ResumeThreadInv == ASSUME LoaderAssumption, Inv, ResumeThread PROVE Inv'
<1>0. /\ TypesOK /\ MainOK /\ PatchOK /\ HeldOK
      /\ main = "inject" /\ phase = "aimed" /\ UNCHANGED <<life, slot, pages, frames, ran>>
  BY DEF Inv, MainOK, ResumeThread, Injecting
<1>1. susp' \in Nat /\ (Alive /\ "finally" \notin Faults => susp' = 0)
  BY <1>0 DEF HeldOK, Holds, Finally, Resumed, TypesOK, ResumeThread
<1>2. CASE Raise
  BY <1>0, <1>1, <1>2, AfterInv DEF Raise
<1>3. CASE phase' = "polling" /\ UNCHANGED <<main, done, at, got>>
  <2>1. TypesOK' /\ MainOK' /\ PatchOK' /\ HeldOK'
    BY <1>0, <1>1, <1>3 DEF TypesOK, MainOK, PatchOK, HeldOK, Holds, Alive, Starting, Between,
       Injecting
  <2>2. \A i \in Calls : Coming(i)' => Coming(i)
    BY <1>0, <1>3 DEF Coming
  <2> QED BY <1>0, <1>3, <2>1, <2>2, QuietStep DEF Injecting
<1> QED BY <1>2, <1>3 DEF ResumeThread

\* The word polled is no longer the sentinel when the call has written it.
LEMMA PollInv ==
  ASSUME LoaderAssumption, Inv, PollSees \/ PollGone \/ PollFails \/ PollTimesOut
  PROVE  Inv'
<1>0. /\ TypesOK /\ MainOK /\ HeldOK /\ SlotsOK /\ at \in Calls /\ at \in pages
      /\ main = "inject" /\ phase = "polling" /\ UNCHANGED <<life, susp, slot, pages, frames, ran>>
  BY DEF Inv, MainOK, CallsOK, PollSees, PollGone, PollFails, PollTimesOut, thread, Injecting
<1>1. susp' \in Nat /\ (Alive /\ "finally" \notin Faults => susp' = 0)
  BY <1>0 DEF TypesOK, HeldOK, Holds
<1>2. CASE PollSees
  <2>1. slot[at] = "value" /\ After(at, "value")
    BY <1>0, <1>2 DEF PollSees, SlotsOK, TypesOK
  <2> QED BY <1>0, <1>1, <2>1, AfterInv
<1>3. CASE PollGone \/ PollFails \/ PollTimesOut
  <2>1. After(at, "error")
    BY <1>3 DEF PollGone, PollFails, PollTimesOut, Raise
  <2> QED BY <1>0, <1>1, <2>1, AfterInv
<1> QED BY <1>2, <1>3
-----------------------------------------------------------------------------
(* The game thread and its process                                         *)

\* Marking the top frame changes no other, and no frame's call.
LEMMA MarkedTop ==
  ASSUME TypesOK, frames # <<>>, NEW step \in {"called", "written"}
  PROVE  /\ Len(frames) \in 1..Len(frames) /\ Top \in Frame
         /\ MarkTop(step) \in Seq(Frame) /\ Len(MarkTop(step)) = Len(frames)
         /\ \A k \in 1..Len(frames) :
              /\ MarkTop(step)[k].call = frames[k].call
              /\ MarkTop(step)[k].step = IF k = Len(frames) THEN step ELSE frames[k].step
<1> DEFINE n == Len(frames)
           new == [frames[n] EXCEPT !.step = step]
<1>1. frames \in Seq(Frame) /\ n \in 1..n
  BY EmptySeq DEF TypesOK
<1>2. frames[n] \in Frame
  BY <1>1, FrameType
<1>3. new \in Frame /\ new.call = frames[n].call /\ new.step = step
  BY <1>2 DEF Frame
<1>4. MarkTop(step) = [frames EXCEPT ![n] = new]
  BY DEF MarkTop
<1> HIDE DEF new
<1>5. /\ MarkTop(step) \in Seq(Frame) /\ Len(MarkTop(step)) = n
      /\ \A k \in 1..n : MarkTop(step)[k] = IF k = n THEN new ELSE frames[k]
  BY <1>1, <1>3, <1>4, ExceptSeq
<1> HIDE DEF n
<1> QED BY <1>1, <1>2, <1>3, <1>5 DEF Top, n

\* Whatever happens to AFDEV, main() is where it was.
LEMMA GameStep ==
  ASSUME Inv, UNCHANGED <<loader, susp, pages>>, life' \in {"alive", "dead"}, Alive' => Alive,
         frames' \in Seq(Frame), slot' \in [Calls -> {"none", "waiting", "value"}],
         ran' \in [Calls -> Nat], FramesOK', SlotsOK', CallsOK'
  PROVE  Inv'
<1>1. UNCHANGED <<main, done, at, phase, got, samples>>
  BY DEF loader
<1>2. TypesOK' /\ MainOK'
  BY <1>1 DEF Inv, TypesOK, MainOK
<1>3. PatchOK'
  BY <1>1 DEF Inv, PatchOK
<1>4. HeldOK'
  BY <1>1 DEF Inv, HeldOK, Holds
<1> QED BY <1>2, <1>3, <1>4 DEF Inv

\* A process that dies takes the thread's stack with it.
LEMMA NoFrames ==
  ASSUME Inv, UNCHANGED <<loader, slot, pages>>, frames' = <<>>,
         \A i \in Calls : ran'[i] # ran[i] => slot[i] # "value" /\ ~Coming(i)
  PROVE  FramesOK' /\ SlotsOK' /\ CallsOK'
<1>1. Len(frames') = 0
  OBVIOUS
<1>2. UNCHANGED <<main, at, phase, got>>
  BY DEF loader
<1>3. FramesOK' /\ SlotsOK'
  BY <1>1, <1>2 DEF Inv, FramesOK, SlotsOK
<1>4. \A i \in Calls : Coming(i)' => Coming(i)
  BY <1>2 DEF Coming
<1>5. CallsOK'
  BY <1>1, <1>2, <1>4 DEF Inv, CallsOK
<1> QED BY <1>3, <1>5

LEMMA DiesInv == ASSUME Inv, Dies PROVE Inv'
<1>1. /\ UNCHANGED <<loader, susp, slot, pages, ran>> /\ frames' = <<>> /\ life' = "dead"
  BY DEF Dies, Terminated
<1>2. FramesOK' /\ SlotsOK' /\ CallsOK'
  BY <1>1, NoFrames
<1>3. frames' \in Seq(Frame)
  BY <1>1
<1> QED BY <1>1, <1>2, <1>3, GameStep DEF Inv, TypesOK, Alive

\* main() terminates the process it could not patch.
LEMMA PatchFailsInv == ASSUME LoaderAssumption, Inv, PatchFails PROVE Inv'
<1>0. TypesOK /\ MainOK /\ PatchOK /\ Len(Patches) \in Nat
  BY DEF LoaderAssumption, Inv
<1>1. /\ UNCHANGED <<done, at, phase, got, susp, slot, pages, ran>> /\ frames' = <<>>
      /\ life' = "dead" /\ main = "patch" /\ main' = "failed"
  BY DEF PatchFails, Goto, Terminated
<1>2. Len(frames') = 0 /\ frames' \in Seq(Frame)
  BY <1>1
<1>3. TypesOK' /\ MainOK' /\ PatchOK' /\ HeldOK'
  BY <1>0, <1>1, <1>2 DEF TypesOK, MainOK, PatchOK, HeldOK, Holds, Alive, Starting, Between, Over,
    Injecting
<1>4. FramesOK' /\ SlotsOK'
  BY <1>1, <1>2 DEF Inv, FramesOK, SlotsOK
<1>5. \A i \in Calls : Coming(i)' => Coming(i)
  BY <1>1 DEF Coming
<1>6. CallsOK'
  BY <1>1, <1>2, <1>5 DEF Inv, CallsOK
<1> QED BY <1>3, <1>4, <1>6 DEF Inv

\* The thread is at the step of its top frame that leads to the next one.
LEMMA TopStep ==
  ASSUME Inv, frames # <<>>, UNCHANGED <<loader, life, susp, pages>>,
         NEW step \in {"called", "written"}, frames' = MarkTop(step),
         slot' \in [Calls -> {"none", "waiting", "value"}], ran' \in [Calls -> Nat],
         \A i \in Calls : i # Top.call => slot'[i] = slot[i] /\ ran'[i] = ran[i],
         slot[Top.call] # "none" => slot'[Top.call] # "none",
         slot'[Top.call] = "value" \/ step = "called" => ran'[Top.call] = 1,
         slot[Top.call] = "value" => slot'[Top.call] = "value"
  PROVE  Inv'
<1>0. /\ TypesOK /\ UNCHANGED <<main, at, phase, got>>
  BY DEF Inv, loader
<1> DEFINE n == Len(frames)
<1>1. /\ n \in 1..n /\ Top = frames[n] /\ Top.call \in Calls
      /\ frames' \in Seq(Frame) /\ Len(frames') = n
      /\ \A k \in 1..n : /\ frames'[k].call = frames[k].call
                         /\ frames'[k].step = IF k = n THEN step ELSE frames[k].step
  BY <1>0, MarkedTop DEF Top, Frame
<1>2. \A k \in 1..n : k # n => frames[k].call # Top.call
  BY <1>1 DEF Inv, FramesOK
<1>2a. \A k \in 1..n : frames[k].call \in Calls
  BY <1>0, FrameType DEF Frame
<1> HIDE DEF n
<1>2b. /\ \A j, k \in 1..n : frames[j].call = frames[k].call => j = k
       /\ \A k \in 1..n :
         /\ frames[k].call \in pages
         /\ frames[k].step = "entered" => ran[frames[k].call] = 0
              /\ slot[frames[k].call] = "waiting"
         /\ frames[k].step = "called" => ran[frames[k].call] = 1
  BY DEF Inv, FramesOK, n
<1>3. FramesOK'
  <2>1. \A j, k \in 1..n : frames'[j].call = frames'[k].call => j = k
    BY <1>1, <1>2b
  <2>2. ASSUME NEW k \in 1..n
        PROVE  /\ frames'[k].call \in pages'
               /\ frames'[k].step = "entered" =>
                    ran'[frames'[k].call] = 0 /\ slot'[frames'[k].call] = "waiting"
               /\ frames'[k].step = "called" => ran'[frames'[k].call] = 1
    <3>1. CASE k = n
      BY <1>1, <1>2b, <3>1
    <3>2. CASE k # n
      BY <1>1, <1>2, <1>2a, <1>2b, <3>2
    <3> QED BY <3>1, <3>2
  <2> QED BY <1>1, <2>1, <2>2 DEF FramesOK
<1>4. SlotsOK'
  <2> SUFFICES ASSUME NEW i \in Calls
               PROVE  /\ i \in pages' => slot'[i] # "none"
                      /\ slot'[i] = "value" => ran'[i] = 1
                      /\ got'[i] = "value" => slot'[i] = "value"
    BY DEF SlotsOK
  <2>1. /\ i \in pages => slot[i] # "none"
        /\ slot[i] = "value" => ran[i] = 1
        /\ got[i] = "value" => slot[i] = "value"
    BY DEF Inv, SlotsOK
  <2>2. UNCHANGED <<pages, got>>
    BY DEF loader
  <2>3. CASE i = Top.call
    BY <2>1, <2>2, <2>3
  <2>4. CASE i # Top.call
    BY <2>1, <2>2, <2>4
  <2> QED BY <2>3, <2>4
<1>5. CallsOK'
  <2>1. \A i \in Calls : Coming(i)' => Coming(i)
    BY <1>0 DEF Coming
  <2>2. \A i \in Calls : Coming(i) => i # Top.call
    BY <1>1 DEF Inv, CallsOK, n
  <2>3. phase \in {"ready", "held"} => Coming(at) \/ at \notin Calls
    BY DEF Coming, Inv, MainOK, Injecting
  <2>4. phase \in {"ready", "held"} => at \in Calls /\ slot[at] = "waiting" /\ main = "inject"
    BY DEF Inv, MainOK, Injecting, CallsOK
  <2> QED BY <1>0, <1>1, <2>1, <2>2, <2>3, <2>4, SMTT(30) DEF Inv, CallsOK, n
<1> QED BY <1>1, <1>3, <1>4, <1>5, GameStep DEF Alive, Inv, TypesOK

LEMMA CallInv == ASSUME Inv, MakesCall PROVE Inv'
<1>0. /\ TypesOK /\ frames # <<>> /\ Top.step = "entered" /\ UNCHANGED <<loader, susp, slot, pages>>
  BY DEF Inv, MakesCall
<1>1. Top.call \in Calls /\ Top = frames[Len(frames)] /\ Len(frames) \in 1..Len(frames)
  BY <1>0, MarkedTop DEF Frame, Top
<1>2. ran[Top.call] = 0 /\ slot[Top.call] = "waiting"
  BY <1>0, <1>1 DEF Inv, FramesOK
<1>3. CASE ran' = [ran EXCEPT ![Top.call] = @ + 1]
  <2>1. ran' \in [Calls -> Nat] /\ \A i \in Calls : ran'[i] = IF i = Top.call THEN 1 ELSE ran[i]
    BY <1>0, <1>1, <1>2, <1>3 DEF TypesOK
  <2>2. CASE frames' = MarkTop("called") /\ UNCHANGED life
    BY <1>0, <1>1, <1>2, <2>1, <2>2, TopStep DEF TypesOK
  <2>3. CASE Terminated
    <3>1. ~Coming(Top.call)
      BY <1>1 DEF Inv, CallsOK
    <3>2. FramesOK' /\ SlotsOK' /\ CallsOK'
      BY <1>0, <1>1, <1>2, <2>1, <2>3, <3>1, NoFrames DEF Terminated
    <3>3. frames' \in Seq(Frame)
      BY <2>3 DEF Terminated
    <3> QED BY <1>0, <2>1, <2>3, <3>2, <3>3, GameStep DEF Terminated, Inv, TypesOK, Alive
  <2>4. frames' = MarkTop("written") /\ UNCHANGED ran => FALSE
    BY <1>1, <1>2, <2>1
  <2> QED BY <2>2, <2>3, <2>4 DEF MakesCall, CallOpen, CallSkipped, CallWorldInfo, CallExec
<1>4. CASE frames' = MarkTop("written") /\ UNCHANGED <<life, ran>>
  BY <1>0, <1>1, <1>2, <1>4, TopStep DEF TypesOK
<1> QED BY <1>3, <1>4 DEF MakesCall, CallOpen, CallSkipped, CallWorldInfo, CallExec, Called

LEMMA WritesInv == ASSUME Inv, WritesResult PROVE Inv'
<1>0. /\ TypesOK /\ frames # <<>> /\ Top.step = "called"
      /\ UNCHANGED <<loader, life, susp, pages, ran>>
      /\ slot' = [slot EXCEPT ![Top.call] = "value"] /\ frames' = MarkTop("written")
  BY DEF Inv, WritesResult
<1>1. Top.call \in Calls /\ Top = frames[Len(frames)] /\ Len(frames) \in 1..Len(frames)
  BY <1>0, MarkedTop DEF Frame, Top
<1>2. ran[Top.call] = 1
  BY <1>0, <1>1 DEF Inv, FramesOK
<1>3. /\ slot' \in [Calls -> {"none", "waiting", "value"}]
      /\ \A i \in Calls : slot'[i] = IF i = Top.call THEN "value" ELSE slot[i]
  BY <1>0, <1>1 DEF TypesOK
<1> QED BY <1>0, <1>1, <1>2, <1>3, TopStep DEF TypesOK

LEMMA ReturnsInv == ASSUME Inv, Returns PROVE Inv'
<1>0. /\ TypesOK /\ frames # <<>> /\ frames' = Popped
      /\ UNCHANGED <<loader, life, susp, slot, pages, ran>>
  BY DEF Inv, Returns
<1> DEFINE n == Len(frames)
<1>1. n \in Nat /\ n > 0 /\ frames \in Seq(Frame)
  BY <1>0, EmptySeq DEF TypesOK
<1>2. \A k \in 1..(n - 1) : k \in 1..n /\ frames[k] \in Frame
  BY <1>0, <1>1, FrameType
<1>3. frames' \in Seq(Frame) /\ Len(frames') = n - 1 /\ \A k \in 1..(n - 1) : frames'[k] = frames[k]
  <2> HIDE DEF n
  <2>1. frames' = SubSeq(frames, 1, n - 1) /\ 1 \in Int /\ n - 1 \in Int
    BY <1>0, <1>1 DEF Popped, n
  <2>2. /\ SubSeq(frames, 1, n - 1) \in Seq(Frame)
        /\ Len(SubSeq(frames, 1, n - 1)) = IF 1 <= n - 1 THEN (n - 1) - 1 + 1 ELSE 0
        /\ \A k \in 1..((n - 1) - 1 + 1) : SubSeq(frames, 1, n - 1)[k] = frames[1 + k - 1]
    BY <1>2, <2>1, SubSeqProperties
  <2>3. (n - 1) - 1 + 1 = n - 1 /\ \A k \in 1..(n - 1) : 1 + k - 1 = k
    BY <1>1
  <2> QED BY <1>1, <2>1, <2>2, <2>3
<1>4. UNCHANGED <<main, at, phase, got>>
  BY <1>0 DEF loader
<1>5. SlotsOK'
  BY <1>0, <1>4 DEF Inv, SlotsOK
<1>6. FramesOK' /\ CallsOK'
  <2>1. FramesOK /\ CallsOK
    BY DEF Inv
  <2>2. \A i \in Calls : Coming(i)' => Coming(i)
    BY <1>4 DEF Coming
  <2> HIDE DEF n
  <2>3. 1..Len(frames') = 1..(n - 1)
    BY <1>3
  <2>4. FramesOK'
    <3>1. \A j, k \in 1..(n - 1) : frames'[j].call = frames'[k].call => j = k
      BY <1>2, <1>3, <2>1 DEF FramesOK, n
    <3>2. \A k \in 1..(n - 1) :
            /\ frames[k].call \in pages
            /\ frames[k].step = "entered" =>
                 ran[frames[k].call] = 0 /\ slot[frames[k].call] = "waiting"
            /\ frames[k].step = "called" => ran[frames[k].call] = 1
      BY <1>2, <2>1 DEF FramesOK, n
    <3> QED BY <1>0, <1>3, <2>3, <3>1, <3>2 DEF FramesOK
  <2>5. CallsOK'
    BY <1>0, <1>2, <1>3, <1>4, <2>1, <2>2, <2>3 DEF CallsOK, n
  <2> QED BY <2>4, <2>5
<1> QED BY <1>0, <1>3, <1>5, <1>6, GameStep DEF Inv, TypesOK, Alive

LEMMA SameInv == ASSUME Inv, UNCHANGED <<loader, thread>> PROVE Inv'
BY DEF Inv, TypesOK, MainOK, PatchOK, HeldOK, Holds, FramesOK, SlotsOK, CallsOK, Coming, Alive,
   loader,
  thread

-----------------------------------------------------------------------------
(* The theorems                                                            *)

LEMMA StepInv == ASSUME LoaderAssumption, Inv, [Next]_vars PROVE Inv'
<1>1. CASE Loader \/ PollFails
  BY <1>1, StartInv, PatchFailsInv, WaitInv, NextCallInv, SampleInv, PrepareInv, SuspendInv,
     HijackInv, ResumeThreadInv, PollInv DEF Loader, HijackExec, HijackWorldInfo
<1>2. CASE Game
  <2>1. CASE EngineChanges \/ LoadsMap
    <3>1. UNCHANGED <<loader, thread>>
      BY <2>1 DEF EngineChanges, LoadsMap
    <3> QED BY <3>1, SameInv
  <2> QED BY <1>2, <2>1, CallInv, WritesInv, ReturnsInv, DiesInv DEF Game
<1>3. CASE UNCHANGED vars
  BY <1>3, SameInv DEF vars
<1> QED BY <1>1, <1>2, <1>3 DEF Next

\* The invariant holds in every state.
THEOREM SpecInv == ASSUME LoaderAssumption PROVE Spec => []Inv
<1>1. Init => Inv
  BY InitInv
<1> QED BY <1>1, StepInv, PTL DEF Spec
\* No instruction of AFDEV runs before every patch is in, and a loader that could not
\* patch leaves no process behind.
THEOREM NeverRunsUnpatched == ASSUME LoaderAssumption PROVE Spec => []UnpatchedNeverRuns
BY SpecInv, InvImplies, PTL

\* A result main() reports is that of its own call, made exactly once, however many
\* trampolines lie on each other and whichever result word was given up.
THEOREM ReportsOwnResults == ASSUME LoaderAssumption PROVE Spec => []ResultsAreOwn
BY SpecInv, InvImplies, PTL

\* A step ends in a failure outside of the start with the thread resumed.
LEMMA FailedStep ==
  ASSUME {"start", "finally"} \cap Faults = {}, Inv, FailedOK, [Next]_vars PROVE FailedOK'
<1>1. CASE main = "failed"
  <2>1. phase = "idle"
    BY <1>1 DEF Inv, TypesOK, MainOK, Injecting
  <2>2. UNCHANGED <<main, susp>> /\ (Alive' => Alive)
    BY <1>1, <2>1 DEF Next, Loader, Patch, PatchFails, ResumeMain, WaitForEngine, ArmGuard,
       MonitorStages, SampleHolds, SampleResumes, SampleEnds, WaitForPendingUrlClear, WaitForWorld,
       MonitorTravel, Hold, Prepare, Suspend, HijackExec, HijackWorldInfo, Hijack, ResumeThread,
       PollSees, PollGone, PollTimesOut, PollFails, Game, MakesCall, WritesResult, Returns,
       EngineChanges, LoadsMap, Dies, Terminated, Alive, CallOpen, CallSkipped, CallWorldInfo,
       CallExec, loader, thread, vars
  <2> QED BY <1>1, <2>2 DEF FailedOK
<1>2. CASE main # "failed" /\ main' = "failed" /\ Alive'
  <2>1. PatchFails \/ ResumeMain \/ WaitForEngine \/ Prepare \/ Suspend \/ HijackExec
          \/ HijackWorldInfo \/ ResumeThread \/ PollSees \/ PollGone \/ PollTimesOut \/ PollFails
    BY <1>2 DEF Next, Loader, Patch, ArmGuard,
       MonitorStages, SampleHolds, SampleResumes, SampleEnds, WaitForPendingUrlClear, WaitForWorld,
       MonitorTravel, Hold, Goto, Game, MakesCall, WritesResult, Returns,
       EngineChanges, LoadsMap, Dies, loader, thread, vars
  <2>2. CASE PatchFails \/ ResumeMain
    BY <1>2, <2>2 DEF PatchFails, ResumeMain, Terminated, Goto, Fault, Alive
  <2>3. CASE WaitForEngine \/ Prepare \/ Suspend \/ PollSees \/ PollGone \/ PollTimesOut
               \/ PollFails
    <3>1. /\ UNCHANGED <<susp, life>>
          /\ main \notin {"patch", "resume"} /\ phase \in {"idle", "ready", "polling"}
      BY <1>2, <2>3 DEF WaitForEngine, Prepare, Suspend, PollSees, PollGone, PollTimesOut,
         PollFails, thread, Inv, MainOK, Injecting, TypesOK
    <3> QED BY <1>2, <3>1 DEF Inv, HeldOK, Holds, FailedOK, Alive
  <2>4. CASE HijackExec \/ HijackWorldInfo \/ ResumeThread
    <3>1. /\ Finally /\ UNCHANGED life /\ phase \in {"held", "aimed"}
          /\ main \notin {"patch", "resume"}
      BY <1>2, <2>4 DEF HijackExec, HijackWorldInfo, Hijack, ResumeThread, Inv, MainOK, Injecting
    <3> QED BY <1>2, <3>1 DEF Finally, Resumed, Inv, HeldOK, Holds, FailedOK, Alive
  <2> QED BY <2>1, <2>2, <2>3, <2>4
<1> QED BY <1>1, <1>2 DEF FailedOK

\* Whatever failed in between, the loader never goes on or ends with the game thread
\* suspended, unless it could not start AFDEV at all or the ResumeThread of a finally fails.
THEOREM NeverLeftHeld ==
  ASSUME LoaderAssumption, {"start", "finally"} \cap Faults = {} PROVE Spec => []NotLeftHeld
<1>1. Init => FailedOK
  BY InitInv
<1>2. Inv /\ FailedOK /\ [Next]_vars => FailedOK'
  BY FailedStep
<1>3. Inv /\ FailedOK => NotLeftHeld
  BY DEF Inv, TypesOK, HeldOK, Holds, FailedOK, NotLeftHeld
<1> QED BY <1>1, <1>2, <1>3, SpecInv, PTL DEF Spec

-----------------------------------------------------------------------------
(* The machine code                                                        *)

CONSTANTS Plans, Dates   \* of Trampolines
VARIABLES eip, reg, fpu, stack, sent, home, word, made, marker, GEngine

Cpu == INSTANCE Trampolines WITH engine <- GEngine

-----------------------------------------------------------------------------
(* Sequences whose elements are of any kind                                *)

IsSeq(s) == s \in Seq({s[k] : k \in DOMAIN s})

LEMMA SeqIsSeq == ASSUME NEW T, NEW s \in Seq(T) PROVE IsSeq(s) /\ Len(s) \in Nat
    /\ DOMAIN s = 1..Len(s)
<1>1. DOMAIN s = 1..Len(s) /\ Len(s) \in Nat
  OBVIOUS
<1>2. \A k \in 1..Len(s) : s[k] \in {s[j] : j \in DOMAIN s}
  BY <1>1
<1>3. s = [k \in 1..Len(s) |-> s[k]]
  OBVIOUS
<1>4. s \in [1..Len(s) -> {s[j] : j \in DOMAIN s}]
  BY <1>1, <1>2, <1>3
<1>. QED
  BY <1>1, <1>4, SeqDef, SMTT(30) DEF IsSeq

LEMMA SeqOver == ASSUME NEW s, IsSeq(s), NEW T PROVE s \in Seq({s[k] : k \in DOMAIN s} \cup T)
<1>. DEFINE D == {s[k] : k \in DOMAIN s}
<1>1. s \in Seq(D) /\ D \subseteq D \cup T
  BY DEF IsSeq
<1>. HIDE DEF D
<1>2. s \in [1..Len(s) -> D \cup T] /\ Len(s) \in Nat
  BY <1>1
<1>3. s \in Seq(D \cup T)
  BY <1>2, SeqDef
<1>. QED
  BY <1>3 DEF D

\* What a push adds, and what stays.
LEMMA Pushes ==
  ASSUME NEW s, IsSeq(s), NEW a
  PROVE  /\ IsSeq(Append(s, a)) /\ Len(s) \in Nat /\ Len(Append(s, a)) = Len(s) + 1
         /\ Append(s, a)[Len(s) + 1] = a
         /\ \A k \in 1..Len(s) : Append(s, a)[k] = s[k]
         /\ SubSeq(Append(s, a), 1, Len(s)) = s
<1>0. s \in Seq({s[k] : k \in DOMAIN s} \cup {a})
  BY SeqOver
<1>. PICK T : s \in Seq(T) /\ a \in T
  BY <1>0
<1>1. Append(s, a) \in Seq(T)
  OBVIOUS
<1>2. Len(s) \in Nat /\ Len(Append(s, a)) = Len(s) + 1 /\ Append(s, a)[Len(s) + 1] = a
      /\ \A k \in 1..Len(s) : Append(s, a)[k] = s[k]
  OBVIOUS
<1>3. SubSeq(Append(s, a), 1, Len(s)) = s
  OBVIOUS
<1>. QED
  BY <1>1, <1>2, <1>3, SeqIsSeq

LEMMA SameElements ==
  ASSUME NEW T, NEW s \in Seq(T), NEW t \in Seq(T), Len(s) = Len(t),
           \A m \in 1..Len(s) : s[m] = t[m]
  PROVE  s = t
  OBVIOUS

LEMMA PairOf ==
  ASSUME NEW a, NEW b
  PROVE  /\ Append(<<a>>, b) = <<a, b>>
         /\ SubSeq(<<a, b>>, 1, 1) = <<a>>
<1>. PICK T : T = {a, b}
  OBVIOUS
<1>0. a \in T /\ b \in T
  OBVIOUS
<1>1. Append(<<a>>, b) = <<a, b>>
  <2>1. /\ <<a>> \in Seq(T) /\ Len(<<a>>) = 1
        /\ <<a, b>> \in Seq(T) /\ Len(<<a, b>>) = 2
    BY <1>0
  <2>2. Append(<<a>>, b) \in Seq(T) /\ Len(Append(<<a>>, b)) = 2
    BY <1>0, <2>1
  <2>3. \A m \in 1..2 : (Append(<<a>>, b))[m] = <<a, b>>[m]
    BY <1>0, <2>1
  <2>. QED
    BY <2>1, <2>2, <2>3, SameElements
<1>2. SubSeq(<<a, b>>, 1, 1) = <<a>>
  <2>1. /\ <<a, b>> \in Seq(T) /\ Len(<<a, b>>) = 2
        /\ <<a>> \in Seq(T) /\ Len(<<a>>) = 1
    BY <1>0
  <2>2. SubSeq(<<a, b>>, 1, 1) \in Seq(T) /\ Len(SubSeq(<<a, b>>, 1, 1)) = 1
    BY <1>0, <2>1
  <2>3. \A m \in 1..1 : (SubSeq(<<a, b>>, 1, 1))[m] = <<a>>[m]
    BY <1>0, <2>1
  <2>. QED
    BY <2>1, <2>2, <2>3, SameElements
<1>. QED
  BY <1>1, <1>2

LEMMA TripleOf ==
  ASSUME NEW a, NEW b, NEW c
  PROVE  <<a>> \o <<b, c>> = <<a, b, c>>
<1>. PICK T : T = {a, b, c}
  OBVIOUS
<1>0. a \in T /\ b \in T /\ c \in T
  OBVIOUS
<1>1. <<a>> \o <<b, c>> = <<a, b, c>>
  <2>1. /\ <<a>> \in Seq(T) /\ Len(<<a>>) = 1
        /\ <<b, c>> \in Seq(T) /\ Len(<<b, c>>) = 2
        /\ <<a, b, c>> \in Seq(T) /\ Len(<<a, b, c>>) = 3
    BY <1>0
  <2>2. <<a>> \o <<b, c>> \in Seq(T) /\ Len(<<a>> \o <<b, c>>) = 3
    BY <1>0, <2>1
  <2>3. \A m \in 1..3 : (<<a>> \o <<b, c>>)[m] = <<a, b, c>>[m]
    BY <1>0, <2>1
  <2>. QED
    BY <2>1, <2>2, <2>3, SameElements
<1>. QED
  BY <1>1

LEMMA FourOf ==
  ASSUME NEW a, NEW b, NEW c, NEW d
  PROVE  Append(<<a, b, c>>, d) = <<a, b, c, d>>
<1>. PICK T : T = {a, b, c, d}
  OBVIOUS
<1>0. a \in T /\ b \in T /\ c \in T /\ d \in T
  OBVIOUS
<1>1. Append(<<a, b, c>>, d) = <<a, b, c, d>>
  <2>1. /\ <<a, b, c>> \in Seq(T) /\ Len(<<a, b, c>>) = 3
        /\ <<a, b, c, d>> \in Seq(T) /\ Len(<<a, b, c, d>>) = 4
    BY <1>0
  <2>2. Append(<<a, b, c>>, d) \in Seq(T) /\ Len(Append(<<a, b, c>>, d)) = 4
    BY <1>0, <2>1
  <2>3. \A m \in 1..4 : (Append(<<a, b, c>>, d))[m] = <<a, b, c, d>>[m]
    BY <1>0, <2>1
  <2>. QED
    BY <2>1, <2>2, <2>3, SameElements
<1>. QED
  BY <1>1

LEMMA FiveOf ==
  ASSUME NEW a, NEW b, NEW c, NEW d, NEW e
  PROVE  /\ Append(<<a, b, c, d>>, e) = <<a, b, c, d, e>>
         /\ SubSeq(<<a, b, c, d, e>>, 1, 1) = <<a>>
<1>. PICK T : T = {a, b, c, d, e}
  OBVIOUS
<1>0. a \in T /\ b \in T /\ c \in T /\ d \in T /\ e \in T
  OBVIOUS
<1>1. Append(<<a, b, c, d>>, e) = <<a, b, c, d, e>>
  <2>1. /\ <<a, b, c, d>> \in Seq(T) /\ Len(<<a, b, c, d>>) = 4
        /\ <<a, b, c, d, e>> \in Seq(T) /\ Len(<<a, b, c, d, e>>) = 5
    BY <1>0
  <2>2. Append(<<a, b, c, d>>, e) \in Seq(T) /\ Len(Append(<<a, b, c, d>>, e)) = 5
    BY <1>0, <2>1
  <2>3. \A m \in 1..5 : (Append(<<a, b, c, d>>, e))[m] = <<a, b, c, d, e>>[m]
    BY <1>0, <2>1
  <2>. QED
    BY <2>1, <2>2, <2>3, SameElements
<1>2. SubSeq(<<a, b, c, d, e>>, 1, 1) = <<a>>
  <2>1. /\ <<a, b, c, d, e>> \in Seq(T) /\ Len(<<a, b, c, d, e>>) = 5
        /\ <<a>> \in Seq(T) /\ Len(<<a>>) = 1
    BY <1>0
  <2>2. SubSeq(<<a, b, c, d, e>>, 1, 1) \in Seq(T) /\ Len(SubSeq(<<a, b, c, d, e>>, 1, 1)) = 1
    BY <1>0, <2>1
  <2>3. \A m \in 1..1 : (SubSeq(<<a, b, c, d, e>>, 1, 1))[m] = <<a>>[m]
    BY <1>0, <2>1
  <2>. QED
    BY <2>1, <2>2, <2>3, SameElements
<1>. QED
  BY <1>1, <1>2

LEMMA NoElements == IsSeq(<<>>)
<1>1. <<>> \in Seq({})
  OBVIOUS
<1>. QED
  BY <1>1, SeqIsSeq

-----------------------------------------------------------------------------
(* The code                                                                *)

LEMMA ExecCode ==
  /\ Len(Cpu!Exec) = 15
  /\ Cpu!Exec[1] = <<"pushfd">>
  /\ Cpu!Exec[2] = <<"pushad">>
  /\ Cpu!Exec[3] = <<"set", "eax", "GEngine">>
  /\ Cpu!Exec[4] = <<"test", "eax">>
  /\ Cpu!Exec[5] = <<"jz", 12>>
  /\ Cpu!Exec[6] = <<"set", "ecx", "GEngine+3C">>
  /\ Cpu!Exec[7] = <<"set", "eax", "GLog">>
  /\ Cpu!Exec[8] = <<"pushreg", "eax">>
  /\ Cpu!Exec[9] = <<"push", "Cmd">>
  /\ Cpu!Exec[10] = <<"call", "Exec">>
  /\ Cpu!Exec[11] = <<"store">>
  /\ Cpu!Exec[12] = <<"popad">>
  /\ Cpu!Exec[13] = <<"popfd">>
  /\ Cpu!Exec[14] = <<"pushhome">>
  /\ Cpu!Exec[15] = <<"ret">>
  BY DEF Cpu!Exec, Cpu!Enter, Cpu!Leave, Cpu!Skip

LEMMA PlayerExecCode ==
  /\ Len(Cpu!PlayerExec) = 14
  /\ Cpu!PlayerExec[1] = <<"pushfd">>
  /\ Cpu!PlayerExec[2] = <<"pushad">>
  /\ Cpu!PlayerExec[3] = <<"set", "ecx", "Player+3C">>
  /\ Cpu!PlayerExec[4] = <<"set", "eax", "vtable">>
  /\ Cpu!PlayerExec[5] = <<"set", "edx", "slot0">>
  /\ Cpu!PlayerExec[6] = <<"set", "eax", "GLog">>
  /\ Cpu!PlayerExec[7] = <<"pushreg", "eax">>
  /\ Cpu!PlayerExec[8] = <<"push", "Cmd">>
  /\ Cpu!PlayerExec[9] = <<"call", "PlayerExec">>
  /\ Cpu!PlayerExec[10] = <<"store">>
  /\ Cpu!PlayerExec[11] = <<"popad">>
  /\ Cpu!PlayerExec[12] = <<"popfd">>
  /\ Cpu!PlayerExec[13] = <<"pushhome">>
  /\ Cpu!PlayerExec[14] = <<"ret">>
  BY DEF Cpu!PlayerExec, Cpu!Enter, Cpu!Leave

LEMMA WorldInfoCode ==
  /\ Len(Cpu!WorldInfo) = 10
  /\ Cpu!WorldInfo[1] = <<"pushfd">>
  /\ Cpu!WorldInfo[2] = <<"pushad">>
  /\ Cpu!WorldInfo[3] = <<"set", "ecx", "GWorld">>
  /\ Cpu!WorldInfo[4] = <<"push", "0">>
  /\ Cpu!WorldInfo[5] = <<"call", "GetWorldInfo">>
  /\ Cpu!WorldInfo[6] = <<"store">>
  /\ Cpu!WorldInfo[7] = <<"popad">>
  /\ Cpu!WorldInfo[8] = <<"popfd">>
  /\ Cpu!WorldInfo[9] = <<"pushhome">>
  /\ Cpu!WorldInfo[10] = <<"ret">>
  BY DEF Cpu!WorldInfo, Cpu!Enter, Cpu!Leave

LEMMA HideCode ==
  /\ Len(Cpu!Hide) = 13
  /\ Cpu!Hide[1] = <<"pushfd">>
  /\ Cpu!Hide[2] = <<"pushad">>
  /\ Cpu!Hide[3] = <<"push", "0">>
  /\ Cpu!Hide[4] = <<"push", "0">>
  /\ Cpu!Hide[5] = <<"push", "0">>
  /\ Cpu!Hide[6] = <<"push", "0">>
  /\ Cpu!Hide[7] = <<"push", "0">>
  /\ Cpu!Hide[8] = <<"call", "ShowLoadingMovie">>
  /\ Cpu!Hide[9] = <<"mark", "1">>
  /\ Cpu!Hide[10] = <<"popad">>
  /\ Cpu!Hide[11] = <<"popfd">>
  /\ Cpu!Hide[12] = <<"pushhome">>
  /\ Cpu!Hide[13] = <<"ret">>
  BY DEF Cpu!Hide, Cpu!Enter, Cpu!Leave

LEMMA StopMovieCode ==
  /\ Len(Cpu!StopMovie) = 9
  /\ Cpu!StopMovie[1] = <<"pushfd">>
  /\ Cpu!StopMovie[2] = <<"pushad">>
  /\ Cpu!StopMovie[3] = <<"push", "1">>
  /\ Cpu!StopMovie[4] = <<"call", "StopLoadingMovie">>
  /\ Cpu!StopMovie[5] = <<"mark", "1">>
  /\ Cpu!StopMovie[6] = <<"popad">>
  /\ Cpu!StopMovie[7] = <<"popfd">>
  /\ Cpu!StopMovie[8] = <<"pushhome">>
  /\ Cpu!StopMovie[9] = <<"ret">>
  BY DEF Cpu!StopMovie, Cpu!Enter, Cpu!Leave

LEMMA HookCode ==
  /\ Len(Cpu!Hook) = 3
  /\ Cpu!Hook[1] = <<"milestone">> /\ Cpu!Hook[2] = <<"push", "imm">>
       /\ Cpu!Hook[3] = <<"jmp", "afterpush">>
  BY DEF Cpu!Hook

LEMMA DateCode ==
  /\ Len(Cpu!DateStub) = 7
  /\ Cpu!DateStub[1] = <<"cmpyear">> /\ Cpu!DateStub[2] = <<"jge", 4>>
       /\ Cpu!DateStub[3] = <<"setdate">>
  /\ Cpu!DateStub[4] = <<"locals">> /\ Cpu!DateStub[5] = <<"pushebx">>
       /\ Cpu!DateStub[6] = <<"loadyear">>
  /\ Cpu!DateStub[7] = <<"jmp", "datebody">>
  BY DEF Cpu!DateStub

-----------------------------------------------------------------------------
(* What a trampoline is made of                                            *)

Funs == {"exec", "player", "worldinfo", "hide", "stop"}
\* The engine's function each calls, and where.
Table == [exec      |-> [callee |-> "Exec", at |-> 10],
          player    |-> [callee |-> "PlayerExec", at |-> 9],
          worldinfo |-> [callee |-> "GetWorldInfo", at |-> 5],
          hide      |-> [callee |-> "ShowLoadingMovie", at |-> 8],
          stop      |-> [callee |-> "StopLoadingMovie", at |-> 4]]
CallAt(f) == Table[f].at
CalleeOf(f) == Table[f].callee
Args(f) == Cpu!Callee[CalleeOf(f)].args

LEMMA TheirCalls ==
  /\ CallAt("exec") = 10 /\ CallAt("player") = 9 /\ CallAt("worldinfo") = 5
  /\ CallAt("hide") = 8 /\ CallAt("stop") = 4
  /\ CalleeOf("exec") = "Exec" /\ CalleeOf("player") = "PlayerExec"
  /\ CalleeOf("worldinfo") = "GetWorldInfo" /\ CalleeOf("hide") = "ShowLoadingMovie"
  /\ CalleeOf("stop") = "StopLoadingMovie"
  BY DEF CallAt, CalleeOf, Table

LEMMA TheirArguments ==
  /\ Args("exec") = <<"Cmd", "GLog">> /\ Args("player") = <<"Cmd", "GLog">>
  /\ Args("worldinfo") = <<"0">> /\ Args("hide") = <<"0", "0", "0", "0", "0">>
  /\ Args("stop") = <<"1">>
  BY TheirCalls DEF Args, Cpu!Callee

\* Every trampoline saves flags and registers, makes its one call with the arguments
\* pushed just before it, notes the result, and restores them in reverse order.
Shape(f, c, n, q) ==
  /\ Len(c) = q + 5 /\ n \in Nat /\ q \in Nat /\ q - n >= 3
  /\ \A p \in 1..q + 5 :
       /\ c[p][1] = "pushfd" <=> p = 1
       /\ c[p][1] = "pushad" <=> p = 2
       /\ c[p][1] \in {"set", "test", "jz"} <=> p \in 3..q - n - 1
       /\ c[p][1] \in {"push", "pushreg"} <=> p \in q - n..q - 1
       /\ c[p][1] = "call" <=> p = q
       /\ c[p][1] \in {"store", "mark"} <=> p = q + 1
       /\ c[p][1] = "popad" <=> p = q + 2
       /\ c[p][1] = "popfd" <=> p = q + 3
       /\ c[p][1] = "pushhome" <=> p = q + 4
       /\ c[p][1] = "ret" <=> p = q + 5
  /\ c[q] = <<"call", CalleeOf(f)>>

LEMMA TheirShape == ASSUME NEW f \in Funs PROVE Shape(f, Cpu!Code(f), Len(Args(f)), CallAt(f))
<1>1. CASE f = "exec"
  <2>1. Cpu!Code(f) = Cpu!Exec /\ Len(Args(f)) = 2 /\ CallAt(f) = 10
          /\ CalleeOf(f) = CalleeOf("exec")
    BY <1>1, TheirCalls, TheirArguments DEF Cpu!Code
  <2>2. ASSUME NEW p \in 1..15
        PROVE  /\ Cpu!Exec[p][1] = "pushfd" <=> p = 1
               /\ Cpu!Exec[p][1] = "pushad" <=> p = 2
               /\ Cpu!Exec[p][1] \in {"set", "test", "jz"} <=> p \in 3..7
               /\ Cpu!Exec[p][1] \in {"push", "pushreg"} <=> p \in 8..9
               /\ Cpu!Exec[p][1] = "call" <=> p = 10
               /\ Cpu!Exec[p][1] \in {"store", "mark"} <=> p = 11
               /\ Cpu!Exec[p][1] = "popad" <=> p = 12
               /\ Cpu!Exec[p][1] = "popfd" <=> p = 13
               /\ Cpu!Exec[p][1] = "pushhome" <=> p = 14
               /\ Cpu!Exec[p][1] = "ret" <=> p = 15
    BY ExecCode
  <2>3. Len(Cpu!Exec) = 15 /\ Cpu!Exec[10] = <<"call", CalleeOf("exec")>>
    BY ExecCode, TheirCalls
  <2>. QED
    BY <2>1, <2>2, <2>3 DEF Shape
<1>2. CASE f = "player"
  <2>1. Cpu!Code(f) = Cpu!PlayerExec /\ Len(Args(f)) = 2 /\ CallAt(f) = 9
          /\ CalleeOf(f) = CalleeOf("player")
    BY <1>2, TheirCalls, TheirArguments DEF Cpu!Code
  <2>2. ASSUME NEW p \in 1..14
        PROVE  /\ Cpu!PlayerExec[p][1] = "pushfd" <=> p = 1
               /\ Cpu!PlayerExec[p][1] = "pushad" <=> p = 2
               /\ Cpu!PlayerExec[p][1] \in {"set", "test", "jz"} <=> p \in 3..6
               /\ Cpu!PlayerExec[p][1] \in {"push", "pushreg"} <=> p \in 7..8
               /\ Cpu!PlayerExec[p][1] = "call" <=> p = 9
               /\ Cpu!PlayerExec[p][1] \in {"store", "mark"} <=> p = 10
               /\ Cpu!PlayerExec[p][1] = "popad" <=> p = 11
               /\ Cpu!PlayerExec[p][1] = "popfd" <=> p = 12
               /\ Cpu!PlayerExec[p][1] = "pushhome" <=> p = 13
               /\ Cpu!PlayerExec[p][1] = "ret" <=> p = 14
    BY PlayerExecCode
  <2>3. Len(Cpu!PlayerExec) = 14 /\ Cpu!PlayerExec[9] = <<"call", CalleeOf("player")>>
    BY PlayerExecCode, TheirCalls
  <2>. QED
    BY <2>1, <2>2, <2>3 DEF Shape
<1>3. CASE f = "worldinfo"
  <2>1. Cpu!Code(f) = Cpu!WorldInfo /\ Len(Args(f)) = 1 /\ CallAt(f) = 5
          /\ CalleeOf(f) = CalleeOf("worldinfo")
    BY <1>3, TheirCalls, TheirArguments DEF Cpu!Code
  <2>2. ASSUME NEW p \in 1..10
        PROVE  /\ Cpu!WorldInfo[p][1] = "pushfd" <=> p = 1
               /\ Cpu!WorldInfo[p][1] = "pushad" <=> p = 2
               /\ Cpu!WorldInfo[p][1] \in {"set", "test", "jz"} <=> p \in 3..3
               /\ Cpu!WorldInfo[p][1] \in {"push", "pushreg"} <=> p \in 4..4
               /\ Cpu!WorldInfo[p][1] = "call" <=> p = 5
               /\ Cpu!WorldInfo[p][1] \in {"store", "mark"} <=> p = 6
               /\ Cpu!WorldInfo[p][1] = "popad" <=> p = 7
               /\ Cpu!WorldInfo[p][1] = "popfd" <=> p = 8
               /\ Cpu!WorldInfo[p][1] = "pushhome" <=> p = 9
               /\ Cpu!WorldInfo[p][1] = "ret" <=> p = 10
    BY WorldInfoCode
  <2>3. Len(Cpu!WorldInfo) = 10 /\ Cpu!WorldInfo[5] = <<"call", CalleeOf("worldinfo")>>
    BY WorldInfoCode, TheirCalls
  <2>. QED
    BY <2>1, <2>2, <2>3 DEF Shape
<1>4. CASE f = "hide"
  <2>1. Cpu!Code(f) = Cpu!Hide /\ Len(Args(f)) = 5 /\ CallAt(f) = 8
          /\ CalleeOf(f) = CalleeOf("hide")
    BY <1>4, TheirCalls, TheirArguments DEF Cpu!Code
  <2>2. ASSUME NEW p \in 1..13
        PROVE  /\ Cpu!Hide[p][1] = "pushfd" <=> p = 1
               /\ Cpu!Hide[p][1] = "pushad" <=> p = 2
               /\ Cpu!Hide[p][1] \in {"set", "test", "jz"} <=> p \in 3..2
               /\ Cpu!Hide[p][1] \in {"push", "pushreg"} <=> p \in 3..7
               /\ Cpu!Hide[p][1] = "call" <=> p = 8
               /\ Cpu!Hide[p][1] \in {"store", "mark"} <=> p = 9
               /\ Cpu!Hide[p][1] = "popad" <=> p = 10
               /\ Cpu!Hide[p][1] = "popfd" <=> p = 11
               /\ Cpu!Hide[p][1] = "pushhome" <=> p = 12
               /\ Cpu!Hide[p][1] = "ret" <=> p = 13
    BY HideCode
  <2>3. Len(Cpu!Hide) = 13 /\ Cpu!Hide[8] = <<"call", CalleeOf("hide")>>
    BY HideCode, TheirCalls
  <2>. QED
    BY <2>1, <2>2, <2>3 DEF Shape
<1>5. CASE f = "stop"
  <2>1. Cpu!Code(f) = Cpu!StopMovie /\ Len(Args(f)) = 1 /\ CallAt(f) = 4
          /\ CalleeOf(f) = CalleeOf("stop")
    BY <1>5, TheirCalls, TheirArguments DEF Cpu!Code
  <2>2. ASSUME NEW p \in 1..9
        PROVE  /\ Cpu!StopMovie[p][1] = "pushfd" <=> p = 1
               /\ Cpu!StopMovie[p][1] = "pushad" <=> p = 2
               /\ Cpu!StopMovie[p][1] \in {"set", "test", "jz"} <=> p \in 3..2
               /\ Cpu!StopMovie[p][1] \in {"push", "pushreg"} <=> p \in 3..3
               /\ Cpu!StopMovie[p][1] = "call" <=> p = 4
               /\ Cpu!StopMovie[p][1] \in {"store", "mark"} <=> p = 5
               /\ Cpu!StopMovie[p][1] = "popad" <=> p = 6
               /\ Cpu!StopMovie[p][1] = "popfd" <=> p = 7
               /\ Cpu!StopMovie[p][1] = "pushhome" <=> p = 8
               /\ Cpu!StopMovie[p][1] = "ret" <=> p = 9
    BY StopMovieCode
  <2>3. Len(Cpu!StopMovie) = 9 /\ Cpu!StopMovie[4] = <<"call", CalleeOf("stop")>>
    BY StopMovieCode, TheirCalls
  <2>. QED
    BY <2>1, <2>2, <2>3 DEF Shape
<1>. QED
  BY <1>1, <1>2, <1>3, <1>4, <1>5 DEF Funs

-----------------------------------------------------------------------------
(* The stack under a trampoline                                            *)

\* m of a call's arguments lie on a stack, the last one first.
Piled(s, base, args, m) ==
  /\ IsSeq(s) /\ Len(s) = Len(base) + m
  /\ \A k \in 1..Len(base) : s[k] = base[k]
  /\ \A j \in 1..m : s[Len(base) + j] = Cpu!Slot("word", args[Len(args) + 1 - j])

LEMMA NothingPiled ==
  ASSUME NEW s, NEW base, IsSeq(base), NEW args
  PROVE  Piled(s, base, args, 0) <=> s = base
<1>1. ASSUME s = base PROVE Piled(s, base, args, 0)
  BY <1>1, Pushes DEF Piled
<1>2. ASSUME Piled(s, base, args, 0) PROVE s = base
  <2>1. IsSeq(s) /\ Len(s) = Len(base) /\ Len(base) \in Nat
          /\ \A k \in 1..Len(base) : s[k] = base[k]
    BY <1>2, Pushes DEF Piled
  <2>2. s \in Seq({s[k] : k \in DOMAIN s}) /\ base \in Seq({base[k] : k \in DOMAIN base})
    BY <2>1 DEF IsSeq
  <2>3. s = [k \in 1..Len(s) |-> s[k]] /\ base = [k \in 1..Len(base) |-> base[k]]
    BY <2>2
  <2>. QED
    BY <2>1, <2>3
<1>. QED
  BY <1>1, <1>2

LEMMA PileGrows ==
  ASSUME NEW s, NEW base, IsSeq(base), NEW args, NEW m \in Nat, Len(args) \in Nat,
         Piled(s, base, args, m)
  PROVE  Piled(Append(s, Cpu!Slot("word", args[Len(args) - m])), base, args, m + 1)
<1>. DEFINE a == Cpu!Slot("word", args[Len(args) - m])
<1>1. IsSeq(s) /\ Len(s) = Len(base) + m /\ Len(base) \in Nat
  BY Pushes DEF Piled
<1>2. /\ IsSeq(Append(s, a)) /\ Len(Append(s, a)) = Len(s) + 1 /\ Append(s, a)[Len(s) + 1] = a
      /\ \A k \in 1..Len(s) : Append(s, a)[k] = s[k]
  BY <1>1, Pushes
<1>3. \A k \in 1..Len(base) : Append(s, a)[k] = base[k]
  BY <1>1, <1>2 DEF Piled
<1>4. ASSUME NEW j \in 1..m + 1
      PROVE  Append(s, a)[Len(base) + j] = Cpu!Slot("word", args[Len(args) + 1 - j])
  <2>1. CASE j = m + 1
    <3>1. Len(args) + 1 - j = Len(args) - m /\ Len(base) + j = Len(s) + 1
      BY <2>1, <1>1
    <3>. QED
      BY <3>1, <1>2
  <2>2. CASE j \in 1..m
    BY <2>2, <1>1, <1>2 DEF Piled
  <2>3. j = m + 1 \/ j \in 1..m
    OBVIOUS
  <2>. QED
    BY <2>1, <2>2, <2>3, Zenon
<1>. QED
  BY <1>1, <1>2, <1>3, <1>4 DEF Piled

LEMMA PileTaken ==
  ASSUME NEW s, NEW base, IsSeq(base), NEW args, NEW m \in Nat, Piled(s, base, args, m)
  PROVE  /\ SubSeq(s, 1, Len(s) - m) = base
         /\ m = Len(args) => \A k \in 1..m : s[Len(s) + 1 - k].v = args[k]
<1>1. IsSeq(s) /\ Len(s) = Len(base) + m /\ Len(base) \in Nat /\ Len(s) \in Nat
  BY Pushes DEF Piled
<1>2. SubSeq(s, 1, Len(s) - m) = [k \in 1..Len(base) |-> s[k]]
  BY <1>1
<1>3. base = [k \in 1..Len(base) |-> base[k]]
  <2>1. base \in Seq({base[k] : k \in DOMAIN base})
    BY DEF IsSeq
  <2>. QED
    BY <2>1
<1>4. ASSUME m = Len(args), NEW k \in 1..m PROVE s[Len(s) + 1 - k].v = args[k]
  <2>1. Len(s) + 1 - k = Len(base) + (m + 1 - k) /\ m + 1 - k \in 1..m
    BY <1>1
  <2>2. Len(args) + 1 - (m + 1 - k) = k
    BY <1>4
  <2>3. s[Len(s) + 1 - k] = Cpu!Slot("word", args[k])
    BY <2>1, <2>2 DEF Piled
  <2>. QED
    BY <2>3 DEF Cpu!Slot
<1>. QED
  BY <1>1, <1>2, <1>3, <1>4 DEF Piled

-----------------------------------------------------------------------------
(* Where the thread may be                                                 *)

IsRegs(r) ==
  r = [eax |-> r.eax, ebx |-> r.ebx, ecx |-> r.ecx, edx |-> r.edx, flags |-> r.flags]
Saved(x) == IsRegs(x.reg) /\ IsSeq(x.stack)

\* In its own code, and in the stubs that belong to it: a milestone, and the start of
\* the function that makes a date, where p = 8 is that function's body.
Dating(p, y, r, s) ==
  /\ r = [eax |-> "own", ebx |-> IF p >= 7 THEN y ELSE 0, ecx |-> "own", edx |-> "own",
       flags |-> r.flags]
  /\ p = 1 => r.flags = "own"
  /\ p = 2 => r.flags = IF y >= 1900 THEN "ge" ELSE "less"
  /\ p >= 4 => y >= 1900
  /\ p <= 4
       => s = <<Cpu!Slot("word", "own"), Cpu!Slot("date", y), Cpu!Slot("address",
           Cpu!Game("idle"))>>
  /\ p = 5 => s = <<Cpu!Slot("word", "own"), Cpu!Slot("date", y), Cpu!Slot("address",
       Cpu!Game("idle")),
                    Cpu!Slot("word", "locals")>>
  /\ p >= 6
       => s = <<Cpu!Slot("word", "own"), Cpu!Slot("date", y), Cpu!Slot("address", Cpu!Game("idle")),
                     Cpu!Slot("word", "locals"), Cpu!Slot("ebx", 0)>>
Place(e, r, s, mk) ==
  \/ e = Cpu!Game("idle") /\ r = Cpu!Own /\ s = Cpu!Idle
  \/ \E p \in 1..3 :
       /\ e = Cpu!Address("hook", 0, p) /\ r = Cpu!Own /\ (p > 1 => mk = 1)
       /\ s = IF p = 3 THEN Append(Cpu!Idle, Cpu!Slot("word", "imm")) ELSE Cpu!Idle
  \/ e = Cpu!Game("afterpush") /\ r = Cpu!Own /\ s = Append(Cpu!Idle, Cpu!Slot("word", "imm"))
       /\ mk = 1
  \/ \E p \in 1..7, y \in Int : e = Cpu!Address("datestub", 0, p) /\ Dating(p, y, r, s)
  \/ \E y \in Int : e = Cpu!Game("datebody") /\ Dating(8, y, r, s)

\* In a trampoline: over what it interrupted, x, lie the flags and the registers saved,
\* and the arguments pushed so far.
Base(x) == Append(Append(x.stack, Cpu!Slot("flags", x.reg.flags)), Cpu!Slot("regs", x.reg))
Pushed(f, p) ==
  IF p \in CallAt(f) - Len(Args(f))..CallAt(f) THEN p - (CallAt(f) - Len(Args(f))) ELSE 0
WasMade(i, md) == \E k \in md : k.call = i
\* What the registers hold before the call, and after it.
Loaded(f, p, r, en) ==
  /\ f = "exec" =>
       /\ p = 5 /\ r.flags # "zero" => en = "up"
       /\ p \in 6..10 => en = "up"
       /\ p \in 7..10 => r.ecx = "GEngine+3C"
       /\ p = 8 => r.eax = "GLog"
  /\ f = "player" =>
       /\ p \in 4..9 => r.ecx = "Player+3C"
       /\ p = 7 => r.eax = "GLog"
  /\ f = "worldinfo" => (p \in 4..5 => r.ecx = "GWorld")
CallFrame(f, i, p, r, s, x, back, en, md) ==
  /\ p \in 1..CallAt(f) + 5 /\ IsRegs(r)
  /\ p \in {1, CallAt(f) + 4} => r = x.reg /\ s = x.stack
  /\ p = 2 => r = x.reg /\ s = Append(x.stack, Cpu!Slot("flags", x.reg.flags))
  /\ p \in 3..CallAt(f) + 2 => Piled(s, Base(x), Args(f), Pushed(f, p)) /\ Loaded(f, p, r, en)
  /\ p = CallAt(f) + 1 => WasMade(i, md) /\ r.eax = "result"
  /\ p = CallAt(f) + 3 => /\ s = Append(x.stack, Cpu!Slot("flags", x.reg.flags))
                          /\ r = [x.reg EXCEPT !.flags = r.flags]
  /\ p = CallAt(f) + 5 => r = x.reg /\ s = Append(x.stack, Cpu!Slot("address", back))
InEngine(f, i, r, s, x, md) ==
  /\ IsRegs(r) /\ WasMade(i, md)
  /\ \E t : /\ Piled(t, Base(x), Args(f), Len(Args(f)))
            /\ s = Append(t, Cpu!Slot("address", Cpu!Address("call", i, CallAt(f) + 1)))

\* c says what each call has interrupted.
At(e, r, s, c, sn, hm, mk, en, md) ==
  \/ Place(e, r, s, mk)
  \/ \E i \in 1..Len(sn), p \in Nat :
       e = Cpu!Address("call", i, p) /\ CallFrame(sn[i], i, p, r, s, c[i], hm[i], en, md)
  \/ \E i \in 1..Len(sn) :
       e = Cpu!Address("engine", i, 1) /\ InEngine(sn[i], i, r, s, c[i], md)

Here(c) == At(eip, reg, stack, c, sent, home, marker, GEngine, made)
\* Every call made has interrupted what is still there.
Below(c) ==
  \A i \in 1..Len(sent) :
    Saved(c[i]) /\ At(home[i], c[i].reg, c[i].stack, c, sent, home, marker, GEngine, made)
MadeOK ==
  \A k \in made : /\ k.args = Cpu!Callee[k.callee].args
                  /\ Cpu!Callee[k.callee].this \in {"any", k.this}
                  /\ k.callee = "Exec" => GEngine = "up"
WordsOK ==
  /\ IsSeq(word) /\ Len(word) = Len(sent)
  /\ \A i \in 1..Len(word) : word[i] # Cpu!Sentinel => word[i] \in {"result", "1"}
       /\ WasMade(i, made)
SentOK ==
  /\ sent \in Seq(Funs) /\ IsSeq(home) /\ Len(home) = Len(sent)
  /\ GEngine \in {"none", "up"} /\ marker \in {0, 1}
CodeInv == SentOK /\ MadeOK /\ WordsOK /\ \E c : Here(c) /\ Below(c)

-----------------------------------------------------------------------------
(* One instruction of a trampoline                                         *)

AtCall(c, i, p) ==
  /\ i \in 1..Len(sent) /\ p \in Nat /\ eip = Cpu!Address("call", i, p) /\ Saved(c[i])
  /\ CallFrame(sent[i], i, p, reg, stack, c[i], home[i], GEngine, made)

LEMMA Fetches ==
  ASSUME SentOK, NEW c, NEW i, NEW p, AtCall(c, i, p)
  PROVE  /\ sent[i] \in Funs /\ Cpu!Instr = Cpu!Code(sent[i])[p]
         /\ eip.at = "call" /\ eip.call = i /\ eip.pos = p
         /\ [eip EXCEPT !.pos = @ + 1] = Cpu!Address("call", i, p + 1)
         /\ p \in 1..CallAt(sent[i]) + 5
         /\ IsSeq(Base(c[i])) /\ Len(Args(sent[i])) \in Nat /\ CallAt(sent[i]) \in Nat
         /\ CallAt(sent[i]) - Len(Args(sent[i])) >= 3
<1>1. i \in 1..Len(sent) /\ p \in Nat /\ eip = Cpu!Address("call", i, p) /\ Saved(c[i])
      /\ p \in 1..CallAt(sent[i]) + 5
  BY DEF AtCall, CallFrame
<1>2. sent[i] \in Funs
  BY <1>1 DEF SentOK
<1>3. eip.at = "call" /\ eip.call = i /\ eip.pos = p
      /\ [eip EXCEPT !.pos = @ + 1] = Cpu!Address("call", i, p + 1)
  BY <1>1 DEF Cpu!Address
<1>4. Cpu!Instr = Cpu!Code(sent[i])[p]
  BY <1>3 DEF Cpu!Instr, Cpu!Running
<1>5. IsSeq(Base(c[i]))
  BY <1>1, Pushes DEF Saved, Base
<1>6. Shape(sent[i], Cpu!Code(sent[i]), Len(Args(sent[i])), CallAt(sent[i]))
  BY <1>2, TheirShape
<1>7. Len(Args(sent[i])) \in Nat /\ CallAt(sent[i]) \in Nat
      /\ CallAt(sent[i]) - Len(Args(sent[i])) >= 3
  BY <1>6 DEF Shape
<1>. QED
  BY <1>1, <1>2, <1>3, <1>4, <1>5, <1>7

\* Where the thread is between saving and restoring, after saving the flags, and while it
\* restores.
LEMMA InsideFrame ==
  ASSUME NEW f \in Funs, NEW i, NEW p \in 3..CallAt(f) + 2, NEW r, NEW s, NEW x, NEW back,
         NEW en, NEW md, IsRegs(r), Piled(s, Base(x), Args(f), Pushed(f, p)),
         Loaded(f, p, r, en), p = CallAt(f) + 1 => WasMade(i, md) /\ r.eax = "result"
  PROVE  CallFrame(f, i, p, r, s, x, back, en, md)
<1>1. CallAt(f) \in Nat
  BY TheirShape DEF Shape
<1>2. p \in 1..CallAt(f) + 5 /\ p \notin {1, 2, CallAt(f) + 3, CallAt(f) + 4, CallAt(f) + 5}
  BY <1>1
<1>. QED
  BY <1>2 DEF CallFrame

LEMMA AfterFlags ==
  ASSUME NEW f \in Funs, NEW i, NEW r, NEW s, NEW x, NEW back, NEW en, NEW md, IsRegs(r),
         r = x.reg, s = Append(x.stack, Cpu!Slot("flags", x.reg.flags))
  PROVE  CallFrame(f, i, 2, r, s, x, back, en, md)
<1>1. CallAt(f) \in Nat /\ CallAt(f) >= 3
  BY TheirShape DEF Shape
<1>2. 2 \in 1..CallAt(f) + 5 /\ 2 \notin 3..CallAt(f) + 2
      /\ 2 \notin {1, CallAt(f) + 1, CallAt(f) + 3, CallAt(f) + 4, CallAt(f) + 5}
  BY <1>1
<1>. QED
  BY <1>2 DEF CallFrame

LEMMA Restoring ==
  ASSUME NEW f \in Funs, NEW i, NEW p \in CallAt(f) + 3..CallAt(f) + 5, NEW r, NEW s, NEW x,
         NEW back, NEW en, NEW md, IsRegs(r),
         p = CallAt(f) + 3 => /\ s = Append(x.stack, Cpu!Slot("flags", x.reg.flags))
                              /\ r = [x.reg EXCEPT !.flags = r.flags],
         p = CallAt(f) + 4 => r = x.reg /\ s = x.stack,
         p = CallAt(f) + 5 => r = x.reg /\ s = Append(x.stack, Cpu!Slot("address", back))
  PROVE  CallFrame(f, i, p, r, s, x, back, en, md)
<1>1. CallAt(f) \in Nat /\ CallAt(f) >= 3
  BY TheirShape DEF Shape
<1>2. p \in 1..CallAt(f) + 5 /\ p \notin 3..CallAt(f) + 2
      /\ p \notin {1, 2, CallAt(f) + 1}
  BY <1>1
<1>. QED
  BY <1>2 DEF CallFrame

\* Which instruction stands where.
LEMMA Decodes ==
  ASSUME SentOK, NEW c, NEW i, NEW p, AtCall(c, i, p)
  PROVE  LET q == CallAt(sent[i])
             n == Len(Args(sent[i]))
         IN  /\ (Cpu!Is("pushfd") <=> p = 1) /\ (Cpu!Is("pushad") <=> p = 2)
             /\ (Cpu!Is("set") \/ Cpu!Is("test") \/ Cpu!Is("jz") <=> p \in 3..q - n - 1)
             /\ (Cpu!Is("push") \/ Cpu!Is("pushreg") <=> p \in q - n..q - 1)
             /\ (Cpu!Is("call") <=> p = q) /\ (Cpu!Is("store") \/ Cpu!Is("mark") <=> p = q + 1)
             /\ (Cpu!Is("popad") <=> p = q + 2) /\ (Cpu!Is("popfd") <=> p = q + 3)
             /\ (Cpu!Is("pushhome") <=> p = q + 4) /\ (Cpu!Is("ret") <=> p = q + 5)
<1>. DEFINE f == sent[i]
<1>1. f \in Funs /\ Cpu!Instr = Cpu!Code(f)[p] /\ p \in 1..CallAt(f) + 5 /\ eip.at = "call"
  BY Fetches
<1>2. Shape(f, Cpu!Code(f), Len(Args(f)), CallAt(f))
  BY <1>1, TheirShape
<1>3. \A op : Cpu!Is(op) <=> Cpu!Code(f)[p][1] = op
  BY <1>1 DEF Cpu!Is
<1>. HIDE DEF f
<1>. DEFINE q == CallAt(f)
            n == Len(Args(f))
            op == Cpu!Code(f)[p][1]
<1>4. /\ op = "pushfd" <=> p = 1
      /\ op = "pushad" <=> p = 2
      /\ op \in {"set", "test", "jz"} <=> p \in 3..q - n - 1
      /\ op \in {"push", "pushreg"} <=> p \in q - n..q - 1
      /\ op = "call" <=> p = q
      /\ op \in {"store", "mark"} <=> p = q + 1
      /\ op = "popad" <=> p = q + 2
      /\ op = "popfd" <=> p = q + 3
      /\ op = "pushhome" <=> p = q + 4
      /\ op = "ret" <=> p = q + 5
  BY <1>1, <1>2 DEF Shape
<1>5. \A o : Cpu!Is(o) <=> op = o
  BY <1>3
<1>. HIDE DEF op, q, n
<1>6. /\ (Cpu!Is("pushfd") <=> p = 1) /\ (Cpu!Is("pushad") <=> p = 2)
      /\ (Cpu!Is("set") \/ Cpu!Is("test") \/ Cpu!Is("jz") <=> p \in 3..q - n - 1)
  BY <1>4, <1>5
<1>7. /\ (Cpu!Is("push") \/ Cpu!Is("pushreg") <=> p \in q - n..q - 1)
      /\ (Cpu!Is("call") <=> p = q) /\ (Cpu!Is("store") \/ Cpu!Is("mark") <=> p = q + 1)
  BY <1>4, <1>5
<1>8. /\ (Cpu!Is("popad") <=> p = q + 2) /\ (Cpu!Is("popfd") <=> p = q + 3)
      /\ (Cpu!Is("pushhome") <=> p = q + 4) /\ (Cpu!Is("ret") <=> p = q + 5)
  BY <1>4, <1>5
<1>. QED
  BY <1>6, <1>7, <1>8 DEF f, q, n

\* Before the first argument is pushed nothing is, and after the call nothing is.
LEMMA CountsPushed ==
  ASSUME NEW f \in Funs, NEW p \in Nat
  PROVE  LET q == CallAt(f)
             n == Len(Args(f))
         IN  /\ p <= q - n => Pushed(f, p) = 0
             /\ p \in q - n..q => Pushed(f, p) = p - (q - n)
             /\ p > q => Pushed(f, p) = 0
<1>1. Len(Args(f)) \in Nat /\ CallAt(f) \in Nat
  BY TheirShape DEF Shape
<1>. QED
  BY <1>1 DEF Pushed

\* Registers and tests.
LEMMA LoadedNext ==
  ASSUME NEW f \in Funs, NEW p \in 3..CallAt(f) - Len(Args(f)) - 1, NEW r, NEW r1, NEW en,
         IsRegs(r), Loaded(f, p, r, en),
         \/ Cpu!Code(f)[p][1] = "set" /\ r1 = [r EXCEPT ![Cpu!Code(f)[p][2]] = Cpu!Code(f)[p][3]]
         \/ /\ Cpu!Code(f)[p][1] = "test"
            /\ r1 = [r EXCEPT !.flags = IF en = "none" THEN "zero" ELSE "nonzero"]
         \/ Cpu!Code(f)[p][1] = "jz" /\ r1 = r /\ r.flags # "zero",
         en \in {"none", "up"}
  PROVE  IsRegs(r1) /\ Loaded(f, p + 1, r1, en)
<1>1. CASE f = "exec"
  <2>1. Cpu!Code(f) = Cpu!Exec
    BY <1>1 DEF Cpu!Code
  <2>2. CallAt(f) = 10 /\ Len(Args(f)) = 2
    BY <1>1, TheirCalls, TheirArguments
  <2>3. p \in 3..7
    BY <2>2
  <2>. QED
    <3>1. CASE p = 3
      BY <3>1, <2>1, <1>1, ExecCode DEF Loaded, IsRegs
    <3>2. CASE p = 4
      <4>1. r1 = [r EXCEPT !.flags = IF en = "none" THEN "zero" ELSE "nonzero"]
        BY <3>2, <2>1, ExecCode
      <4>2. IsRegs(r1) /\ (r1.flags # "zero" => en = "up")
        BY <4>1 DEF IsRegs
      <4>. QED
        BY <3>2, <1>1, <4>2 DEF Loaded
    <3>3. CASE p = 5
      BY <3>3, <2>1, <1>1, ExecCode DEF Loaded, IsRegs
    <3>4. CASE p \in {6, 7}
      BY <3>4, <2>1, <1>1, ExecCode DEF Loaded, IsRegs
    <3>. QED
      BY <3>1, <3>2, <3>3, <3>4, <2>3
<1>2. CASE f = "player"
  <2>1. p \in 3..6 /\ Cpu!Code(f) = Cpu!PlayerExec
    BY <1>2, TheirCalls, TheirArguments DEF Cpu!Code
  <2>. QED
    BY <2>1, <1>2, PlayerExecCode DEF Loaded, IsRegs
<1>3. CASE f = "worldinfo"
  <2>1. p = 3 /\ Cpu!Code(f) = Cpu!WorldInfo
    BY <1>3, TheirCalls, TheirArguments DEF Cpu!Code
  <2>. QED
    BY <2>1, <1>3, WorldInfoCode DEF Loaded, IsRegs
<1>4. CASE f = "hide"
  <2>1. CallAt(f) = 8 /\ Len(Args(f)) = 5
    BY <1>4, TheirCalls, TheirArguments
  <2>. QED
    BY <2>1
<1>5. CASE f = "stop"
  BY <1>5, TheirCalls, TheirArguments
<1>. QED
  BY <1>1, <1>2, <1>3, <1>4, <1>5 DEF Funs

LEMMA LoadsKeep ==
  ASSUME SentOK, NEW c, NEW i, NEW p, AtCall(c, i, p), Cpu!Load \/ Cpu!Test, Cpu!Quiet
  PROVE  AtCall(c, i, p + 1)'
<1>. DEFINE f == sent[i]
            q == CallAt(f)
            n == Len(Args(f))
<1>1. /\ f \in Funs /\ Cpu!Instr = Cpu!Code(f)[p] /\ p \in 1..q + 5 /\ p \in Nat
      /\ [eip EXCEPT !.pos = @ + 1] = Cpu!Address("call", i, p + 1)
      /\ n \in Nat /\ q \in Nat /\ q - n >= 3
  BY Fetches
<1>2. p \in 3..q - n - 1
  BY Decodes DEF Cpu!Load, Cpu!Test
<1>6. Pushed(f, p) = 0 /\ Pushed(f, p + 1) = 0
  <2>. HIDE DEF f
  <2>. QED
    BY <1>1, <1>2, CountsPushed
<1>7. p \in 3..q + 2 /\ p + 1 \in 3..q /\ i \in 1..Len(sent)
  BY <1>1, <1>2 DEF AtCall
<1>3. IsRegs(reg) /\ Piled(stack, Base(c[i]), Args(f), Pushed(f, p)) /\ Loaded(f, p, reg, GEngine)
  BY <1>7 DEF AtCall, CallFrame
<1>4. stack' = stack /\ eip' = Cpu!Address("call", i, p + 1)
  BY <1>1 DEF Cpu!Load, Cpu!Test, Cpu!Regs, Cpu!Next1
<1>5. IsRegs(reg') /\ Loaded(f, p + 1, reg', GEngine)
  BY <1>1, <1>2, <1>3, LoadedNext DEF Cpu!Load, Cpu!Test, Cpu!Regs, SentOK, Cpu!Is
<1>8. CallFrame(f, i, p + 1, reg', stack', c[i], home[i], GEngine, made)
  <2>1. f \in Funs /\ p + 1 \in 3..CallAt(f) + 2 /\ p + 1 # CallAt(f) + 1
    BY <1>1, <1>7
  <2>2. Piled(stack', Base(c[i]), Args(f), Pushed(f, p + 1))
    BY <1>3, <1>4, <1>6
  <2>. HIDE DEF f
  <2>. QED
    BY <2>1, <2>2, <1>5, InsideFrame
<1>9. UNCHANGED <<sent, home, GEngine, made>> /\ Saved(c[i])
  BY DEF Cpu!Quiet, Cpu!Misc, AtCall
<1>. QED
  BY <1>1, <1>4, <1>7, <1>8, <1>9 DEF AtCall

LEMMA JzKeeps ==
  ASSUME SentOK, NEW c, NEW i, NEW p, AtCall(c, i, p), Cpu!Jz, Cpu!Quiet
  PROVE  \E k \in Nat : AtCall(c, i, k)'
<1>. DEFINE f == sent[i]
            q == CallAt(f)
            n == Len(Args(f))
<1>1. /\ f \in Funs /\ Cpu!Instr = Cpu!Code(f)[p] /\ p \in 1..q + 5 /\ p \in Nat
      /\ [eip EXCEPT !.pos = @ + 1] = Cpu!Address("call", i, p + 1)
           /\ eip = Cpu!Address("call", i, p)
      /\ n \in Nat /\ q \in Nat /\ q - n >= 3
  BY Fetches DEF AtCall
<1>2. Cpu!Code(f)[p][1] = "jz" /\ p \in 3..q - n - 1
  BY <1>1, TheirShape DEF Shape, Cpu!Jz, Cpu!Is
<1>3. f = "exec" /\ p = 5 /\ Cpu!Code(f)[p][2] = 12 /\ q = 10 /\ n = 2
  <2>1. CASE f = "exec"
    <3>1. Cpu!Code(f) = Cpu!Exec /\ q = 10 /\ n = 2
      BY <2>1, TheirCalls, TheirArguments DEF Cpu!Code
    <3>. QED
      BY <3>1, <1>2, <2>1, ExecCode
  <2>2. CASE f = "player"
    <3>1. Cpu!Code(f) = Cpu!PlayerExec /\ q = 9 /\ n = 2
      BY <2>2, TheirCalls, TheirArguments DEF Cpu!Code
    <3>. QED
      BY <3>1, <1>2, PlayerExecCode
  <2>3. CASE f = "worldinfo"
    <3>1. Cpu!Code(f) = Cpu!WorldInfo /\ q = 5 /\ n = 1
      BY <2>3, TheirCalls, TheirArguments DEF Cpu!Code
    <3>. QED
      BY <3>1, <1>2, WorldInfoCode
  <2>4. CASE f = "hide"
    <3>1. q = 8 /\ n = 5
      BY <2>4, TheirCalls, TheirArguments
    <3>. QED
      BY <3>1, <1>2
  <2>5. CASE f = "stop"
    <3>1. q = 4 /\ n = 1
      BY <2>5, TheirCalls, TheirArguments
    <3>. QED
      BY <3>1, <1>2
  <2>. QED
    BY <1>1, <2>1, <2>2, <2>3, <2>4, <2>5 DEF Funs
<1>4. Pushed(f, 5) = 0 /\ Pushed(f, 6) = 0 /\ Pushed(f, 12) = 0
  <2>1. CallAt(f) = 10 /\ Len(Args(f)) = 2
    BY <1>3
  <2>. HIDE DEF f
  <2>. QED
    BY <2>1 DEF Pushed
<1>5. IsRegs(reg) /\ Piled(stack, Base(c[i]), Args(f), 0) /\ Loaded(f, 5, reg, GEngine)
  BY <1>3, <1>4 DEF AtCall, CallFrame
<1>6. UNCHANGED <<reg, stack, sent, home, GEngine, made>> /\ Saved(c[i]) /\ i \in 1..Len(sent)
  BY DEF Cpu!Quiet, Cpu!Misc, AtCall, Cpu!Jz, Cpu!Jumps
<1>7. CASE reg.flags = "zero"
  <2>1. eip' = Cpu!Address("call", i, 12)
    BY <1>1, <1>3, <1>7 DEF Cpu!Jz, Cpu!Jumps, Cpu!Address
  <2>2. Loaded(f, 12, reg, GEngine)
    BY <1>3 DEF Loaded
  <2>3. CallFrame(f, i, 12, reg, stack, c[i], home[i], GEngine, made)
    BY <1>3, <1>4, <1>5, <2>2 DEF CallFrame
  <2>. QED
    BY <2>1, <2>3, <1>6 DEF AtCall
<1>8. CASE reg.flags # "zero"
  <2>1. eip' = Cpu!Address("call", i, 6)
    BY <1>1, <1>3, <1>8 DEF Cpu!Jz, Cpu!Jumps, Cpu!Address
  <2>2. Loaded(f, 6, reg, GEngine)
    BY <1>3, <1>5, <1>8 DEF Loaded
  <2>3. CallFrame(f, i, 6, reg, stack, c[i], home[i], GEngine, made)
    BY <1>3, <1>4, <1>5, <2>2 DEF CallFrame
  <2>. QED
    BY <2>1, <2>3, <1>6 DEF AtCall
<1>. QED
  BY <1>7, <1>8

\* What is pushed next is the call's next argument.
LEMMA PushesArgument ==
  ASSUME NEW f \in Funs, NEW p \in CallAt(f) - Len(Args(f))..CallAt(f) - 1, NEW r, NEW en, NEW v,
         Loaded(f, p, r, en),
         \/ Cpu!Code(f)[p][1] = "push" /\ v = Cpu!Code(f)[p][2]
         \/ Cpu!Code(f)[p][1] = "pushreg" /\ v = r[Cpu!Code(f)[p][2]]
  PROVE  v = Args(f)[Len(Args(f)) - Pushed(f, p)] /\ Loaded(f, p + 1, r, en)
<1>1. CASE f = "exec"
  <2>1. Cpu!Code(f) = Cpu!Exec /\ CallAt(f) = 10 /\ Args(f) = <<"Cmd", "GLog">> /\ Len(Args(f)) = 2
    BY <1>1, TheirCalls, TheirArguments DEF Cpu!Code
  <2>2. p \in 8..9 /\ Pushed(f, p) = p - 8
    BY <2>1 DEF Pushed
  <2>. QED
    BY <2>1, <2>2, <1>1, ExecCode DEF Loaded
<1>2. CASE f = "player"
  <2>1. Cpu!Code(f) = Cpu!PlayerExec /\ CallAt(f) = 9 /\ Args(f) = <<"Cmd", "GLog">>
          /\ Len(Args(f)) = 2
    BY <1>2, TheirCalls, TheirArguments DEF Cpu!Code
  <2>2. p \in 7..8 /\ Pushed(f, p) = p - 7
    BY <2>1 DEF Pushed
  <2>. QED
    BY <2>1, <2>2, <1>2, PlayerExecCode DEF Loaded
<1>3. CASE f = "worldinfo"
  <2>1. Cpu!Code(f) = Cpu!WorldInfo /\ CallAt(f) = 5 /\ Args(f) = <<"0">> /\ Len(Args(f)) = 1
    BY <1>3, TheirCalls, TheirArguments DEF Cpu!Code
  <2>2. p = 4 /\ Pushed(f, p) = 0
    BY <2>1 DEF Pushed
  <2>. QED
    BY <2>1, <2>2, <1>3, WorldInfoCode DEF Loaded
<1>4. CASE f = "hide"
  <2>1. Cpu!Code(f) = Cpu!Hide /\ CallAt(f) = 8 /\ Args(f) = <<"0", "0", "0", "0", "0">>
          /\ Len(Args(f)) = 5
    BY <1>4, TheirCalls, TheirArguments DEF Cpu!Code
  <2>2. p \in 3..7 /\ Pushed(f, p) = p - 3
    BY <2>1 DEF Pushed
  <2>. QED
    BY <2>1, <2>2, <1>4, HideCode DEF Loaded
<1>5. CASE f = "stop"
  <2>1. Cpu!Code(f) = Cpu!StopMovie /\ CallAt(f) = 4 /\ Args(f) = <<"1">> /\ Len(Args(f)) = 1
    BY <1>5, TheirCalls, TheirArguments DEF Cpu!Code
  <2>2. p = 3 /\ Pushed(f, p) = 0
    BY <2>1 DEF Pushed
  <2>. QED
    BY <2>1, <2>2, <1>5, StopMovieCode DEF Loaded
<1>. QED
  BY <1>1, <1>2, <1>3, <1>4, <1>5 DEF Funs

LEMMA PushesKeep ==
  ASSUME SentOK, NEW c, NEW i, NEW p, AtCall(c, i, p), Cpu!PushReg \/ Cpu!PushImm, Cpu!Quiet
  PROVE  AtCall(c, i, p + 1)'
<1>. DEFINE f == sent[i]
            q == CallAt(f)
            n == Len(Args(f))
            m == Pushed(f, p)
<1>1. /\ f \in Funs /\ Cpu!Instr = Cpu!Code(f)[p] /\ p \in 1..q + 5 /\ p \in Nat
      /\ [eip EXCEPT !.pos = @ + 1] = Cpu!Address("call", i, p + 1)
      /\ n \in Nat /\ q \in Nat /\ q - n >= 3 /\ IsSeq(Base(c[i]))
  BY Fetches
<1>2. p \in q - n..q - 1
  BY Decodes DEF Cpu!PushReg, Cpu!PushImm
<1>3. m \in Nat /\ m = p - (q - n) /\ Pushed(f, p + 1) = m + 1 /\ m < n
  <2>1. f \in Funs /\ p \in Nat /\ p \in CallAt(f) - Len(Args(f))..CallAt(f) - 1
    BY <1>1, <1>2
  <2>2. CallAt(f) \in Nat /\ Len(Args(f)) \in Nat
    BY <1>1
  <2>. HIDE DEF f
  <2>. QED
    BY <2>1, <2>2, CountsPushed
<1>4. p \in 3..q + 2 /\ p + 1 \in 4..q /\ i \in 1..Len(sent)
  BY <1>1, <1>2 DEF AtCall
<1>5. IsRegs(reg) /\ Piled(stack, Base(c[i]), Args(f), m) /\ Loaded(f, p, reg, GEngine)
  BY <1>4 DEF AtCall, CallFrame
<1>6. PICK v : /\ stack' = Append(stack, Cpu!Slot("word", v))
               /\ \/ Cpu!Code(f)[p][1] = "push" /\ v = Cpu!Code(f)[p][2]
                  \/ Cpu!Code(f)[p][1] = "pushreg" /\ v = reg[Cpu!Code(f)[p][2]]
  BY <1>1 DEF Cpu!PushReg, Cpu!PushImm, Cpu!Stacks, Cpu!Is
<1>7. v = Args(f)[n - m] /\ Loaded(f, p + 1, reg, GEngine)
  <2>. HIDE DEF f
  <2>1. p \in CallAt(f) - Len(Args(f))..CallAt(f) - 1 /\ f \in Funs
    BY <1>1, <1>2
  <2>. QED
    BY <2>1, <1>5, <1>6, PushesArgument
<1>8. Piled(stack', Base(c[i]), Args(f), m + 1)
  BY <1>1, <1>3, <1>5, <1>6, <1>7, PileGrows
<1>9. reg' = reg /\ eip' = Cpu!Address("call", i, p + 1)
  BY <1>1 DEF Cpu!PushReg, Cpu!PushImm, Cpu!Stacks, Cpu!Next1
<1>10. CallFrame(f, i, p + 1, reg', stack', c[i], home[i], GEngine, made)
  <2>1. f \in Funs /\ p + 1 \in 3..CallAt(f) + 2 /\ p + 1 # CallAt(f) + 1
    BY <1>1, <1>4
  <2>. HIDE DEF f, m
  <2>2. Piled(stack', Base(c[i]), Args(f), Pushed(f, p + 1))
    BY <1>3, <1>8
  <2>3. IsRegs(reg') /\ Loaded(f, p + 1, reg', GEngine)
    BY <1>5, <1>7, <1>9
  <2>. QED
    BY <2>1, <2>2, <2>3, InsideFrame
<1>11. UNCHANGED <<sent, home, GEngine, made>> /\ Saved(c[i])
  BY DEF Cpu!Quiet, Cpu!Misc, AtCall
<1>. QED
  BY <1>1, <1>4, <1>9, <1>10, <1>11 DEF AtCall

\* Flags and registers are saved first.
LEMMA SavesKeep ==
  ASSUME SentOK, NEW c, NEW i, NEW p, AtCall(c, i, p), Cpu!PushFd \/ Cpu!PushAd, Cpu!Quiet
  PROVE  AtCall(c, i, p + 1)'
<1>. DEFINE f == sent[i]
            q == CallAt(f)
            n == Len(Args(f))
<1>1. /\ f \in Funs /\ Cpu!Instr = Cpu!Code(f)[p] /\ p \in 1..q + 5 /\ p \in Nat
      /\ [eip EXCEPT !.pos = @ + 1] = Cpu!Address("call", i, p + 1)
      /\ n \in Nat /\ q \in Nat /\ q - n >= 3 /\ IsSeq(Base(c[i]))
  BY Fetches
<1>2. UNCHANGED <<sent, home, GEngine, made>> /\ Saved(c[i]) /\ i \in 1..Len(sent)
      /\ reg' = reg /\ eip' = Cpu!Address("call", i, p + 1)
  BY <1>1 DEF Cpu!Quiet, Cpu!Misc, AtCall, Cpu!PushFd, Cpu!PushAd, Cpu!Stacks, Cpu!Next1
<1>3. CASE Cpu!PushFd
  <2>1. p = 1
    BY <1>3, Decodes DEF Cpu!PushFd
  <2>2. reg = c[i].reg /\ stack = c[i].stack /\ IsRegs(reg)
    BY <2>1 DEF AtCall, CallFrame
  <2>3. stack' = Append(stack, Cpu!Slot("flags", reg.flags))
    BY <1>3 DEF Cpu!PushFd, Cpu!Stacks
  <2>4. CallFrame(f, i, 2, reg', stack', c[i], home[i], GEngine, made)
    <3>1. IsRegs(reg') /\ reg' = c[i].reg
          /\ stack' = Append(c[i].stack, Cpu!Slot("flags", c[i].reg.flags))
      BY <1>2, <2>2, <2>3
    <3>2. f \in Funs
      BY <1>1
    <3>. HIDE DEF f
    <3>. QED
      BY <3>1, <3>2, AfterFlags
  <2>. QED
    BY <1>1, <1>2, <2>1, <2>4 DEF AtCall
<1>4. CASE Cpu!PushAd
  <2>1. p = 2
    BY <1>4, Decodes DEF Cpu!PushAd
  <2>2. reg = c[i].reg /\ stack = Append(c[i].stack, Cpu!Slot("flags", c[i].reg.flags))
          /\ IsRegs(reg)
    BY <2>1 DEF AtCall, CallFrame
  <2>3. stack' = Base(c[i])
    BY <1>4, <2>2 DEF Cpu!PushAd, Cpu!Stacks, Base
  <2>4. Pushed(f, 3) = 0
    <3>. HIDE DEF f
    <3>. QED
      BY <1>1, CountsPushed
  <2>5. Piled(stack', Base(c[i]), Args(f), Pushed(f, 3))
    BY <1>1, <2>3, <2>4, NothingPiled
  <2>6. Loaded(f, 3, reg, GEngine)
    BY <1>1 DEF Loaded
  <2>7. CallFrame(f, i, 3, reg', stack', c[i], home[i], GEngine, made)
    <3>1. f \in Funs /\ 3 \in 3..CallAt(f) + 2 /\ 3 # CallAt(f) + 1
      BY <1>1
    <3>2. IsRegs(reg') /\ Loaded(f, 3, reg', GEngine)
      BY <1>2, <2>2, <2>6
    <3>. HIDE DEF f
    <3>. QED
      BY <3>1, <3>2, <2>5, InsideFrame
  <2>. QED
    BY <1>1, <1>2, <2>1, <2>7 DEF AtCall
<1>. QED
  BY <1>3, <1>4

\* After the call they come back in reverse order.
LEMMA RestoresKeep ==
  ASSUME SentOK, NEW c, NEW i, NEW p, AtCall(c, i, p), Cpu!PopAd \/ Cpu!PopFd \/ Cpu!PushHome,
           Cpu!Quiet
  PROVE  AtCall(c, i, p + 1)'
<1>. DEFINE f == sent[i]
            q == CallAt(f)
            n == Len(Args(f))
            x == c[i]
            s1 == Append(x.stack, Cpu!Slot("flags", x.reg.flags))
<1>1. /\ f \in Funs /\ Cpu!Instr = Cpu!Code(f)[p] /\ p \in 1..q + 5 /\ p \in Nat /\ eip.call = i
      /\ [eip EXCEPT !.pos = @ + 1] = Cpu!Address("call", i, p + 1)
      /\ n \in Nat /\ q \in Nat /\ q - n >= 3 /\ IsSeq(Base(x))
  BY Fetches
<1>2. UNCHANGED <<sent, home, GEngine, made>> /\ i \in 1..Len(sent) /\ IsRegs(x.reg)
        /\ IsSeq(x.stack)
      /\ eip' = Cpu!Address("call", i, p + 1) /\ IsRegs(reg)
  BY <1>1 DEF Cpu!Quiet, Cpu!Misc, AtCall, Cpu!PopAd, Cpu!PopFd, Cpu!PushHome, Cpu!Stacks,
    Cpu!Next1, Saved, CallFrame
<1>3. /\ IsSeq(s1) /\ Len(s1) = Len(x.stack) + 1 /\ s1[Len(s1)] = Cpu!Slot("flags", x.reg.flags)
      /\ Len(x.stack) \in Nat /\ SubSeq(s1, 1, Len(s1) - 1) = x.stack
  BY <1>2, Pushes
<1>4. /\ Len(Base(x)) = Len(s1) + 1 /\ Base(x)[Len(Base(x))] = Cpu!Slot("regs", x.reg)
      /\ SubSeq(Base(x), 1, Len(Base(x)) - 1) = s1
  BY <1>3, Pushes DEF Base
<1>5. CASE Cpu!PopAd
  <2>1. p = q + 2
    BY <1>5, Decodes DEF Cpu!PopAd
  <2>2. Pushed(f, q + 2) = 0
    <3>. HIDE DEF f
    <3>. QED
      BY <1>1, CountsPushed
  <2>3. stack = Base(x)
    BY <1>1, <2>1, <2>2, NothingPiled DEF AtCall, CallFrame
  <2>4. Cpu!Top = Cpu!Slot("regs", x.reg) /\ Cpu!Drop(1) = s1
    BY <1>4, <2>3 DEF Cpu!Top, Cpu!Drop
  <2>5. stack' = s1 /\ reg' = [x.reg EXCEPT !.flags = reg.flags]
    BY <1>5, <2>4 DEF Cpu!PopAd, Cpu!Slot
  <2>6. IsRegs(reg') /\ reg' = [x.reg EXCEPT !.flags = reg'.flags]
    BY <2>5, <1>2 DEF IsRegs
  <2>7. CallFrame(f, i, q + 3, reg', stack', x, home[i], GEngine, made)
    <3>1. f \in Funs /\ q + 3 \in q + 3..q + 5 /\ q + 3 # q + 4 /\ q + 3 # q + 5
      BY <1>1
    <3>2. stack' = Append(x.stack, Cpu!Slot("flags", x.reg.flags))
      BY <2>5
    <3>. HIDE DEF f, x
    <3>. QED
      BY <3>1, <3>2, <2>6, Restoring
  <2>. QED
    BY <1>1, <1>2, <2>1, <2>7 DEF AtCall, Saved
<1>6. CASE Cpu!PopFd
  <2>1. p = q + 3
    BY <1>6, Decodes DEF Cpu!PopFd
  <2>2. stack = s1 /\ reg = [x.reg EXCEPT !.flags = reg.flags]
    BY <1>1, <2>1 DEF AtCall, CallFrame
  <2>3. Cpu!Top = Cpu!Slot("flags", x.reg.flags) /\ Cpu!Drop(1) = x.stack
    BY <1>3, <2>2 DEF Cpu!Top, Cpu!Drop
  <2>4. stack' = x.stack /\ reg' = [reg EXCEPT !.flags = x.reg.flags]
    BY <1>6, <2>3 DEF Cpu!PopFd, Cpu!Slot
  <2>5. reg' = x.reg
    BY <1>2, <2>2, <2>4 DEF IsRegs
  <2>6. CallFrame(f, i, q + 4, reg', stack', x, home[i], GEngine, made)
    <3>1. IsRegs(reg')
      BY <1>2, <2>5
    <3>2. f \in Funs /\ q + 4 \in q + 3..q + 5 /\ q + 4 # q + 3 /\ q + 4 # q + 5
      BY <1>1
    <3>. HIDE DEF f, x
    <3>. QED
      BY <3>1, <3>2, <2>4, <2>5, Restoring
  <2>. QED
    BY <1>1, <1>2, <2>1, <2>6 DEF AtCall, Saved
<1>7. CASE Cpu!PushHome
  <2>1. p = q + 4
    BY <1>7, Decodes DEF Cpu!PushHome
  <2>2. stack = x.stack /\ reg = x.reg
    BY <1>1, <2>1 DEF AtCall, CallFrame
  <2>3. reg' = reg /\ stack' = Append(x.stack, Cpu!Slot("address", home[i]))
    BY <1>1, <1>7, <2>2 DEF Cpu!PushHome, Cpu!Stacks
  <2>4. CallFrame(f, i, q + 5, reg', stack', x, home[i], GEngine, made)
    <3>1. IsRegs(reg') /\ reg' = x.reg
      BY <1>2, <2>2, <2>3
    <3>2. f \in Funs /\ q + 5 \in q + 3..q + 5 /\ q + 5 # q + 3 /\ q + 5 # q + 4
      BY <1>1
    <3>. HIDE DEF f, x
    <3>. QED
      BY <3>1, <3>2, <2>3, Restoring
  <2>. QED
    BY <1>1, <1>2, <2>1, <2>4 DEF AtCall, Saved
<1>. QED
  BY <1>5, <1>6, <1>7

\* And the thread is where it was.
LEMMA ReturnsHome ==
  ASSUME SentOK, NEW c, NEW i, NEW p, AtCall(c, i, p), Cpu!Ret
  PROVE  eip' = home[i] /\ reg' = c[i].reg /\ stack' = c[i].stack
<1>. DEFINE f == sent[i]
            q == CallAt(f)
            s1 == Append(c[i].stack, Cpu!Slot("address", home[i]))
<1>1. f \in Funs /\ Cpu!Instr = Cpu!Code(f)[p] /\ p \in 1..q + 5 /\ q \in Nat
  BY Fetches
<1>2. p = q + 5
  BY Decodes DEF Cpu!Ret
<1>3. reg = c[i].reg /\ stack = s1 /\ IsSeq(c[i].stack)
  BY <1>1, <1>2 DEF AtCall, CallFrame, Saved
<1>4. s1[Len(s1)] = Cpu!Slot("address", home[i]) /\ SubSeq(s1, 1, Len(s1) - 1) = c[i].stack
  BY <1>3, Pushes
<1>5. Cpu!Top = Cpu!Slot("address", home[i]) /\ Cpu!Drop(1) = c[i].stack
  BY <1>3, <1>4 DEF Cpu!Top, Cpu!Drop
<1>. QED
  BY <1>3, <1>5 DEF Cpu!Ret, Cpu!BackTo, Cpu!Slot

\* The result is noted once there is one.
LEMMA StoreKeeps ==
  ASSUME SentOK, WordsOK, NEW c, NEW i, NEW p, AtCall(c, i, p), Cpu!Store \/ Cpu!Mark
  PROVE  AtCall(c, i, p + 1)' /\ WordsOK'
<1>. DEFINE f == sent[i]
            q == CallAt(f)
            n == Len(Args(f))
            w == IF Cpu!Is("store") THEN reg.eax ELSE Cpu!Instr[2]
<1>1. /\ f \in Funs /\ Cpu!Instr = Cpu!Code(f)[p] /\ p \in 1..q + 5 /\ p \in Nat /\ eip.call = i
      /\ [eip EXCEPT !.pos = @ + 1] = Cpu!Address("call", i, p + 1)
      /\ n \in Nat /\ q \in Nat /\ q - n >= 3 /\ IsSeq(Base(c[i]))
  BY Fetches
<1>2. p = q + 1
  BY Decodes DEF Cpu!Store, Cpu!Mark
<1>3. UNCHANGED <<sent, home, GEngine, made, reg, stack>> /\ Saved(c[i]) /\ i \in 1..Len(sent)
      /\ eip' = Cpu!Address("call", i, p + 1) /\ IsRegs(reg)
  BY <1>1 DEF Cpu!Misc, AtCall, Cpu!Store, Cpu!Mark, Cpu!Next1, CallFrame
<1>4. p \in 3..q + 2 /\ p + 1 \in 3..q + 2 /\ p + 1 \notin {1, 2, q + 1, q + 3, q + 4, q + 5}
  BY <1>1, <1>2
<1>5. /\ Piled(stack, Base(c[i]), Args(f), Pushed(f, p)) /\ WasMade(i, made) /\ reg.eax = "result"
  BY <1>2, <1>4 DEF AtCall, CallFrame
<1>6. Pushed(f, p) = 0 /\ Pushed(f, p + 1) = 0
  <2>1. p \in Nat /\ p + 1 \in Nat /\ p > CallAt(f) /\ p + 1 > CallAt(f) /\ f \in Funs
    BY <1>1, <1>2
  <2>. HIDE DEF f
  <2>. QED
    BY <2>1, CountsPushed
<1>7. Loaded(f, p + 1, reg, GEngine)
  <2>1. q \in {4, 5, 8, 9, 10} /\ (f = "exec" => q = 10) /\ (f = "player" => q = 9)
          /\ (f = "worldinfo" => q = 5)
    BY <1>1, TheirCalls DEF Funs
  <2>. HIDE DEF f, q
  <2>. QED
    BY <1>2, <2>1 DEF Loaded
<1>8. CallFrame(f, i, p + 1, reg', stack', c[i], home[i], GEngine, made)
  <2>1. f \in Funs /\ p + 1 \in 3..CallAt(f) + 2 /\ p + 1 # CallAt(f) + 1
    BY <1>1, <1>4
  <2>2. Piled(stack', Base(c[i]), Args(f), Pushed(f, p + 1)) /\ IsRegs(reg')
        /\ Loaded(f, p + 1, reg', GEngine)
    BY <1>3, <1>5, <1>6, <1>7
  <2>. HIDE DEF f
  <2>. QED
    BY <2>1, <2>2, InsideFrame
<1>9. AtCall(c, i, p + 1)'
  BY <1>1, <1>3, <1>8 DEF AtCall
<1>10. Cpu!Is("mark") => Cpu!Instr[2] = "1"
  <2>1. CASE f = "hide"
    <3>1. Cpu!Code(f) = Cpu!Hide /\ p = 9
      BY <1>2, <2>1, TheirCalls DEF Cpu!Code
    <3>. QED
      BY <1>1, <3>1, HideCode
  <2>2. CASE f = "stop"
    <3>1. Cpu!Code(f) = Cpu!StopMovie /\ p = 5
      BY <1>2, <2>2, TheirCalls DEF Cpu!Code
    <3>. QED
      BY <1>1, <3>1, StopMovieCode
  <2>3. CASE f = "exec"
    <3>1. Cpu!Code(f) = Cpu!Exec /\ p = 11
      BY <1>2, <2>3, TheirCalls DEF Cpu!Code
    <3>2. Cpu!Instr[1] = "store"
      BY <1>1, <3>1, ExecCode
    <3>. QED
      BY <3>2 DEF Cpu!Is
  <2>4. CASE f = "player"
    <3>1. Cpu!Code(f) = Cpu!PlayerExec /\ p = 10
      BY <1>2, <2>4, TheirCalls DEF Cpu!Code
    <3>2. Cpu!Instr[1] = "store"
      BY <1>1, <3>1, PlayerExecCode
    <3>. QED
      BY <3>2 DEF Cpu!Is
  <2>5. CASE f = "worldinfo"
    <3>1. Cpu!Code(f) = Cpu!WorldInfo /\ p = 6
      BY <1>2, <2>5, TheirCalls DEF Cpu!Code
    <3>2. Cpu!Instr[1] = "store"
      BY <1>1, <3>1, WorldInfoCode
    <3>. QED
      BY <3>2 DEF Cpu!Is
  <2>. QED
    BY <1>1, <2>1, <2>2, <2>3, <2>4, <2>5 DEF Funs
<1>11. word' = [word EXCEPT ![i] = w] /\ w \in {"result", "1"}
  BY <1>1, <1>5, <1>10 DEF Cpu!Store, Cpu!Mark, Cpu!Is
<1>12. WordsOK'
  <2>1. word \in Seq({word[k] : k \in DOMAIN word} \cup {w}) /\ Len(word) = Len(sent)
    BY SeqOver DEF WordsOK
  <2>. DEFINE T == {word[k] : k \in DOMAIN word} \cup {w}
  <2>2. w \in T
    OBVIOUS
  <2>. HIDE DEF T, w
  <2>3. word \in Seq(T)
    BY <2>1 DEF T, w
  <2>4. word' \in Seq(T) /\ Len(word') = Len(word)
    <3>1. word \in [1..Len(word) -> T] /\ Len(word) \in Nat /\ DOMAIN word = 1..Len(word)
      BY <2>3
    <3>2. word' = [word EXCEPT ![i] = w]
      BY <1>11
    <3>3. word' \in [1..Len(word) -> T]
      BY <2>2, <3>1, <3>2
    <3>. QED
      BY <3>1, <3>3, SeqDef
  <2>5. IsSeq(word')
    BY <2>4, SeqIsSeq
  <2>6. \A k \in 1..Len(word) : word'[k] = IF k = i THEN w ELSE word[k]
    BY <1>11, <2>3
  <2>7. \A k \in 1..Len(word') : word'[k] # Cpu!Sentinel => word'[k] \in {"result", "1"}
          /\ WasMade(k, made)
    BY <1>5, <1>11, <2>4, <2>6 DEF WordsOK
  <2>. QED
    BY <1>3, <2>1, <2>4, <2>5, <2>7 DEF WordsOK
<1>. QED
  BY <1>9, <1>12

\* The call itself: its arguments are those its function takes, and so is its object.
LEMMA CallKeeps ==
  ASSUME SentOK, MadeOK, NEW c, NEW i, NEW p, AtCall(c, i, p), Cpu!Call
  PROVE  /\ i \in 1..Len(sent) /\ eip' = Cpu!Address("engine", i, 1) /\ Saved(c[i])
         /\ InEngine(sent[i], i, reg', stack', c[i], made')
         /\ MadeOK' /\ made \subseteq made'
<1>. DEFINE f == sent[i]
            q == CallAt(f)
            n == Len(Args(f))
            g == CalleeOf(f)
            k == [call |-> i, callee |-> g, this |-> reg.ecx, args |-> Cpu!Arguments(n)]
<1>1. /\ f \in Funs /\ Cpu!Instr = Cpu!Code(f)[p] /\ p \in 1..q + 5 /\ p \in Nat /\ eip.call = i
      /\ [eip EXCEPT !.pos = @ + 1] = Cpu!Address("call", i, p + 1)
      /\ n \in Nat /\ q \in Nat /\ q - n >= 3 /\ IsSeq(Base(c[i]))
  BY Fetches
<1>2. p = q
  BY Decodes DEF Cpu!Call
<1>3. Cpu!Instr = <<"call", g>>
  BY <1>1, <1>2, TheirShape DEF Shape
<1>4. UNCHANGED <<sent, home, GEngine, reg>> /\ Saved(c[i]) /\ i \in 1..Len(sent)
      /\ eip' = Cpu!Address("engine", i, 1) /\ IsRegs(reg)
  BY <1>1 DEF Cpu!Misc, AtCall, Cpu!Call, CallFrame
<1>5. p \in 3..q + 2 /\ p > 2
  BY <1>1, <1>2
<1>6. Piled(stack, Base(c[i]), Args(f), Pushed(f, p)) /\ Loaded(f, p, reg, GEngine)
  BY <1>5 DEF AtCall, CallFrame
<1>7. Pushed(f, p) = n
  <2>. HIDE DEF f
  <2>. QED
    BY <1>1, <1>2, CountsPushed
<1>8. Piled(stack, Base(c[i]), Args(f), n)
  BY <1>6, <1>7
<1>9. stack' = Append(stack, Cpu!Slot("address", Cpu!Address("call", i, q + 1)))
  BY <1>1, <1>2 DEF Cpu!Call
<1>10. Args(f) = Cpu!Callee[g].args
  BY DEF Args
<1>11. made' = made \cup {k}
  BY <1>1, <1>3, <1>10 DEF Cpu!Call
<1>12. WasMade(i, made')
  <2>1. k.call = i /\ k \in made'
    BY <1>11
  <2>. QED
    BY <2>1 DEF WasMade
<1>13. Cpu!Arguments(n) = Args(f)
  <2>1. \A m \in 1..n : stack[Len(stack) + 1 - m].v = Args(f)[m]
    <3>1. IsSeq(Base(c[i])) /\ n \in Nat
      BY <1>1
    <3>. DEFINE a == Args(f)
                l == Len(a)
    <3>2. Piled(stack, Base(c[i]), a, l)
      BY <1>8
    <3>3. l \in Nat
      BY <1>1
    <3>4. \A m \in 1..l : stack[Len(stack) + 1 - m].v = a[m]
      <4>1. l = Len(a)
        OBVIOUS
      <4>. HIDE DEF l, a
      <4>. QED
        BY <3>1, <3>2, <3>3, <4>1, PileTaken
    <3>. QED
      BY <3>4
  <2>2. Args(f) = [m \in 1..n |-> Args(f)[m]]
    <3>1. /\ <<"Cmd", "GLog">> = [m \in 1..2 |-> <<"Cmd", "GLog">>[m]]
          /\ <<"0">> = [m \in 1..1 |-> <<"0">>[m]] /\ <<"1">> = [m \in 1..1 |-> <<"1">>[m]]
      OBVIOUS
    <3>2. CASE f = "hide"
      <4>1. Args(f) = <<"0", "0", "0", "0", "0">> /\ n = 5
        BY <3>2, TheirArguments
      <4>. QED
        BY <4>1
    <3>3. CASE f \in {"exec", "player"}
      <4>1. Args(f) = <<"Cmd", "GLog">> /\ n = 2
        BY <3>3, TheirArguments
      <4>. QED
        BY <4>1, <3>1
    <3>4. CASE f = "worldinfo"
      <4>1. Args(f) = <<"0">> /\ n = 1
        BY <3>4, TheirArguments
      <4>. QED
        BY <4>1, <3>1
    <3>5. CASE f = "stop"
      <4>1. Args(f) = <<"1">> /\ n = 1
        BY <3>5, TheirArguments
      <4>. QED
        BY <4>1, <3>1
    <3>. QED
      BY <1>1, <3>2, <3>3, <3>4, <3>5 DEF Funs
  <2>. QED
    BY <2>1, <2>2 DEF Cpu!Arguments
<1>14. Cpu!Callee[g].this \in {"any", reg.ecx} /\ (g = "Exec" => GEngine = "up")
  <2>1. CASE f = "exec"
    <3>1. q = 10 /\ g = "Exec"
      BY <2>1, TheirCalls
    <3>. QED
      BY <3>1, <1>2, <1>6, <2>1 DEF Loaded, Cpu!Callee
  <2>2. CASE f = "player"
    <3>1. q = 9 /\ g = "PlayerExec"
      BY <2>2, TheirCalls
    <3>. QED
      BY <3>1, <1>2, <1>6, <2>2 DEF Loaded, Cpu!Callee
  <2>3. CASE f = "worldinfo"
    <3>1. q = 5 /\ g = "GetWorldInfo"
      BY <2>3, TheirCalls
    <3>. QED
      BY <3>1, <1>2, <1>6, <2>3 DEF Loaded, Cpu!Callee
  <2>4. CASE f = "hide"
    <3>1. g = "ShowLoadingMovie"
      BY <2>4, TheirCalls
    <3>. QED
      BY <3>1 DEF Cpu!Callee
  <2>5. CASE f = "stop"
    <3>1. g = "StopLoadingMovie"
      BY <2>5, TheirCalls
    <3>. QED
      BY <3>1 DEF Cpu!Callee
  <2>. QED
    BY <1>1, <2>1, <2>2, <2>3, <2>4, <2>5 DEF Funs
<1>15. MadeOK'
  <2>1. k.args = Cpu!Callee[k.callee].args /\ Cpu!Callee[k.callee].this \in {"any", k.this}
        /\ (k.callee = "Exec" => GEngine' = "up")
    BY <1>4, <1>10, <1>13, <1>14
  <2>. HIDE DEF k
  <2>. QED
    BY <1>4, <1>11, <2>1 DEF MadeOK
<1>16. InEngine(f, i, reg', stack', c[i], made')
  BY <1>4, <1>8, <1>9, <1>12 DEF InEngine
<1>. QED
  BY <1>4, <1>11, <1>15, <1>16

\* The engine's function takes its arguments away and comes back behind the call.
LEMMA ReturnsKeep ==
  ASSUME SentOK, NEW c, NEW i \in 1..Len(sent), eip = Cpu!Address("engine", i, 1), Saved(c[i]),
         InEngine(sent[i], i, reg, stack, c[i], made), Cpu!Returns
  PROVE  \E k \in Nat : AtCall(c, i, k)'
<1>. DEFINE f == sent[i]
            q == CallAt(f)
            n == Len(Args(f))
            a == Cpu!Slot("address", Cpu!Address("call", i, q + 1))
<1>1. f \in Funs /\ eip.call = i
  BY DEF SentOK, Cpu!Address
<1>2. Shape(f, Cpu!Code(f), n, q)
  BY <1>1, TheirShape
<1>3. n \in Nat /\ q \in Nat /\ q - n >= 3 /\ IsSeq(Base(c[i]))
  BY <1>2, Pushes DEF Shape, Saved, Base
<1>4. PICK g \in DOMAIN Cpu!Callee :
        /\ \E k \in DOMAIN Cpu!Code(f) : Cpu!Code(f)[k] = <<"call", g>>
        /\ eip' = Cpu!BackTo(Cpu!Top) /\ stack' = Cpu!Drop(1 + Len(Cpu!Callee[g].args))
  BY <1>1 DEF Cpu!Returns
<1>5. DOMAIN Cpu!Code(f) = 1..q + 5
  <2>1. CASE f = "exec"
    <3>1. Cpu!Code(f) = Cpu!Exec /\ q = 10
      BY <2>1, TheirCalls DEF Cpu!Code
    <3>2. DOMAIN Cpu!Exec = 1..15
      BY DEF Cpu!Exec, Cpu!Enter, Cpu!Leave
    <3>. QED
      BY <3>1, <3>2
  <2>2. CASE f = "player"
    <3>1. Cpu!Code(f) = Cpu!PlayerExec /\ q = 9
      BY <2>2, TheirCalls DEF Cpu!Code
    <3>2. DOMAIN Cpu!PlayerExec = 1..14
      BY DEF Cpu!PlayerExec, Cpu!Enter, Cpu!Leave
    <3>. QED
      BY <3>1, <3>2
  <2>3. CASE f = "worldinfo"
    <3>1. Cpu!Code(f) = Cpu!WorldInfo /\ q = 5
      BY <2>3, TheirCalls DEF Cpu!Code
    <3>2. DOMAIN Cpu!WorldInfo = 1..10
      BY DEF Cpu!WorldInfo, Cpu!Enter, Cpu!Leave
    <3>. QED
      BY <3>1, <3>2
  <2>4. CASE f = "hide"
    <3>1. Cpu!Code(f) = Cpu!Hide /\ q = 8
      BY <2>4, TheirCalls DEF Cpu!Code
    <3>2. DOMAIN Cpu!Hide = 1..13
      BY DEF Cpu!Hide, Cpu!Enter, Cpu!Leave
    <3>. QED
      BY <3>1, <3>2
  <2>5. CASE f = "stop"
    <3>1. Cpu!Code(f) = Cpu!StopMovie /\ q = 4
      BY <2>5, TheirCalls DEF Cpu!Code
    <3>2. DOMAIN Cpu!StopMovie = 1..9
      BY DEF Cpu!StopMovie, Cpu!Enter, Cpu!Leave
    <3>. QED
      BY <3>1, <3>2
  <2>. QED
    BY <1>1, <2>1, <2>2, <2>3, <2>4, <2>5 DEF Funs
<1>6. g = CalleeOf(f)
  <2>1. PICK k \in 1..q + 5 : Cpu!Code(f)[k] = <<"call", g>>
    BY <1>4, <1>5
  <2>2. Cpu!Code(f)[k][1] = "call"
    BY <2>1
  <2>3. k = q
    BY <1>2, <2>2 DEF Shape
  <2>4. <<"call", g>> = <<"call", CalleeOf(f)>>
    BY <1>2, <2>1, <2>3 DEF Shape
  <2>. QED
    BY <2>4
<1>7. eip' = Cpu!BackTo(Cpu!Top) /\ stack' = Cpu!Drop(1 + n)
  BY <1>4, <1>6 DEF Args
<1>8. PICK t : Piled(t, Base(c[i]), Args(f), n) /\ stack = Append(t, a)
  BY DEF InEngine
<1>9. IsSeq(t) /\ Len(t) = Len(Base(c[i])) + n /\ Len(Base(c[i])) \in Nat
  BY <1>3, <1>8, Pushes DEF Piled
<1>10. /\ Len(stack) = Len(t) + 1 /\ stack[Len(t) + 1] = a /\ SubSeq(stack, 1, Len(t)) = t
       /\ \A k \in 1..Len(t) : stack[k] = t[k]
  BY <1>8, <1>9, Pushes
<1>11. Cpu!Top = a
  BY <1>9, <1>10 DEF Cpu!Top
<1>12. eip' = Cpu!Address("call", i, q + 1)
  BY <1>7, <1>11 DEF Cpu!BackTo, Cpu!Slot
<1>13. stack' = Base(c[i])
  <2>1. SubSeq(t, 1, Len(t) - n) = Base(c[i])
    BY <1>3, <1>8, PileTaken
  <2>2. Len(t) - n = Len(Base(c[i])) /\ Len(stack) - (1 + n) = Len(Base(c[i]))
    BY <1>3, <1>9, <1>10
  <2>3. SubSeq(stack, 1, Len(Base(c[i]))) = [k \in 1..Len(Base(c[i])) |-> stack[k]]
        /\ SubSeq(t, 1, Len(Base(c[i]))) = [k \in 1..Len(Base(c[i])) |-> t[k]]
    BY <1>9
  <2>4. \A k \in 1..Len(Base(c[i])) : stack[k] = t[k]
    BY <1>3, <1>9, <1>10
  <2>. QED
    BY <1>7, <2>1, <2>2, <2>3, <2>4 DEF Cpu!Drop
<1>14. UNCHANGED <<sent, home, GEngine, made>>
       /\ reg' = [reg EXCEPT !.eax = "result", !.ecx = Cpu!Junk, !.edx = Cpu!Junk,
            !.flags = Cpu!Junk]
  BY DEF Cpu!Returns, Cpu!Misc
<1>15. IsRegs(reg') /\ reg'.eax = "result"
  BY <1>14 DEF InEngine, IsRegs
<1>16. Pushed(f, q + 1) = 0 /\ Piled(stack', Base(c[i]), Args(f), 0)
  <2>1. q + 1 \in Nat /\ q + 1 > CallAt(f) /\ f \in Funs
    BY <1>1, <1>3
  <2>2. Pushed(f, q + 1) = 0
    <3>. HIDE DEF f
    <3>. QED
      BY <2>1, CountsPushed
  <2>. QED
    BY <2>2, <1>3, <1>13, NothingPiled
<1>17. Loaded(f, q + 1, reg', GEngine)
  <2>1. q \in {4, 5, 8, 9, 10} /\ (f = "exec" => q = 10) /\ (f = "player" => q = 9)
          /\ (f = "worldinfo" => q = 5)
    BY <1>1, TheirCalls DEF Funs
  <2>. HIDE DEF f, q
  <2>. QED
    BY <2>1 DEF Loaded
<1>18. WasMade(i, made)
  BY DEF InEngine
<1>19. /\ q + 1 \in 1..q + 5 /\ q + 1 \in 3..q + 2
       /\ q + 1 \notin {1, 2, q + 3, q + 4, q + 5}
  BY <1>3
<1>20. CallFrame(f, i, q + 1, reg', stack', c[i], home[i], GEngine, made)
  <2>. HIDE DEF f
  <2>1. Piled(stack', Base(c[i]), Args(f), Pushed(f, q + 1))
    BY <1>16
  <2>. QED
    BY <2>1, <1>15, <1>17, <1>18, <1>19 DEF CallFrame
<1>21. PICK k \in Nat : k = q + 1
  BY <1>3
<1>22. AtCall(c, i, k)'
  BY <1>3, <1>12, <1>14, <1>20, <1>21 DEF AtCall
<1>. QED
  BY <1>22

-----------------------------------------------------------------------------
(* The game's own code and the stubs                                       *)

CodeStep ==
  \/ Cpu!Compute \/ Cpu!Store \/ Cpu!Mark \/ Cpu!Milestone \/ Cpu!Call \/ Cpu!Returns
  \/ Cpu!LoadMap \/ (\E y \in Dates : Cpu!MakesDate(y)) \/ Cpu!DateDone

LEMMA NoInstruction ==
  ASSUME eip.at \notin {"call", "hook", "datestub", "engine"}, CodeStep
  PROVE  Cpu!LoadMap \/ (\E y \in Dates : Cpu!MakesDate(y)) \/ Cpu!DateDone
  BY DEF CodeStep, Cpu!Compute, Cpu!Store, Cpu!Mark, Cpu!Milestone, Cpu!Call, Cpu!Returns, Cpu!Is,
    Cpu!Load, Cpu!Test, Cpu!PushReg, Cpu!PushEbx, Cpu!PushImm,
         Cpu!PushFd, Cpu!PushAd, Cpu!PopAd, Cpu!PopFd, Cpu!PushHome, Cpu!Jz, Cpu!Jmp, Cpu!Ret,
             Cpu!CmpYear, Cpu!Jge, Cpu!SetDate, Cpu!Locals, Cpu!LoadYear

LEMMA StubInstruction ==
  ASSUME eip.at \in {"hook", "datestub"}, CodeStep,
         NEW o \in {"milestone", "push", "jmp", "cmpyear", "jge", "setdate", "locals", "pushebx",
             "loadyear"},
         Cpu!Instr[1] = o
  PROVE  /\ o = "milestone" => Cpu!Milestone
         /\ o # "milestone" => Cpu!Quiet
         /\ o = "push" => Cpu!PushImm
         /\ o = "jmp" => Cpu!Jmp
         /\ o = "cmpyear" => Cpu!CmpYear
         /\ o = "jge" => Cpu!Jge
         /\ o = "setdate" => Cpu!SetDate
         /\ o = "locals" => Cpu!Locals
         /\ o = "pushebx" => Cpu!PushEbx
         /\ o = "loadyear" => Cpu!LoadYear
<1>1. ~Cpu!LoadMap /\ ~Cpu!DateDone /\ \A y \in Dates : ~Cpu!MakesDate(y)
  BY DEF Cpu!LoadMap, Cpu!DateDone, Cpu!MakesDate, Cpu!Game, Cpu!Address
<1>2. ~Cpu!Store /\ ~Cpu!Mark /\ ~Cpu!Call /\ ~Cpu!Returns
  BY DEF Cpu!Store, Cpu!Mark, Cpu!Call, Cpu!Returns, Cpu!Is
<1>3. o = "milestone" => ~Cpu!Compute
  BY DEF Cpu!Compute, Cpu!Is, Cpu!Load, Cpu!Test, Cpu!PushReg, Cpu!PushEbx, Cpu!PushImm,
         Cpu!PushFd, Cpu!PushAd, Cpu!PopAd, Cpu!PopFd, Cpu!PushHome, Cpu!Jz, Cpu!Jmp, Cpu!Ret,
             Cpu!CmpYear, Cpu!Jge, Cpu!SetDate, Cpu!Locals, Cpu!LoadYear
<1>4. o # "milestone" => ~Cpu!Milestone
  BY DEF Cpu!Milestone, Cpu!Is
<1>5. /\ ~Cpu!Load /\ ~Cpu!Test /\ ~Cpu!PushReg /\ ~Cpu!PushFd /\ ~Cpu!PushAd /\ ~Cpu!PopAd
           /\ ~Cpu!PopFd /\ ~Cpu!PushHome /\ ~Cpu!Jz /\ ~Cpu!Ret
  BY DEF Cpu!Load, Cpu!Test, Cpu!PushReg, Cpu!PushFd, Cpu!PushAd, Cpu!PopAd, Cpu!PopFd,
    Cpu!PushHome, Cpu!Jz, Cpu!Ret, Cpu!Is
<1>6. /\ Cpu!PushImm => o = "push"
      /\ Cpu!Jmp => o = "jmp"
      /\ Cpu!CmpYear => o = "cmpyear"
      /\ Cpu!Jge => o = "jge"
      /\ Cpu!SetDate => o = "setdate"
      /\ Cpu!Locals => o = "locals"
      /\ Cpu!PushEbx => o = "pushebx"
      /\ Cpu!LoadYear => o = "loadyear"
  BY DEF Cpu!PushImm, Cpu!Jmp, Cpu!CmpYear, Cpu!Jge, Cpu!SetDate, Cpu!Locals, Cpu!PushEbx,
    Cpu!LoadYear, Cpu!Is
<1>7. Cpu!Compute \/ Cpu!Milestone
  BY <1>1, <1>2 DEF CodeStep
<1>8. CASE o = "milestone"
  BY <1>3, <1>7, <1>8
<1>9. CASE o # "milestone"
  <2>1. Cpu!Compute /\ Cpu!Quiet
    BY <1>4, <1>7, <1>9 DEF Cpu!Compute
  <2>2. Cpu!PushImm \/ Cpu!Jmp \/ Cpu!CmpYear \/ Cpu!Jge \/ Cpu!SetDate \/ Cpu!Locals \/ Cpu!PushEbx
          \/ Cpu!LoadYear
    BY <1>5, <2>1 DEF Cpu!Compute
  <2>. QED
    BY <1>6, <1>9, <2>1, <2>2
<1>. QED
  BY <1>8, <1>9

LEMMA IdleKeeps ==
  ASSUME Cpu!TrampolineAssumption, eip = Cpu!Game("idle"), reg = Cpu!Own, stack = Cpu!Idle, CodeStep
  PROVE  Place(eip', reg', stack', marker') /\ Cpu!Quiet
<1>1. eip.at = "idle" /\ eip # Cpu!Game("afterpush") /\ eip # Cpu!Game("datebody")
  BY DEF Cpu!Game, Cpu!Address
<1>2. Cpu!LoadMap \/ (\E y \in Dates : Cpu!MakesDate(y))
  BY <1>1, NoInstruction DEF Cpu!DateDone
<1>3. CASE Cpu!LoadMap
  <2>1. eip' = Cpu!Address("hook", 0, 1) /\ reg' = Cpu!Own /\ stack' = Cpu!Idle /\ Cpu!Quiet
    BY <1>1, <1>3 DEF Cpu!LoadMap, Cpu!Game
  <2>2. 1 \in 1..3
    OBVIOUS
  <2>. QED
    BY <2>1, <2>2 DEF Place
<1>4. ASSUME NEW y \in Dates, Cpu!MakesDate(y) PROVE Place(eip', reg', stack', marker') /\ Cpu!Quiet
  <2>1. eip' = Cpu!Address("datestub", 0, 1) /\ reg' = Cpu!Own /\ y \in Int /\ Cpu!Quiet
    BY <1>4 DEF Cpu!MakesDate, Cpu!Game, Cpu!TrampolineAssumption
  <2>2. stack' = <<Cpu!Slot("word", "own")>> \o <<Cpu!Slot("date", y), Cpu!Slot("address",
          Cpu!Game("idle"))>>
    BY <1>4 DEF Cpu!MakesDate, Cpu!Idle
  <2>3. stack' = <<Cpu!Slot("word", "own"), Cpu!Slot("date", y), Cpu!Slot("address",
          Cpu!Game("idle"))>>
    <3>. DEFINE a == Cpu!Slot("word", "own")
                b == Cpu!Slot("date", y)
                c == Cpu!Slot("address", Cpu!Game("idle"))
    <3>1. <<a>> \o <<b, c>> = <<a, b, c>>
      BY TripleOf
    <3>. QED
      BY <2>2, <3>1
  <2>4. Dating(1, y, reg', stack')
    BY <2>1, <2>3 DEF Dating, Cpu!Own
  <2>. QED
    BY <2>1, <2>4 DEF Place
<1>. QED
  BY <1>2, <1>3, <1>4

LEMMA HookKeeps ==
  ASSUME NEW p \in 1..3, eip = Cpu!Address("hook", 0, p), reg = Cpu!Own, p > 1 => marker = 1,
         stack = IF p = 3 THEN Append(Cpu!Idle, Cpu!Slot("word", "imm")) ELSE Cpu!Idle, CodeStep
  PROVE  /\ Place(eip', reg', stack', marker') /\ Cpu!Misc /\ UNCHANGED <<word, made>>
         /\ marker = 1 => marker' = 1
         /\ marker' \in {marker, 1}
<1>1. eip.at = "hook" /\ [eip EXCEPT !.pos = @ + 1] = Cpu!Address("hook", 0, p + 1)
        /\ Cpu!Instr = Cpu!Hook[p]
  BY DEF Cpu!Address, Cpu!Instr, Cpu!Running
<1>2. CASE p = 1
  <2>1. Cpu!Instr[1] = "milestone"
    BY <1>1, <1>2, HookCode
  <2>2. Cpu!Milestone
    BY <1>1, <2>1, StubInstruction
  <2>3. eip' = Cpu!Address("hook", 0, 2) /\ reg' = Cpu!Own /\ marker' = 1 /\ stack' = Cpu!Idle
    BY <1>1, <1>2, <2>2 DEF Cpu!Milestone, Cpu!Next1
  <2>4. 2 \in 1..3 /\ 2 # 3
    OBVIOUS
  <2>. QED
    BY <2>2, <2>3, <2>4 DEF Place, Cpu!Milestone
<1>3. CASE p = 2
  <2>1. Cpu!Instr[1] = "push" /\ Cpu!Instr[2] = "imm"
    BY <1>1, <1>3, HookCode
  <2>2. Cpu!PushImm /\ Cpu!Quiet
    BY <1>1, <2>1, StubInstruction
  <2>3. eip' = Cpu!Address("hook", 0, 3) /\ reg' = Cpu!Own /\ marker' = 1
          /\ stack' = Append(Cpu!Idle, Cpu!Slot("word", "imm"))
    BY <1>1, <1>3, <2>1, <2>2 DEF Cpu!PushImm, Cpu!Stacks, Cpu!Next1, Cpu!Quiet
  <2>4. 3 \in 1..3
    OBVIOUS
  <2>. QED
    BY <2>2, <2>3, <2>4 DEF Place, Cpu!Quiet
<1>4. CASE p = 3
  <2>1. Cpu!Instr[1] = "jmp" /\ Cpu!Instr[2] = "afterpush"
    BY <1>1, <1>4, HookCode
  <2>2. Cpu!Jmp /\ Cpu!Quiet
    BY <1>1, <2>1, StubInstruction
  <2>3. eip' = Cpu!Game("afterpush") /\ reg' = Cpu!Own /\ marker' = 1
          /\ stack' = Append(Cpu!Idle, Cpu!Slot("word", "imm"))
    BY <1>4, <2>1, <2>2 DEF Cpu!Jmp, Cpu!Jumps, Cpu!Quiet
  <2>. QED
    BY <2>2, <2>3 DEF Place, Cpu!Quiet
<1>. QED
  BY <1>2, <1>3, <1>4

LEMMA AfterPushKeeps ==
  ASSUME eip = Cpu!Game("afterpush"), reg = Cpu!Own,
           stack = Append(Cpu!Idle, Cpu!Slot("word", "imm")), CodeStep
  PROVE  Place(eip', reg', stack', marker') /\ Cpu!Quiet
<1>1. eip.at = "afterpush" /\ eip # Cpu!Game("idle") /\ eip # Cpu!Game("datebody")
  BY DEF Cpu!Game, Cpu!Address
<1>2. Cpu!LoadMap
  BY <1>1, NoInstruction DEF Cpu!DateDone, Cpu!MakesDate
<1>3. eip' = Cpu!Game("idle") /\ stack' = Cpu!Drop(1) /\ reg' = Cpu!Own /\ Cpu!Quiet
  BY <1>1, <1>2 DEF Cpu!LoadMap
<1>4. Cpu!Drop(1) = Cpu!Idle
  <2>. DEFINE a == Cpu!Slot("word", "own")
              b == Cpu!Slot("word", "imm")
  <2>1. stack = <<a, b>> /\ Cpu!Idle = <<a>>
    <3>1. Append(<<a>>, b) = <<a, b>>
      BY PairOf
    <3>. QED
      BY <3>1 DEF Cpu!Idle
  <2>. HIDE DEF a, b
  <2>2. SubSeq(<<a, b>>, 1, 1) = <<a>>
    BY PairOf
  <2>3. Len(<<a, b>>) - 1 = 1
    OBVIOUS
  <2>. QED
    BY <2>1, <2>2, <2>3 DEF Cpu!Drop
<1>. QED
  BY <1>3, <1>4 DEF Place

LEMMA BodyKeeps ==
  ASSUME eip = Cpu!Game("datebody"), NEW y \in Int, Dating(8, y, reg, stack), CodeStep
  PROVE  Place(eip', reg', stack', marker') /\ Cpu!Quiet
<1>1. eip.at = "datebody" /\ eip # Cpu!Game("idle") /\ eip # Cpu!Game("afterpush")
  BY DEF Cpu!Game, Cpu!Address
<1>2. Cpu!DateDone
  BY <1>1, NoInstruction DEF Cpu!LoadMap, Cpu!MakesDate
<1>3. Cpu!Drop(4) = Cpu!Idle
  <2>. DEFINE a == Cpu!Slot("word", "own")
              b == Cpu!Slot("date", y)
              c == Cpu!Slot("address", Cpu!Game("idle"))
              d == Cpu!Slot("word", "locals")
              e == Cpu!Slot("ebx", 0)
  <2>1. stack = <<a, b, c, d, e>> /\ Cpu!Idle = <<a>>
    BY DEF Dating, Cpu!Idle
  <2>. HIDE DEF a, b, c, d, e
  <2>2. SubSeq(<<a, b, c, d, e>>, 1, 1) = <<a>>
    BY FiveOf
  <2>3. Len(<<a, b, c, d, e>>) - 4 = 1
    OBVIOUS
  <2>. QED
    BY <2>1, <2>2, <2>3 DEF Cpu!Drop
<1>. QED
  BY <1>2, <1>3 DEF Place, Cpu!DateDone

LEMMA DateKeeps ==
  ASSUME NEW p \in 1..7, NEW y \in Int, eip = Cpu!Address("datestub", 0, p),
           Dating(p, y, reg, stack), CodeStep
  PROVE  Place(eip', reg', stack', marker') /\ Cpu!Quiet
<1>1. /\ eip.at = "datestub" /\ Cpu!Instr = Cpu!DateStub[p] /\ eip.pos = p
      /\ \A k : [eip EXCEPT !.pos = k] = Cpu!Address("datestub", 0, k)
  BY DEF Cpu!Address, Cpu!Instr, Cpu!Running
<1>. DEFINE s3 == <<Cpu!Slot("word", "own"), Cpu!Slot("date", y), Cpu!Slot("address",
       Cpu!Game("idle"))>>
            s4 == <<Cpu!Slot("word", "own"), Cpu!Slot("date", y), Cpu!Slot("address",
                Cpu!Game("idle")),
                    Cpu!Slot("word", "locals")>>
            s5 == <<Cpu!Slot("word", "own"), Cpu!Slot("date", y), Cpu!Slot("address",
                Cpu!Game("idle")),
                    Cpu!Slot("word", "locals"), Cpu!Slot("ebx", 0)>>
<1>2. ASSUME NEW k \in 1..7, NEW z \in Int, eip' = Cpu!Address("datestub", 0, k),
               Dating(k, z, reg', stack')
      PROVE  Place(eip', reg', stack', marker')
  BY <1>2 DEF Place
<1>3. CASE p = 1
  <2>1. Cpu!Instr[1] = "cmpyear" /\ stack = s3
    BY <1>1, <1>3, DateCode DEF Dating
  <2>2. Cpu!CmpYear /\ Cpu!Quiet
    BY <1>1, <2>1, StubInstruction
  <2>3. Cpu!Year = y
    BY <2>1 DEF Cpu!Year, Cpu!Slot
  <2>4. eip' = Cpu!Address("datestub", 0, 2) /\ stack' = stack
        /\ reg' = [reg EXCEPT !.flags = IF y >= 1900 THEN "ge" ELSE "less"]
    BY <1>1, <1>3, <2>2, <2>3 DEF Cpu!CmpYear, Cpu!Regs, Cpu!Next1
  <2>5. Dating(2, y, reg', stack')
    BY <1>3, <2>1, <2>4 DEF Dating, Cpu!Own
  <2>. QED
    BY <1>2, <2>2, <2>4, <2>5
<1>4. CASE p = 2
  <2>1. Cpu!Instr[1] = "jge" /\ Cpu!Instr[2] = 4 /\ stack = s3
    BY <1>1, <1>4, DateCode DEF Dating
  <2>2. Cpu!Jge /\ Cpu!Quiet
    BY <1>1, <2>1, StubInstruction
  <2>3. reg.flags = IF y >= 1900 THEN "ge" ELSE "less"
    BY <1>4 DEF Dating
  <2>4. reg' = reg /\ stack' = stack
    BY <2>2 DEF Cpu!Jge, Cpu!Jumps
  <2>5. CASE y >= 1900
    <3>1. eip' = Cpu!Address("datestub", 0, 4)
      BY <1>1, <2>1, <2>2, <2>3, <2>5 DEF Cpu!Jge, Cpu!Jumps
    <3>2. Dating(4, y, reg', stack')
      BY <1>4, <2>1, <2>4, <2>5 DEF Dating, Cpu!Own
    <3>. QED
      BY <1>2, <2>2, <3>1, <3>2
  <2>6. CASE ~(y >= 1900)
    <3>1. eip' = Cpu!Address("datestub", 0, 3)
      BY <1>1, <1>4, <2>2, <2>3, <2>6 DEF Cpu!Jge, Cpu!Jumps
    <3>2. Dating(3, y, reg', stack')
      BY <1>4, <2>1, <2>4, <2>6 DEF Dating, Cpu!Own
    <3>. QED
      BY <1>2, <2>2, <3>1, <3>2
  <2>. QED
    BY <2>5, <2>6
<1>5. CASE p = 3
  <2>1. Cpu!Instr[1] = "setdate" /\ stack = s3
    BY <1>1, <1>5, DateCode DEF Dating
  <2>2. Cpu!SetDate /\ Cpu!Quiet
    BY <1>1, <2>1, StubInstruction
  <2>3. eip' = Cpu!Address("datestub", 0, 4) /\ reg' = reg
        /\ stack' = [stack EXCEPT ![Len(stack) - 1] = Cpu!Slot("date", 2026)]
    BY <1>1, <1>5, <2>2 DEF Cpu!SetDate, Cpu!Stacks, Cpu!Next1
  <2>4. stack' = <<Cpu!Slot("word", "own"), Cpu!Slot("date", 2026), Cpu!Slot("address",
          Cpu!Game("idle"))>>
    BY <2>1, <2>3
  <2>5. Dating(4, 2026, reg', stack')
    BY <1>5, <2>3, <2>4 DEF Dating, Cpu!Own
  <2>6. 2026 \in Int /\ 4 \in 1..7
    OBVIOUS
  <2>. QED
    BY <2>2, <2>3, <2>5, <2>6 DEF Place
<1>6. CASE p = 4
  <2>1. Cpu!Instr[1] = "locals" /\ stack = s3 /\ y >= 1900
    BY <1>1, <1>6, DateCode DEF Dating
  <2>2. Cpu!Locals /\ Cpu!Quiet
    BY <1>1, <2>1, StubInstruction
  <2>3. eip' = Cpu!Address("datestub", 0, 5) /\ reg' = reg
          /\ stack' = Append(stack, Cpu!Slot("word", "locals"))
    BY <1>1, <1>6, <2>2 DEF Cpu!Locals, Cpu!Stacks, Cpu!Next1
  <2>4. stack' = s4
    <3>. DEFINE a == Cpu!Slot("word", "own")
                b == Cpu!Slot("date", y)
                c == Cpu!Slot("address", Cpu!Game("idle"))
                d == Cpu!Slot("word", "locals")
    <3>1. Append(<<a, b, c>>, d) = <<a, b, c, d>>
      BY FourOf
    <3>. QED
      BY <2>1, <2>3, <3>1
  <2>5. Dating(5, y, reg', stack')
    <3>1. reg' = [eax |-> "own", ebx |-> 0, ecx |-> "own", edx |-> "own", flags |-> reg'.flags]
      BY <1>6, <2>3 DEF Dating
    <3>. QED
      BY <2>1, <2>4, <3>1 DEF Dating
  <2>. QED
    BY <1>2, <2>2, <2>3, <2>5
<1>7. CASE p = 5
  <2>1. Cpu!Instr[1] = "pushebx" /\ stack = s4 /\ y >= 1900 /\ reg.ebx = 0
    BY <1>1, <1>7, DateCode DEF Dating, Cpu!Own
  <2>2. Cpu!PushEbx /\ Cpu!Quiet
    BY <1>1, <2>1, StubInstruction
  <2>3. eip' = Cpu!Address("datestub", 0, 6) /\ reg' = reg
          /\ stack' = Append(stack, Cpu!Slot("ebx", 0))
    BY <1>1, <1>7, <2>1, <2>2 DEF Cpu!PushEbx, Cpu!Stacks, Cpu!Next1
  <2>4. stack' = s5
    <3>. DEFINE a == Cpu!Slot("word", "own")
                b == Cpu!Slot("date", y)
                c == Cpu!Slot("address", Cpu!Game("idle"))
                d == Cpu!Slot("word", "locals")
                e == Cpu!Slot("ebx", 0)
    <3>1. Append(<<a, b, c, d>>, e) = <<a, b, c, d, e>>
      BY FiveOf
    <3>. QED
      BY <2>1, <2>3, <3>1
  <2>5. Dating(6, y, reg', stack')
    <3>1. reg' = [eax |-> "own", ebx |-> 0, ecx |-> "own", edx |-> "own", flags |-> reg'.flags]
      BY <1>7, <2>3 DEF Dating
    <3>. QED
      BY <2>1, <2>4, <3>1 DEF Dating
  <2>. QED
    BY <1>2, <2>2, <2>3, <2>5
<1>8. CASE p = 6
  <2>1. Cpu!Instr[1] = "loadyear" /\ stack = s5 /\ y >= 1900
    BY <1>1, <1>8, DateCode DEF Dating
  <2>2. Cpu!LoadYear /\ Cpu!Quiet
    BY <1>1, <2>1, StubInstruction
  <2>3. stack[Len(stack) - 3].v = y
    BY <2>1 DEF Cpu!Slot
  <2>4. eip' = Cpu!Address("datestub", 0, 7) /\ reg' = [reg EXCEPT !.ebx = y] /\ stack' = stack
    BY <1>1, <1>8, <2>2, <2>3 DEF Cpu!LoadYear, Cpu!Regs, Cpu!Next1
  <2>5. Dating(7, y, reg', stack')
    BY <1>8, <2>1, <2>4 DEF Dating, Cpu!Own
  <2>. QED
    BY <1>2, <2>2, <2>4, <2>5
<1>9. CASE p = 7
  <2>1. Cpu!Instr[1] = "jmp" /\ Cpu!Instr[2] = "datebody" /\ stack = s5 /\ y >= 1900
    BY <1>1, <1>9, DateCode DEF Dating
  <2>2. Cpu!Jmp /\ Cpu!Quiet
    BY <1>1, <2>1, StubInstruction
  <2>3. eip' = Cpu!Game("datebody") /\ reg' = reg /\ stack' = stack
    BY <2>1, <2>2 DEF Cpu!Jmp, Cpu!Jumps
  <2>4. Dating(8, y, reg', stack')
    BY <1>9, <2>1, <2>3 DEF Dating, Cpu!Own
  <2>. QED
    BY <2>2, <2>3, <2>4 DEF Place
<1>. QED
  BY <1>3, <1>4, <1>5, <1>6, <1>7, <1>8, <1>9

-----------------------------------------------------------------------------
(* What was interrupted stays as it is                                     *)

LEMMA LoadedStays ==
  ASSUME NEW f, NEW p, NEW r, NEW en, NEW en2, en = "up" => en2 = "up", Loaded(f, p, r, en)
  PROVE  Loaded(f, p, r, en2)
  BY DEF Loaded

LEMMA PlaceStays ==
  ASSUME NEW e, NEW r, NEW s, NEW mk, NEW mk2, mk = 1 => mk2 = 1, Place(e, r, s, mk)
  PROVE  Place(e, r, s, mk2)
<1>1. CASE \E p \in 1..3 :
             /\ e = Cpu!Address("hook", 0, p) /\ r = Cpu!Own /\ (p > 1 => mk = 1)
             /\ s = IF p = 3 THEN Append(Cpu!Idle, Cpu!Slot("word", "imm")) ELSE Cpu!Idle
  BY <1>1 DEF Place
<1>2. CASE e = Cpu!Game("idle") /\ r = Cpu!Own /\ s = Cpu!Idle
  BY <1>2 DEF Place
<1>3. CASE e = Cpu!Game("afterpush") /\ r = Cpu!Own /\ s = Append(Cpu!Idle, Cpu!Slot("word", "imm"))
             /\ mk = 1
  BY <1>3 DEF Place
<1>4. CASE \E p \in 1..7, y \in Int : e = Cpu!Address("datestub", 0, p) /\ Dating(p, y, r, s)
  BY <1>4 DEF Place
<1>5. CASE \E y \in Int : e = Cpu!Game("datebody") /\ Dating(8, y, r, s)
  BY <1>5 DEF Place
<1>. QED
  BY <1>1, <1>2, <1>3, <1>4, <1>5 DEF Place

LEMMA Stays ==
  ASSUME NEW e, NEW r, NEW s, NEW c, NEW c2, NEW sn, NEW sn2, NEW hm, NEW hm2, NEW mk, NEW mk2,
           NEW en, NEW en2,
         NEW md, NEW md2,
         At(e, r, s, c, sn, hm, mk, en, md),
         mk = 1 => mk2 = 1, en = "up" => en2 = "up", md \subseteq md2,
         \A i \in 1..Len(sn) : i \in 1..Len(sn2) /\ sn2[i] = sn[i] /\ hm2[i] = hm[i] /\ c2[i] = c[i]
  PROVE  At(e, r, s, c2, sn2, hm2, mk2, en2, md2)
<1>1. CASE Place(e, r, s, mk)
  BY <1>1, PlaceStays DEF At
<1>2. ASSUME NEW i, WasMade(i, md) PROVE WasMade(i, md2)
  BY <1>2 DEF WasMade
<1>3. ASSUME NEW i \in 1..Len(sn), NEW p \in Nat,
             e = Cpu!Address("call", i, p), CallFrame(sn[i], i, p, r, s, c[i], hm[i], en, md)
      PROVE  At(e, r, s, c2, sn2, hm2, mk2, en2, md2)
  <2>1. i \in 1..Len(sn2) /\ sn2[i] = sn[i] /\ hm2[i] = hm[i] /\ c2[i] = c[i]
    OBVIOUS
  <2>2. Loaded(sn[i], p, r, en) => Loaded(sn[i], p, r, en2)
    BY LoadedStays
  <2>3. WasMade(i, md) => WasMade(i, md2)
    BY <1>2
  <2>4. CallFrame(sn[i], i, p, r, s, c[i], hm[i], en2, md2)
    BY <1>3, <2>2, <2>3 DEF CallFrame
  <2>5. CallFrame(sn2[i], i, p, r, s, c2[i], hm2[i], en2, md2)
    BY <2>1, <2>4
  <2>. QED
    BY <1>3, <2>1, <2>5 DEF At
<1>4. ASSUME NEW i \in 1..Len(sn), e = Cpu!Address("engine", i, 1),
               InEngine(sn[i], i, r, s, c[i], md)
      PROVE  At(e, r, s, c2, sn2, hm2, mk2, en2, md2)
  <2>1. i \in 1..Len(sn2) /\ sn2[i] = sn[i] /\ c2[i] = c[i]
    OBVIOUS
  <2>2. WasMade(i, md2)
    BY <1>2, <1>4 DEF InEngine
  <2>3. InEngine(sn2[i], i, r, s, c2[i], md2)
    BY <1>4, <2>1, <2>2 DEF InEngine
  <2>. QED
    BY <1>4, <2>1, <2>3 DEF At
<1>. QED
  BY <1>1, <1>3, <1>4 DEF At

LEMMA BelowStays ==
  ASSUME NEW c, Below(c), UNCHANGED <<sent, home>>, marker = 1 => marker' = 1, GEngine = "up"
           => GEngine' = "up",
         made \subseteq made'
  PROVE  Below(c)'
<1>1. ASSUME NEW i \in 1..Len(sent')
      PROVE  Saved(c[i])
               /\ At(home'[i], c[i].reg, c[i].stack, c, sent', home', marker', GEngine', made')
  <2>1. i \in 1..Len(sent) /\ Saved(c[i])
          /\ At(home[i], c[i].reg, c[i].stack, c, sent, home, marker, GEngine, made)
    BY DEF Below
  <2>2. At(home[i], c[i].reg, c[i].stack, c, sent, home, marker', GEngine', made')
    BY <2>1, Stays
  <2>. QED
    BY <2>1, <2>2
<1>. QED
  BY <1>1 DEF Below

-----------------------------------------------------------------------------
(* The steps                                                               *)

LEMMA CallInstruction ==
  ASSUME SentOK, NEW c, NEW i, NEW p, AtCall(c, i, p), CodeStep
  PROVE  \/ (Cpu!Load \/ Cpu!Test) /\ Cpu!Quiet
         \/ Cpu!Jz /\ Cpu!Quiet
         \/ (Cpu!PushReg \/ Cpu!PushImm) /\ Cpu!Quiet
         \/ (Cpu!PushFd \/ Cpu!PushAd) /\ Cpu!Quiet
         \/ (Cpu!PopAd \/ Cpu!PopFd \/ Cpu!PushHome) /\ Cpu!Quiet
         \/ Cpu!Ret /\ Cpu!Quiet
         \/ Cpu!Store \/ Cpu!Mark
         \/ Cpu!Call
<1>1. eip.at = "call" /\ p \in 1..CallAt(sent[i]) + 5 /\ CallAt(sent[i]) \in Nat
        /\ Len(Args(sent[i])) \in Nat
      /\ CallAt(sent[i]) - Len(Args(sent[i])) >= 3
  BY Fetches
<1>2. ~Cpu!LoadMap /\ ~Cpu!DateDone /\ (\A y \in Dates : ~Cpu!MakesDate(y)) /\ ~Cpu!Returns
  BY <1>1 DEF Cpu!LoadMap, Cpu!DateDone, Cpu!MakesDate, Cpu!Game, Cpu!Address, Cpu!Returns
<1>3. Cpu!Instr[1] \in {"pushfd", "pushad", "set", "test", "jz", "push", "pushreg", "call", "store",
        "mark", "popad",
                    "popfd", "pushhome", "ret"}
  <2>. DEFINE q == CallAt(sent[i])
              n == Len(Args(sent[i]))
  <2>1. p = 1 \/ p = 2 \/ p \in 3..q - n - 1 \/ p \in q - n..q - 1 \/ p = q \/ p = q + 1
          \/ p = q + 2 \/ p = q + 3
        \/ p = q + 4 \/ p = q + 5
    <3>. HIDE DEF q, n
    <3>1. p \in 1..q + 5 /\ q \in Nat /\ n \in Nat /\ q - n >= 3
      BY <1>1 DEF q, n
    <3>. QED
      BY <3>1
  <2>2. \/ Cpu!Is("pushfd") \/ Cpu!Is("pushad") \/ Cpu!Is("set") \/ Cpu!Is("test") \/ Cpu!Is("jz")
             \/ Cpu!Is("push") \/ Cpu!Is("pushreg")
        \/ Cpu!Is("call") \/ Cpu!Is("store") \/ Cpu!Is("mark") \/ Cpu!Is("popad") \/ Cpu!Is("popfd")
             \/ Cpu!Is("pushhome") \/ Cpu!Is("ret")
    BY <2>1, Decodes
  <2>. QED
    BY <2>2 DEF Cpu!Is
<1>4. ~Cpu!Milestone /\ ~Cpu!PushEbx /\ ~Cpu!Jmp /\ ~Cpu!CmpYear /\ ~Cpu!Jge /\ ~Cpu!SetDate
        /\ ~Cpu!Locals /\ ~Cpu!LoadYear
  BY <1>3 DEF Cpu!Milestone, Cpu!PushEbx, Cpu!Jmp, Cpu!CmpYear, Cpu!Jge, Cpu!SetDate, Cpu!Locals,
    Cpu!LoadYear, Cpu!Is
<1>. QED
  BY <1>2, <1>4 DEF CodeStep, Cpu!Compute

LEMMA StepKeeps ==
  ASSUME Cpu!TrampolineAssumption, SentOK, MadeOK, WordsOK, NEW c, Here(c), Below(c), CodeStep
  PROVE  SentOK' /\ MadeOK' /\ WordsOK' /\ Here(c)' /\ Below(c)'
<1>1. ASSUME UNCHANGED <<sent, home, GEngine>>, marker = 1 => marker' = 1, marker' \in {marker, 1},
             made \subseteq made'
      PROVE  SentOK' /\ Below(c)'
  <2>1. SentOK'
    BY <1>1 DEF SentOK
  <2>. QED
    BY <1>1, <2>1, BelowStays
<1>2. ASSUME UNCHANGED <<word, sent, made, GEngine>> PROVE WordsOK' /\ MadeOK'
  BY <1>2 DEF WordsOK, MadeOK
<1>3. ASSUME Cpu!Quiet PROVE SentOK' /\ Below(c)' /\ WordsOK' /\ MadeOK'
  BY <1>1, <1>2, <1>3 DEF Cpu!Quiet, Cpu!Misc
<1>4. ASSUME NEW i \in 1..Len(sent), NEW p \in Nat, AtCall(c, i, p)' PROVE Here(c)'
  <2>1. i \in 1..Len(sent') /\ eip' = Cpu!Address("call", i, p)
        /\ CallFrame(sent'[i], i, p, reg', stack', c[i], home'[i], GEngine', made')
    BY <1>4 DEF AtCall
  <2>. QED
    BY <2>1 DEF Here, At
<1>5. CASE Place(eip, reg, stack, marker)
  <2>0. ASSUME Place(eip', reg', stack', marker') PROVE Here(c)'
    BY <2>0 DEF Here, At
  <2>1. CASE eip = Cpu!Game("idle") /\ reg = Cpu!Own /\ stack = Cpu!Idle
    BY <2>0, <2>1, <1>3, IdleKeeps
  <2>2. ASSUME NEW p \in 1..3, eip = Cpu!Address("hook", 0, p), reg = Cpu!Own, p > 1 => marker = 1,
               stack = IF p = 3 THEN Append(Cpu!Idle, Cpu!Slot("word", "imm")) ELSE Cpu!Idle
        PROVE  SentOK' /\ MadeOK' /\ WordsOK' /\ Here(c)' /\ Below(c)'
    <3>1. Place(eip', reg', stack', marker') /\ Cpu!Misc /\ UNCHANGED <<word, made>>
            /\ (marker = 1 => marker' = 1)
          /\ marker' \in {marker, 1}
      BY <2>2, HookKeeps
    <3>. QED
      BY <3>1, <2>0, <1>1, <1>2 DEF Cpu!Misc
  <2>3. CASE eip = Cpu!Game("afterpush") /\ reg = Cpu!Own
               /\ stack = Append(Cpu!Idle, Cpu!Slot("word", "imm"))
    BY <2>0, <2>3, <1>3, AfterPushKeeps
  <2>4. ASSUME NEW p \in 1..7, NEW y \in Int, eip = Cpu!Address("datestub", 0, p),
                 Dating(p, y, reg, stack)
        PROVE  SentOK' /\ MadeOK' /\ WordsOK' /\ Here(c)' /\ Below(c)'
    BY <2>0, <2>4, <1>3, DateKeeps
  <2>5. ASSUME NEW y \in Int, eip = Cpu!Game("datebody"), Dating(8, y, reg, stack)
        PROVE  SentOK' /\ MadeOK' /\ WordsOK' /\ Here(c)' /\ Below(c)'
    BY <2>0, <2>5, <1>3, BodyKeeps
  <2>. QED
    BY <1>5, <2>1, <2>2, <2>3, <2>4, <2>5 DEF Place
<1>6. ASSUME NEW i \in 1..Len(sent), NEW p \in Nat, eip = Cpu!Address("call", i, p),
             CallFrame(sent[i], i, p, reg, stack, c[i], home[i], GEngine, made)
      PROVE  SentOK' /\ MadeOK' /\ WordsOK' /\ Here(c)' /\ Below(c)'
  <2>1. AtCall(c, i, p)
    BY <1>6 DEF AtCall, Below
  <2>2. CASE (Cpu!Load \/ Cpu!Test) /\ Cpu!Quiet
    <3>1. AtCall(c, i, p + 1)'
      BY <2>1, <2>2, LoadsKeep
    <3>. QED
      BY <3>1, <2>2, <1>3, <1>4
  <2>3. CASE Cpu!Jz /\ Cpu!Quiet
    <3>1. \E k \in Nat : AtCall(c, i, k)'
      BY <2>1, <2>3, JzKeeps
    <3>. QED
      BY <3>1, <2>3, <1>3, <1>4
  <2>4. CASE (Cpu!PushReg \/ Cpu!PushImm) /\ Cpu!Quiet
    <3>1. AtCall(c, i, p + 1)'
      BY <2>1, <2>4, PushesKeep
    <3>. QED
      BY <3>1, <2>4, <1>3, <1>4
  <2>5. CASE (Cpu!PushFd \/ Cpu!PushAd) /\ Cpu!Quiet
    <3>1. AtCall(c, i, p + 1)'
      BY <2>1, <2>5, SavesKeep
    <3>. QED
      BY <3>1, <2>5, <1>3, <1>4
  <2>6. CASE (Cpu!PopAd \/ Cpu!PopFd \/ Cpu!PushHome) /\ Cpu!Quiet
    <3>1. AtCall(c, i, p + 1)'
      BY <2>1, <2>6, RestoresKeep
    <3>. QED
      BY <3>1, <2>6, <1>3, <1>4
  <2>7. CASE Cpu!Ret /\ Cpu!Quiet
    <3>1. eip' = home[i] /\ reg' = c[i].reg /\ stack' = c[i].stack
      BY <2>1, <2>7, ReturnsHome
    <3>2. At(home[i], c[i].reg, c[i].stack, c, sent, home, marker, GEngine, made)
      BY DEF Below
    <3>3. UNCHANGED <<sent, home, marker, GEngine, made>>
      BY <2>7 DEF Cpu!Quiet, Cpu!Misc
    <3>4. Here(c)'
      BY <3>1, <3>2, <3>3 DEF Here
    <3>. QED
      BY <3>4, <2>7, <1>3
  <2>8. CASE Cpu!Store \/ Cpu!Mark
    <3>1. AtCall(c, i, p + 1)' /\ WordsOK'
      BY <2>1, <2>8, StoreKeeps
    <3>2. UNCHANGED <<sent, home, GEngine, marker, made>>
      BY <2>8 DEF Cpu!Store, Cpu!Mark, Cpu!Misc
    <3>3. MadeOK'
      BY <3>2 DEF MadeOK
    <3>. QED
      BY <3>1, <3>2, <3>3, <1>1, <1>4
  <2>9. CASE Cpu!Call
    <3>1. /\ eip' = Cpu!Address("engine", i, 1) /\ InEngine(sent[i], i, reg', stack', c[i], made')
          /\ MadeOK' /\ made \subseteq made'
      BY <2>1, <2>9, CallKeeps
    <3>2. UNCHANGED <<sent, home, GEngine, marker, word>>
      BY <2>9 DEF Cpu!Call, Cpu!Misc
    <3>3. Here(c)'
      <4>1. i \in 1..Len(sent') /\ InEngine(sent'[i], i, reg', stack', c[i], made')
        BY <3>1, <3>2
      <4>. QED
        BY <3>1, <4>1 DEF Here, At
    <3>4. WordsOK'
      <4>1. \A k : WasMade(k, made) => WasMade(k, made')
        BY <3>1 DEF WasMade
      <4>. QED
        BY <3>2, <4>1 DEF WordsOK
    <3>. QED
      BY <3>1, <3>2, <3>3, <3>4, <1>1
  <2>. QED
    BY <2>1, <2>2, <2>3, <2>4, <2>5, <2>6, <2>7, <2>8, <2>9, CallInstruction
<1>7. ASSUME NEW i \in 1..Len(sent), eip = Cpu!Address("engine", i, 1),
               InEngine(sent[i], i, reg, stack, c[i], made)
      PROVE  SentOK' /\ MadeOK' /\ WordsOK' /\ Here(c)' /\ Below(c)'
  <2>1. eip.at = "engine"
    BY <1>7 DEF Cpu!Address
  <2>2. Cpu!Returns
    <3>1. \A op : ~Cpu!Is(op)
      BY <2>1 DEF Cpu!Is
    <3>2. ~Cpu!LoadMap /\ ~Cpu!DateDone /\ \A y \in Dates : ~Cpu!MakesDate(y)
      BY <2>1 DEF Cpu!LoadMap, Cpu!MakesDate, Cpu!DateDone, Cpu!Game, Cpu!Address
    <3>. QED
      BY <3>1, <3>2 DEF CodeStep, Cpu!Compute, Cpu!Store, Cpu!Mark, Cpu!Milestone, Cpu!Call,
        Cpu!Load, Cpu!Test, Cpu!PushReg, Cpu!PushEbx, Cpu!PushImm,
         Cpu!PushFd, Cpu!PushAd, Cpu!PopAd, Cpu!PopFd, Cpu!PushHome, Cpu!Jz, Cpu!Jmp, Cpu!Ret,
             Cpu!CmpYear, Cpu!Jge, Cpu!SetDate, Cpu!Locals, Cpu!LoadYear
  <2>3. Saved(c[i])
    BY DEF Below
  <2>4. \E k \in Nat : AtCall(c, i, k)'
    BY <1>7, <2>2, <2>3, ReturnsKeep
  <2>6. UNCHANGED <<sent, home, GEngine, word, made, marker>>
    BY <2>2 DEF Cpu!Returns, Cpu!Misc
  <2>. QED
    BY <2>4, <2>6, <1>1, <1>2, <1>4
<1>. QED
  BY <1>5, <1>6, <1>7 DEF Here, At

\* Where the thread is, there is something to come back to.
LEMMA HereSaved ==
  ASSUME SentOK, NEW c, Here(c), Below(c)
  PROVE  IsRegs(reg) /\ IsSeq(stack)
<1>11. ASSUME NEW a PROVE IsSeq(<<a>>)
  <2>1. <<a>> \in Seq({a})
    OBVIOUS
  <2>. QED
    BY <2>1, SeqIsSeq
<1>12. ASSUME NEW a, NEW b, NEW d PROVE IsSeq(<<a, b, d>>)
  <2>1. <<a, b, d>> \in Seq({a, b, d})
    OBVIOUS
  <2>. QED
    BY <2>1, SeqIsSeq
<1>13. ASSUME NEW a, NEW b, NEW d, NEW e PROVE IsSeq(<<a, b, d, e>>)
  <2>1. <<a, b, d, e>> \in Seq({a, b, d, e})
    OBVIOUS
  <2>. QED
    BY <2>1, SeqIsSeq
<1>14. ASSUME NEW a, NEW b, NEW d, NEW e, NEW g PROVE IsSeq(<<a, b, d, e, g>>)
  <2>1. <<a, b, d, e, g>> \in Seq({a, b, d, e, g})
    OBVIOUS
  <2>. QED
    BY <2>1, SeqIsSeq
<1>1. CASE Place(eip, reg, stack, marker)
  <2>1. IsRegs(Cpu!Own)
    BY DEF Cpu!Own, IsRegs
  <2>2. IsSeq(Cpu!Idle) /\ IsSeq(Append(Cpu!Idle, Cpu!Slot("word", "imm")))
    BY <1>11, Pushes DEF Cpu!Idle
  <2>3. ASSUME NEW p \in 1..8, NEW y \in Int, Dating(p, y, reg, stack) PROVE IsRegs(reg)
                 /\ IsSeq(stack)
    <3>1. IsRegs(reg)
      BY <2>3 DEF Dating, IsRegs
    <3>2. CASE p <= 4
      <4>1. stack = <<Cpu!Slot("word", "own"), Cpu!Slot("date", y), Cpu!Slot("address",
              Cpu!Game("idle"))>>
        BY <2>3, <3>2 DEF Dating
      <4>2. IsSeq(<<Cpu!Slot("word", "own"), Cpu!Slot("date", y), Cpu!Slot("address",
              Cpu!Game("idle"))>>)
        BY <1>12, Zenon
      <4>. QED
        BY <3>1, <4>1, <4>2
    <3>3. CASE p = 5
      <4>1. stack = <<Cpu!Slot("word", "own"), Cpu!Slot("date", y), Cpu!Slot("address",
              Cpu!Game("idle")), Cpu!Slot("word", "locals")>>
        BY <2>3, <3>3 DEF Dating
      <4>2. IsSeq(<<Cpu!Slot("word", "own"), Cpu!Slot("date", y), Cpu!Slot("address",
              Cpu!Game("idle")), Cpu!Slot("word", "locals")>>)
        BY <1>13, Zenon
      <4>. QED
        BY <3>1, <4>1, <4>2
    <3>4. CASE p >= 6
      <4>1. stack = <<Cpu!Slot("word", "own"), Cpu!Slot("date", y), Cpu!Slot("address",
              Cpu!Game("idle")), Cpu!Slot("word", "locals"), Cpu!Slot("ebx", 0)>>
        BY <2>3, <3>4 DEF Dating
      <4>2. IsSeq(<<Cpu!Slot("word", "own"), Cpu!Slot("date", y), Cpu!Slot("address",
              Cpu!Game("idle")), Cpu!Slot("word", "locals"), Cpu!Slot("ebx", 0)>>)
        BY <1>14, Zenon
      <4>. QED
        BY <3>1, <4>1, <4>2
    <3>5. p <= 4 \/ p = 5 \/ p >= 6
      OBVIOUS
    <3>. QED
      BY <3>1, <3>2, <3>3, <3>4, <3>5
  <2>4. CASE \E p \in 1..7, y \in Int : eip = Cpu!Address("datestub", 0, p)
               /\ Dating(p, y, reg, stack)
    BY <2>4, <2>3
  <2>5. CASE \E y \in Int : eip = Cpu!Game("datebody") /\ Dating(8, y, reg, stack)
    BY <2>5, <2>3
  <2>. QED
    BY <1>1, <2>1, <2>2, <2>4, <2>5 DEF Place
<1>2. ASSUME NEW i \in 1..Len(sent), NEW p \in Nat, eip = Cpu!Address("call", i, p),
             CallFrame(sent[i], i, p, reg, stack, c[i], home[i], GEngine, made)
      PROVE  IsRegs(reg) /\ IsSeq(stack)
  <2>1. AtCall(c, i, p)
    BY <1>2 DEF AtCall, Below
  <2>. DEFINE q == CallAt(sent[i])
  <2>2. p \in 1..q + 5 /\ q \in Nat
    BY <2>1, Fetches
  <2>3. IsRegs(reg) /\ IsSeq(c[i].stack)
    BY <2>1 DEF AtCall, CallFrame, Saved
  <2>4. IsSeq(Append(c[i].stack, Cpu!Slot("flags", c[i].reg.flags)))
          /\ IsSeq(Append(c[i].stack, Cpu!Slot("address", home[i])))
    BY <2>3, Pushes
  <2>5. CASE p \in {1, 2, q + 3, q + 4, q + 5}
    BY <1>2, <2>2, <2>3, <2>4, <2>5 DEF CallFrame
  <2>6. CASE p \in 3..q + 2
    BY <1>2, <2>3, <2>6 DEF CallFrame, Piled
  <2>7. p \in {1, 2, q + 3, q + 4, q + 5} \/ p \in 3..q + 2
    BY <2>2
  <2>. QED
    BY <2>3, <2>5, <2>6, <2>7
<1>3. ASSUME NEW i \in 1..Len(sent), InEngine(sent[i], i, reg, stack, c[i], made)
      PROVE  IsRegs(reg) /\ IsSeq(stack)
  BY <1>3, Pushes DEF InEngine, Piled
<1>. QED
  BY <1>1, <1>2, <1>3 DEF Here, At

\* A new call interrupts what is there.
LEMMA HijackKeeps ==
  ASSUME Cpu!TrampolineAssumption, SentOK, MadeOK, WordsOK, NEW c, Here(c), Below(c),
           NEW plan \in Plans, Cpu!Hijack(plan)
  PROVE  CodeInv'
<1>. DEFINE L == Len(sent)
            f == plan[L + 1]
            x == [reg |-> reg, stack |-> stack]
            c2 == [k \in 1..L + 1 |-> IF k = L + 1 THEN x ELSE c[k]]
<1>1. sent \in Seq(Funs) /\ L \in Nat /\ IsSeq(home) /\ Len(home) = L /\ IsSeq(word)
        /\ Len(word) = L
      /\ plan \in Seq(Funs) /\ L < Len(plan) /\ sent = SubSeq(plan, 1, L)
           /\ sent' = SubSeq(plan, 1, L + 1)
  BY DEF SentOK, WordsOK, Cpu!TrampolineAssumption, Cpu!Hijack, Funs
<1>2. sent' \in Seq(Funs) /\ Len(sent') = L + 1 /\ sent'[L + 1] = f /\ f \in Funs
      /\ \A k \in 1..L : sent'[k] = sent[k]
  <2>1. sent' \in Seq(Funs) /\ Len(sent') = L + 1 /\ \A k \in 1..L + 1 : sent'[k] = plan[k]
    <3>. HIDE DEF L
    <3>. QED
      BY <1>1
  <2>2. \A k \in 1..L : sent[k] = plan[k]
    <3>1. \A k \in 1..L : SubSeq(plan, 1, L)[k] = plan[k]
      <4>. HIDE DEF L
      <4>. QED
        BY <1>1
    <3>. QED
      BY <1>1, <3>1
  <2>. QED
    BY <1>1, <2>1, <2>2
<1>3. IsSeq(home') /\ Len(home') = L + 1 /\ home'[L + 1] = eip /\ \A k \in 1..L : home'[k] = home[k]
  BY <1>1, Pushes DEF Cpu!Hijack
<1>4. IsSeq(word') /\ Len(word') = L + 1 /\ word'[L + 1] = Cpu!Sentinel
        /\ \A k \in 1..L : word'[k] = word[k]
  BY <1>1, Pushes DEF Cpu!Hijack
<1>5. eip' = Cpu!Address("call", L + 1, 1) /\ UNCHANGED <<reg, stack, made, marker, GEngine>>
  BY DEF Cpu!Hijack
<1>6. SentOK'
  BY <1>2, <1>3, <1>5 DEF SentOK
<1>7. MadeOK'
  BY <1>5 DEF MadeOK
<1>8. WordsOK'
  <2>1. ASSUME NEW k \in 1..L + 1, word'[k] # Cpu!Sentinel PROVE word'[k] \in {"result", "1"}
                 /\ WasMade(k, made')
    <3>1. k \in 1..L
      BY <1>1, <1>4, <2>1
    <3>. QED
      BY <1>1, <1>4, <1>5, <2>1, <3>1 DEF WordsOK
  <2>. QED
    BY <1>2, <1>4, <2>1 DEF WordsOK
<1>9. /\ c2[L + 1] = x /\ x.reg = reg /\ x.stack = stack
      /\ \A i \in 1..L : /\ i \in 1..Len(sent') /\ sent'[i] = sent[i] /\ home'[i] = home[i]
                              /\ c2[i] = c[i]
  BY <1>1, <1>2, <1>3
<1>10. IsRegs(reg) /\ IsSeq(stack)
  BY HereSaved
<1>11. CallFrame(sent'[L + 1], L + 1, 1, reg', stack', c2[L + 1], home'[L + 1], GEngine', made')
  <2>1. CallAt(f) \in {4, 5, 8, 9, 10}
    BY <1>2, TheirCalls DEF Funs
  <2>. HIDE DEF f, c2, x
  <2>. QED
    BY <1>2, <1>5, <1>9, <1>10, <2>1 DEF CallFrame
<1>12. At(eip', reg', stack', c2, sent', home', marker', GEngine', made')
  <2>1. L + 1 \in 1..Len(sent') /\ 1 \in Nat
    BY <1>1, <1>2
  <2>. HIDE DEF c2
  <2>. QED
    BY <1>5, <1>11, <2>1 DEF At
<1>13. ASSUME NEW i \in 1..L + 1
       PROVE  Saved(c2[i])
                /\ At(home'[i], c2[i].reg, c2[i].stack, c2, sent', home', marker', GEngine', made')
  <2>1. CASE i = L + 1
    <3>1. At(eip, reg, stack, c, sent, home, marker, GEngine, made)
      BY DEF Here
    <3>2. At(eip, reg, stack, c2, sent', home', marker', GEngine', made')
      <4>. HIDE DEF c2, x
      <4>. QED
        BY <1>5, <1>9, <3>1, Stays
    <3>. QED
      BY <1>3, <1>9, <1>10, <2>1, <3>2 DEF Saved
  <2>2. CASE i \in 1..L
    <3>1. Saved(c[i]) /\ At(home[i], c[i].reg, c[i].stack, c, sent, home, marker, GEngine, made)
      BY <2>2 DEF Below
    <3>2. At(home[i], c[i].reg, c[i].stack, c2, sent', home', marker', GEngine', made')
      <4>. HIDE DEF c2, x
      <4>. QED
        BY <1>5, <1>9, <3>1, Stays
    <3>. QED
      BY <1>9, <2>2, <3>1, <3>2
  <2>. QED
    BY <1>1, <2>1, <2>2
<1>14. \E d : Here(d)' /\ Below(d)'
  <2>. HIDE DEF c2, x, f, L
  <2>1. PICK d : d = c2
    OBVIOUS
  <2>2. At(eip', reg', stack', d, sent', home', marker', GEngine', made')
    BY <1>12, <2>1
  <2>3. \A i \in 1..Len(sent') : Saved(d[i])
          /\ At(home'[i], d[i].reg, d[i].stack, d, sent', home', marker', GEngine', made')
    BY <1>2, <1>13, <2>1
  <2>. QED
    BY <2>2, <2>3 DEF Here, Below
<1>. QED
  BY <1>6, <1>7, <1>8, <1>14 DEF CodeInv

LEMMA EngineKeeps ==
  ASSUME SentOK, MadeOK, WordsOK, NEW c, Here(c), Below(c), Cpu!EngineComes
  PROVE  CodeInv'
<1>1. SentOK' /\ MadeOK' /\ WordsOK' /\ Below(c)'
  <2>1. SentOK' /\ MadeOK' /\ WordsOK'
    BY DEF Cpu!EngineComes, SentOK, MadeOK, WordsOK
  <2>2. Below(c)'
    BY BelowStays DEF Cpu!EngineComes
  <2>. QED
    BY <2>1, <2>2
<1>2. Here(c)'
  <2>1. At(eip, reg, stack, c, sent, home, marker, GEngine, made)
    BY DEF Here
  <2>2. UNCHANGED <<eip, reg, stack, sent, home, made, marker>> /\ GEngine' = "up"
    BY DEF Cpu!EngineComes
  <2>3. At(eip, reg, stack, c, sent, home, marker, GEngine', made)
    BY <2>1, <2>2, Stays
  <2>. QED
    BY <2>2, <2>3 DEF Here
<1>. QED
  BY <1>1, <1>2 DEF CodeInv

LEMMA CodeInit == ASSUME Cpu!Init PROVE CodeInv
<1>1. sent = <<>> /\ home = <<>> /\ word = <<>> /\ made = {} /\ marker = 0 /\ GEngine \in {"none",
        "up"}
      /\ eip = Cpu!Game("idle") /\ reg = Cpu!Own /\ stack = Cpu!Idle
  BY DEF Cpu!Init
<1>2. SentOK
  BY <1>1, NoElements DEF SentOK
<1>3. MadeOK /\ WordsOK
  BY <1>1, NoElements DEF MadeOK, WordsOK
<1>4. \A c : Here(c) /\ Below(c)
  BY <1>1 DEF Here, At, Place, Below
<1>. QED
  BY <1>2, <1>3, <1>4 DEF CodeInv

LEMMA CodeKeeps == ASSUME Cpu!TrampolineAssumption, CodeInv, [Cpu!Next]_(Cpu!vars) PROVE CodeInv'
<1>1. PICK c : Here(c) /\ Below(c)
  BY DEF CodeInv
<1>2. SentOK /\ MadeOK /\ WordsOK
  BY DEF CodeInv
<1>3. CASE CodeStep
  BY <1>1, <1>2, <1>3, StepKeeps DEF CodeInv
<1>4. ASSUME NEW plan \in Plans, Cpu!Hijack(plan) PROVE CodeInv'
  BY <1>1, <1>2, <1>4, HijackKeeps
<1>5. CASE Cpu!EngineComes
  BY <1>1, <1>2, <1>5, EngineKeeps
<1>6. CASE UNCHANGED Cpu!vars
  <2>1. UNCHANGED <<eip, reg, stack, sent, home, word, made, marker, GEngine>>
    BY <1>6 DEF Cpu!vars
  <2>2. SentOK' /\ MadeOK' /\ WordsOK'
    BY <1>2, <2>1 DEF SentOK, MadeOK, WordsOK
  <2>3. Here(c)' /\ Below(c)'
    BY <1>1, <2>1 DEF Here, Below
  <2>. QED
    BY <2>2, <2>3 DEF CodeInv
<1>. QED
  BY <1>3, <1>4, <1>5, <1>6 DEF Cpu!Next, CodeStep

LEMMA CodeRight == ASSUME CodeInv PROVE Cpu!ThreadRestored /\ Cpu!CallsRight
<1>1. PICK c : Here(c) /\ Below(c)
  BY DEF CodeInv
<1>2. Cpu!ThreadRestored
  <2>1. CASE Place(eip, reg, stack, marker)
    <3>1. CASE eip = Cpu!Game("idle") /\ reg = Cpu!Own /\ stack = Cpu!Idle
      BY <3>1 DEF Cpu!ThreadRestored, Cpu!Game, Cpu!Address
    <3>2. CASE \E p \in 1..3 : eip = Cpu!Address("hook", 0, p)
      BY <3>2 DEF Cpu!ThreadRestored, Cpu!Address
    <3>3. CASE eip = Cpu!Game("afterpush") /\ reg = Cpu!Own
                 /\ stack = Append(Cpu!Idle, Cpu!Slot("word", "imm")) /\ marker = 1
      BY <3>3 DEF Cpu!ThreadRestored, Cpu!Game, Cpu!Address
    <3>4. CASE \E p \in 1..7 : eip = Cpu!Address("datestub", 0, p)
      BY <3>4 DEF Cpu!ThreadRestored, Cpu!Address
    <3>5. ASSUME NEW y \in Int, eip = Cpu!Game("datebody"), Dating(8, y, reg, stack)
                   PROVE Cpu!ThreadRestored
      <4>1. eip.at = "datebody"
        BY <3>5 DEF Cpu!Game, Cpu!Address
      <4>2. reg = [eax |-> "own", ebx |-> y, ecx |-> "own", edx |-> "own", flags |-> reg.flags]
              /\ y >= 1900
        BY <3>5 DEF Dating
      <4>3. stack = <<Cpu!Slot("word", "own"), Cpu!Slot("date", y), Cpu!Slot("address",
              Cpu!Game("idle")),
                      Cpu!Slot("word", "locals"), Cpu!Slot("ebx", 0)>>
        BY <3>5 DEF Dating
      <4>4. stack = Cpu!Idle \o <<Cpu!Slot("date", y), Cpu!Slot("address", Cpu!Game("idle")),
              Cpu!Slot("word", "locals"), Cpu!Slot("ebx", 0)>>
        BY <4>3, FiveOf DEF Cpu!Idle
      <4>5. reg.ebx = y /\ \A r \in {"eax", "ecx", "edx"} : reg[r] = "own"
        BY <4>2
      <4>. QED
        BY <4>1, <4>2, <4>4, <4>5 DEF Cpu!ThreadRestored
    <3>. QED
      BY <2>1, <3>1, <3>2, <3>3, <3>4, <3>5 DEF Place
  <2>2. CASE eip.at \in {"call", "engine"}
    BY <2>2 DEF Cpu!ThreadRestored
  <2>. QED
    BY <1>1, <2>1, <2>2 DEF Here, At, Cpu!Address
<1>3. Cpu!CallsRight
  <2>1. MadeOK /\ WordsOK
    BY DEF CodeInv
  <2>. QED
    BY <2>1 DEF Cpu!CallsRight, MadeOK, WordsOK, WasMade
<1>. QED
  BY <1>2, <1>3

-----------------------------------------------------------------------------
\* Back in its own code, the game thread has the registers, flags and stack that code left
\* there, whatever calls the loader has put on it and wherever in another call's
\* trampoline it was stopped for one.
THEOREM ThreadComesBack == ASSUME Cpu!TrampolineAssumption PROVE Cpu!Spec => []Cpu!ThreadRestored
<1>1. Cpu!Init => CodeInv
  BY CodeInit
<1>2. CodeInv /\ [Cpu!Next]_(Cpu!vars) => CodeInv'
  BY CodeKeeps
<1>3. CodeInv => Cpu!ThreadRestored
  BY CodeRight
<1>. QED
  BY <1>1, <1>2, <1>3, PTL DEF Cpu!Spec

\* Every call a trampoline makes has the object and the arguments its function takes, an
\* engine call only when there is an engine; a result is of a call that was made.
THEOREM CallsAreRight == ASSUME Cpu!TrampolineAssumption PROVE Cpu!Spec => []Cpu!CallsRight
<1>1. Cpu!Init => CodeInv
  BY CodeInit
<1>2. CodeInv /\ [Cpu!Next]_(Cpu!vars) => CodeInv'
  BY CodeKeeps
<1>3. CodeInv => Cpu!CallsRight
  BY CodeRight
<1>. QED
  BY <1>1, <1>2, <1>3, PTL DEF Cpu!Spec
=============================================================================
