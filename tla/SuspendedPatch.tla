--------------------------- MODULE SuspendedPatch ---------------------------
(***************************************************************************)
(* The launch helper tools/patches/patch_tcls_suspended_launch.py and the  *)
(* date patch tools/patches/patch_tgame_datetime.py, which the helper      *)
(* calls and which a user may also run by itself.                          *)
(*                                                                         *)
(* The helper overwrites four bytes of the launcher so that START creates  *)
(* TGame suspended, waits for that child, puts the bytes back, patches the *)
(* child and resumes it.  Around it run the launcher, its user, and TGame  *)
(* processes that come and go and whose pids the system uses again.        *)
(*                                                                         *)
(* A game is a process object: its number is what an open handle names,    *)
(* its pid is what the tools look up.                                      *)
(***************************************************************************)
EXTENDS Integers, FiniteSets

CONSTANTS
  Pids,         \* pids the system gives to TGame processes
  MaxGames,     \* bound: TGame processes that ever start
  Years,        \* years TGame asks a date for
  Faults,       \* where a tool may be when a system call fails
  InterruptAt   \* where the helper may be when Ctrl+C arrives

PatchAssumption == MaxGames \in Nat /\ Years \subseteq Int

VARIABLES
  client,    \* the launcher process, and whether TCLS is mapped in it
  site,      \* the four bytes at patch_site
  game,      \* the TGame processes
  pc,        \* where each tool is
  job,       \* which write_code call the helper is in
  armed,     \* tcls_armed
  existing,  \* existing_tgame
  aim,       \* the pid each tool has chosen
  hand       \* the process each tool's open handle names, 0 for none

tools == <<pc, job, armed, existing, aim, hand>>
vars  == <<client, site, game, tools>>

Games == 1..MaxGames
Tools == {"helper", "dater"}  \* main() of each script
Unborn == [life |-> "unborn", pid |-> 0, child |-> FALSE, held |-> FALSE,
           entry |-> "original", stubs |-> {}, released |-> FALSE, early |-> FALSE]
Alive(n) == game[n].life = "alive"
TGame == {n \in Games : Alive(n)}
PidsFor == {game[n].pid : n \in TGame}

Stopped == {"done", "left", "raised"}
HasEnded == pc["helper"] \in Stopped
\* The inner try of the helper's main(), whose finally restores TCLS.
InTry == {"module", "list", "check", "write", "verify", "await"}
Init ==
  /\ client = "absent" /\ site = "original"
  /\ game = [n \in Games |-> Unborn]
  /\ pc = [t \in Tools |-> IF t = "helper" THEN "debugger" ELSE "open"]
  /\ job = "arm" /\ armed = FALSE /\ existing = {}
  /\ aim = [t \in Tools |-> 0] /\ hand = [t \in Tools |-> 0]

Rest == UNCHANGED <<client, site, game, job, armed, existing, aim, hand>>
Goto(t, where) == pc' = [pc EXCEPT ![t] = where]

-----------------------------------------------------------------------------
(* The launcher, its user and the games.                                   *)

Launcher ==
  /\ \/ client = "absent" /\ client' = "loading"
     \/ client = "loading" /\ client' = "ready"
     \/ client \in {"loading", "ready"} /\ client' = "gone"
  /\ UNCHANGED <<site, game, tools>>

\* CreateProcessW: the pid is any that no living process has.
Created(child, held) ==
  /\ \E n \in Games : \E p \in Pids \ PidsFor :
       /\ \A m \in Games : m < n <=> game[m].life # "unborn"
       /\ game' = [game EXCEPT ![n] =
                     [Unborn EXCEPT !.life = "alive", !.pid = p, !.child = child, !.held = held]]
  /\ UNCHANGED <<client, site, tools>>

\* START in the launcher, with the flags the bytes stand for; and a TGame
\* somebody starts without the launcher.
ClickStart == client = "ready" /\ site # "unknown" /\ Created(TRUE, site = "suspend")
Stranger == Created(FALSE, FALSE)

Dies(n) ==
  /\ Alive(n)
  /\ game' = [game EXCEPT ![n] = [Unborn EXCEPT !.life = "dead"]]
  /\ UNCHANGED <<client, site, tools>>

\* What the trampoline makes of the year on the stack: signed less-than 1900.
BadFixed(year) == IF year < 1899 THEN 2026 ELSE year
Fixed(year) == IF year < 1900 THEN 2026 ELSE year

\* A running game asks for a date, through the trampoline if its entry jumps there.
\* What the games the helper did not resume see is not followed.
AsksDate(n, year) ==
  /\ Alive(n) /\ ~game[n].held /\ game[n].released
  /\ LET seen == IF game[n].entry = "original" THEN year ELSE Fixed(year)
     IN  game' = [game EXCEPT ![n].early = @ \/ seen < 1900]
  /\ UNCHANGED <<client, site, tools>>

-----------------------------------------------------------------------------
(* The helper: from its start to TCLS ARMED.                               *)

\* An exception in the try runs the finally; anywhere else it ends the helper.
Raise == Goto("helper", IF pc["helper"] \in InTry /\ job # "emergency" THEN "finally" ELSE "raised")
Raises == Raise /\ Rest

\* x32dbg_running() may be true.
ChecksDebugger ==
  /\ pc["helper"] = "debugger"
  /\ \/ Goto("helper", "client") \/ Goto("helper", "raised")
  /\ Rest

FindsClient ==
  /\ pc["helper"] = "client" /\ client \in {"loading", "ready"}
  /\ Goto("helper", "module")
  /\ Rest

FindsModule ==
  /\ pc["helper"] = "module" /\ client = "ready"
  /\ Goto("helper", "list")
  /\ Rest

ListsGames ==
  /\ pc["helper"] = "list"
  /\ existing' = PidsFor
  /\ Goto("helper", "check")
  /\ UNCHANGED <<client, site, game, job, armed, aim, hand>>

\* The three waits of main() end by their time-outs.
TimesOut == pc["helper"] \in {"client", "module", "await", "open"} /\ Raises

-----------------------------------------------------------------------------
(* write_code: the bytes must be the expected ones, are written, and are   *)
(* read back.                                                              *)

Expected == IF job = "arm" THEN "original" ELSE "suspend"
Replacement == IF job = "arm" THEN "suspend" ELSE "original"

CheckCode ==
  /\ pc["helper"] = "check"
  /\ \/ /\ client = "ready" /\ site = Expected
        /\ Goto("helper", "write")
        /\ Rest
     \/ (client # "ready" \/ site # Expected \/ "check" \in Faults) /\ Raises

\* A write may fail, or be short and leave bytes nobody knows.
WriteCode ==
  /\ pc["helper"] = "write"
  /\ \/ /\ client = "ready" /\ site' = Replacement
        /\ Goto("helper", "verify")
        /\ UNCHANGED <<client, game, job, armed, existing, aim, hand>>
     \/ /\ client = "ready" /\ "write" \in Faults /\ site' = "unknown"
        /\ Raise
        /\ UNCHANGED <<client, game, job, armed, existing, aim, hand>>
     \/ (client # "ready" \/ "write" \in Faults) /\ Raises

\* tcls_armed is set after write_code has returned, not when the bytes are written.
VerifyCode ==
  /\ pc["helper"] = "verify"
  /\ \/ /\ client = "ready" /\ site = Replacement
        /\ armed' = (job = "arm")
        /\ job' = IF job = "arm" THEN "restore" ELSE job
        /\ Goto("helper", CASE job = "arm" -> "await" [] job = "restore" -> "open"
                            [] OTHER -> "raised")
        /\ UNCHANGED <<client, site, game, existing, aim, hand>>
     \/ (client # "ready" \/ "verify" \in Faults) /\ Raises

\* wait_for_new_game: a child of the launcher if there is one, else any new TGame.
NewGames == {n \in TGame : game[n].pid \notin existing}
FindsGame ==
  /\ pc["helper"] = "await"
  /\ \E n \in NewGames :
       /\ (\E m \in NewGames : game[m].child) => game[n].child
       /\ aim' = [aim EXCEPT !["helper"] = game[n].pid]
  /\ Goto("helper", "check")
  /\ UNCHANGED <<client, site, game, job, armed, existing, hand>>

\* The finally: bytes that are still the temporary ones are put back; anything that
\* goes wrong, the read of the bytes included, is only a warning, and the exception
\* goes on.
BadRestores == armed /\ client = "ready" /\ site = "suspend" /\ aim["helper"] # 0
Restores == armed /\ client = "ready" /\ site = "suspend"
Finally ==
  /\ pc["helper"] = "finally"
  /\ \/ Restores /\ job' = "emergency" /\ Goto("helper", "check")
     \/ (~Restores \/ "finally" \in Faults) /\ Goto("helper", "raised") /\ UNCHANGED job
  /\ UNCHANGED <<client, site, game, armed, existing, aim, hand>>

\* Ctrl+C, once: a second one in the middle of the finally is not modelled.
Interrupt ==
  /\ pc["helper"] \in InterruptAt /\ job # "emergency"
  /\ Raises

-----------------------------------------------------------------------------
(* patch_process, of either tool.  The handle names the process that had   *)
(* the pid when it was opened.                                             *)

\* The helper looks for the image of the pid it chose; the date patcher for any TGame.
FindsImage(t) ==
  /\ pc[t] = "open"
  /\ \E n \in TGame :
       /\ t = "helper" => game[n].pid = aim[t]
       /\ aim' = [aim EXCEPT ![t] = game[n].pid]
  /\ Goto(t, "read")
  /\ UNCHANGED <<client, site, game, job, armed, existing, hand>>

Fails(t) == Goto(t, "raised") /\ Rest

ReadEntry(t) ==
  /\ pc[t] = "read"
  /\ \/ \E n \in TGame :
          /\ game[n].pid = aim[t] /\ game[n].entry = "original"
          /\ hand' = [hand EXCEPT ![t] = n]
          /\ Goto(t, "stub")
          /\ UNCHANGED <<client, site, game, job, armed, existing, aim>>
     \/ ((\A n \in TGame : game[n].pid = aim[t] => game[n].entry # "original")
           \/ "read" \in Faults) /\ Fails(t)

Writes(t, from, to, written) ==
  /\ pc[t] = from
  /\ \/ /\ Alive(hand[t])
        /\ game' = [game EXCEPT ![hand[t]] = written]
        /\ Goto(t, to)
        /\ UNCHANGED <<client, site, job, armed, existing, aim, hand>>
     \/ (~Alive(hand[t]) \/ from \in Faults) /\ Fails(t)

BadWriteStub(t) == Writes(t, "stub", "entry", [game[hand[t]] EXCEPT !.entry = t])
WriteStub(t) == Writes(t, "stub", "entry", [game[hand[t]] EXCEPT !.stubs = @ \cup {t}])
WriteEntry(t) == Writes(t, "entry", "reread", [game[hand[t]] EXCEPT !.entry = t])

\* The bytes read back may be another tool's jump.  A helper told so leaves the game
\* suspended; --leave-suspended does too.
Reread(t) ==
  /\ pc[t] = "reread"
  /\ \/ /\ Alive(hand[t]) /\ game[hand[t]].entry = t
        /\ \/ Goto(t, IF t = "helper" THEN "resume" ELSE "done")
           \/ t = "helper" /\ Goto(t, "left")
        /\ Rest
     \/ (~Alive(hand[t]) \/ game[hand[t]].entry # t \/ "reread" \in Faults) /\ Fails(t)

\* resume_primary_thread opens the pid once more; a thread that is not suspended
\* is refused.
Resume ==
  /\ pc["helper"] = "resume"
  /\ \/ \E n \in TGame :
          /\ game[n].pid = aim["helper"] /\ game[n].held
          /\ game' = [game EXCEPT ![n].held = FALSE, ![n].released = TRUE]
          /\ Goto("helper", "done")
          /\ UNCHANGED <<client, site, job, armed, existing, aim, hand>>
     \/ (\A n \in TGame : game[n].pid = aim["helper"] => ~game[n].held) /\ Fails("helper")

\* The date patcher gives up after 300 s without a TGame, or at Ctrl+C.
DaterStops == pc["dater"] = "open" /\ Fails("dater")

-----------------------------------------------------------------------------
Helper ==
  \/ ChecksDebugger \/ FindsClient \/ FindsModule \/ ListsGames \/ TimesOut
  \/ CheckCode \/ WriteCode \/ VerifyCode \/ FindsGame \/ Finally
  \/ FindsImage("helper") \/ ReadEntry("helper") \/ WriteStub("helper")
  \/ WriteEntry("helper") \/ Reread("helper") \/ Resume
Dater ==
  \/ FindsImage("dater") \/ ReadEntry("dater") \/ WriteStub("dater")
  \/ WriteEntry("dater") \/ Reread("dater") \/ DaterStops
World ==
  \/ Launcher \/ ClickStart \/ Stranger
  \/ \E n \in Games : Dies(n) \/ \E y \in Years : AsksDate(n, y)

Next == Helper \/ Dater \/ Interrupt \/ World
Spec == Init /\ [][Next]_vars
\* The tools run; nobody promises that a launcher or a game does.
FairSpec == Spec /\ WF_vars(Helper) /\ WF_vars(Dater)

-----------------------------------------------------------------------------
\* A game the helper has resumed never works with a date before 1900, whoever else
\* patched it, whichever process has its pid, and whatever failed on the way.
DatesFixed == \A n \in Games : game[n].released => ~game[n].early

\* No living TGame ever has an entry that jumps to a trampoline not written yet.
StubFirst == \A n \in TGame : game[n].entry \in game[n].stubs \cup {"original"}

\* A helper that has ended leaves START as it found it: no access to the launcher's
\* memory failed, and Ctrl+C did not come between the write and the line that notes it.
TclsRestored == HasEnded /\ client = "ready" => site = "original"

\* The helper always comes to an end, by one of its time-outs if nobody starts the
\* launcher or presses START.
HelperEnds == <>HasEnded
=============================================================================
