------------------------ MODULE SuspendedPatchProofs ------------------------
(***************************************************************************)
(* Proofs about SuspendedPatch for any pids, games, years and faults: that *)
(* a game the helper has resumed never sees a date before 1900             *)
(* (DatesFixed), that no entry jumps to a trampoline not written yet       *)
(* (StubFirst), and, where no access to the launcher's memory fails and no *)
(* Ctrl+C comes between the write and the line that notes it, that START   *)
(* is left as it was found (TclsRestored).                                 *)
(***************************************************************************)
EXTENDS SuspendedPatch, TLAPS

-----------------------------------------------------------------------------
(* The inductive invariant                                                 *)

Game == [life : {"unborn", "alive", "dead"}, pid : Pids \cup {0}, child : BOOLEAN,
         held : BOOLEAN, entry : Tools \cup {"original"}, stubs : SUBSET Tools,
         released : BOOLEAN, early : BOOLEAN]
Places == {"debugger", "client", "module", "list", "check", "write", "verify", "await",
           "finally", "open", "read", "stub", "entry", "reread", "resume"} \cup Stopped

TypesOK ==
  /\ client \in {"absent", "loading", "ready", "gone"}
  /\ site \in {"original", "suspend", "unknown"}
  /\ game \in [Games -> Game]
  /\ pc \in [Tools -> Places]
  /\ job \in {"arm", "restore", "emergency"} /\ armed \in BOOLEAN
  /\ aim \in [Tools -> Pids \cup {0}] /\ hand \in [Tools -> 0 .. MaxGames]

\* No two living games have one pid.
PidsOK == \A m, n \in Games : Alive(m) /\ Alive(n) /\ game[m].pid = game[n].pid => m = n

\* The handle a tool writes through names the game it aimed at, or one that has died
\* since; by the time it writes the entry, its trampoline is in that game.
Patching == {"stub", "entry", "reread"}
HandOK(t) ==
  /\ pc[t] \in Patching =>
       /\ hand[t] \in Games /\ game[hand[t]].life # "unborn"
       /\ Alive(hand[t]) => game[hand[t]].pid = aim[t]
  /\ pc[t] = "entry" /\ Alive(hand[t]) => t \in game[hand[t]].stubs
HandsOK == \A t \in Tools : HandOK(t)

GameOK(n) ==
  /\ game[n].entry \in game[n].stubs \cup {"original"}
  /\ ~game[n].early /\ (game[n].released => game[n].entry # "original")
GamesOK == \A n \in Games : GameOK(n)

\* Once the helper looks for the image, START does not create suspended games any more,
\* so that the suspended game it resumes is the one it has patched.
After == {"open", "read", "stub", "entry", "reread", "resume"}
SiteOK == pc["helper"] \in After => client = "gone" \/ (client = "ready" /\ site = "original")
ResumeOK ==
  pc["helper"] = "resume" =>
    \A n \in Games : Alive(n) /\ game[n].pid = aim["helper"] /\ game[n].held =>
      game[n].entry # "original"

Inv == TypesOK /\ PidsOK /\ HandsOK /\ GamesOK /\ SiteOK /\ ResumeOK

LEMMA InitInv == ASSUME PatchAssumption, Init PROVE Inv
<1>1. TypesOK
  <2>1. Unborn \in Game
    BY DEF Unborn, Game, Tools
  <2>2. game \in [Games -> Game]
    BY <2>1 DEF Init
  <2>3. pc \in [Tools -> Places]
    BY DEF Init, Places
  <2>4. 0 \in 0 .. MaxGames
    BY DEF PatchAssumption
  <2>5. aim \in [Tools -> Pids \cup {0}] /\ hand \in [Tools -> 0 .. MaxGames]
    BY <2>4 DEF Init
  <2> QED BY <2>2, <2>3, <2>5 DEF Init, TypesOK
<1>2. \A n \in Games : game[n] = Unborn
  BY DEF Init
<1>3. PidsOK /\ GamesOK
  BY <1>2 DEF PidsOK, GamesOK, GameOK, Alive, Unborn
<1>4. pc["helper"] = "debugger" /\ pc["dater"] = "open"
  BY DEF Init, Tools
<1>5. HandsOK /\ SiteOK /\ ResumeOK
  BY <1>4 DEF HandsOK, HandOK, Patching, SiteOK, After, ResumeOK, Tools
<1> QED BY <1>1, <1>3, <1>5 DEF Inv

LEMMA InvImplies == Inv => DatesFixed /\ StubFirst
BY DEF Inv, GamesOK, GameOK, DatesFixed, StubFirst, TGame

-----------------------------------------------------------------------------
(* Steps that change no game                                               *)

\* A tool goes elsewhere, where it relies on no handle.
LEMMA QuietStep ==
  ASSUME Inv, UNCHANGED <<game, hand>>, TypesOK', SiteOK',
         \A t \in Tools : \/ pc'[t] = pc[t] /\ aim'[t] = aim[t]
                          \/ pc'[t] \notin Patching \cup {"resume"}
  PROVE  Inv'
<1>1. PidsOK' /\ GamesOK'
  BY DEF Inv, PidsOK, GamesOK, GameOK, Alive
<1>2. HandsOK'
  BY DEF Inv, HandsOK, HandOK, Alive, Patching
<1>3. ResumeOK'
  BY DEF Inv, ResumeOK, Alive, Tools
<1> QED BY <1>1, <1>2, <1>3 DEF Inv

\* Where a helper that raises goes on.
LEMMA RaiseGoes ==
  ASSUME TypesOK, Raise
  PROVE  /\ pc' \in [Tools -> Places] /\ pc'["helper"] \in {"finally", "raised"}
         /\ pc'["dater"] = pc["dater"]
BY DEF TypesOK, Raise, Goto, Tools, Places, Stopped

LEMMA HelperGoes ==
  ASSUME TypesOK, NEW where \in Places, Goto("helper", where)
  PROVE  /\ pc' \in [Tools -> Places] /\ pc'["helper"] = where /\ pc'["dater"] = pc["dater"]
BY DEF TypesOK, Goto, Tools

\* The helper before it looks for the image, and its finally.
LEMMA HelperInv ==
  ASSUME Inv,
         \/ ChecksDebugger \/ FindsClient \/ FindsModule \/ ListsGames \/ TimesOut
         \/ CheckCode \/ WriteCode \/ VerifyCode \/ FindsGame \/ Finally \/ Interrupt
  PROVE  Inv'
<1> DEFINE Goes(where) == Goto("helper", where) /\ UNCHANGED aim
<1>1. TypesOK /\ UNCHANGED <<game, hand, client>>
  BY DEF Inv, ChecksDebugger, FindsClient, FindsModule, ListsGames, TimesOut, CheckCode,
         WriteCode, VerifyCode, FindsGame, Finally, Interrupt, Raises, Rest
<1>2. /\ pc' \in [Tools -> Places] /\ pc'["dater"] = pc["dater"]
      /\ pc'["helper"] \notin Patching \cup {"resume"}
      /\ pc'["helper"] \in After =>
           pc'["helper"] = "open" /\ job = "restore" /\ client = "ready" /\ site' = "original"
  <2>1. CASE Raise
    BY <1>1, <2>1, RaiseGoes DEF After, Patching
  <2>2. CASE \E where \in {"client", "raised", "module", "list", "check", "write", "verify"} :
               Goto("helper", where)
    BY <1>1, <2>2, HelperGoes DEF After, Patching, Places, Stopped
  <2>3. CASE VerifyCode /\ ~Raise
    <3>1. /\ client = "ready" /\ site = Replacement /\ site' = site
          /\ Goto("helper", CASE job = "arm" -> "await" [] job = "restore" -> "open"
                              [] OTHER -> "raised")
      BY <2>3 DEF VerifyCode, Raises
    <3>2. CASE job = "arm"
      BY <1>1, <3>1, <3>2, HelperGoes DEF After, Patching, Places
    <3>3. CASE job = "restore"
      BY <1>1, <3>1, <3>3, HelperGoes DEF Replacement, After, Patching, Places
    <3>4. CASE job = "emergency"
      BY <1>1, <3>1, <3>4, HelperGoes DEF After, Patching, Places, Stopped
    <3> QED BY <1>1, <3>2, <3>3, <3>4 DEF TypesOK
  <2> QED BY <2>1, <2>2, <2>3
          DEF ChecksDebugger, FindsClient, FindsModule, ListsGames, TimesOut, CheckCode,
              WriteCode, VerifyCode, FindsGame, Finally, Interrupt, Raises
<1>3. /\ site' \in {"original", "suspend", "unknown"}
      /\ job' \in {"arm", "restore", "emergency"} /\ armed' \in BOOLEAN
  BY <1>1 DEF TypesOK, ChecksDebugger, FindsClient, FindsModule, ListsGames, TimesOut, CheckCode,
              WriteCode, VerifyCode, FindsGame, Finally, Interrupt, Raises, Rest, Replacement
<1>4. aim' \in [Tools -> Pids \cup {0}] /\ aim'["dater"] = aim["dater"]
  <2>1. CASE FindsGame
    <3>1. PICK n \in NewGames : aim' = [aim EXCEPT !["helper"] = game[n].pid]
      BY <2>1 DEF FindsGame
    <3>2. game[n].pid \in Pids \cup {0}
      BY <1>1 DEF NewGames, TGame, TypesOK, Game
    <3> QED BY <1>1, <3>1, <3>2 DEF TypesOK, Tools
  <2>2. CASE ~FindsGame
    <3>1. UNCHANGED aim
      BY <2>2 DEF ChecksDebugger, FindsClient, FindsModule, ListsGames, TimesOut, CheckCode,
             WriteCode, VerifyCode, Finally, Interrupt, Raises, Rest
    <3> QED BY <1>1, <3>1 DEF TypesOK
  <2> QED BY <2>1, <2>2
<1>5. TypesOK'
  BY <1>1, <1>2, <1>3, <1>4 DEF TypesOK
<1>6. SiteOK'
  BY <1>1, <1>2 DEF SiteOK
<1>7. \A t \in Tools : \/ pc'[t] = pc[t] /\ aim'[t] = aim[t]
                       \/ pc'[t] \notin Patching \cup {"resume"}
  BY <1>2, <1>4 DEF Tools
<1> QED BY <1>1, <1>5, <1>6, <1>7, QuietStep
-----------------------------------------------------------------------------
(* Steps of the launcher, its user and the games                           *)

LEMMA LauncherInv == ASSUME Inv, Launcher PROVE Inv'
<1>1. /\ UNCHANGED <<site, game, pc, job, armed, existing, aim, hand>>
      /\ client' \in {"loading", "ready", "gone"}
      /\ client = "ready" => client' = "gone"
      /\ client \notin {"absent", "gone"} \/ client' = "loading"
  BY DEF Launcher, tools
<1>2. client # "gone"
  BY DEF Launcher
<1>3. TypesOK' /\ SiteOK'
  BY <1>1, <1>2 DEF Inv, TypesOK, SiteOK
<1> QED BY <1>1, <1>3, QuietStep

\* A game changes in itself; whichever it is, the tools stay where they are.
LEMMA GameStep ==
  ASSUME Inv, UNCHANGED <<client, site, tools>>,
         NEW n \in Games, NEW g \in Game, game' = [game EXCEPT ![n] = g],
         g.life = "alive" => \A m \in Games : Alive(m) /\ game[m].pid = g.pid => m = n,
         \A t \in Tools : pc[t] \in Patching /\ hand[t] = n =>
           /\ g.life # "unborn"
           /\ g.life = "alive" => g.pid = aim[t] /\ (pc[t] = "entry" => t \in g.stubs),
         g.entry \in g.stubs \cup {"original"},
         ~g.early /\ (g.released => g.entry # "original"),
         pc["helper"] = "resume" /\ g.life = "alive" /\ g.pid = aim["helper"] /\ g.held =>
           g.entry # "original"
  PROVE  Inv'
<1>0. TypesOK /\ UNCHANGED <<pc, job, armed, existing, aim, hand>>
  BY DEF Inv, tools
<1>1. game' \in [Games -> Game] /\ \A m \in Games : game'[m] = IF m = n THEN g ELSE game[m]
  BY <1>0 DEF TypesOK
<1>2. TypesOK'
  BY <1>0, <1>1 DEF TypesOK
<1>3. PidsOK'
  BY <1>1 DEF Inv, PidsOK, Alive
<1>4. HandsOK'
  <2> SUFFICES ASSUME NEW t \in Tools PROVE HandOK(t)'
    BY DEF HandsOK
  <2>1. HandOK(t)
    BY DEF Inv, HandsOK
  <2> QED BY <1>0, <1>1, <2>1 DEF HandOK, Alive, Patching
<1>5. GamesOK'
  BY <1>1 DEF Inv, GamesOK, GameOK
<1>6. ResumeOK'
  BY <1>0, <1>1 DEF Inv, ResumeOK, Alive
<1>7. SiteOK'
  BY <1>0 DEF Inv, SiteOK
<1> QED BY <1>2, <1>3, <1>4, <1>5, <1>6, <1>7 DEF Inv

LEMMA CreatedInv ==
  ASSUME Inv, NEW child \in BOOLEAN, NEW held \in BOOLEAN, Created(child, held),
         pc["helper"] = "resume" => ~held
  PROVE  Inv'
<1> DEFINE Born(p) == [Unborn EXCEPT !.life = "alive", !.pid = p, !.child = child, !.held = held]
<1>1. PICK n \in Games, p \in Pids \ PidsFor :
        /\ \A m \in Games : m < n <=> game[m].life # "unborn"
        /\ game' = [game EXCEPT ![n] = Born(p)]
  BY Zenon DEF Created
<1>2. UNCHANGED <<client, site, tools>>
  BY DEF Created
<1>3. game[n].life = "unborn"
  BY <1>1 DEF Games
<1>4. /\ Born(p) \in Game /\ Born(p).life = "alive" /\ Born(p).pid = p /\ Born(p).held = held
      /\ Born(p).entry = "original" /\ Born(p).stubs = {}
      /\ ~Born(p).early /\ ~Born(p).released
  BY DEF Unborn, Game, Tools
<1>5. \A m \in Games : Alive(m) => game[m].pid # p
  BY <1>1 DEF PidsFor, TGame
<1>6. \A t \in Tools : pc[t] \in Patching => hand[t] # n
  BY <1>3 DEF Inv, HandsOK, HandOK
<1> HIDE DEF Born
<1>7. pc["helper"] = "resume" => ~Born(p).held
  BY <1>4
<1>8. \A m \in Games : Alive(m) /\ game[m].pid = Born(p).pid => m = n
  BY <1>4, <1>5
<1>9. Born(p).entry \in Born(p).stubs \cup {"original"}
  BY <1>4
<1> QED BY <1>1, <1>2, <1>4, <1>6, <1>7, <1>8, <1>9, GameStep

LEMMA WorldInv == ASSUME PatchAssumption, Inv, World PROVE Inv'
<1>0. TypesOK
  BY DEF Inv
<1>1. CASE Launcher
  BY <1>1, LauncherInv
<1>2. CASE ClickStart
  \* While the helper may resume, the bytes are the original ones.
  <2>1. Created(TRUE, site = "suspend") /\ (pc["helper"] = "resume" => ~(site = "suspend"))
    BY <1>2 DEF ClickStart, Inv, SiteOK, After
  <2> QED BY <2>1, CreatedInv
<1>3. CASE Stranger
  BY <1>3, CreatedInv DEF Stranger
<1>4. ASSUME NEW n \in Games, Dies(n) PROVE Inv'
  <2> DEFINE g == [Unborn EXCEPT !.life = "dead"]
  <2>1. g \in Game /\ g.life = "dead" /\ g.entry = "original" /\ ~g.early /\ ~g.released
    BY DEF Unborn, Game, Tools
  <2>2. game' = [game EXCEPT ![n] = g] /\ UNCHANGED <<client, site, tools>>
    BY <1>4 DEF Dies
  <2> HIDE DEF g
  <2> QED BY <2>1, <2>2, GameStep
<1>5. ASSUME NEW n \in Games, NEW y \in Years, AsksDate(n, y) PROVE Inv'
  <2> DEFINE seen == IF game[n].entry = "original" THEN y ELSE Fixed(y)
             g == [game[n] EXCEPT !.early = @ \/ seen < 1900]
  <2>1. GameOK(n) /\ game[n].released /\ Alive(n)
    BY <1>5 DEF AsksDate, Inv, GamesOK
  <2>2. ~(seen < 1900)
    <3>1. seen = Fixed(y)
      BY <2>1 DEF GameOK
    <3>2. y \in Int
      BY DEF PatchAssumption
    <3> HIDE DEF seen
    <3> QED BY <3>1, <3>2 DEF Fixed
  <2>3. game' = [game EXCEPT ![n].early = @ \/ seen < 1900] /\ UNCHANGED <<client, site, tools>>
    BY <1>5, Zenon DEF AsksDate
  <2> HIDE DEF seen
  <2>4. game[n] \in Game
    BY <1>0 DEF TypesOK
  <2>5. g = game[n]
    BY <2>1, <2>2, <2>4 DEF Game, GameOK
  <2>6. game' = game
    BY <1>0, <2>3, <2>5 DEF TypesOK
  <2>7. TypesOK' /\ SiteOK'
    BY <1>0, <2>3, <2>6 DEF Inv, SiteOK, TypesOK, tools
  <2> QED BY <2>3, <2>6, <2>7, QuietStep DEF tools
<1> QED BY <1>1, <1>2, <1>3, <1>4, <1>5 DEF World

-----------------------------------------------------------------------------
(* patch_process, of either tool                                           *)

LEMMA FailsInv == ASSUME Inv, NEW t \in Tools, Fails(t) PROVE Inv'
<1>1. /\ UNCHANGED <<client, site, game, job, armed, existing, aim, hand>>
      /\ pc' = [pc EXCEPT ![t] = "raised"]
  BY DEF Fails, Rest, Goto
<1>2. pc' \in [Tools -> Places] /\ \A u \in Tools : pc'[u] = IF u = t THEN "raised" ELSE pc[u]
  BY <1>1 DEF Inv, TypesOK, Places, Stopped
<1>3. TypesOK' /\ SiteOK'
  BY <1>1, <1>2 DEF Inv, TypesOK, SiteOK, After, Tools
<1> QED BY <1>1, <1>2, <1>3, QuietStep DEF Patching

LEMMA FindsImageInv == ASSUME Inv, NEW t \in Tools, FindsImage(t) PROVE Inv'
<1>1. PICK n \in TGame : aim' = [aim EXCEPT ![t] = game[n].pid]
  BY DEF FindsImage
<1>2. /\ UNCHANGED <<client, site, game, job, armed, existing, hand>>
      /\ pc[t] = "open" /\ pc' = [pc EXCEPT ![t] = "read"]
  BY DEF FindsImage, Goto
<1>3. TypesOK /\ game[n].pid \in Pids \cup {0}
  BY DEF Inv, TypesOK, TGame, Game
<1>4. /\ pc' \in [Tools -> Places] /\ aim' \in [Tools -> Pids \cup {0}]
      /\ \A u \in Tools : IF u = t THEN pc'[u] = "read" ELSE pc'[u] = pc[u] /\ aim'[u] = aim[u]
  BY <1>1, <1>2, <1>3 DEF TypesOK, Places
<1>5. TypesOK' /\ SiteOK'
  BY <1>2, <1>3, <1>4 DEF Inv, TypesOK, SiteOK, After, Tools
<1> QED BY <1>2, <1>4, <1>5, QuietStep DEF Patching

\* A step of one tool that writes no game but may lead to a place that relies on one.
LEMMA ToolStep ==
  ASSUME Inv, UNCHANGED <<client, site, game, job, armed, existing, aim>>, NEW t \in Tools,
         NEW h \in 0 .. MaxGames, hand' = [hand EXCEPT ![t] = h],
         NEW where \in Places, pc[t] \in After, pc' = [pc EXCEPT ![t] = where],
         HandOK(t)', ResumeOK'
  PROVE  Inv'
<1>1. /\ TypesOK
      /\ hand' \in [Tools -> 0 .. MaxGames] /\ pc' \in [Tools -> Places]
      /\ \A u \in Tools : u # t => hand'[u] = hand[u] /\ pc'[u] = pc[u]
  BY DEF Inv, TypesOK
<1>2. TypesOK' /\ SiteOK'
  BY <1>1 DEF Inv, TypesOK, SiteOK, Tools
<1>3. HandsOK'
  <2> SUFFICES ASSUME NEW u \in Tools, u # t PROVE HandOK(u)'
    BY DEF HandsOK
  <2>1. HandOK(u)
    BY DEF Inv, HandsOK
  <2> QED BY <1>1, <2>1 DEF HandOK, Alive
<1>4. PidsOK' /\ GamesOK'
  BY DEF Inv, PidsOK, GamesOK, GameOK, Alive
<1> QED BY <1>2, <1>3, <1>4 DEF Inv

LEMMA ReadEntryInv == ASSUME PatchAssumption, Inv, NEW t \in Tools, ReadEntry(t) PROVE Inv'
<1>1. CASE Fails(t)
  BY <1>1, FailsInv
<1>2. CASE ~Fails(t)
  <2>1. PICK n \in TGame : /\ game[n].pid = aim[t] /\ hand' = [hand EXCEPT ![t] = n]
                           /\ Goto(t, "stub")
    BY <1>2 DEF ReadEntry
  <2>2. /\ UNCHANGED <<client, site, game, job, armed, existing, aim>>
        /\ pc[t] = "read" /\ pc' = [pc EXCEPT ![t] = "stub"]
    BY <1>2, <2>1 DEF ReadEntry, Goto
  <2>3. n \in Games /\ Alive(n)
    BY DEF TGame
  <2>3a. n \in 0 .. MaxGames
    BY <2>3 DEF PatchAssumption, Games
  <2>4. hand'[t] = n /\ pc'[t] = "stub"
    BY <2>1, <2>2 DEF Inv, TypesOK
  <2>5. HandOK(t)'
    BY <2>1, <2>2, <2>3, <2>4 DEF HandOK, Alive
  <2>6. pc'["helper"] # "resume" \/ pc'["helper"] = pc["helper"]
    BY <2>2 DEF Inv, TypesOK, Tools
  <2>7. ResumeOK'
    BY <2>2, <2>6 DEF Inv, ResumeOK, Alive
  <2> QED BY <2>1, <2>2, <2>3a, <2>5, <2>7, ToolStep DEF Places, After
<1> QED BY <1>1, <1>2

LEMMA RereadInv == ASSUME Inv, NEW t \in Tools, Reread(t) PROVE Inv'
<1>1. CASE Fails(t)
  BY <1>1, FailsInv
<1>2. CASE ~Fails(t)
  <2>1. /\ UNCHANGED <<client, site, game, job, armed, existing, aim, hand>>
        /\ pc[t] = "reread" /\ Alive(hand[t]) /\ game[hand[t]].entry = t
    BY <1>2 DEF Reread, Rest
  <2>2. PICK where \in {"resume", "done", "left"} :
          pc' = [pc EXCEPT ![t] = where] /\ (where = "resume" => t = "helper")
    BY <1>2 DEF Reread, Goto
  <2>3. pc'[t] = where /\ \A u \in Tools : u # t => pc'[u] = pc[u]
    BY <2>2 DEF Inv, TypesOK
  <2>4. HandOK(t)'
    BY <2>3 DEF HandOK, Patching
  <2>5. /\ hand[t] \in Games /\ game[hand[t]].pid = aim[t]
    BY <2>1 DEF Inv, HandsOK, HandOK, Patching
  <2>6. ResumeOK'
    \* The game with that pid is the one the handle names: two alive have two pids.
    <3>1. CASE t = "helper"
      BY <2>1, <2>5, <3>1 DEF Inv, PidsOK, ResumeOK, Alive
    <3>2. CASE t # "helper"
      BY <2>1, <2>3, <3>2 DEF Inv, ResumeOK, Alive, Tools
    <3> QED BY <3>1, <3>2
  <2>7. hand' = [hand EXCEPT ![t] = hand[t]] /\ hand[t] \in 0 .. MaxGames
    BY <2>1 DEF Inv, TypesOK
  <2> QED BY <2>1, <2>2, <2>4, <2>6, <2>7, ToolStep DEF Places, Stopped, After
<1> QED BY <1>1, <1>2
\* A write into the process the handle names, which is alive.
LEMMA WriteGoes ==
  ASSUME Inv, NEW t \in Tools, NEW from \in Patching, NEW to \in {"entry", "reread"},
         NEW g \in Game, Writes(t, from, to, g), ~Fails(t),
         g = [game[hand[t]] EXCEPT !.stubs = g.stubs, !.entry = g.entry],
         game[hand[t]].stubs \subseteq g.stubs, to = "entry" => t \in g.stubs,
         g.entry \in g.stubs \cup {"original"},
         game[hand[t]].entry # "original" => g.entry # "original"
  PROVE  Inv'
<1> DEFINE n == hand[t]
<1>1. /\ UNCHANGED <<client, site, job, armed, existing, aim, hand>> /\ pc[t] = from /\ Alive(n)
      /\ game' = [game EXCEPT ![n] = g] /\ pc' = [pc EXCEPT ![t] = to]
  BY DEF Writes, Goto
<1>2. /\ TypesOK /\ n \in Games /\ GameOK(n) /\ game[n] \in Game
  BY <1>1 DEF Inv, TypesOK, HandsOK, HandOK, GamesOK
<1>3. /\ g.life = game[n].life /\ g.pid = game[n].pid /\ g.held = game[n].held
      /\ g.early = game[n].early /\ g.released = game[n].released
  BY <1>2 DEF Game
<1> HIDE DEF n
<1>4. /\ \A m \in Games : game'[m] = IF m = n THEN g ELSE game[m]
      /\ \A u \in Tools : pc'[u] = IF u = t THEN to ELSE pc[u]
      /\ game' \in [Games -> Game] /\ pc' \in [Tools -> Places]
  BY <1>1, <1>2 DEF TypesOK, Places
<1>5. TypesOK'
  BY <1>1, <1>2, <1>4 DEF TypesOK
<1>6. PidsOK'
  BY <1>3, <1>4 DEF Inv, PidsOK, Alive
<1>7. HandsOK'
  <2> SUFFICES ASSUME NEW u \in Tools PROVE HandOK(u)'
    BY DEF HandsOK
  <2>1. HandOK(u)
    BY DEF Inv, HandsOK
  <2>2. CASE u = t
    BY <1>1, <1>2, <1>3, <1>4, <2>1, <2>2 DEF HandOK, Alive, n
  <2>3. CASE u # t
    BY <1>1, <1>2, <1>3, <1>4, <2>1, <2>3 DEF HandOK, Alive, n
  <2> QED BY <2>2, <2>3
<1>8. GamesOK'
  BY <1>2, <1>3, <1>4 DEF Inv, GamesOK, GameOK, n
<1>9. SiteOK'
  BY <1>1, <1>4 DEF Inv, SiteOK, Tools, After, Patching
<1>10. ResumeOK'
  BY <1>1, <1>3, <1>4 DEF Inv, ResumeOK, Alive, Tools, n
<1> QED BY <1>5, <1>6, <1>7, <1>8, <1>9, <1>10 DEF Inv

LEMMA WriteStubInv == ASSUME Inv, NEW t \in Tools, WriteStub(t) PROVE Inv'
<1> DEFINE old == game[hand[t]]
           g == [old EXCEPT !.stubs = @ \cup {t}]
<1>1. CASE Fails(t)
  BY <1>1, FailsInv
<1>2. CASE ~Fails(t)
  <2>1. Writes(t, "stub", "entry", g)
    BY Zenon DEF WriteStub
  <2>2. hand[t] \in Games /\ old \in Game /\ GameOK(hand[t])
    BY <2>1 DEF Writes, Inv, TypesOK, HandsOK, HandOK, Patching, GamesOK
  <2>3. /\ g \in Game /\ g.stubs = old.stubs \cup {t} /\ g.entry = old.entry
        /\ g = [old EXCEPT !.stubs = g.stubs, !.entry = g.entry]
    BY <2>2 DEF Game
  <2>4. g.entry \in g.stubs \cup {"original"}
    BY <2>2, <2>3 DEF GameOK
  <2> HIDE DEF g
  <2> QED BY <1>2, <2>1, <2>3, <2>4, WriteGoes DEF Patching
<1> QED BY <1>1, <1>2

LEMMA WriteEntryInv == ASSUME Inv, NEW t \in Tools, WriteEntry(t) PROVE Inv'
<1> DEFINE old == game[hand[t]]
           g == [old EXCEPT !.entry = t]
<1>1. CASE Fails(t)
  BY <1>1, FailsInv
<1>2. CASE ~Fails(t)
  <2>1. Writes(t, "entry", "reread", g)
    BY Zenon DEF WriteEntry
  <2>2. hand[t] \in Games /\ old \in Game /\ t \in old.stubs /\ t # "original"
    BY <1>2, <2>1 DEF Writes, Inv, TypesOK, HandsOK, HandOK, Patching, Tools
  <2>3. /\ g \in Game /\ g.stubs = old.stubs /\ g.entry = t
        /\ g = [old EXCEPT !.stubs = g.stubs, !.entry = g.entry]
    BY <2>2 DEF Game
  <2> HIDE DEF g
  <2> QED BY <1>2, <2>1, <2>2, <2>3, WriteGoes DEF Patching
<1> QED BY <1>1, <1>2

LEMMA ResumeInv == ASSUME Inv, Resume PROVE Inv'
<1>1. CASE Fails("helper")
  BY <1>1, FailsInv DEF Tools
<1>2. CASE ~Fails("helper")
  <2>1. PICK n \in TGame :
          /\ game[n].pid = aim["helper"] /\ game[n].held
          /\ game' = [game EXCEPT ![n].held = FALSE, ![n].released = TRUE]
    BY <1>2 DEF Resume
  <2>2. /\ UNCHANGED <<client, site, job, armed, existing, aim, hand>>
        /\ pc["helper"] = "resume" /\ pc' = [pc EXCEPT !["helper"] = "done"]
    BY <1>2 DEF Resume, Goto
  <2>3. TypesOK /\ n \in Games /\ Alive(n) /\ GameOK(n) /\ game[n] \in Game
    BY DEF Inv, TypesOK, TGame, GamesOK
  <2>4. game[n].entry # "original"
    BY <2>1, <2>2, <2>3 DEF Inv, ResumeOK
  <2> DEFINE g == [game[n] EXCEPT !.held = FALSE, !.released = TRUE]
  <2>5. /\ g \in Game /\ g.life = game[n].life /\ g.pid = game[n].pid /\ ~g.held
        /\ g.entry = game[n].entry /\ g.stubs = game[n].stubs /\ g.early = game[n].early
    BY <2>3 DEF Game
  <2>6. game' = [game EXCEPT ![n] = g]
    BY <2>1, <2>3 DEF TypesOK
  <2> HIDE DEF g
  <2>7. /\ \A m \in Games : game'[m] = IF m = n THEN g ELSE game[m]
        /\ pc'["helper"] = "done" /\ pc'["dater"] = pc["dater"]
        /\ game' \in [Games -> Game] /\ pc' \in [Tools -> Places]
    BY <2>2, <2>3, <2>5, <2>6 DEF TypesOK, Places, Stopped, Tools
  <2>8. TypesOK' /\ SiteOK' /\ ResumeOK'
    BY <2>2, <2>3, <2>7 DEF TypesOK, SiteOK, ResumeOK, After
  <2>9. PidsOK'
    BY <2>5, <2>7 DEF Inv, PidsOK, Alive
  <2>10. GamesOK'
    BY <2>3, <2>4, <2>5, <2>7 DEF Inv, GamesOK, GameOK
  <2>11. HandsOK'
    <3>1. HandOK("helper")'
      BY <2>7 DEF HandOK, Patching
    <3>2. HandOK("dater")'
      BY <2>2, <2>5, <2>7 DEF Inv, HandsOK, HandOK, Alive, Tools, Patching
    <3> QED BY <3>1, <3>2 DEF HandsOK, Tools
  <2> QED BY <2>8, <2>9, <2>10, <2>11 DEF Inv
<1> QED BY <1>1, <1>2

-----------------------------------------------------------------------------
(* The theorems that need no hypothesis on what may fail                   *)

LEMMA PatchInv ==
  ASSUME Inv, NEW t \in Tools,
         FindsImage(t) \/ ReadEntry(t) \/ WriteStub(t) \/ WriteEntry(t) \/ Reread(t),
         PatchAssumption
  PROVE  Inv'
BY FindsImageInv, ReadEntryInv, WriteStubInv, WriteEntryInv, RereadInv

LEMMA StepInv == ASSUME PatchAssumption, Inv, [Next]_vars PROVE Inv'
<1>1. CASE Helper
  BY <1>1, HelperInv, PatchInv, ResumeInv DEF Helper, Tools
<1>2. CASE Dater
  <2>1. CASE DaterStops
    BY <2>1, FailsInv DEF DaterStops, Tools
  <2> QED BY <1>2, <2>1, PatchInv DEF Dater, Tools
<1>3. CASE Interrupt
  BY <1>3, HelperInv
<1>4. CASE World
  BY <1>4, WorldInv
<1>5. CASE UNCHANGED vars
  <2>1. /\ UNCHANGED <<client, site, game, pc, job, armed, existing, aim, hand>>
    BY <1>5 DEF vars, tools
  <2>2. TypesOK' /\ SiteOK'
    BY <2>1 DEF Inv, TypesOK, SiteOK
  <2> QED BY <2>1, <2>2, QuietStep
<1> QED BY <1>1, <1>2, <1>3, <1>4, <1>5 DEF Next

\* The invariant holds in every state.
THEOREM SpecInv == ASSUME PatchAssumption PROVE Spec => []Inv
BY InitInv, StepInv, PTL DEF Spec

\* A game the helper has resumed never works with a date before 1900, whatever fails.
THEOREM DatesStayFixed == ASSUME PatchAssumption PROVE Spec => []DatesFixed
BY SpecInv, InvImplies, PTL

\* No living game has an entry that jumps to a trampoline not written yet.
THEOREM StubsComeFirst == ASSUME PatchAssumption PROVE Spec => []StubFirst
BY SpecInv, InvImplies, PTL
-----------------------------------------------------------------------------
(* START is left as it was found                                           *)

\* No access to the launcher's memory fails, and Ctrl+C comes neither between the write
\* and the line that notes it nor, a second time, at the finally.
CarefulRun ==
  /\ {"check", "write", "verify", "finally"} \cap Faults = {}
  /\ {"verify", "finally"} \cap InterruptAt = {}

\* Where the helper is while the bytes in a living launcher are the temporary ones: in
\* each of these places the next thing it does about them puts them back.
Suspending ==
  \/ job = "arm" /\ pc["helper"] = "verify"
  \/ job = "restore" /\ pc["helper"] \in {"check", "write", "await", "finally"}
  \/ job = "emergency" /\ pc["helper"] \in {"check", "write"}
CodeOK ==
  /\ client = "ready" => site = IF Suspending THEN "suspend" ELSE "original"
  /\ client \in {"absent", "loading"} =>
       /\ site = "original" /\ ~Suspending
       /\ pc["helper"] \in {"debugger", "client", "module", "finally", "raised"}
  /\ pc["helper"] \in {"debugger", "client", "module", "list"} => job = "arm"
  /\ pc["helper"] = "await" => job = "restore"
  /\ job = "restore" /\ pc["helper"] \in {"check", "write", "verify", "await", "finally"} => armed
LEMMA CodeStays ==
  ASSUME CodeOK, UNCHANGED <<client, site, job, armed>>, pc'["helper"] = pc["helper"]
  PROVE  CodeOK'
BY DEF CodeOK, Suspending

\* An exception leaves no living launcher with the temporary bytes, unless for the finally.
LEMMA RaiseCode ==
  ASSUME TypesOK, CodeOK, Raise, UNCHANGED <<client, site, job, armed>>,
         pc["helper"] \in {"verify", "finally"} \/ (job = "emergency" /\ Suspending) =>
           client = "gone"
  PROVE  CodeOK'
<1> DEFINE here == pc["helper"]
           there == pc'["helper"]
<1>1. there = IF here \in InTry /\ job # "emergency" THEN "finally" ELSE "raised"
  BY DEF TypesOK, Raise, Goto, Tools
<1>2. CASE client = "gone"
  <2>1. job = "restore" /\ there = "finally" => armed
    BY <1>1, <1>2 DEF CodeOK, InTry
  <2> QED BY <1>1, <1>2, <2>1 DEF CodeOK
<1>3. CASE client # "gone"
  <2>1. here \notin {"verify", "finally"} /\ ~(job = "emergency" /\ Suspending)
    BY <1>3
  <2>2. Suspending' <=> Suspending
    BY <1>1, <2>1 DEF CodeOK, Suspending, InTry, TypesOK
  <2>3. job = "restore" /\ there = "finally" => armed
    BY <1>1, <2>1 DEF CodeOK, InTry
  <2>4. client = "ready" => site = IF Suspending THEN "suspend" ELSE "original"
    BY DEF CodeOK
  <2>5. client \in {"absent", "loading"} => site = "original" /\ ~Suspending
    BY DEF CodeOK
  <2> QED BY <1>1, <2>2, <2>3, <2>4, <2>5 DEF CodeOK
<1> QED BY <1>2, <1>3

LEMMA WorldCode == ASSUME CodeOK, World PROVE CodeOK'
<1>1. CASE Launcher
  <2>1. /\ UNCHANGED <<site, pc, job, armed>> /\ client' \in {"loading", "ready", "gone"}
        /\ client' \in {"loading", "ready"} => client \in {"absent", "loading"}
    BY <1>1 DEF Launcher, tools
  <2> QED BY <2>1 DEF CodeOK, Suspending
<1>2. CASE ~Launcher
  <2>1. UNCHANGED <<client, site, pc, job, armed>>
    BY <1>2 DEF World, ClickStart, Stranger, Created, Dies, AsksDate, tools
  <2> QED BY <2>1, CodeStays
<1> QED BY <1>1, <1>2

LEMMA DaterCode == ASSUME TypesOK, CodeOK, Dater PROVE CodeOK'
<1>1. /\ UNCHANGED <<client, site, job, armed>>
      /\ \E where \in Places : pc' = [pc EXCEPT !["dater"] = where]
  BY DEF Dater, FindsImage, ReadEntry, WriteStub, WriteEntry, Writes, Reread, DaterStops, Fails,
         Rest, Goto, Places, Stopped
<1>2. pc'["helper"] = pc["helper"]
  BY <1>1 DEF TypesOK, Tools
<1> QED BY <1>1, <1>2, CodeStays

\* Where the helper does nothing about the bytes.
LEMMA PatchCode ==
  ASSUME TypesOK, CodeOK,
         \/ FindsImage("helper") \/ ReadEntry("helper") \/ WriteStub("helper")
         \/ WriteEntry("helper") \/ Reread("helper") \/ Resume
  PROVE  CodeOK'
<1>1. /\ UNCHANGED <<client, site, job, armed>> /\ pc["helper"] \in After
      /\ \E where \in After \cup {"done", "left", "raised"} : 
           where # "open" /\ Goto("helper", where)
  BY DEF FindsImage, ReadEntry, WriteStub, WriteEntry, Writes, Reread, Resume, Fails, Rest, After
<1>2. pc'["helper"] \in (After \cup {"done", "left", "raised"}) \ {"open"}
  BY <1>1, HelperGoes DEF After, Places, Stopped
<1> QED BY <1>1, <1>2 DEF CodeOK, Suspending, After

LEMMA EarlyCode ==
  ASSUME TypesOK, CodeOK,
         ChecksDebugger \/ FindsClient \/ FindsModule \/ ListsGames \/ FindsGame
  PROVE  CodeOK'
<1>1. UNCHANGED <<client, site, job, armed>>
  BY DEF ChecksDebugger, FindsClient, FindsModule, ListsGames, FindsGame, Rest
<1>2. CASE ChecksDebugger
  <2>1. pc["helper"] = "debugger" /\ pc'["helper"] \in {"client", "raised"}
    BY <1>2, HelperGoes DEF ChecksDebugger, Places, Stopped
  <2> QED BY <1>1, <2>1 DEF CodeOK, Suspending
<1>3. CASE FindsClient
  <2>1. pc["helper"] = "client" /\ pc'["helper"] = "module"
    BY <1>3, HelperGoes DEF FindsClient, Places
  <2> QED BY <1>1, <2>1 DEF CodeOK, Suspending
<1>4. CASE FindsModule
  <2>1. pc["helper"] = "module" /\ client = "ready" /\ pc'["helper"] = "list"
    BY <1>4, HelperGoes DEF FindsModule, Places
  <2> QED BY <1>1, <2>1 DEF CodeOK, Suspending
<1>5. CASE ListsGames
  <2>1. pc["helper"] = "list" /\ pc'["helper"] = "check"
    BY <1>5, HelperGoes DEF ListsGames, Places
  <2> QED BY <1>1, <2>1 DEF CodeOK, Suspending
<1>6. CASE FindsGame
  <2>1. pc["helper"] = "await" /\ pc'["helper"] = "check"
    BY <1>6, HelperGoes DEF FindsGame, Places
  <2> QED BY <1>1, <2>1 DEF CodeOK, Suspending
<1> QED BY <1>2, <1>3, <1>4, <1>5, <1>6

\* write_code and the finally, where no access to the launcher's memory fails.
LEMMA CodeWrites ==
  ASSUME CarefulRun, TypesOK, CodeOK, CheckCode \/ WriteCode \/ VerifyCode \/ Finally
  PROVE  CodeOK'
<1>0. client \in {"absent", "loading", "ready", "gone"}
  BY DEF TypesOK
<1>1. CASE CheckCode
  <2>1. CASE ~(client = "ready" /\ site = Expected)
    <3>1. pc["helper"] = "check" /\ (client # "ready" \/ site # Expected)
          /\ Raise /\ UNCHANGED <<client, site, job, armed>>
      BY <1>1, <2>1 DEF CheckCode, Raises, Rest
    <3> QED BY <1>0, <3>1, RaiseCode DEF CodeOK, Suspending, Expected
  <2>2. CASE client = "ready" /\ site = Expected
    <3>1. /\ client = "ready" /\ UNCHANGED <<client, site, job, armed>>
          /\ pc["helper"] = "check" /\ pc'["helper"] = "write"
      BY <1>1, <2>2, HelperGoes DEF CheckCode, CarefulRun, Rest, Places
    <3> QED BY <3>1 DEF CodeOK, Suspending
  <2> QED BY <2>1, <2>2
<1>2. CASE WriteCode
  <2>1. CASE client # "ready"
    <3>1. pc["helper"] = "write" /\ client # "ready"
          /\ Raise /\ UNCHANGED <<client, site, job, armed>>
      BY <1>2, <2>1 DEF WriteCode, Raises, Rest
    <3> QED BY <1>0, <3>1, RaiseCode DEF CodeOK, Suspending
  <2>2. CASE client = "ready"
    <3>1. /\ client = "ready" /\ site' = Replacement /\ UNCHANGED <<client, job, armed>>
          /\ pc["helper"] = "write" /\ pc'["helper"] = "verify"
      BY <1>2, <2>2, HelperGoes DEF WriteCode, CarefulRun, Places
    <3> QED BY <3>1 DEF CodeOK, Suspending, Replacement
  <2> QED BY <2>1, <2>2
<1>3. CASE VerifyCode
  <2>1. CASE ~(client = "ready" /\ site = Replacement)
    <3>1. pc["helper"] = "verify" /\ (client # "ready" \/ site # Replacement)
          /\ Raise /\ UNCHANGED <<client, site, job, armed>>
      BY <1>3, <2>1 DEF VerifyCode, Raises, Rest
    <3> QED BY <1>0, <3>1, RaiseCode DEF CodeOK, Suspending, Replacement
  <2>2. CASE client = "ready" /\ site = Replacement
    <3>1. /\ client = "ready" /\ UNCHANGED <<client, site>> /\ pc["helper"] = "verify"
          /\ armed' = (job = "arm") /\ job' = IF job = "arm" THEN "restore" ELSE job
          /\ Goto("helper", CASE job = "arm" -> "await" [] job = "restore" -> "open"
                              [] OTHER -> "raised")
      BY <1>3, <2>2 DEF VerifyCode, CarefulRun
    <3>2. pc'["helper"] = CASE job = "arm" -> "await" [] job = "restore" -> "open"
                            [] OTHER -> "raised"
      BY <3>1, HelperGoes DEF Places, Stopped
    <3> QED BY <3>1, <3>2 DEF CodeOK, Suspending
  <2> QED BY <2>1, <2>2
<1>4. CASE Finally
  <2>1. UNCHANGED <<client, site, armed>> /\ pc["helper"] = "finally"
    BY <1>4 DEF Finally
  <2>2. CASE Restores
    <3>1. job' = "emergency" /\ pc'["helper"] = "check"
      BY <1>4, <2>2, HelperGoes DEF Finally, CarefulRun, Places
    <3> QED BY <2>1, <2>2, <3>1 DEF CodeOK, Suspending, Restores
  <2>3. CASE ~Restores
    <3>1. job' = job /\ pc'["helper"] = "raised"
      BY <1>4, <2>3, HelperGoes DEF Finally, CarefulRun, Places, Stopped
    <3> QED BY <2>1, <2>3, <3>1 DEF CodeOK, Suspending, Restores
  <2> QED BY <2>2, <2>3
<1> QED BY <1>1, <1>2, <1>3, <1>4

LEMMA CodeStep == ASSUME CarefulRun, TypesOK, CodeOK, [Next]_vars PROVE CodeOK'
<1>1. CASE TimesOut \/ Interrupt
  <2>1. /\ Raise /\ UNCHANGED <<client, site, job, armed>>
        /\ pc["helper"] \notin {"verify", "finally"}
        /\ job = "emergency" => pc["helper"] \in {"client", "module", "await", "open"}
    BY <1>1 DEF TimesOut, Interrupt, CarefulRun, Raises, Rest
  <2> QED BY <2>1, RaiseCode DEF Suspending
<1>2. CASE Helper /\ ~TimesOut
  BY <1>2, EarlyCode, CodeWrites, PatchCode DEF Helper
<1>3. CASE Dater
  BY <1>3, DaterCode
<1>4. CASE World
  BY <1>4, WorldCode
<1>5. CASE UNCHANGED vars
  BY <1>5, CodeStays DEF vars, tools
<1> QED BY <1>1, <1>2, <1>3, <1>4, <1>5 DEF Next

\* A helper that has ended leaves START as it found it, in a careful run.
THEOREM StartIsRestored ==
  ASSUME PatchAssumption, CarefulRun PROVE Spec => []TclsRestored
<1>1. Init => CodeOK
  BY DEF Init, CodeOK, Suspending, Tools
<1>2. Inv /\ CodeOK /\ [Next]_vars => CodeOK'
  BY CodeStep DEF Inv
<1>3. CodeOK => TclsRestored
  BY DEF CodeOK, TclsRestored, HasEnded, Stopped, Suspending
<1> QED BY <1>1, <1>2, <1>3, SpecInv, PTL DEF Spec
=============================================================================
