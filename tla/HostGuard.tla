------------------------------ MODULE HostGuard ------------------------------
(***************************************************************************)
(* The loader's guard thread, arm_pve_synthetic_host_observer_v24: it      *)
(* follows GamePlayers[0] to its controller and PRI and, when the          *)
(* controller is the PVE one, keeps the PRI's bAlwaysObserver set, a bit   *)
(* of a word the game also writes.  It is a daemon thread: it ends with    *)
(* the loader's main(), which an injection that raises ends while AFDEV    *)
(* goes on.                                                                *)
(***************************************************************************)
EXTENDS Naturals, FiniteSets

CONSTANTS
  Others,       \* the other flags of the word
  MaxHosts,     \* bound: PRIs in one behaviour
  MaxRewrites   \* bound: writes of the word by the game

GuardAssumption == MaxHosts \in Nat \ {0} /\ MaxRewrites \in Nat

VARIABLES
  up,        \* AFDEV is running
  parent,    \* so is the loader
  host,      \* the PRI behind GamePlayers[0], 0 while the chain breaks off
  hosts,     \* PRIs so far
  pve,       \* its controller has the PVE vtable
  flags,     \* its word
  wants,     \* what the game last wanted its other flags to be
  rewrites,  \* times the game has written a word
  step,      \* where the guard is
  target,    \* the PRI it has followed the chain to
  old        \* the word it has read

guard == <<step, target, old>>
vars  == <<up, parent, host, hosts, pve, flags, wants, rewrites, guard>>

Observer == "bAlwaysObserver"
HostIsPve == host # 0 /\ pve

Init ==
  /\ up = TRUE /\ parent = TRUE /\ host = 0 /\ hosts = 0 /\ pve = FALSE /\ flags = {} /\ wants = {}
  /\ rewrites = 0 /\ step = "look" /\ target = 0 /\ old = {}

-----------------------------------------------------------------------------
(* The guard.                                                              *)

Sleeps == step' = "look" /\ UNCHANGED <<target, old>>
World == parent /\ UNCHANGED <<up, parent, host, hosts, pve, wants, rewrites>>

\* The chain, vtable test and PRI included, to a PVE host; anything else is another
\* sleep, and so is a read that fails while the world changes.
Looks ==
  /\ step = "look" /\ up
  /\ \/ HostIsPve /\ step' = "read" /\ target' = host /\ UNCHANGED old
     \/ ~HostIsPve /\ Sleeps
  /\ World /\ UNCHANGED flags

\* Memory that was given back may still be there, with anything in it.
ReadsFlags ==
  /\ step = "read"
  /\ \/ \E seen \in IF target = host THEN {flags} ELSE SUBSET ({Observer} \cup Others) :
          /\ old' = seen /\ UNCHANGED target
          /\ step' = IF Observer \in seen THEN "look" ELSE "write"
     \/ target # host /\ Sleeps
  /\ World /\ UNCHANGED flags

\* The whole word, the other flags as they were when it was read.
Word == old \cup {Observer}
WritesFlags ==
  /\ step = "write"
  /\ \/ /\ flags' = IF target = host THEN Word ELSE flags
        /\ step' = "verify" /\ UNCHANGED <<target, old>>
     \/ target # host /\ Sleeps /\ UNCHANGED flags
  /\ World

\* A bit that is gone again raises, which is a sleep; the guard goes on after the
\* first patch.
BadVerifies ==
  /\ step = "verify"
  /\ step' = "stopped" /\ UNCHANGED <<target, old>>
  /\ World /\ UNCHANGED flags
Verifies ==
  /\ step = "verify"
  /\ Sleeps
  /\ World /\ UNCHANGED flags

Ends == step # "stopped" /\ ~up /\ step' = "stopped" /\ UNCHANGED <<target, old, flags>> /\ World

-----------------------------------------------------------------------------
(* The game.                                                               *)

\* A new world has a host of its own, PVE or not, or none; the old one's memory is
\* given back.
Travels ==
  /\ up
  /\ \/ host = 0 /\ hosts < MaxHosts /\ hosts' = hosts + 1 /\ host' = hosts'
     \/ host # 0 /\ host' = 0 /\ UNCHANGED hosts
  /\ pve' \in BOOLEAN /\ flags' = {} /\ wants' = {}
  /\ UNCHANGED <<up, parent, rewrites, guard>>

\* The game writes the word: its flags, without the observer bit or with what it has.
Rewrites ==
  /\ up /\ host # 0 /\ rewrites < MaxRewrites
  /\ wants' \in SUBSET Others
  /\ flags' \in {wants', wants' \cup (flags \cap {Observer})}
  /\ rewrites' = rewrites + 1
  /\ UNCHANGED <<up, parent, host, hosts, pve, guard>>

Exits ==
  /\ up /\ up' = FALSE
  /\ UNCHANGED <<parent, host, hosts, pve, flags, wants, rewrites, guard>>

\* main() ends with an error, at any time for what the guard knows of it.
LoaderEnds ==
  /\ parent /\ parent' = FALSE
  /\ UNCHANGED <<up, host, hosts, pve, flags, wants, rewrites, guard>>

Guard == Looks \/ ReadsFlags \/ WritesFlags \/ Verifies \/ Ends
Next == Guard \/ Travels \/ Rewrites \/ Exits \/ LoaderEnds
Spec == Init /\ [][Next]_vars
\* The thread runs while the loader does; the game does what it likes.
FairSpec == Spec /\ WF_vars(Guard)

-----------------------------------------------------------------------------
\* While the loader runs, whenever a PVE host is without the bit, the guard sets it,
\* unless the host or the process goes first: also after the game has cleared it behind
\* the guard's back.
Unobserved == up /\ HostIsPve /\ Observer \notin flags
Restored == parent => ~Unobserved
GuardRestores == []<>Restored

\* The worker's comment says that a bit that is cleared is restored, with no word of the
\* loader.  An injection that raises takes the guard along, and AFDEV goes on without: this
\* need not hold, and no run checks it.
GuardOutlives == []<>~Unobserved

\* The docstring says that the guard sets only the observer bit.  It writes the whole word
\* it has read, so a write of the game in between is lost, and no run checks this.
OnlyTheObserverBit == flags \ {Observer} = wants
=============================================================================
