------------------------------- MODULE Bridge -------------------------------
(***************************************************************************)
(* The UDP bridge of one round,                                            *)
(* tools/bridge/af_ds_udp_bridge_v9_multi_peer_latch.py.                   *)
(*                                                                         *)
(* One thread: bind, then poll the loader, retry, select, and handle what  *)
(* arrived.  Each handler is an action, but where the world can see a      *)
(* handler half done it has phases of its own: a new peer is published     *)
(* before it is served ("admitted"), the loader or the datagram is out     *)
(* before the word for it is published ("served"), and a send can fail     *)
(* half way through the waiting peers ("sendAll").  Which handler runs     *)
(* next depends on what has arrived and on the clock, so the model leaves  *)
(* it open.  Around the bridge run its clients, the loader it starts,      *)
(* AFDEV, and whoever kills it.  A packet the bridge drops (invalid, or    *)
(* from one peer too many) and a stray select error change nothing and are *)
(* not actions.                                                            *)
(***************************************************************************)
EXTENDS Naturals, Sequences, FiniteSets

CONSTANTS
  Clients,     \* client addresses
  Packets,     \* valid datagrams
  NoPacket,    \* None in latched_wire
  MaxPeers,    \* max_peers
  MaxRetries,  \* max(1, first_reply_max_retries)
  Modes,       \* with --lazy-spawn, without it, or either
  Leftovers,   \* what an earlier run may have left at the pid and ready paths
  MaxRelayed   \* bound: datagrams sent upstream per peer

ASSUME BridgeAssumption ==
  /\ NoPacket \notin Packets
  /\ MaxPeers \in Nat /\ MaxRetries \in Nat \ {0} /\ MaxRelayed \in Nat
  /\ Modes \subseteq BOOLEAN
  /\ Leftovers \subseteq {"none", "stale"}

VARIABLES
  lazy,       \* args.lazy_spawn
  phase,      \* where main() is
  pub,        \* state["state"]
  file,       \* the "state" a reader of BRIDGE_STATE.json finds
  known,      \* keys of `peers`
  latched,    \* latched_wire of each peer
  live,       \* peers whose relay is live
  attempts,   \* replay_attempts
  afdevReady, \* afdev_ready
  todo,       \* peers the handler at work has still to serve
  loader,     \* the loader process
  afdev,      \* the AFDEV process
  bystander,  \* the process whose pid an earlier run's pid file holds
  pidFile, readyFile,
  up,         \* datagrams sent to AFDEV from each peer's socket
  replies     \* who has datagrams waiting at each peer's upstream socket

peer  == <<known, latched, live, attempts, up>>
procs == <<loader, afdev, bystander, pidFile, readyFile>>
vars  == <<lazy, phase, pub, file, peer, afdevReady, todo, procs, replies>>

States == {"BOOTING", "LISTENING", "SPAWNING", "AFDEV_READY", "READY", "FAILED"}
Phases == {"boot", "loop", "admitted", "served", "sendAll",
           "cleanup", "closing", "stopped", "killed"}
Running == phase \in {"loop", "admitted", "served", "sendAll"}

-----------------------------------------------------------------------------
Init ==
  /\ phase = "boot" /\ pub = "BOOTING" /\ file = "none"
  /\ known = {} /\ live = {} /\ todo = {}
  /\ latched = [c \in Clients |-> NoPacket]
  /\ attempts = [c \in Clients |-> 0]
  /\ up = [c \in Clients |-> <<>>]
  /\ replies = [c \in Clients |-> {}]
  /\ lazy \in Modes
  /\ afdevReady = ~lazy
  /\ loader = "none" /\ afdev = IF lazy THEN "none" ELSE "up"
  /\ bystander = "up"
  /\ pidFile \in Leftovers /\ readyFile \in Leftovers

\* publish(): the file gets the new state unless every retry fails, and then
\* keeps its old content or, torn by the direct rewrite, shows none.
Publish(s) == pub' = s /\ file' \in {s, file, "none"}
Republish == Publish(pub)

\* An exception leaves the loop: FAILED unless that was published already.
Fail ==
  /\ phase' = "cleanup"
  /\ Publish("FAILED")

\* sendto() of the latched datagram from the peer's own socket.
SendLatched(c) ==
  /\ up' = [up EXCEPT ![c] = Append(@, latched[c])]
  /\ attempts' = [attempts EXCEPT ![c] = @ + 1]

-----------------------------------------------------------------------------
(* Start                                                                   *)

Bind ==
  /\ phase = "boot" /\ phase' = "loop"
  /\ Publish("LISTENING")
  /\ UNCHANGED <<peer, lazy, afdevReady, todo, procs, replies>>
\* The bind is outside of the try: nothing is published and nothing cleaned up.
BindFails ==
  /\ phase = "boot" /\ phase' = "killed"
  /\ UNCHANGED <<pub, file, peer, lazy, afdevReady, todo, procs, replies>>

-----------------------------------------------------------------------------
(* Datagrams from clients                                                  *)

\* make_peer: the peer keeps its place for good, and is published with the word
\* there is before anything is done for it.
MakePeer(c, p) ==
  /\ phase = "loop" /\ c \notin known
  /\ Cardinality(known) < MaxPeers
  /\ phase' = "admitted" /\ todo' = {c}
  /\ known' = known \cup {c}
  /\ latched' = [latched EXCEPT ![c] = p]
  /\ Republish
  /\ UNCHANGED <<live, attempts, up, lazy, afdevReady, procs, replies>>
\* Its upstream socket cannot be made.
NoSocket(c) ==
  /\ phase = "loop" /\ c \notin known
  /\ Cardinality(known) < MaxPeers
  /\ Fail
  /\ UNCHANGED <<peer, lazy, afdevReady, todo, procs, replies>>

Serve(c) == phase = "admitted" /\ c \in todo /\ todo' = {}
\* Fault: files of an earlier run stay where they are.
BadSpawned == loader' = "running" /\ UNCHANGED <<pidFile, readyFile>>
\* spawn_loader: old files go, then the loader starts.
Spawned == loader' = "running" /\ pidFile' = "none" /\ readyFile' = "none"

FirstPeer(c) ==
  /\ Serve(c) /\ lazy /\ loader = "none"
  /\ Spawned /\ phase' = "served"
  /\ UNCHANGED <<pub, file, peer, lazy, afdevReady, afdev, bystander, replies>>
\* A missing script or path, an unlink or Popen that fails.
SpawnFails(c) ==
  /\ Serve(c) /\ lazy /\ loader = "none"
  /\ pidFile' \in {pidFile, "none"} /\ readyFile' \in {readyFile, "none"}
  /\ Fail
  /\ UNCHANGED <<peer, lazy, afdevReady, loader, afdev, bystander, replies>>
PeerWaits(c) ==
  /\ Serve(c) /\ lazy /\ loader # "none" /\ ~afdevReady
  /\ phase' = "loop"
  /\ UNCHANGED <<pub, file, peer, lazy, afdevReady, procs, replies>>
\* Fault: a late peer is announced as the first one was.
BadPeerWhenReady(c) ==
  /\ Serve(c) /\ lazy /\ afdevReady
  /\ SendLatched(c) /\ Publish("AFDEV_READY") /\ phase' = "loop"
  /\ UNCHANGED <<known, latched, live, lazy, afdevReady, procs, replies>>
PeerWhenReady(c) ==
  /\ Serve(c) /\ lazy /\ afdevReady
  /\ \/ SendLatched(c) /\ Republish /\ phase' = "loop"
     \/ Fail /\ UNCHANGED <<up, attempts>>
  /\ UNCHANGED <<known, latched, live, lazy, afdevReady, procs, replies>>
\* Without --lazy-spawn AFDEV is there and every peer is live at once.
PeerDirect(c) ==
  /\ Serve(c) /\ ~lazy
  /\ live' = live \cup {c} /\ latched' = [latched EXCEPT ![c] = NoPacket]
  /\ \/ /\ up' = [up EXCEPT ![c] = <<latched[c]>>]
        /\ phase' = "served" /\ UNCHANGED <<pub, file>>
     \/ Fail /\ UNCHANGED up
  /\ UNCHANGED <<known, attempts, lazy, afdevReady, procs, replies>>
\* The word for what was done; the loader's pid file may fail before it.
Announce ==
  /\ phase = "served"
  /\ \/ phase' = "loop" /\ Publish(IF lazy THEN "SPAWNING" ELSE "READY")
     \/ lazy /\ Fail
  /\ UNCHANGED <<peer, lazy, afdevReady, todo, procs, replies>>

\* A retry of a client whose connection is not live: counted, never sent.
Suppress(c) ==
  /\ phase = "loop" /\ lazy /\ c \in known \ live
  /\ Republish
  /\ UNCHANGED <<phase, peer, lazy, afdevReady, todo, procs, replies>>
\* Fault: packets of a peer pass as soon as AFDEV is ready.
BadRelays(c) == c \in known /\ (c \in live \/ afdevReady)
Relays(c) == c \in known /\ (c \in live \/ ~lazy)
Forward(c, p) ==
  /\ phase = "loop" /\ Relays(c) /\ Len(up[c]) < MaxRelayed
  /\ up' = [up EXCEPT ![c] = Append(@, p)]
  /\ UNCHANGED <<phase, pub, file, known, latched, live, attempts, lazy, afdevReady, todo, procs, replies>>
ForwardFails(c) ==
  /\ phase = "loop" /\ Relays(c)
  /\ Fail
  /\ UNCHANGED <<peer, lazy, afdevReady, todo, procs, replies>>

-----------------------------------------------------------------------------
(* poll_lazy_ready and maybe_retry_waiting                                 *)

Polling == phase = "loop" /\ lazy /\ ~afdevReady /\ loader # "none"

\* Fault: a loader that hangs is waited for without limit.
BadPollFails ==
  /\ Polling /\ (loader = "dead" \/ readyFile = "noKey")
  /\ Fail
  /\ UNCHANGED <<peer, lazy, afdevReady, todo, procs, replies>>
\* The loader is gone, startup_timeout has passed, or the ready file does not
\* confirm the zero key.
PollFails ==
  /\ Polling
  /\ Fail
  /\ UNCHANGED <<peer, lazy, afdevReady, todo, procs, replies>>
\* The pid file is published until the ready file is there.
PollPid ==
  /\ Polling /\ loader = "running" /\ pidFile # "none"
  /\ Republish
  /\ UNCHANGED <<phase, peer, lazy, afdevReady, todo, procs, replies>>
\* Fault: a poll that finds AFDEV ready again announces it again.
BadPollReady ==
  /\ phase = "loop" /\ lazy /\ loader = "running" /\ readyFile \in {"own", "stale"}
  /\ afdevReady' = TRUE /\ Publish("AFDEV_READY")
  /\ phase' = "sendAll" /\ todo' = {c \in known \ live : attempts[c] = 0}
  /\ UNCHANGED <<lazy, peer, procs, replies>>
PollReady ==
  /\ Polling /\ loader = "running" /\ readyFile \in {"own", "stale"}
  /\ afdevReady' = TRUE /\ Publish("AFDEV_READY")
  /\ phase' = "sendAll" /\ todo' = {c \in known \ live : attempts[c] = 0}
  /\ UNCHANGED <<lazy, peer, procs, replies>>

SendNext(c) ==
  /\ phase = "sendAll" /\ c \in todo
  /\ \/ SendLatched(c) /\ Republish /\ UNCHANGED phase
     \/ Fail /\ UNCHANGED <<up, attempts>>
  /\ todo' = todo \ {c}
  /\ UNCHANGED <<known, latched, live, lazy, afdevReady, procs, replies>>
SentAll ==
  /\ phase = "sendAll" /\ todo = {} /\ phase' = "loop"
  /\ UNCHANGED <<pub, file, peer, lazy, afdevReady, todo, procs, replies>>

\* Fault: one attempt too many.
BadMayRetry(c) == c \in known \ live /\ attempts[c] <= MaxRetries
\* Fault: one attempt too few.
TimidMayRetry(c) == c \in known \ live /\ attempts[c] < MaxRetries - 1
MayRetry(c) == c \in known \ live /\ attempts[c] < MaxRetries
\* The wait of first_reply_retry seconds is over and no answer has come.
Retry(c) ==
  /\ phase = "loop" /\ lazy /\ afdevReady /\ MayRetry(c)
  /\ \/ SendLatched(c) /\ Republish /\ UNCHANGED phase
     \/ Fail /\ UNCHANGED <<up, attempts>>
  /\ UNCHANGED <<known, latched, live, lazy, afdevReady, todo, procs, replies>>

-----------------------------------------------------------------------------
(* Datagrams on a peer's upstream socket                                   *)

Taken(c, from) == replies' = [replies EXCEPT ![c] = @ \ {from}]
Opens(c, from) == from = "afdev" /\ c \notin live
\* The first answer of AFDEV makes the peer live; it goes to the client like
\* every later one.  A datagram whose source is not the target is dropped.
FirstReply(c, from) ==
  /\ phase = "loop" /\ lazy /\ from \in replies[c] /\ Opens(c, from)
  /\ live' = live \cup {c}
  /\ latched' = [latched EXCEPT ![c] = NoPacket]
  /\ Publish("READY") /\ Taken(c, from)
  /\ UNCHANGED <<phase, known, attempts, up, lazy, afdevReady, todo, procs>>
Reply(c, from) ==
  /\ phase = "loop" /\ from \in replies[c] /\ (from # "afdev" \/ c \in live)
  /\ Taken(c, from)
  /\ UNCHANGED <<phase, pub, file, peer, lazy, afdevReady, todo, procs>>

-----------------------------------------------------------------------------
(* Ends                                                                    *)

\* Ctrl+C is no Exception: cleaned up, FAILED not published.
Interrupt ==
  /\ Running /\ phase' = "cleanup"
  /\ UNCHANGED <<pub, file, peer, lazy, afdevReady, todo, procs, replies>>
\* terminate() by the parent: no handler runs.
Killed ==
  /\ phase \notin {"stopped", "killed"} /\ phase' = "killed"
  /\ UNCHANGED <<pub, file, peer, lazy, afdevReady, todo, procs, replies>>

\* Fault: the pid is looked up in the published state, where SESSION_READY puts it.
BadKnownAfdev == afdevReady /\ pidFile = "own"
KnownAfdev == pidFile = "own"
\* The finally block: whatever process the pid file names, then the loader by
\* its handle.
KillAfdev ==
  /\ phase = "cleanup" /\ phase' = "closing"
  /\ afdev' = IF KnownAfdev /\ afdev = "up" THEN "dead" ELSE afdev
  /\ bystander' = IF pidFile = "stale" THEN "dead" ELSE bystander
  /\ UNCHANGED <<pub, file, peer, lazy, afdevReady, todo, loader, pidFile, readyFile, replies>>
KillLoader ==
  /\ phase = "closing" /\ phase' = "stopped"
  /\ loader' = IF loader = "running" THEN "dead" ELSE loader
  /\ UNCHANGED <<pub, file, peer, lazy, afdevReady, todo, afdev, bystander, pidFile, readyFile,
                 replies>>

-----------------------------------------------------------------------------
(* Loader and AFDEV, as the bridge meets them, and other local senders     *)

Outside == UNCHANGED <<phase, pub, file, peer, lazy, afdevReady, todo>>
LoaderLaunches ==
  /\ loader = "running" /\ afdev = "none" /\ afdev' = "up"
  /\ Outside /\ UNCHANGED <<loader, bystander, pidFile, readyFile, replies>>
LoaderWritesPid ==
  /\ loader = "running" /\ afdev # "none" /\ pidFile' = "own"
  /\ Outside /\ UNCHANGED <<loader, afdev, bystander, readyFile, replies>>
LoaderReady ==
  /\ loader = "running" /\ afdev = "up" /\ readyFile = "none"
  /\ readyFile' \in {"own", "noKey"}
  /\ Outside /\ UNCHANGED <<loader, afdev, bystander, pidFile, replies>>
LoaderExits ==
  /\ loader = "running" /\ loader' = "dead"
  /\ Outside /\ UNCHANGED <<afdev, bystander, pidFile, readyFile, replies>>
AfdevDies ==
  /\ afdev = "up" /\ afdev' = "dead"
  /\ Outside /\ UNCHANGED <<loader, bystander, pidFile, readyFile, replies>>
AfdevAnswers(c) ==
  /\ Running /\ afdev = "up" /\ up[c] # <<>>
  /\ replies' = [replies EXCEPT ![c] = @ \cup {"afdev"}]
  /\ Outside /\ UNCHANGED procs
OtherSends(c) ==
  /\ Running /\ c \in known
  /\ replies' = [replies EXCEPT ![c] = @ \cup {"other"}]
  /\ Outside /\ UNCHANGED procs

-----------------------------------------------------------------------------
FromClient(c) ==
  \/ \E p \in Packets : MakePeer(c, p) \/ Forward(c, p)
  \/ NoSocket(c) \/ Suppress(c) \/ ForwardFails(c)
Admitted(c) == FirstPeer(c) \/ SpawnFails(c) \/ PeerWaits(c) \/ PeerWhenReady(c) \/ PeerDirect(c)
FromServer(c) == \E from \in {"afdev", "other"} : FirstReply(c, from) \/ Reply(c, from)
Poll == PollFails \/ PollPid \/ PollReady \/ SentAll
CleanUp == KillAfdev \/ KillLoader
Environment ==
  \/ LoaderLaunches \/ LoaderWritesPid \/ LoaderReady \/ LoaderExits \/ AfdevDies
  \/ \E c \in Clients : AfdevAnswers(c) \/ OtherSends(c)

Next ==
  \/ Bind \/ BindFails \/ Poll \/ Interrupt \/ Killed \/ CleanUp \/ Environment
  \/ Announce
  \/ \E c \in Clients :
       FromClient(c) \/ Admitted(c) \/ FromServer(c) \/ SendNext(c) \/ Retry(c)

Spec == Init /\ [][Next]_vars

\* The loop never blocks longer than select's 0.05 s, so what it has to do it
\* does: serve the peer it has admitted, go through the peers, retry, give up on
\* a start that takes too long, and clean up.  Nothing is assumed of clients,
\* loader or AFDEV.
Fairness ==
  /\ WF_vars(CleanUp) /\ WF_vars(SentAll) /\ WF_vars(Announce)
  /\ WF_vars(PollFails \/ PollReady)
  /\ \A c \in Clients : WF_vars(Admitted(c)) /\ WF_vars(SendNext(c)) /\ WF_vars(Retry(c))
FairSpec == Spec /\ Fairness

-----------------------------------------------------------------------------
(* Properties                                                              *)

Files == {"none", "stale", "own", "noKey"}
TypeOK ==
  /\ phase \in Phases /\ pub \in States /\ file \in States \cup {"none"}
  /\ known \subseteq Clients /\ live \subseteq known /\ todo \subseteq known
  /\ latched \in [Clients -> Packets \cup {NoPacket}]
  /\ attempts \in [Clients -> 0 .. MaxRetries]
  /\ up \in [Clients -> Seq(Packets)]
  /\ replies \in [Clients -> SUBSET {"afdev", "other"}]
  /\ lazy \in BOOLEAN /\ afdevReady \in BOOLEAN
  /\ loader \in {"none", "running", "dead"} /\ afdev \in {"none", "up", "dead"}
  /\ bystander \in {"up", "dead"}
  /\ pidFile \in Files /\ readyFile \in Files

\* Nothing an earlier run left behind counts.  AFDEV gets a datagram only after the
\* loader this bridge started reported it ready with a verified zero key; and a bridge
\* that has started its loader kills no process that an old pid file named, however it
\* ends: spawn_loader's unlink is all that its clean-up relies on.
OnlyVerifiedServer ==
  /\ lazy => \A c \in Clients : up[c] # <<>> => loader # "none" /\ readyFile = "own"
  /\ loader # "none" => bystander = "up"

\* What the word s tells has happened, in the bridge and on its server.
Happened(s) ==
  /\ s = "SPAWNING" => known # {} /\ loader # "none"
  /\ s = "AFDEV_READY" => lazy /\ known # {} /\ afdevReady /\ readyFile = "own"
  /\ s = "READY" => afdevReady /\ \E c \in live : up[c] # <<>>
  /\ s = "FAILED" => phase # "boot" /\ ~Running
\* The state file, all the allocator learns of the round, is never ahead of the
\* truth, also when a write failed or the bridge was killed; and a bridge that
\* waits for its next datagram has published the state it is in.  Behind the
\* truth is what make_peer publishes, under the old word, and a loader or a
\* datagram sent on before its word is out (spawn_loader, the direct peer).
PublishedStateTrue ==
  /\ Happened(file)
  /\ Running =>
       /\ pub \notin {"BOOTING", "FAILED"}
       /\ pub = "LISTENING" => phase = "served" \/ (known = todo /\ live = {} /\ loader = "none")
       /\ pub = "SPAWNING" => known # {} /\ live = {} /\ ~afdevReady
       /\ pub = "AFDEV_READY" => lazy /\ live = {} /\ afdevReady
       /\ pub = "READY" => live # {}

\* Whoever polls the state file never sees the round go back, though a write
\* may fail and a read may find nothing.
Rank(s) == CASE s = "BOOTING" -> 0 [] s = "LISTENING" -> 1 [] s = "SPAWNING" -> 2
             [] s = "AFDEV_READY" -> 3 [] s = "READY" -> 4 [] s = "FAILED" -> 5
FileNeverRegresses ==
  [][file # "none" /\ file' # "none" => Rank(file) <= Rank(file')]_vars

\* The relay of each client is the gated handshake of HandshakeRelay.
Served == {c \in live : up[c] # <<>>}
CameWith == [c \in Clients |-> IF c \in Served THEN up[c][1] ELSE latched[c]]
Serving == phase = "boot" \/ Running
Relay == INSTANCE HandshakeRelay WITH
  first <- CameWith, open <- Served, serverUp <- afdevReady, running <- Serving,
  MaxConns <- MaxPeers, MaxTries <- MaxRetries, gated <- lazy
RelayImplemented == Relay!Spec

\* A bridge that cleans up leaves neither its loader nor an AFDEV whose pid the
\* loader had written, unless it is killed in the middle of it.
CleansUp ==
  (phase = "cleanup" /\ pidFile = "own") ~>
    (phase = "killed" \/ (afdev # "up" /\ loader # "running"))

\* A start never hangs: AFDEV becomes ready or the bridge gives up.
StartResolves == (loader # "none") ~> (afdevReady \/ ~Running)

\* No peer is forgotten: once AFDEV is ready, each one is answered or has had all
\* its attempts, whether it came before or after.
PeersSettled ==
  \A c \in Clients :
    (c \in known /\ afdevReady) ~> (c \in live \/ attempts[c] = MaxRetries \/ ~Running)
=============================================================================
