---------------------------- MODULE BridgeProofs ----------------------------
(***************************************************************************)
(* Proofs about Bridge for any clients, packets and limits: its types, the *)
(* truth of what it publishes, that it implements HandshakeRelay, and that *)
(* the state in its file never goes back.                                  *)
(***************************************************************************)
EXTENDS Bridge, SequenceTheorems, TLAPS

(***************************************************************************)
(* The inductive invariant.                                                *)
(***************************************************************************)

\* A peer that is not live has been sent nothing but its latched packet, once
\* per attempt; nobody hears from AFDEV before it was sent something.
PeerOK(c) ==
  /\ c \notin known => latched[c] = NoPacket /\ up[c] = <<>> /\ attempts[c] = 0
  /\ c \in known \ live =>
       /\ latched[c] \in Packets /\ Len(up[c]) = attempts[c]
       /\ up[c] # <<>> => up[c][1] = latched[c]
  /\ c \in live => latched[c] = NoPacket
  /\ "afdev" \in replies[c] \/ (c \in live /\ (lazy \/ Running)) => up[c] # <<>>
  /\ up[c] # <<>> => afdevReady
PeersOK == \A c \in Clients : PeerOK(c)

\* The files a bridge acts on are its own loader's.
ServerOK ==
  /\ lazy => /\ afdevReady => loader # "none" /\ readyFile = "own"
             /\ loader # "none" => readyFile # "stale" /\ pidFile # "stale"
             /\ live # {} => afdevReady
  /\ ~lazy => /\ afdevReady /\ loader = "none"
              /\ Running => known \ live = todo
  /\ bystander = "dead" => loader = "none" /\ phase # "boot" /\ ~Running

PhaseOK ==
  /\ phase = "boot" => known = {} /\ loader = "none"
  /\ phase \in {"boot", "loop", "served"} => todo = {}
  /\ Running /\ lazy => /\ loader = "none" => known = todo /\ live = {}
                        /\ loader # "none" => known # {}
  /\ phase = "admitted" => \E c \in known \ live : todo = {c} /\ attempts[c] = 0
  /\ phase = "served" => IF lazy THEN loader # "none" /\ ~afdevReady ELSE live # {}
  /\ phase = "sendAll" => /\ lazy /\ afdevReady
                          /\ \A c \in todo : c \notin live /\ attempts[c] = 0

Expected ==
  IF live # {} THEN "READY"
  ELSE IF loader = "none" THEN "LISTENING"
  ELSE IF afdevReady THEN "AFDEV_READY" ELSE "SPAWNING"
PubOK ==
  Running => IF phase = "served" THEN pub = "LISTENING" \/ (~lazy /\ pub = "READY")
             ELSE pub = Expected

Inv == TypeOK /\ PeersOK /\ ServerOK /\ PhaseOK /\ PubOK

-----------------------------------------------------------------------------
LEMMA InitInv == Init => Inv
<1> SUFFICES ASSUME Init PROVE Inv
  OBVIOUS
<1>1. TypeOK
  <2>1. up \in [Clients -> Seq(Packets)] BY DEF Init
  <2> QED BY <2>1, BridgeAssumption DEF Init, TypeOK, Phases, States, Files
<1>2. PeersOK BY DEF Init, PeersOK, PeerOK, Running
<1>3. ServerOK /\ PhaseOK /\ PubOK
  BY BridgeAssumption DEF Init, ServerOK, PhaseOK, PubOK, Running
<1> QED BY <1>1, <1>2, <1>3 DEF Inv

\* What a running bridge published last is the state it is in.
PubTrue ==
  Running =>
    /\ pub \notin {"BOOTING", "FAILED"}
    /\ pub = "LISTENING" => phase = "served" \/ (known = todo /\ live = {} /\ loader = "none")
    /\ pub = "SPAWNING" => known # {} /\ live = {} /\ ~afdevReady
    /\ pub = "AFDEV_READY" => lazy /\ live = {} /\ afdevReady
    /\ pub = "READY" => live # {}

LEMMA InvImplies == Inv => TypeOK /\ OnlyVerifiedServer /\ PubTrue
<1> SUFFICES ASSUME Inv PROVE OnlyVerifiedServer /\ PubTrue
  BY DEF Inv
<1>1. OnlyVerifiedServer
  BY DEF Inv, TypeOK, PeersOK, PeerOK, ServerOK, OnlyVerifiedServer
<1>2. PubTrue
  <2>1. CASE phase = "served"
    BY <2>1 DEF Inv, PhaseOK, PubOK, PubTrue
  <2>2. CASE phase # "served"
    BY <2>2 DEF Inv, ServerOK, PhaseOK, PubOK, Expected, TypeOK, PubTrue
  <2> QED BY <2>1, <2>2
<1> QED BY <1>1, <1>2

\* What publish() leaves in memory and in the file has its type.
LEMMA PublishType ==
  ASSUME TypeOK, NEW s \in States, Publish(s)
  PROVE  pub' = s /\ pub' \in States /\ file' \in States \cup {"none"}
BY DEF TypeOK, Publish

\* A step that leaves the peers alone, and does not start the loop.
LEMMA PeersStay ==
  ASSUME Inv, UNCHANGED <<peer, replies, lazy, afdevReady>>, Running' => Running \/ phase = "boot"
  PROVE  PeersOK'
BY DEF Inv, PeersOK, PeerOK, PhaseOK, peer, TypeOK

\* The exception handler, and a handler that left the peers alone until then.
LEMMA FailInv ==
  ASSUME Inv, Fail, UNCHANGED <<peer, lazy, afdevReady, replies>>,
         todo' \subseteq known, UNCHANGED <<loader, afdev, bystander>>,
         pidFile' \in {pidFile, "none"}, readyFile' = readyFile \/ (lazy /\ ~afdevReady /\ readyFile' = "none"),
         Running
  PROVE  Inv'
<1> USE DEF Inv, Fail
<1>1. TypeOK'
  BY DEF TypeOK, Publish, Phases, States, Files, peer
<1>2. PeersOK'
  BY PeersStay DEF Running
<1>3. ServerOK' /\ PhaseOK' /\ PubOK'
  BY DEF ServerOK, PhaseOK, PubOK, Running, peer
<1> QED BY <1>1, <1>2, <1>3

\* Steps that touch no peer: the state machine around the loop.
LEMMA QuietInv ==
  ASSUME Inv,
         \/ Bind \/ BindFails \/ PollPid \/ SentAll \/ Interrupt \/ Killed
         \/ KillAfdev \/ KillLoader \/ LoaderLaunches \/ LoaderWritesPid \/ LoaderReady
         \/ LoaderExits \/ AfdevDies
         \/ \E c \in Clients : Suppress(c)
  PROVE  Inv'
<1> USE DEF Inv, Republish, Outside, CleanUp
<1>1. UNCHANGED <<peer, replies, lazy, afdevReady, todo>> /\ (Running' => Running \/ phase = "boot")
  BY DEF Bind, BindFails, PollPid, SentAll, Interrupt, Killed, KillAfdev, KillLoader,
         LoaderLaunches, LoaderWritesPid, LoaderReady, LoaderExits, AfdevDies, Suppress,
         Running, Polling, procs
<1>2. PeersOK'
  BY <1>1, PeersStay
<1>3. /\ phase' \in Phases /\ pub' \in States /\ file' \in States \cup {"none"}
      /\ loader' \in {"none", "running", "dead"} /\ afdev' \in {"none", "up", "dead"}
      /\ bystander' \in {"up", "dead"} /\ pidFile' \in Files /\ readyFile' \in Files
  BY DEF TypeOK, Publish, Phases, States, Files, procs,
         Bind, BindFails, PollPid, SentAll, Interrupt, Killed, KillAfdev, KillLoader,
         LoaderLaunches, LoaderWritesPid, LoaderReady, LoaderExits, AfdevDies, Suppress
<1>4. TypeOK'
  BY <1>1, <1>3 DEF TypeOK, peer
<1>5. /\ (loader' = "none" <=> loader = "none")
      /\ readyFile' = readyFile \/ (readyFile = "none" /\ loader # "none" /\ readyFile' # "stale")
      /\ pidFile' = pidFile \/ pidFile' = "own"
  BY DEF Bind, BindFails, PollPid, SentAll, Interrupt, Killed, KillAfdev, KillLoader,
         LoaderLaunches, LoaderWritesPid, LoaderReady, LoaderExits, AfdevDies, Suppress, procs
<1>6. /\ phase' # "boot" \/ phase = "boot"
      /\ phase' = "sendAll" => phase = "sendAll"
      /\ phase' = "admitted" => phase = "admitted"
      /\ phase' = "served" => phase = "served"
      /\ phase' = "loop" => todo = {}
      /\ Running' => \/ Running /\ pub' = pub /\ (phase' = phase \/ phase = "sendAll")
                     \/ phase = "boot" /\ pub' = "LISTENING" /\ phase' = "loop"
      /\ bystander' = bystander
           \/ (phase = "cleanup" /\ phase' = "closing" /\ pidFile = "stale")
  BY DEF Publish, Bind, BindFails, PollPid, SentAll, Interrupt, Killed, KillAfdev, KillLoader,
         LoaderLaunches, LoaderWritesPid, LoaderReady, LoaderExits, AfdevDies, Suppress,
         Running, Polling, procs, PhaseOK
<1>7. ServerOK'
  BY <1>1, <1>5, <1>6 DEF ServerOK, PhaseOK, Running, peer, TypeOK
<1>8. PhaseOK'
  BY <1>1, <1>5, <1>6 DEF PhaseOK, ServerOK, Running, peer, TypeOK
<1>9. PubOK'
  BY <1>1, <1>5, <1>6 DEF PhaseOK, PubOK, Expected, Running, peer, TypeOK
<1> QED BY <1>2, <1>4, <1>7, <1>8, <1>9

\* The steps that end in the exception handler and do nothing else.
LEMMA RaisedInv ==
  ASSUME Inv, PollFails \/ \E c \in Clients : NoSocket(c) \/ SpawnFails(c) \/ ForwardFails(c)
  PROVE  Inv'
<1>1. /\ Fail /\ UNCHANGED <<peer, lazy, afdevReady, replies, loader, afdev, bystander>> /\ Running
      /\ todo' \subseteq known /\ pidFile' \in {pidFile, "none"}
      /\ readyFile' = readyFile \/ (lazy /\ loader = "none" /\ readyFile' = "none")
  BY DEF PollFails, Polling, NoSocket, SpawnFails, Serve, ForwardFails, procs, Running, Inv, TypeOK
<1>2. readyFile' = readyFile \/ (lazy /\ ~afdevReady /\ readyFile' = "none")
  BY <1>1 DEF Inv, ServerOK
<1> QED BY <1>1, <1>2, FailInv

\* A step that gives every client it changes a good record keeps PeersOK.
LEMMA OnePeer ==
  ASSUME PeersOK, NEW c \in Clients, PeerOK(c)',
         \A d \in Clients \ {c} : PeerOK(d) => PeerOK(d)'
  PROVE  PeersOK'
BY DEF PeersOK

\* Admission of a new peer, in whatever state the bridge is.
LEMMA NewPeerInv ==
  ASSUME Inv, NEW c \in Clients, NEW p \in Packets, MakePeer(c, p)
  PROVE  Inv'
<1> USE DEF Inv
<1>1. /\ phase = "loop" /\ c \notin known /\ c \notin live /\ known' = known \cup {c}
      /\ todo' = {c} /\ phase' = "admitted" /\ todo = {}
      /\ latched[c] = NoPacket /\ up[c] = <<>> /\ attempts[c] = 0 /\ p # NoPacket
      /\ latched' = [latched EXCEPT ![c] = p] /\ pub' = pub
      /\ UNCHANGED <<live, attempts, up, lazy, afdevReady, procs, replies>>
  BY BridgeAssumption DEF MakePeer, Republish, Publish, PeersOK, PeerOK, PhaseOK, TypeOK
<1>2. TypeOK'
  <2>1. file' \in States \cup {"none"}
    BY DEF MakePeer, Republish, Publish, TypeOK
  <2> QED BY <1>1, <2>1 DEF TypeOK, Phases, procs
<1>3. PeersOK'
  <2>1. \A d \in Clients \ {c} : PeerOK(d) => PeerOK(d)'
    BY <1>1 DEF PeerOK, TypeOK, Running
  <2>2. PeerOK(c)'
    BY <1>1 DEF PeersOK, PeerOK, TypeOK
  <2> QED BY <2>1, <2>2, OnePeer
<1>4. ServerOK'
  BY <1>1 DEF ServerOK, Running, TypeOK, procs
<1>5. PhaseOK' /\ PubOK'
  BY <1>1 DEF PhaseOK, PubOK, Expected, Running, TypeOK, procs
<1> QED BY <1>2, <1>3, <1>4, <1>5

\* What the handler does for the peer it admitted, but for a first datagram sent.
LEMMA AdmittedInv ==
  ASSUME Inv, NEW c \in Clients, FirstPeer(c) \/ PeerWaits(c)
  PROVE  Inv'
<1> USE DEF Inv
<1>1. /\ phase = "admitted" /\ todo = {c} /\ c \in known \ live /\ lazy /\ ~afdevReady
      /\ todo' = {} /\ phase' \in {"loop", "served"} /\ pub' = pub /\ file' = file
      /\ (phase' = "served" <=> loader = "none") /\ loader' # "none"
      /\ pidFile' \in {pidFile, "none"} /\ readyFile' \in {readyFile, "none"}
      /\ (loader = "none" => pidFile' = "none" /\ readyFile' = "none")
      /\ loader' \in {loader, "running"}
      /\ UNCHANGED <<peer, lazy, afdevReady, afdev, bystander, replies>>
  BY DEF FirstPeer, PeerWaits, Serve, Spawned, PhaseOK, ServerOK, procs
<1>2. TypeOK'
  BY <1>1 DEF TypeOK, Phases, Files, peer
<1>3. PeersOK'
  BY <1>1, PeersStay DEF Running
<1>4. ServerOK'
  BY <1>1 DEF ServerOK, Running, peer
<1>5. PhaseOK'
  BY <1>1 DEF PhaseOK, Running, peer, TypeOK
<1>6. PubOK'
  BY <1>1 DEF PhaseOK, ServerOK, PubOK, Expected, Running, peer, TypeOK
<1> QED BY <1>2, <1>3, <1>4, <1>5, <1>6

\* A peer of a bridge whose AFDEV is there from the start.
LEMMA DirectInv ==
  ASSUME Inv, NEW c \in Clients, PeerDirect(c)
  PROVE  Inv'
<1> USE DEF Inv
<1>1. /\ phase = "admitted" /\ todo = {c} /\ c \in known \ live /\ ~lazy /\ afdevReady
      /\ todo' = {} /\ live' = live \cup {c} /\ latched' = [latched EXCEPT ![c] = NoPacket]
      /\ latched[c] \in Packets /\ known \ live = todo
      /\ UNCHANGED <<known, attempts, lazy, afdevReady, procs, replies>>
  BY DEF PeerDirect, Serve, PhaseOK, ServerOK, PeersOK, PeerOK, Running
<1>2. CASE up' = [up EXCEPT ![c] = <<latched[c]>>] /\ phase' = "served" /\ UNCHANGED <<pub, file>>
  <2>1. up'[c] = <<latched[c]>> /\ up'[c] # <<>> /\ up' \in [Clients -> Seq(Packets)]
        /\ \A d \in Clients \ {c} : up'[d] = up[d]
    <3>1. <<latched[c]>> \in Seq(Packets)
      BY <1>1
    <3> QED BY <1>2, <3>1 DEF TypeOK
  <2>2. TypeOK'
    BY <1>1, <1>2, <2>1 DEF TypeOK, Phases, procs
  <2>3. PeersOK'
    <3>1. \A d \in Clients \ {c} : PeerOK(d) => PeerOK(d)'
      BY <1>1, <1>2, <2>1 DEF PeerOK, Running, TypeOK
    <3>2. PeerOK(c)'
      BY <1>1, <2>1 DEF PeerOK, TypeOK
    <3> QED BY <3>1, <3>2, OnePeer
  <2>4. ServerOK' /\ PhaseOK'
    BY <1>1, <1>2 DEF ServerOK, PhaseOK, Running, procs, TypeOK
  <2>5. PubOK'
    BY <1>1, <1>2 DEF ServerOK, PubOK, Expected, Running, procs
  <2> QED BY <2>2, <2>3, <2>4, <2>5
<1>3. CASE Fail /\ UNCHANGED up
  <2>1. phase' = "cleanup" /\ pub' \in States /\ file' \in States \cup {"none"} /\ ~Running'
    BY <1>3 DEF Fail, Publish, States, Running, TypeOK
  <2>2. TypeOK'
    BY <1>1, <1>3, <2>1 DEF TypeOK, Phases, procs
  <2>3. PeersOK'
    <3>1. \A d \in Clients \ {c} : PeerOK(d) => PeerOK(d)'
      BY <1>1, <1>3, <2>1 DEF PeerOK, Running, TypeOK
    <3>2. PeerOK(c)'
      BY <1>1, <1>3, <2>1 DEF PeersOK, PeerOK, TypeOK
    <3> QED BY <3>1, <3>2, OnePeer
  <2>4. ServerOK' /\ PhaseOK' /\ PubOK'
    BY <1>1, <2>1 DEF ServerOK, PhaseOK, PubOK, Running, procs
  <2> QED BY <2>2, <2>3, <2>4
<1> QED BY <1>2, <1>3 DEF PeerDirect

\* The word for a loader started or a peer made live.
LEMMA AnnounceInv ==
  ASSUME Inv, Announce
  PROVE  Inv'
<1> USE DEF Inv
<1>1. /\ phase = "served" /\ todo = {} /\ (lazy => loader # "none" /\ ~afdevReady) /\ (~lazy => live # {})
      /\ UNCHANGED <<peer, lazy, afdevReady, todo, procs, replies>>
  BY DEF Announce, PhaseOK
<1>2. CASE Fail
  BY <1>1, <1>2, FailInv DEF procs, Running, TypeOK
<1>3. CASE phase' = "loop" /\ Publish(IF lazy THEN "SPAWNING" ELSE "READY")
  <2>1. pub' = (IF lazy THEN "SPAWNING" ELSE "READY") /\ pub' \in States
        /\ file' \in States \cup {"none"}
    BY <1>3 DEF Publish, States, TypeOK
  <2>2. TypeOK'
    BY <1>1, <1>3, <2>1 DEF TypeOK, Phases, peer, procs
  <2>3. PeersOK'
    BY <1>1, <1>3, PeersStay DEF Running
  <2>4. ServerOK' /\ PhaseOK'
    BY <1>1, <1>3 DEF ServerOK, PhaseOK, Running, peer, procs
  <2>5. PubOK'
    BY <1>1, <1>3, <2>1 DEF ServerOK, PubOK, Expected, Running, peer, procs
  <2> QED BY <2>2, <2>3, <2>4, <2>5
<1> QED BY <1>2, <1>3 DEF Announce

\* The latched datagram of a waiting peer goes out, or the send fails.
LEMMA SendInv ==
  ASSUME Inv, NEW c \in Clients, SendNext(c) \/ Retry(c) \/ PeerWhenReady(c)
  PROVE  Inv'
<1> USE DEF Inv
<1>1. /\ c \in known \ live /\ latched[c] \in Packets /\ attempts[c] < MaxRetries
      /\ lazy /\ afdevReady /\ Len(up[c]) = attempts[c] /\ up[c] \in Seq(Packets)
      /\ attempts[c] \in Nat /\ Running
      /\ UNCHANGED <<known, latched, live, lazy, afdevReady, procs, replies>> /\ todo' \subseteq todo
  BY BridgeAssumption DEF SendNext, Retry, MayRetry, PeerWhenReady, Serve, Running, PeersOK, PeerOK,
     PhaseOK, TypeOK
<1>2. CASE phase' = "cleanup" /\ UNCHANGED <<up, attempts>> /\ Fail
  BY <1>1, <1>2, FailInv DEF procs, peer, TypeOK
<1>3. CASE /\ SendLatched(c) /\ Republish
           /\ phase' = phase \/ (phase = "admitted" /\ phase' = "loop" /\ todo' = {})
  <2>1. /\ up'[c] = Append(up[c], latched[c]) /\ attempts'[c] = attempts[c] + 1
        /\ up'[c] \in Seq(Packets) /\ Len(up'[c]) = attempts'[c] /\ up'[c] # <<>>
        /\ up'[c][1] = IF up[c] = <<>> THEN latched[c] ELSE up[c][1]
        /\ \A d \in Clients \ {c} : up'[d] = up[d] /\ attempts'[d] = attempts[d]
    BY <1>1, <1>3 DEF SendLatched, TypeOK
  <2>2. TypeOK'
    <3>1. up' \in [Clients -> Seq(Packets)] /\ attempts' \in [Clients -> 0 .. MaxRetries]
      BY <1>1, <1>3, <2>1, BridgeAssumption DEF SendLatched, TypeOK
    <3> QED BY <1>1, <1>3, <3>1 DEF TypeOK, Republish, Publish, Phases, procs
  <2>3. PeersOK'
    <3>1. \A d \in Clients \ {c} : PeerOK(d) => PeerOK(d)'
      BY <1>1, <1>3, <2>1 DEF PeerOK, Running
    <3>2. PeerOK(c)'
      BY <1>1, <2>1 DEF PeerOK, PeersOK
    <3> QED BY <3>1, <3>2, OnePeer
  <2>4. ServerOK' /\ PhaseOK' /\ PubOK'
    <3>1. ServerOK' BY <1>1 DEF ServerOK, procs
    <3>2. PhaseOK'
      <4>1. loader # "none"
        BY <1>1 DEF ServerOK
      <4>2. phase' # "admitted"
        BY <1>3 DEF SendNext, Retry, PeerWhenReady, Serve, Fail
      <4> QED BY <1>1, <1>3, <2>1, <4>1, <4>2 DEF PhaseOK, Running, SendNext, Retry, PeerWhenReady,
             Serve, procs, TypeOK
    <3>3. PubOK'
      BY <1>1, <1>3 DEF PubOK, PhaseOK, Expected, Running, Republish, Publish, procs
    <3> QED BY <3>1, <3>2, <3>3
  <2> QED BY <2>2, <2>3, <2>4
<1> QED BY <1>2, <1>3 DEF SendNext, Retry, PeerWhenReady, Serve, Fail

\* AFDEV is found ready.
LEMMA ReadyInv ==
  ASSUME Inv, PollReady
  PROVE  Inv'
<1> USE DEF Inv
<1>1. /\ phase = "loop" /\ lazy /\ ~afdevReady /\ loader = "running" /\ live = {}
      /\ readyFile = "own" /\ afdevReady' = TRUE /\ phase' = "sendAll" /\ pub' = "AFDEV_READY"
      /\ UNCHANGED <<lazy, peer, procs, replies>>
  BY DEF PollReady, Polling, ServerOK, Publish
<1>2. TypeOK'
  BY <1>1 DEF PollReady, TypeOK, Publish, States, Phases, peer, procs
<1>3. PeersOK'
  BY <1>1 DEF PeersOK, PeerOK, Running, peer
<1>4. ServerOK' /\ PhaseOK' /\ PubOK'
  BY <1>1 DEF PollReady, ServerOK, PhaseOK, PubOK, Expected, Running, peer, procs
<1> QED BY <1>2, <1>3, <1>4

\* A datagram of a live peer goes on to AFDEV.
LEMMA ForwardInv ==
  ASSUME Inv, NEW c \in Clients, NEW p \in Packets, Forward(c, p)
  PROVE  Inv'
<1> USE DEF Inv
<1>1. /\ c \in live /\ up[c] \in Seq(Packets) /\ up[c] # <<>>
      /\ up' = [up EXCEPT ![c] = Append(@, p)]
      /\ UNCHANGED <<phase, pub, file, known, latched, live, attempts, lazy, afdevReady, todo, procs, replies>>
  BY DEF Forward, Relays, ServerOK, PhaseOK, PeersOK, PeerOK, TypeOK, Running
<1>2. up' \in [Clients -> Seq(Packets)] /\ up'[c] # <<>> /\ \A d \in Clients \ {c} : up'[d] = up[d]
  BY <1>1 DEF TypeOK
<1>3. TypeOK'
  BY <1>1, <1>2 DEF TypeOK, procs
<1>4. PeersOK'
  BY <1>1, <1>2 DEF PeersOK, PeerOK, Running
<1>5. ServerOK' /\ PhaseOK' /\ PubOK'
  BY <1>1 DEF ServerOK, PhaseOK, PubOK, Expected, Running, procs
<1> QED BY <1>3, <1>4, <1>5

\* Something arrives at, or is taken from, a peer's upstream socket.
LEMMA RepliesInv ==
  ASSUME Inv, NEW c \in Clients, FromServer(c) \/ AfdevAnswers(c) \/ OtherSends(c)
  PROVE  Inv'
<1> USE DEF Inv
<1>1. CASE AfdevAnswers(c) \/ OtherSends(c) \/ \E from \in {"afdev", "other"} : Reply(c, from)
  <2>1. /\ UNCHANGED <<phase, pub, file, peer, lazy, afdevReady, todo, procs>>
        /\ replies' \in [Clients -> SUBSET {"afdev", "other"}]
        /\ \A d \in Clients : "afdev" \in replies'[d] => up[d] # <<>>
    <3>1. CASE AfdevAnswers(c)
      BY <3>1 DEF AfdevAnswers, Outside, TypeOK, PeersOK, PeerOK
    <3>2. CASE OtherSends(c)
      BY <3>2 DEF OtherSends, Outside, TypeOK, PeersOK, PeerOK
    <3>3. ASSUME NEW from \in {"afdev", "other"}, Reply(c, from)
          PROVE  /\ UNCHANGED <<phase, pub, file, peer, lazy, afdevReady, todo, procs>>
                 /\ replies' = [replies EXCEPT ![c] = @ \ {from}]
      BY <3>3 DEF Reply, Taken
    <3>4. CASE \E from \in {"afdev", "other"} : Reply(c, from)
      <4>1. PICK from \in {"afdev", "other"} : replies' = [replies EXCEPT ![c] = @ \ {from}]
        BY <3>3, <3>4
      <4>2. \A d \in Clients : replies'[d] \subseteq replies[d]
        BY <4>1 DEF TypeOK
      <4>3. replies' \in [Clients -> SUBSET {"afdev", "other"}]
        BY <4>1 DEF TypeOK
      <4>4. UNCHANGED <<phase, pub, file, peer, lazy, afdevReady, todo, procs>>
        BY <3>3, <3>4
      <4> QED BY <4>2, <4>3, <4>4 DEF PeersOK, PeerOK
    <3> QED BY <1>1, <3>1, <3>2, <3>4
  <2>2. TypeOK' BY <2>1 DEF TypeOK, peer, procs
  <2>3. PeersOK' BY <2>1 DEF PeersOK, PeerOK, Running, peer
  <2>4. ServerOK' /\ PhaseOK' /\ PubOK'
    BY <2>1 DEF ServerOK, PhaseOK, PubOK, Expected, Running, peer, procs
  <2> QED BY <2>2, <2>3, <2>4
<1>2. CASE FirstReply(c, "afdev")
  <2>1. /\ phase = "loop" /\ phase' = phase /\ lazy /\ c \in known /\ up[c] # <<>> /\ afdevReady
        /\ live' = live \cup {c} /\ latched' = [latched EXCEPT ![c] = NoPacket]
        /\ pub' = "READY" /\ replies' = [replies EXCEPT ![c] = @ \ {"afdev"}]
        /\ UNCHANGED <<known, attempts, up, lazy, afdevReady, todo, procs>>
    BY <1>2 DEF FirstReply, Opens, Taken, Publish, PeersOK, PeerOK
  <2>2. TypeOK'
    BY <1>2, <2>1 DEF TypeOK, FirstReply, Publish, States, procs
  <2>3. PeersOK'
    <3>1. \A d \in Clients \ {c} : PeerOK(d) => PeerOK(d)'
      BY <2>1 DEF PeerOK, Running, TypeOK
    <3>2. PeerOK(c)'
      BY <2>1 DEF PeerOK, TypeOK
    <3> QED BY <3>1, <3>2, OnePeer
  <2>4. ServerOK' /\ PhaseOK' /\ PubOK'
    BY <2>1 DEF ServerOK, PhaseOK, PubOK, Expected, Running, procs
  <2> QED BY <2>2, <2>3, <2>4
<1> QED BY <1>1, <1>2 DEF FromServer, FirstReply, Opens

LEMMA NextInv == Inv /\ [Next]_vars => Inv'
<1> SUFFICES ASSUME Inv, [Next]_vars PROVE Inv'
  OBVIOUS
<1>1. CASE Bind \/ BindFails \/ Interrupt \/ Killed \/ CleanUp
  BY <1>1, QuietInv DEF CleanUp
<1>2. CASE Poll \/ Announce
  BY <1>2, QuietInv, RaisedInv, ReadyInv, AnnounceInv DEF Poll
<1>3. CASE Environment
  BY <1>3, QuietInv, RepliesInv DEF Environment
<1>4. ASSUME NEW c \in Clients, FromClient(c) \/ Admitted(c) PROVE Inv'
  BY <1>4, QuietInv, RaisedInv, NewPeerInv, ForwardInv, AdmittedInv, DirectInv, SendInv
     DEF FromClient, Admitted
<1>5. ASSUME NEW c \in Clients, FromServer(c) \/ SendNext(c) \/ Retry(c) PROVE Inv'
  BY <1>5, RepliesInv, SendInv
<1>6. CASE UNCHANGED vars
  BY <1>6 DEF vars, peer, procs, Inv, TypeOK, PeersOK, PeerOK, ServerOK, PhaseOK, PubOK, Expected,
              Running
<1> QED BY <1>1, <1>2, <1>3, <1>4, <1>5, <1>6 DEF Next

\* The inductive invariant of the bridge, for any clients and any limits.
THEOREM SpecInv == Spec => []Inv
BY InitInv, NextInv, PTL DEF Spec

\* The type invariant; with it, no peer is sent its latched datagram more than
\* MaxRetries times.
THEOREM TypeCorrect == Spec => []TypeOK
BY SpecInv, InvImplies, PTL

\* AFDEV hears nothing before the loader of this bridge reported it ready, and a bridge
\* that has started its loader kills no process an earlier run named.
THEOREM ServerIsVerified == Spec => []OnlyVerifiedServer
BY SpecInv, InvImplies, PTL

-----------------------------------------------------------------------------
(* Refinement                                                              *)

\* While the bridge serves, the abstract connections are its peers, the open
\* ones its live peers.
LEMMA AbstractPeers ==
  ASSUME Inv, Serving
  PROVE  /\ Served = live /\ Relay!Connected = known
         /\ \A c \in known \ live : CameWith[c] = latched[c]
         /\ \A c \in Clients \ known : CameWith[c] = NoPacket
<1> USE DEF Inv
<1>1. Served = live
  BY BridgeAssumption DEF Served, Serving, Running, PeersOK, PeerOK, PhaseOK, TypeOK
<1>2. \A c \in Clients : CameWith[c] = IF c \in live THEN up[c][1] ELSE latched[c]
  BY <1>1 DEF CameWith
<1>3. \A c \in live : up[c][1] \in Packets
  <2> SUFFICES ASSUME NEW c \in live PROVE up[c][1] \in Packets
    OBVIOUS
  <2>1. up[c] \in Seq(Packets) /\ up[c] # <<>>
    BY <1>1 DEF Served, TypeOK
  <2> QED BY <2>1
<1>4. \A c \in Clients : CameWith[c] # NoPacket <=> c \in known
  BY <1>2, <1>3, BridgeAssumption DEF PeersOK, PeerOK, TypeOK
<1> QED BY <1>1, <1>2, <1>4 DEF Relay!Connected, PeersOK, PeerOK, TypeOK

LEMMA RelayInit == Init => Relay!Init
BY BridgeAssumption DEF Init, Relay!Init, CameWith, Served, Serving

\* Nothing a client or AFDEV could notice: a stutter, or the end of service.
LEMMA QuietRefines ==
  ASSUME Inv, UNCHANGED <<peer, lazy, afdevReady>>, Serving' => Serving
  PROVE  [Relay!Next]_(Relay!vars)
<1>1. CameWith' = CameWith /\ Served' = Served /\ up' = up /\ afdevReady' = afdevReady
  BY DEF CameWith, Served, peer
<1>2. CASE Serving' = Serving
  BY <1>1, <1>2 DEF Relay!vars
<1>3. CASE Serving' # Serving
  <2>1. Serving /\ ~Serving'
    BY <1>3 DEF Serving
  <2>2. Relay!Stop
    BY <1>1, <2>1 DEF Relay!Stop
  <2> QED BY <2>2 DEF Relay!Next
<1> QED BY <1>2, <1>3

\* The two modules count alike.
LEMMA SameCount == ASSUME NEW S PROVE Relay!Cardinality(S) = Cardinality(S)
BY Zenon DEF Relay!Cardinality, Cardinality, Relay!IsFiniteSet, IsFiniteSet

\* A new peer is a new connection, at most MaxPeers of them.
LEMMA NewPeerRefines ==
  ASSUME Inv, NEW c \in Clients, NEW p \in Packets, MakePeer(c, p)
  PROVE  Relay!Next
<1>1. /\ phase = "loop" /\ c \notin known /\ Cardinality(known) < MaxPeers /\ phase' = "admitted"
      /\ latched' = [latched EXCEPT ![c] = p] /\ UNCHANGED <<live, up, lazy, afdevReady>>
  BY DEF MakePeer
<1>2. /\ Serving /\ Serving' /\ c \in Clients \ Relay!Connected /\ c \notin live
      /\ Relay!Cardinality(Relay!Connected) < MaxPeers
  BY <1>1, AbstractPeers, SameCount DEF Serving, Running, Inv, TypeOK
<1>3. Served' = Served /\ c \notin Served
  BY <1>1, <1>2 DEF Served
<1>4. CameWith' = [CameWith EXCEPT ![c] = p]
  BY <1>1, <1>3 DEF CameWith, Inv, TypeOK
<1>5. Relay!Connect(c, p)
  BY <1>1, <1>2, <1>3, <1>4 DEF Relay!Connect
<1> QED BY <1>5 DEF Relay!Next

\* A latched datagram sent is a try; a send that fails ends the service.
LEMMA SendRefines ==
  ASSUME Inv, NEW c \in Clients, SendNext(c) \/ Retry(c) \/ PeerWhenReady(c)
  PROVE  Relay!Next
<1>1. /\ Serving /\ c \in known \ live /\ lazy /\ afdevReady /\ attempts[c] < MaxRetries
      /\ UNCHANGED <<latched, live, lazy, afdevReady>>
  BY BridgeAssumption DEF Inv, PhaseOK, TypeOK, SendNext, Retry, MayRetry, PeerWhenReady, Serve,
     Serving, Running
<1>2. /\ Served = live /\ c \in Relay!Connected /\ CameWith[c] = latched[c]
      /\ Len(up[c]) = attempts[c]
  BY <1>1, AbstractPeers DEF Inv, PeersOK, PeerOK
<1>3. CASE Fail /\ up' = up
  <2>1. CameWith' = CameWith /\ Served' = Served
    BY <1>1, <1>3 DEF CameWith, Served
  <2>2. Relay!Stop
    BY <1>1, <1>3, <2>1 DEF Relay!Stop, Fail, Serving, Running
  <2> QED BY <2>2 DEF Relay!Next
<1>4. CASE SendLatched(c) /\ Serving'
  <2>1. up' = [up EXCEPT ![c] = Append(@, latched[c])] /\ \A d \in Clients \ {c} : up'[d] = up[d]
    BY <1>4 DEF SendLatched, Inv, TypeOK
  <2>2. Served' = Served
    BY <1>1, <2>1 DEF Served, Inv, TypeOK
  <2>3. CameWith' = CameWith
    BY <1>1, <1>2, <2>1, <2>2 DEF CameWith
  <2>4. Relay!Try(c)
    BY <1>1, <1>2, <1>4, <2>1, <2>2, <2>3 DEF Relay!Try
  <2> QED BY <2>4 DEF Relay!Next
<1> QED BY <1>1, <1>3, <1>4 DEF SendNext, Retry, PeerWhenReady, Fail, Serving, Running

\* The first datagram of a peer whose server is there opens its connection.
LEMMA DirectRefines ==
  ASSUME Inv, NEW c \in Clients, PeerDirect(c)
  PROVE  Relay!Next
<1>1. /\ Serving /\ c \in known \ live /\ ~lazy /\ afdevReady /\ up[c] = <<>>
      /\ live' = live \cup {c} /\ latched' = [latched EXCEPT ![c] = NoPacket]
      /\ UNCHANGED <<lazy, afdevReady>>
  BY BridgeAssumption DEF PeerDirect, Serve, Inv, PhaseOK, ServerOK, PeersOK, PeerOK, TypeOK,
     Serving, Running
<1>2. /\ Served = live /\ c \in Relay!Connected /\ CameWith[c] = latched[c] /\ latched[c] \in Packets
  BY <1>1, AbstractPeers DEF Inv, PeersOK, PeerOK
<1>3. \A d \in Clients \ {c} : latched'[d] = latched[d]
  BY <1>1 DEF Inv, TypeOK
<1>4. CASE Fail /\ up' = up
  <2>1. Served' = Served /\ c \notin Served
    BY <1>1, <1>4 DEF Served
  <2>2. CameWith' = [CameWith EXCEPT ![c] = NoPacket]
    BY <1>1, <1>3, <1>4, <2>1 DEF CameWith, Inv, TypeOK
  <2>3. Relay!Stop
    BY <1>1, <1>4, <2>1, <2>2 DEF Relay!Stop, Fail, Serving, Running
  <2> QED BY <2>3 DEF Relay!Next
<1>5. CASE up' = [up EXCEPT ![c] = <<latched[c]>>] /\ phase' = "served"
  <2>1. /\ up'[c] = <<latched[c]>> /\ up'[c] # <<>> /\ up'[c][1] = latched[c]
        /\ \A d \in Clients \ {c} : up'[d] = up[d]
    BY <1>5 DEF Inv, TypeOK
  <2>2. Served' = Served \cup {c}
    BY <1>1, <1>2, <2>1 DEF Served, Inv, TypeOK
  <2>3. CameWith' = CameWith
    BY <1>1, <1>2, <1>3, <2>1, <2>2 DEF CameWith
  <2>4. up' = [up EXCEPT ![c] = Append(@, CameWith[c])]
    <3>1. Append(up[c], latched[c]) = <<latched[c]>>
      BY <1>1
    <3> QED BY <1>2, <1>5, <3>1
  <2>5. Len(up[c]) < MaxRetries
    BY <1>1, BridgeAssumption
  <2>6. Relay!Try(c)
    BY <1>1, <1>2, <1>5, <2>2, <2>3, <2>4, <2>5 DEF Relay!Try, Serving, Running
  <2> QED BY <2>6 DEF Relay!Next
<1> QED BY <1>4, <1>5 DEF PeerDirect

\* A relayed datagram, and AFDEV's first answer.
LEMMA LiveRefines ==
  ASSUME Inv, NEW c \in Clients,
         (\E p \in Packets : Forward(c, p)) \/ FirstReply(c, "afdev")
  PROVE  Relay!Next
<1>1. CASE \E p \in Packets : Forward(c, p)
  <2>1. PICK p \in Packets : Forward(c, p) BY <1>1
  <2>2. /\ c \in Served /\ Serving /\ Serving' /\ up[c] \in Seq(Packets) /\ up[c] # <<>>
        /\ up' = [up EXCEPT ![c] = Append(@, p)] /\ UNCHANGED <<live, latched, lazy, afdevReady>>
    BY <2>1 DEF Forward, Relays, Served, Serving, Running, Inv, ServerOK, PhaseOK, PeersOK, PeerOK, TypeOK
  <2>3. up'[c][1] = up[c][1] /\ up'[c] # <<>> /\ \A d \in Clients \ {c} : up'[d] = up[d]
    BY <2>2 DEF Inv, TypeOK
  <2>4. Served' = Served
    BY <2>2, <2>3 DEF Served, Inv, TypeOK
  <2>5. CameWith' = CameWith
    BY <2>2, <2>3, <2>4 DEF CameWith
  <2>6. Relay!Forward(c, p)
    BY <2>2, <2>4, <2>5 DEF Relay!Forward, Serving
  <2> QED BY <2>6 DEF Relay!Next
<1>2. CASE FirstReply(c, "afdev")
  <2>1. /\ Serving /\ Serving' /\ c \in known \ live /\ up[c] # <<>> /\ up[c][1] = latched[c]
        /\ live' = live \cup {c} /\ latched' = [latched EXCEPT ![c] = NoPacket]
        /\ UNCHANGED <<up, lazy, afdevReady>>
    BY <1>2 DEF FirstReply, Opens, Serving, Running, Inv, PeersOK, PeerOK
  <2>2. Served' = Served \cup {c} /\ c \notin Served
    BY <2>1 DEF Served
  <2>3. \A d \in Clients \ {c} : latched'[d] = latched[d]
    BY <2>1 DEF Inv, TypeOK
  <2>4. CameWith' = CameWith
    BY <2>1, <2>2, <2>3 DEF CameWith
  <2>5. Relay!Open(c)
    BY <2>1, <2>2, <2>4 DEF Relay!Open, Serving
  <2> QED BY <2>5 DEF Relay!Next
<1> QED BY <1>1, <1>2

LEMMA StepRefines == Inv /\ [Next]_vars => [Relay!Next]_(Relay!vars)
<1> SUFFICES ASSUME Inv, [Next]_vars PROVE [Relay!Next]_(Relay!vars)
  OBVIOUS
<1>1. CASE Bind \/ BindFails \/ Interrupt \/ Killed \/ CleanUp \/ Environment
           \/ PollFails \/ PollPid \/ SentAll \/ Announce
  <2>1. UNCHANGED <<peer, lazy, afdevReady>> /\ (Serving' => Serving)
    BY <1>1 DEF Bind, BindFails, Interrupt, Killed, CleanUp, KillAfdev, KillLoader, Environment,
         LoaderLaunches, LoaderWritesPid, LoaderReady, LoaderExits, AfdevDies, AfdevAnswers,
         OtherSends, PollFails, PollPid, SentAll, Announce, Polling, Fail, Outside, Serving, Running
  <2> QED BY <2>1, QuietRefines
<1>2. CASE PollReady
  <2>1. /\ Serving /\ Serving' /\ CameWith' = CameWith /\ Served' = Served /\ afdevReady' = TRUE
        /\ up' = up /\ lazy' = lazy
    BY <1>2 DEF PollReady, Polling, Serving, Running, CameWith, Served, peer
  <2>2. Relay!ServerUp
    BY <2>1 DEF Relay!ServerUp
  <2> QED BY <2>2 DEF Relay!Next
<1>3. ASSUME NEW c \in Clients, FromClient(c) \/ Admitted(c) PROVE [Relay!Next]_(Relay!vars)
  <2>1. CASE Suppress(c) \/ NoSocket(c) \/ ForwardFails(c) \/ FirstPeer(c) \/ SpawnFails(c) \/ PeerWaits(c)
    <3>1. UNCHANGED <<peer, lazy, afdevReady>> /\ (Serving' => Serving)
      BY <2>1 DEF Suppress, NoSocket, ForwardFails, FirstPeer, SpawnFails, PeerWaits, Serve, Fail,
           Serving, Running
    <3> QED BY <3>1, QuietRefines
  <2> QED BY <1>3, <2>1, NewPeerRefines, SendRefines, DirectRefines, LiveRefines
          DEF FromClient, Admitted
<1>4. ASSUME NEW c \in Clients, FromServer(c) PROVE [Relay!Next]_(Relay!vars)
  <2>1. CASE FirstReply(c, "afdev")
    BY <2>1, LiveRefines
  <2>2. ASSUME NEW from \in {"afdev", "other"}, Reply(c, from)
        PROVE  [Relay!Next]_(Relay!vars)
    <3>1. UNCHANGED <<peer, lazy, afdevReady>> /\ (Serving' => Serving)
      BY <2>2 DEF Reply, Serving, Running
    <3> QED BY <3>1, QuietRefines
  <2> QED BY <1>4, <2>1, <2>2 DEF FromServer, FirstReply, Opens
<1>5. ASSUME NEW c \in Clients, SendNext(c) \/ Retry(c) PROVE [Relay!Next]_(Relay!vars)
  BY <1>5, SendRefines
<1>6. CASE UNCHANGED vars
  <2>1. UNCHANGED <<peer, lazy, afdevReady>> /\ (Serving' => Serving)
    BY <1>6 DEF vars, Serving, Running
  <2> QED BY <2>1, QuietRefines
<1> QED BY <1>1, <1>2, <1>3, <1>4, <1>5, <1>6 DEF Next, Poll

\* The bridge implements the gated handshake: to each client it is a relay that
\* tries only the first packet, at most MaxRetries times, until AFDEV answers.
THEOREM BridgeImplementsRelay == Spec => RelayImplemented
BY RelayInit, StepRefines, SpecInv, PTL DEF Spec, RelayImplemented, Relay!Spec

-----------------------------------------------------------------------------
(* The state file: what a reader finds is never ahead of what is published *)

\* What a step may publish, and when.
LEMMA StepPublishes ==
  ASSUME Inv, [Next]_vars
  PROVE  \/ UNCHANGED <<pub, file>> /\ (phase' # "boot" \/ phase = "boot")
         \/ (Republish \/ Fail) /\ Running /\ phase' # "boot"
         \/ phase = "boot" /\ phase' = "loop" /\ Publish("LISTENING")
         \/ Running /\ phase' = "loop" /\ Publish("SPAWNING") /\ Announce /\ lazy
         \/ PollReady
         \/ Running /\ Running' /\ Publish("READY") /\ live' # {}
<1>1. CASE Bind \/ BindFails \/ Interrupt \/ Killed \/ CleanUp \/ Environment \/ SentAll
  BY <1>1 DEF Bind, BindFails, Interrupt, Killed, CleanUp, KillAfdev, KillLoader, Environment,
     LoaderLaunches, LoaderWritesPid, LoaderReady, LoaderExits, AfdevDies, AfdevAnswers,
     OtherSends, SentAll, Outside
<1>2. CASE PollFails \/ PollPid \/ PollReady
  BY <1>2 DEF PollFails, PollPid, Polling, Fail, Running
<1>3. CASE Announce
  BY <1>3 DEF Announce, Fail, Inv, PhaseOK, Running, peer
<1>4. ASSUME NEW c \in Clients, FromClient(c)
      PROVE  UNCHANGED <<pub, file, phase>> \/ ((Republish \/ Fail) /\ Running /\ phase' # "boot")
  BY <1>4 DEF FromClient, MakePeer, Forward, NoSocket, Suppress, ForwardFails, Fail, Running
<1>5. ASSUME NEW c \in Clients, Admitted(c)
      PROVE  (UNCHANGED <<pub, file>> /\ phase' # "boot") \/ ((Republish \/ Fail) /\ Running /\ phase' # "boot")
  BY <1>5 DEF Admitted, FirstPeer, SpawnFails, PeerWaits, PeerWhenReady, PeerDirect, Serve, Fail, Running
<1>6. ASSUME NEW c \in Clients, FromServer(c)
      PROVE  \/ UNCHANGED <<pub, file, phase>>
             \/ Running /\ Running' /\ Publish("READY") /\ live' # {}
  BY <1>6 DEF FromServer, FirstReply, Reply, Running
<1>7. ASSUME NEW c \in Clients, SendNext(c) \/ Retry(c)
      PROVE  (Republish \/ Fail) /\ Running /\ phase' # "boot"
  BY <1>7 DEF SendNext, Retry, Fail, Running
<1>8. CASE UNCHANGED vars
  BY <1>8 DEF vars
<1> QED BY <1>1, <1>2, <1>3, <1>4, <1>5, <1>6, <1>7, <1>8 DEF Next, Poll

\* What has happened stays so.
LEMMA Monotone ==
  ASSUME Inv, [Next]_vars
  PROVE  /\ known \subseteq known' /\ live \subseteq live' /\ lazy' = lazy
         /\ afdevReady => afdevReady'
         /\ loader # "none" => loader' # "none"
         /\ \A c \in Clients : up[c] # <<>> => up'[c] # <<>>
         /\ phase # "boot" /\ ~Running => phase' # "boot" /\ ~Running'
<1> USE DEF Inv
<1>1. CASE Bind \/ BindFails \/ Interrupt \/ Killed \/ CleanUp \/ Environment \/ Announce
           \/ PollFails \/ PollPid \/ PollReady \/ SentAll
  BY <1>1 DEF Bind, BindFails, Interrupt, Killed, CleanUp, KillAfdev, KillLoader, Environment,
     LoaderLaunches, LoaderWritesPid, LoaderReady, LoaderExits, AfdevDies, AfdevAnswers,
     OtherSends, PollFails, PollPid, PollReady, SentAll, Announce, Polling, Fail, Outside, Running,
     peer, procs
<1>2. ASSUME NEW c \in Clients, FromClient(c)
      PROVE  /\ known \subseteq known' /\ live' = live
             /\ UNCHANGED <<lazy, afdevReady, loader>> /\ Running
             /\ up' = up \/ \E p \in Packets : up' = [up EXCEPT ![c] = Append(@, p)]
  BY <1>2 DEF FromClient, MakePeer, Forward, NoSocket, Suppress, ForwardFails, Running, peer, procs
<1>3. ASSUME NEW c \in Clients, Admitted(c)
      PROVE  /\ known' = known /\ live \subseteq live' /\ UNCHANGED <<lazy, afdevReady>>
             /\ (loader # "none" => loader' # "none") /\ Running
             /\ \/ up' = up \/ up' = [up EXCEPT ![c] = Append(@, latched[c])]
                \/ up' = [up EXCEPT ![c] = <<latched[c]>>]
  BY <1>3 DEF Admitted, FirstPeer, SpawnFails, PeerWaits, PeerWhenReady, PeerDirect, Serve, Spawned,
     SendLatched, Running, peer, procs
<1>4. ASSUME NEW c \in Clients, FromServer(c)
      PROVE  /\ known' = known /\ live \subseteq live' /\ UNCHANGED <<lazy, afdevReady, loader, up>>
             /\ Running
  BY <1>4 DEF FromServer, FirstReply, Reply, Running, peer, procs
<1>5. ASSUME NEW c \in Clients, SendNext(c) \/ Retry(c)
      PROVE  /\ UNCHANGED <<known, live, lazy, afdevReady, loader>> /\ Running
             /\ up' = up \/ up' = [up EXCEPT ![c] = Append(@, latched[c])]
  BY <1>5 DEF SendNext, Retry, SendLatched, Running, peer, procs
<1>6. ASSUME NEW c \in Clients, NEW p, up' = [up EXCEPT ![c] = Append(@, p)] \/ up' = [up EXCEPT ![c] = <<p>>]
      PROVE  \A d \in Clients : up[d] # <<>> => up'[d] # <<>>
  <2>1. \A d \in Clients \ {c} : up'[d] = up[d]
    BY <1>6 DEF TypeOK
  <2>2. up'[c] # <<>>
    <3>1. up[c] \in Seq(Packets)
      BY DEF TypeOK
    <3>2. Append(up[c], p) # <<>> /\ <<p>> # <<>>
      BY <3>1
    <3> QED BY <1>6, <3>2 DEF TypeOK
  <2> QED BY <2>1, <2>2
<1>7. CASE UNCHANGED vars
  BY <1>7 DEF vars, Running, peer, procs
<1>8. CASE \E c \in Clients : FromClient(c) \/ Admitted(c) \/ FromServer(c) \/ SendNext(c) \/ Retry(c)
  <2>1. PICK c \in Clients : FromClient(c) \/ Admitted(c) \/ FromServer(c) \/ SendNext(c) \/ Retry(c)
    BY <1>8
  <2>2. /\ known \subseteq known' /\ live \subseteq live' /\ UNCHANGED <<lazy, afdevReady>> /\ Running
        /\ (loader # "none" => loader' # "none")
        /\ \/ up' = up
           \/ \E p : up' = [up EXCEPT ![c] = Append(@, p)] \/ up' = [up EXCEPT ![c] = <<p>>]
    BY <2>1, <1>2, <1>3, <1>4, <1>5
  <2> QED BY <1>6, <2>2
<1> QED BY <1>1, <1>7, <1>8 DEF Next, Poll

LEMMA HappenedStays ==
  ASSUME Inv, Inv', [Next]_vars, NEW s, Happened(s)
  PROVE  Happened(s)'
<1>1. s = "SPAWNING" => known' # {} /\ loader' # "none"
  BY Monotone DEF Happened
<1>2. s = "AFDEV_READY" => lazy' /\ known' # {} /\ afdevReady' /\ readyFile' = "own"
  BY Monotone DEF Happened, Inv, ServerOK
<1>3. s = "READY" => afdevReady' /\ \E c \in live' : up'[c] # <<>>
  BY Monotone DEF Happened, Inv, TypeOK
<1>4. s = "FAILED" => phase' # "boot" /\ ~Running'
  BY Monotone DEF Happened
<1> QED BY <1>1, <1>2, <1>3, <1>4 DEF Happened

\* Every word that is published has happened when it is published.
Told == Happened(pub) /\ Happened(file)
LEMMA ToldStep ==
  ASSUME Inv, Inv', Told, [Next]_vars
  PROVE  Told'
<1>1. ASSUME NEW s, Publish(s), s = pub \/ Happened(s)'
      PROVE  Told'
  <2>1. PICK f, w : f = file /\ w = pub
    OBVIOUS
  <2>2. pub' = s /\ file' \in {s, f, "none"}
    BY <1>1, <2>1 DEF Publish
  <2>3. Happened(f)' /\ Happened(w)'
    BY <2>1, HappenedStays DEF Told
  <2>4. Happened(s)'
    BY <1>1, <2>1, <2>3
  <2> QED BY <2>2, <2>3, <2>4 DEF Told, Happened
<1>2. CASE UNCHANGED <<pub, file>>
  <2>1. PICK f, w : f = file /\ w = pub
    OBVIOUS
  <2>2. Happened(f)' /\ Happened(w)'
    BY <2>1, HappenedStays DEF Told
  <2> QED BY <1>2, <2>1, <2>2 DEF Told, Happened
<1>3. CASE Republish
  BY <1>1, <1>3 DEF Republish
<1>4. CASE Fail
  BY <1>1, <1>4 DEF Fail, Happened, Running
<1>5. CASE Publish("LISTENING")
  BY <1>1, <1>5 DEF Happened
<1>6. CASE Publish("SPAWNING") /\ Announce /\ lazy
  <2>1. known' # {} /\ loader' # "none"
    BY <1>6 DEF Announce, Inv, PhaseOK, Running, peer, procs
  <2> QED BY <1>1, <1>6, <2>1 DEF Happened
<1>7. CASE PollReady
  <2>1. Publish("AFDEV_READY") /\ lazy' /\ known' # {} /\ afdevReady' /\ readyFile' = "own"
    BY <1>7 DEF PollReady, Polling, Inv, PhaseOK, ServerOK, Running, peer, procs
  <2> QED BY <1>1, <2>1 DEF Happened
<1>8. CASE Running' /\ Publish("READY") /\ live' # {}
  <2>1. PICK c \in live' : TRUE
    BY <1>8
  <2>2. c \in Clients /\ up'[c] # <<>> /\ afdevReady'
    BY <1>8, <2>1 DEF Inv, TypeOK, PeersOK, PeerOK
  <2>3. Happened("READY")'
    BY <2>1, <2>2 DEF Happened
  <2> QED BY <1>1, <1>8, <2>3
<1> QED BY <1>2, <1>3, <1>4, <1>5, <1>6, <1>7, <1>8, StepPublishes

FileOK ==
  /\ file # "none" => Rank(file) <= Rank(pub)
  /\ phase = "boot" => pub = "BOOTING"
Rises == file # "none" /\ file' # "none" => Rank(file) <= Rank(file')

LEMMA Ranks ==
  /\ Rank("BOOTING") = 0 /\ Rank("LISTENING") = 1 /\ Rank("SPAWNING") = 2
  /\ Rank("AFDEV_READY") = 3 /\ Rank("READY") = 4 /\ Rank("FAILED") = 5
BY DEF Rank

LEMMA RankType == ASSUME NEW s \in States PROVE Rank(s) \in 0 .. 5
BY Ranks DEF States

LEMMA FileRank == ASSUME TypeOK, file # "none" PROVE Rank(file) \in Nat
<1>1. file \in States
  BY DEF TypeOK
<1>2. Rank(file) \in 0 .. 5
  BY <1>1, RankType
<1> QED BY <1>2

\* A step that publishes something that is not behind what was published.
LEMMA PublishRises ==
  ASSUME TypeOK, FileOK, NEW s \in States, Publish(s), Rank(pub) <= Rank(s), phase' # "boot"
  PROVE  FileOK' /\ Rises
<1>1. pub' = s /\ file' \in {s, file, "none"}
  BY DEF Publish
<1>2. Rank(pub) \in Nat /\ Rank(s) \in Nat
  BY RankType DEF TypeOK
<1>3. file # "none" => Rank(file) \in Nat
  BY FileRank
<1>4. file # "none" => Rank(file) <= Rank(s)
  BY <1>2, <1>3 DEF FileOK
<1>5. Rank(s) <= Rank(s)
  BY <1>2
<1>6. file # "none" => Rank(file) <= Rank(file)
  BY <1>3
<1> QED BY <1>1, <1>4, <1>5, <1>6 DEF FileOK, Rises

LEMMA FileStays ==
  ASSUME TypeOK, FileOK, UNCHANGED <<pub, file>>, phase' # "boot" \/ phase = "boot"
  PROVE  FileOK' /\ Rises
<1>1. file # "none" => Rank(file) <= Rank(file)
  BY FileRank
<1> QED BY <1>1 DEF FileOK, Rises

\* Publishing again what was published, or that the bridge failed.
LEMMA RepublishRises ==
  ASSUME TypeOK, FileOK, Republish \/ Fail, phase' # "boot"
  PROVE  FileOK' /\ Rises
<1>1. pub \in States /\ Rank(pub) \in 0 .. 5 /\ "FAILED" \in States /\ Rank("FAILED") = 5
  BY RankType, Ranks DEF TypeOK, States
<1>2. CASE Republish
  BY <1>1, <1>2, PublishRises DEF Republish
<1>3. CASE Fail
  <2>1. Publish("FAILED") /\ Rank(pub) <= Rank("FAILED")
    BY <1>1, <1>3 DEF Fail
  <2> QED BY <1>1, <2>1, PublishRises
<1> QED BY <1>2, <1>3

LEMMA FileStep ==
  ASSUME Inv, FileOK, [Next]_vars
  PROVE  FileOK' /\ Rises
<1>1. TypeOK /\ pub \in States /\ Rank(pub) \in 0 .. 5
  BY RankType DEF Inv, TypeOK
<1>2. CASE UNCHANGED <<pub, file>> /\ (phase' # "boot" \/ phase = "boot")
  BY <1>1, <1>2, FileStays
<1>3. CASE (Republish \/ Fail) /\ Running /\ phase' # "boot"
  BY <1>1, <1>3, RepublishRises
<1>4. CASE phase = "boot" /\ phase' = "loop" /\ Publish("LISTENING")
  <2>1. pub = "BOOTING" /\ "LISTENING" \in States
    BY <1>4 DEF FileOK, States
  <2> QED BY <1>1, <1>4, <2>1, Ranks, PublishRises
<1>5. CASE Running /\ phase' = "loop" /\ Publish("SPAWNING") /\ Announce /\ lazy
  <2>1. pub = "LISTENING" /\ "SPAWNING" \in States
    BY <1>5 DEF Announce, Inv, PubOK, States
  <2> QED BY <1>1, <1>5, <2>1, Ranks, PublishRises
<1>6. CASE PollReady
  <2>1. /\ phase = "loop" /\ lazy /\ ~afdevReady /\ loader = "running"
        /\ Publish("AFDEV_READY") /\ phase' = "sendAll" /\ "AFDEV_READY" \in States
    BY <1>6 DEF PollReady, Polling, States
  <2>2. pub = "SPAWNING"
    BY <2>1 DEF Inv, ServerOK, PubOK, Running, Expected
  <2> QED BY <1>1, <2>1, <2>2, Ranks, PublishRises
<1>7. CASE Running /\ Running' /\ Publish("READY") /\ live' # {}
  <2>1. Rank(pub) <= 4 /\ "READY" \in States /\ phase' # "boot"
    BY <1>1, <1>7, Ranks DEF Inv, PubOK, Expected, States, Running
  <2> QED BY <1>1, <1>7, <2>1, Ranks, PublishRises
<1> QED BY <1>2, <1>3, <1>4, <1>5, <1>6, <1>7, StepPublishes

\* Whoever polls the state file never sees the round go back, whichever writes
\* fail and whichever clients and loaders there are.
THEOREM FileOnlyAdvances == Spec => FileNeverRegresses
<1>1. Init => FileOK
  BY DEF Init, FileOK
<1>2. Inv /\ FileOK /\ [Next]_vars => FileOK' /\ [Rises]_vars
  BY FileStep
<1>3. Spec => [][Rises]_vars
  BY <1>1, <1>2, SpecInv, PTL DEF Spec
<1> QED BY <1>3 DEF FileNeverRegresses, Rises

\* Whatever the allocator finds in the state file has happened, whichever writes
\* fail and however the bridge ends; and what a bridge that waits has published
\* is the state of its peers and its server.
THEOREM PublishesTheTruth == Spec => []PublishedStateTrue
<1>1. Init => Told
  BY DEF Init, Told, Happened
<1>2. Inv /\ Inv' /\ Told /\ [Next]_vars => Told'
  BY ToldStep
<1>3. Inv /\ Told => PublishedStateTrue
  BY InvImplies DEF Told, PublishedStateTrue, PubTrue
<1> QED BY <1>1, <1>2, <1>3, SpecInv, PTL DEF Spec
=============================================================================
