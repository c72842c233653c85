------------------------------ MODULE GameKeys ------------------------------
(***************************************************************************)
(* The handshake of handle_placeholder and the session key it takes from   *)
(* the memory of the game.  A TGame opens one connection after the other,  *)
(* all of them with one ticket; each has an AuthAP object that holds the   *)
(* ticket, the key and the mode.  The server finds the objects by the      *)
(* ticket, and tells them apart only by the addresses it has used before.  *)
(* The game has the same pid in all its runs, the hardest case for         *)
(* _TGAME_USED_AUTH_ANCHORS, which is never cleared.                       *)
(***************************************************************************)
EXTENDS Naturals, FiniteSets

CONSTANTS
  Anchors,   \* addresses an AuthAP object may have
  Modes,     \* the encryption modes it may hold, of 2, 3 and 4
  Tries,     \* memory scans per connection, 10 in the code
  MaxConns,  \* bound: connections in one behaviour
  MaxRuns    \* bound: runs of the game

KeyAssumption ==
  Anchors \subseteq Nat \ {0} /\ Modes \subseteq 2..4 /\ {Tries, MaxConns, MaxRuns} \subseteq Nat \ {0}

Conns == 1..MaxConns
NoKey == 0

VARIABLES
  run,     \* the game's run
  heap,    \* address -> [of: the connection of the object there, 0: none,
           \*             state: "raw", "valid" or "linked" to its handler, mode]
  client,  \* connection -> what the game has done with it
  born,    \* connection -> the run it belongs to, 0: not opened yet
  used,    \* _TGAME_USED_AUTH_ANCHORS of the pid
  server,  \* connection -> where its handler is
  seen,    \* connection -> _used_auth_anchors, the copy taken at the first packet
  tried,   \* connection -> scans so far
  found,   \* connection -> the anchor chosen, 0: none
  mode,    \* connection -> the mode found with it
  key,     \* connection -> the connection whose key the server has
  right    \* connection -> the SYNACK on the wire echoes the challenge

game    == <<run, heap, born>>
handler == <<seen, tried, found, mode, key>>
vars    == <<game, client, used, server, handler, right>>

Free == [of |-> 0, state |-> "raw", mode |-> 2]

Init ==
  /\ run = 1 /\ heap = [a \in Anchors |-> Free] /\ used = {}
  /\ client = [c \in Conns |-> "none"] /\ born = [c \in Conns |-> 0]
  /\ server = [c \in Conns |-> "none"] /\ seen = [c \in Conns |-> {}]
  /\ tried = [c \in Conns |-> 0] /\ found = [c \in Conns |-> 0] /\ mode = [c \in Conns |-> 2]
  /\ key = [c \in Conns |-> NoKey] /\ right = [c \in Conns |-> FALSE]

-----------------------------------------------------------------------------
(* The game.                                                               *)

IsOpen(c) == client[c] \notin {"none", "closed"}
OpenConns == {c \in Conns : IsOpen(c)}
\* The bytes of a closed connection's object stay until the address is used again.
Reusable(a) == heap[a].of \notin OpenConns

\* The ZONE connection is opened when the GEO one has given its lists, and so after its
\* key change; a connection that failed may be followed by another try.
Opens(c) ==
  /\ client[c] = "none" /\ \A d \in Conns : d < c => client[d] # "none"
  /\ \A d \in Conns : IsOpen(d) => client[d] = "switched"
  /\ \E a \in Anchors, m \in Modes :
       Reusable(a) /\ heap' = [heap EXCEPT ![a] = [of |-> c, state |-> "raw", mode |-> m]]
  /\ client' = [client EXCEPT ![c] = "open"] /\ born' = [born EXCEPT ![c] = run]
  /\ server' = [server EXCEPT ![c] = "accepted"]
  /\ UNCHANGED <<run, used, handler, right>>

\* The fields are filled in, and later the object is linked to its handler.
FillsIn(a) ==
  /\ heap[a].of \in OpenConns /\ heap[a].state # "linked"
  /\ heap' = [heap EXCEPT ![a].state = IF @ = "raw" THEN "valid" ELSE "linked"]
  /\ UNCHANGED <<run, born, client, used, server, handler, right>>

\* cmd09: the game decrypts the challenge with its own key, and echoes what it gets.
Echoes(c) ==
  /\ client[c] = "open" /\ server[c] = "syn"
  /\ client' = [client EXCEPT ![c] = "echoed"] /\ right' = [right EXCEPT ![c] = key[c] = c]
  /\ UNCHANGED <<game, used, server, handler>>

\* cmd01 has come.
Switches(c) ==
  /\ client[c] = "echoed" /\ server[c] = "stream"
  /\ client' = [client EXCEPT ![c] = "switched"]
  /\ UNCHANGED <<game, used, server, handler, right>>

Closes(c) ==
  /\ IsOpen(c)
  /\ client' = [client EXCEPT ![c] = "closed"]
  /\ UNCHANGED <<game, used, server, handler, right>>

\* Another game, with the pid of the one before and a memory of its own.
Restarts ==
  /\ run < MaxRuns /\ run' = run + 1
  /\ heap' = [a \in Anchors |-> Free]
  /\ client' = [c \in Conns |-> IF IsOpen(c) THEN "closed" ELSE client[c]]
  /\ UNCHANGED <<born, used, server, handler, right>>

-----------------------------------------------------------------------------
(* The server: one thread per connection.                                  *)

Goes(c, to) == server' = [server EXCEPT ![c] = to]
\* The client's close, or the deadline; the thread's locals go with it.
Ends(c) ==
  /\ \/ server[c] \in {"accepted", "reading"} /\ client[c] = "closed"
     \/ server[c] \in {"deaf", "syn", "stream"}
  /\ Goes(c, "ended")
  /\ seen' = [seen EXCEPT ![c] = {}] /\ tried' = [tried EXCEPT ![c] = 0]
  /\ found' = [found EXCEPT ![c] = 0] /\ mode' = [mode EXCEPT ![c] = 2]
  /\ key' = [key EXCEPT ![c] = NoKey]
  /\ UNCHANGED <<game, client, used, right>>

\* identify_peer_process: netstat and tasklist; without a name the connection is kept
\* open and nothing is answered.
Identifies(c) ==
  /\ server[c] = "accepted"
  /\ \/ IsOpen(c) /\ Goes(c, "reading")
     \/ Goes(c, "deaf")
  /\ UNCHANGED <<game, client, used, handler, right>>

\* The first burst, cmd03, and the copy of the used anchors.
ReadsAuth(c) ==
  /\ server[c] = "reading" /\ Goes(c, "scanning")
  /\ seen' = [seen EXCEPT ![c] = used]
  /\ UNCHANGED <<game, client, used, tried, found, mode, key, right>>

\* tgame_recover_key_by_ticket: every object whose fields validate, of those the fresh
\* ones, of those the linked, of those the one at the highest address.
Valid == {a \in Anchors : heap[a].state # "raw"}
Fresh(c) == Valid \ seen[c]
Better(a, b) ==
  \/ heap[a].state = "linked" /\ heap[b].state # "linked"
  \/ (heap[a].state = "linked") = (heap[b].state = "linked") /\ a > b
Best(c) == {a \in Fresh(c) : \A b \in Fresh(c) \ {a} : Better(a, b)}

Recovers(c) ==
  /\ server[c] = "scanning" /\ tried[c] < Tries
  /\ tried' = [tried EXCEPT ![c] = @ + 1]
  /\ \/ \E a \in Best(c) :
          /\ found' = [found EXCEPT ![c] = a] /\ key' = [key EXCEPT ![c] = heap[a].of]
          /\ mode' = [mode EXCEPT ![c] = heap[a].mode] /\ Goes(c, "found")
     \/ /\ Fresh(c) = {} /\ UNCHANGED <<found, mode, key>>
        /\ Goes(c, IF tried[c] + 1 = Tries THEN "deaf" ELSE "scanning")
  /\ UNCHANGED <<game, client, used, seen, right>>

\* The anchor is noted, cmd08 goes out; a mode without a SYN has the anchor noted too.
BadRegisters(c) ==
  /\ server[c] = "found"
  /\ Goes(c, IF mode[c] = 2 THEN "deaf" ELSE "syn")
  /\ UNCHANGED <<game, client, used, handler, right>>
Registers(c) ==
  /\ server[c] = "found"
  /\ used' = used \cup {found[c]}
  /\ Goes(c, IF mode[c] = 2 THEN "deaf" ELSE "syn")
  /\ UNCHANGED <<game, client, handler, right>>

\* cmd09: only the echo of the challenge switches the key and the framing, and that
\* only in mode 3; in mode 4 the SYNACK is decoded for the log.
Verifies(c) ==
  /\ server[c] = "syn" /\ mode[c] = 3 /\ client[c] = "echoed" /\ right[c]
  /\ Goes(c, "stream")
  /\ UNCHANGED <<game, client, used, handler, right>>

Next ==
  \/ Restarts
  \/ \E a \in Anchors : FillsIn(a)
  \/ \E c \in Conns :
       \/ Opens(c) \/ Echoes(c) \/ Switches(c) \/ Closes(c)
       \/ Identifies(c) \/ ReadsAuth(c) \/ Recovers(c) \/ Registers(c) \/ Verifies(c) \/ Ends(c)
Spec == Init /\ [][Next]_vars

-----------------------------------------------------------------------------
\* A connection that has switched to the stream uses its own key: the challenge sees
\* to that.
StreamKeys == \A c \in Conns : server[c] = "stream" => key[c] = c

\* A connection whose game has answered the challenge of all its earlier ones has its
\* own key or none, at every moment: the used anchors see to that.
Orderly(c) == \A d \in Conns : d < c /\ born[d] = born[c] => right[d]
FreshKeys == \A c \in Conns : born[c] = run /\ IsOpen(c) /\ Orderly(c) => key[c] \in {NoKey, c}

KeysRight == StreamKeys /\ FreshKeys
=============================================================================
