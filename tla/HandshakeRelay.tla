--------------------------- MODULE HandshakeRelay ---------------------------
(***************************************************************************)
(* What a relay in front of a server that starts late promises each of its *)
(* clients.  The server hears nothing before it is up; then, of each       *)
(* client, only the first packet, at most MaxTries times, until the server *)
(* has answered on that client's connection; from then on every packet it  *)
(* is given, in order.  A relay that is not gated opens a connection with  *)
(* its first packet.                                                       *)
(***************************************************************************)
EXTENDS Naturals, Sequences, FiniteSets

CONSTANTS Clients, Packets, NoPacket, MaxConns, MaxTries

VARIABLES
  gated,    \* the server starts late
  first,    \* client -> the packet it came with, NoPacket if it has not come
  up,       \* client -> what the server was sent on its connection
  open,     \* the clients whose connection is open both ways
  serverUp, \* the server may be sent something
  running

vars == <<gated, first, up, open, serverUp, running>>

Connected == {c \in Clients : first[c] # NoPacket}

Init ==
  /\ first = [c \in Clients |-> NoPacket]
  /\ up = [c \in Clients |-> <<>>]
  /\ open = {}
  /\ gated \in BOOLEAN /\ serverUp = ~gated
  /\ running = TRUE

Connect(c, p) ==
  /\ running /\ c \notin Connected
  /\ Cardinality(Connected) < MaxConns
  /\ first' = [first EXCEPT ![c] = p]
  /\ UNCHANGED <<gated, up, open, serverUp, running>>

ServerUp ==
  /\ running /\ serverUp' = TRUE
  /\ UNCHANGED <<gated, first, up, open, running>>
Try(c) ==
  /\ running /\ serverUp /\ c \in Connected \ open
  /\ Len(up[c]) < MaxTries
  /\ up' = [up EXCEPT ![c] = Append(@, first[c])]
  /\ open' = IF gated THEN open ELSE open \cup {c}
  /\ UNCHANGED <<gated, first, serverUp, running>>
\* Only a server that was sent something on this connection can answer on it.
Open(c) ==
  /\ running /\ up[c] # <<>>
  /\ open' = open \cup {c}
  /\ UNCHANGED <<gated, first, up, serverUp, running>>
Forward(c, p) ==
  /\ running /\ c \in open
  /\ up' = [up EXCEPT ![c] = Append(@, p)]
  /\ UNCHANGED <<gated, first, open, serverUp, running>>
\* The relay ends; it may lose the packet of a client it has not served.
Stop ==
  /\ running /\ running' = FALSE
  /\ \/ UNCHANGED first
     \/ \E c \in Clients : up[c] = <<>> /\ first' = [first EXCEPT ![c] = NoPacket]
  /\ UNCHANGED <<gated, up, open, serverUp>>

Next ==
  \/ \E c \in Clients :
       \/ \E p \in Packets : Connect(c, p) \/ Forward(c, p)
       \/ Try(c) \/ Open(c)
  \/ ServerUp \/ Stop

Spec == Init /\ [][Next]_vars
=============================================================================
