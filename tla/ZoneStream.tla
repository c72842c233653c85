----------------------------- MODULE ZoneStream -----------------------------
(***************************************************************************)
(* One TGame connection as a stream of bytes: how handle_placeholder gets  *)
(* the client's TPDUs out of what recv() happens to return, before and     *)
(* after the key change.                                                   *)
(***************************************************************************)
EXTENDS Naturals, Sequences, SequencesExt, FiniteSetsExt

CONSTANTS
  Header,   \* bytes of a TPDU's header, 12 in the code
  Scripts,  \* what clients send: sequences of frames [size, good], the first
            \* one cmd03, the second one cmd09, the others generic TPDUs
  RecvMax   \* bytes one recv() returns at most

StreamAssumption ==
  /\ Header \in Nat \ {0} /\ RecvMax \in Nat \ {0}
  /\ Scripts \subseteq Seq([size : Nat, good : BOOLEAN])
  /\ \A s \in Scripts : Len(s) >= 2 /\ \A k \in 1..Len(s) : s[k].size >= Header

VARIABLES
  script,   \* what this client sends
  written,  \* bytes it has written
  read,     \* bytes recv() has returned
  phase,    \* "auth", "syn", "stream" after CHGSKEY, "deaf", "closed"
  tail,     \* first byte of post_chgskey_tail, which ends where the reading does
  queue,    \* post_chgskey_frame_queue, the frames' numbers
  handled   \* the frames handled so far

vars == <<script, written, read, phase, tail, queue, handled>>

Frames == 1..Len(script)
\* The bytes up to the end of frame k.
End[k \in 0..Len(script)] == IF k = 0 THEN 0 ELSE End[k - 1] + script[k].size
Start(k) == End[k - 1]
\* Where a frame with a proper header begins; elsewhere the bytes are no header.
GoodAt(at) == \E k \in Frames : Start(k) = at /\ script[k].good
FrameAt(at) == CHOOSE k \in Frames : Start(k) = at

Init ==
  /\ script \in Scripts /\ written = 0 /\ read = 0 /\ phase = "auth"
  /\ tail = 0 /\ queue = <<>> /\ handled = <<>>

-----------------------------------------------------------------------------
(* The client writes as the network likes, but waits for the SYN before it *)
(* sends cmd09 and for CHGSKEY before it sends more.                       *)

MayWrite == CASE phase = "auth" -> End[1] [] phase = "syn" -> End[2] [] OTHER -> End[Len(script)]
Writes ==
  /\ phase \in {"auth", "syn", "stream"}
  /\ written' \in (written + 1)..MayWrite
  /\ UNCHANGED <<script, read, phase, tail, queue, handled>>

Closes == phase # "closed" /\ phase' = "closed" /\ UNCHANGED <<script, written, read, tail, queue, handled>>

-----------------------------------------------------------------------------
(* Before the key change.                                                  *)

Receives == read' \in {n \in (read + 1)..written : n - read <= RecvMax}

\* The first burst: recv() until nothing comes for a quarter of a second.
CollectsBurst ==
  /\ phase = "auth" /\ Receives
  /\ UNCHANGED <<script, written, phase, tail, queue, handled>>

\* A cmd03 whose end has not come by then has no ticket that validates: no SYN.
BurstEnds ==
  /\ phase = "auth" /\ 0 < read /\ read = written
  /\ phase' = IF End[1] <= read THEN "syn" ELSE "deaf"
  /\ handled' = IF End[1] <= read THEN <<1>> ELSE <<>>
  /\ UNCHANGED <<script, written, read, tail, queue>>

\* A recv() is a frame here: only a whole cmd09 changes the key, and the rest of a
\* split one is garbage by itself.
ReceivesSynack ==
  /\ phase = "syn" /\ Receives
  /\ IF read = Start(2) /\ End[2] <= read' /\ script[2].good
     THEN phase' = "stream" /\ handled' = Append(handled, 2)
     ELSE UNCHANGED <<phase, handled>>
  /\ tail' = read'
  /\ UNCHANGED <<script, written, queue>>

-----------------------------------------------------------------------------
(* tgame_split_generic_stream, on the bytes from a tail to what was read.  *)

\* The whole frames at the front, up to the first without a proper header.
Whole(from, to) ==
  IF ~\E k \in Frames : Start(k) = from THEN {}
  ELSE {k \in FrameAt(from)..Len(script) :
          End[k] <= to /\ \A j \in FrameAt(from)..k : script[j].good}
\* One behind the other, as they are found.
InOrder(frames) == [n \in 1..Cardinality(frames) |-> Min(frames) + n - 1]
Reached(from, to) == Max({from} \cup {End[k] : k \in Whole(from, to)})
Desync(from, to) ==
  LET at == Reached(from, to) IN to - at >= Header /\ ~GoodAt(at)

-----------------------------------------------------------------------------
(* After it.                                                               *)

\* A queued frame first.
HandlesQueued ==
  /\ phase = "stream" /\ queue # <<>>
  /\ handled' = Append(handled, Head(queue)) /\ queue' = Tail(queue)
  /\ UNCHANGED <<script, written, read, phase, tail>>

\* The first whole frame is handled, the others are queued, the rest is the new tail.
BadSplits ==
  /\ phase = "stream" /\ queue = <<>> /\ Receives
  /\ ~Desync(tail, read')
  /\ LET frames == InOrder(Whole(tail, read')) IN
     IF frames = <<>>
     THEN UNCHANGED <<queue, handled, tail>>
     ELSE /\ handled' = Append(handled, Head(frames)) /\ queue' = Tail(frames)
          /\ tail' = read'
  /\ UNCHANGED <<script, written, phase>>
Splits ==
  /\ phase = "stream" /\ queue = <<>> /\ Receives
  /\ ~Desync(tail, read')
  /\ LET frames == InOrder(Whole(tail, read')) IN
     IF frames = <<>>
     THEN UNCHANGED <<queue, handled>>
     ELSE handled' = Append(handled, Head(frames)) /\ queue' = Tail(frames)
  /\ tail' = Reached(tail, read')
  /\ UNCHANGED <<script, written, phase>>

\* The splitter raises: all the bytes are taken for one frame, of which
\* tgame_parse_generic_body takes the first, if it is whole; nothing is kept.
FallsBack ==
  /\ phase = "stream" /\ queue = <<>> /\ Receives
  /\ Desync(tail, read')
  /\ handled' = IF Whole(tail, read') = {} THEN handled
                ELSE Append(handled, Min(Whole(tail, read')))
  /\ tail' = read'
  /\ UNCHANGED <<script, written, phase, queue>>

Next ==
  \/ Writes \/ Closes \/ CollectsBurst \/ BurstEnds \/ ReceivesSynack
  \/ HandlesQueued \/ Splits \/ FallsBack
Spec == Init /\ [][Next]_vars

-----------------------------------------------------------------------------
\* The client's TPDUs are handled in their order and none of them twice, however the
\* stream is cut; and in a stream without a bad header every one that has been read is
\* handled or queued.
FramesOnce ==
  /\ \A i, j \in 1..Len(handled \o queue) : i < j => (handled \o queue)[i] < (handled \o queue)[j]
  /\ phase = "stream" /\ (\A k \in Frames : script[k].good) =>
       \A k \in Frames : End[k] <= read => k \in ToSet(handled \o queue)
=============================================================================
