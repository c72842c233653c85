--------------------------- MODULE ByteStreamProofs ---------------------------
(***************************************************************************)
(* Proofs about the three components that take bytes as they come:         *)
(* ZoneStream cuts what recv() returns into TPDUs, Services reads its      *)
(* requests byte by byte, MemoryScan searches memory chunk by chunk while  *)
(* it changes.  Each of them handles every frame, request or hit once, for *)
(* any sizes, any way the bytes are cut and any memory.                    *)
(*                                                                         *)
(* Offsets are sums over frames or steps.  The library's induction over    *)
(* the naturals takes an operator, so NatInd below states it for sets.     *)
(***************************************************************************)
EXTENDS Naturals, Integers, Sequences, SequencesExt, FiniteSetsExt,
        FiniteSetTheorems, SequenceTheorems, WellFoundedInduction, TLAPS

CONSTANTS
  Header, Scripts, RecvMax,                                               \* ZoneStream
  RequestSize, HeadSize, BodySize,                                        \* Services
  WordSize, PageSize, Chunk, MaxHits, Target, Pages, NPages, MaxWrites    \* MemoryScan

VARIABLES
  script, written, read, phase, tail, queue, handled,                     \* ZoneStream
  label, sane, at, got, taken, sent, gone, answers, late,                 \* Services
  page, open, writes, address, limit, hits, steady, kept, had             \* MemoryScan

Stream == INSTANCE ZoneStream
Serve == INSTANCE Services
Scan == INSTANCE MemoryScan

\* The library's operators are the same in every instance.
LEMMA StreamLibrary ==
  /\ \A S : Stream!Min(S) = Min(S) /\ Stream!Max(S) = Max(S) /\ Stream!Cardinality(S) = Cardinality(S)
  /\ \A s : Stream!ToSet(s) = ToSet(s)
<1>1. ASSUME NEW S PROVE Stream!Min(S) = Min(S)
  BY DEF Stream!Min, Min
<1>2. ASSUME NEW S PROVE Stream!Max(S) = Max(S)
  BY DEF Stream!Max, Max
<1>3. ASSUME NEW S PROVE Stream!Cardinality(S) = Cardinality(S)
  BY DEF Stream!Cardinality, Cardinality
<1>4. ASSUME NEW s PROVE Stream!ToSet(s) = ToSet(s)
  BY DEF Stream!ToSet, ToSet
<1>. QED
  BY <1>1, <1>2, <1>3, <1>4

LEMMA ServeLibrary == \A S : Serve!Min(S) = Min(S) /\ Serve!Cardinality(S) = Cardinality(S)
<1>1. ASSUME NEW S PROVE Serve!Min(S) = Min(S)
  BY DEF Serve!Min, Min
<1>2. ASSUME NEW S PROVE Serve!Cardinality(S) = Cardinality(S)
  BY DEF Serve!Cardinality, Cardinality
<1>. QED
  BY <1>1, <1>2

LEMMA ScanLibrary == \A s : Scan!ToSet(s) = ToSet(s)
  BY DEF Scan!ToSet, ToSet

-----------------------------------------------------------------------------
(* Numbers                                                                 *)

Less == {ss \in Nat \X Nat : ss[1] < ss[2]}

LEMMA NatMin == ASSUME NEW S \in SUBSET Nat, S # {} PROVE \E m \in S : \A n \in S : m <= n
<1>1. IsWellFoundedOn(Less, Nat)
  BY NatLessThanWellFounded DEF OpToRel, Less
<1>2. PICK m \in S : \A n \in S : ~(<<n, m>> \in Less)
  BY <1>1, WFMin
<1>3. \A n \in S : n \in Nat /\ m \in Nat
  OBVIOUS
<1>4. \A n \in S : ~(n < m)
  BY <1>2, <1>3 DEF Less
<1>. QED
  BY <1>3, <1>4

LEMMA NatInd == ASSUME NEW S \in SUBSET Nat, 0 \in S, \A n \in S : n + 1 \in S PROVE S = Nat
<1>. SUFFICES ASSUME S # Nat PROVE FALSE
  OBVIOUS
<1>1. PICK m \in Nat \ S : \A n \in Nat \ S : m <= n
  BY NatMin
<1>2. m # 0 /\ m - 1 \in Nat /\ m - 1 \in S
  BY <1>1
<1>. QED
  BY <1>1, <1>2

-----------------------------------------------------------------------------
(* The frames of a script                                                  *)

\* A script as the clients send it.
ScriptOK ==
  /\ script \in Seq([size : Nat, good : BOOLEAN]) /\ Len(script) >= 2 /\ Header \in Nat \ {0}
  /\ \A k \in Stream!Frames : script[k] \in [size : Nat, good : BOOLEAN] /\ script[k].size >= Header

Ends(f, n) == f = [k \in 0..n |-> IF k = 0 THEN 0 ELSE f[k - 1] + script[k].size]

LEMMA EndsExist == ASSUME NEW n \in Nat PROVE \E f : Ends(f, n)
<1>. DEFINE S == {m \in Nat : \E f : Ends(f, m)}
<1>1. 0 \in S
  <2>1. Ends([k \in 0..0 |-> 0], 0)
    BY DEF Ends
  <2>. QED
    BY <2>1
<1>2. ASSUME NEW m \in S PROVE m + 1 \in S
  <2>1. PICK f : Ends(f, m)
    OBVIOUS
  <2>. DEFINE g == [k \in 0..m + 1 |-> IF k = 0 THEN 0 ELSE f[k - 1] + script[k].size]
  <2>2. \A k \in 0..m : k \in 0..m + 1 /\ g[k] = f[k]
    BY <2>1 DEF Ends
  <2>3. \A k \in 0..m + 1 : k # 0 => k - 1 \in 0..m
    OBVIOUS
  <2>4. \A k \in 0..m + 1 : g[k] = IF k = 0 THEN 0 ELSE f[k - 1] + script[k].size
    OBVIOUS
  <2>5. \A k \in 0..m + 1 :
          (IF k = 0 THEN 0 ELSE f[k - 1] + script[k].size)
            = (IF k = 0 THEN 0 ELSE g[k - 1] + script[k].size)
    BY <2>2, <2>3
  <2>6. Ends(g, m + 1)
    BY <2>5, Zenon DEF Ends
  <2>. HIDE DEF g
  <2>. QED
    BY <2>6
<1>. HIDE DEF S
<1>3. S = Nat
  <2>1. S \in SUBSET Nat
    BY DEF S
  <2>. QED
    BY <1>1, <1>2, <2>1, NatInd
<1>. QED
  BY <1>3 DEF S

\* What End adds up, frame by frame.
LEMMA EndSteps ==
  ASSUME ScriptOK
  PROVE  /\ Stream!End[0] = 0
         /\ \A k \in Stream!Frames : Stream!End[k] = Stream!End[k - 1] + script[k].size
<1>1. Len(script) \in Nat
  BY DEF ScriptOK
<1>2. Ends(Stream!End, Len(script))
  BY <1>1, EndsExist DEF Stream!End, Ends
<1>. DEFINE f == Stream!End
<1>. HIDE DEF f
<1>3. f = [k \in 0..Len(script) |-> IF k = 0 THEN 0 ELSE f[k - 1] + script[k].size]
  BY <1>2 DEF Ends, f
<1>4. \A k \in 0..Len(script) : f[k] = IF k = 0 THEN 0 ELSE f[k - 1] + script[k].size
  BY <1>3
<1>5. 0 \in 0..Len(script) /\ \A k \in Stream!Frames : k \in 0..Len(script) /\ k # 0
  BY <1>1 DEF Stream!Frames
<1>. QED
  BY <1>4, <1>5 DEF f

\* The ends are numbers that grow by a header at least.
LEMMA EndGrows ==
  ASSUME ScriptOK
  PROVE  /\ \A k \in 0..Len(script) : Stream!End[k] \in Nat
         /\ \A j, k \in 0..Len(script) : j < k => Stream!End[j] + Header <= Stream!End[k]
<1>1. Len(script) \in Nat /\ Header \in Nat \ {0}
  BY DEF ScriptOK
<1>. DEFINE f == Stream!End
            S == {n \in Nat : n <= Len(script) =>
                    \A j \in 0..n : f[j] \in Nat /\ (j < n => f[j] + Header <= f[n])}
<1>2. /\ f[0] = 0
      /\ \A k \in 1..Len(script) : f[k] = f[k - 1] + script[k].size
      /\ \A k \in 1..Len(script) : script[k].size \in Nat /\ script[k].size >= Header
  BY EndSteps DEF ScriptOK, Stream!Frames
<1>. HIDE DEF f
<1>3. 0 \in S
  BY <1>2
<1>4. ASSUME NEW n \in S PROVE n + 1 \in S
  <2>. SUFFICES ASSUME n + 1 <= Len(script), NEW j \in 0..n + 1
       PROVE  f[j] \in Nat /\ (j < n + 1 => f[j] + Header <= f[n + 1])
    OBVIOUS
  <2>1. n + 1 \in 1..Len(script) /\ n \in Nat
    BY <1>1
  <2>2. f[n + 1] = f[n] + script[n + 1].size /\ script[n + 1].size \in Nat /\ script[n + 1].size >= Header
    BY <1>2, <2>1
  <2>3. \A i \in 0..n : f[i] \in Nat /\ (i < n => f[i] + Header <= f[n])
    BY <1>1, <2>1
  <2>4. f[n] \in Nat /\ f[n + 1] \in Nat /\ f[n] + Header <= f[n + 1]
    BY <1>1, <2>1, <2>2, <2>3
  <2>. HIDE DEF S
  <2>5. CASE j = n + 1 \/ j = n
    BY <2>1, <2>4, <2>5
  <2>6. CASE j \in 0..n /\ j < n
    BY <1>1, <2>1, <2>3, <2>4, <2>6
  <2>. QED
    BY <2>1, <2>5, <2>6
<1>. HIDE DEF S
<1>5. S = Nat
  <2>1. S \in SUBSET Nat
    BY DEF S
  <2>. QED
    BY <1>3, <1>4, <2>1, NatInd
<1>6. \A n \in 0..Len(script) : \A j \in 0..n : f[j] \in Nat /\ (j < n => f[j] + Header <= f[n])
  BY <1>1, <1>5 DEF S
<1>7. ASSUME NEW j \in 0..Len(script), NEW k \in 0..Len(script), j < k PROVE f[j] + Header <= f[k]
  BY <1>1, <1>6, <1>7
<1>8. \A k \in 0..Len(script) : f[k] \in Nat
  BY <1>1, <1>6
<1>. QED
  BY <1>7, <1>8 DEF f

LEMMA EndOrder ==
  ASSUME ScriptOK, NEW j \in 0..Len(script), NEW k \in 0..Len(script)
  PROVE  /\ j <= k <=> Stream!End[j] <= Stream!End[k]
         /\ j = k <=> Stream!End[j] = Stream!End[k]
<1>1. Len(script) \in Nat /\ Header \in Nat \ {0} /\ Stream!End[j] \in Nat /\ Stream!End[k] \in Nat
  BY EndGrows DEF ScriptOK
<1>2. j < k => Stream!End[j] + Header <= Stream!End[k]
  BY EndGrows
<1>3. k < j => Stream!End[k] + Header <= Stream!End[j]
  BY EndGrows
<1>. QED
  BY <1>1, <1>2, <1>3

-----------------------------------------------------------------------------
(* What a split returns                                                    *)

LEMMA MaxIn ==
  ASSUME NEW S \in SUBSET Nat, NEW m \in S, \A n \in S : n <= m
  PROVE  Max(S) = m
<1>1. \A n \in S : n \in Nat
  OBVIOUS
<1>2. Max(S) \in S /\ \A n \in S : Max(S) >= n
  BY DEF Max
<1>3. Max(S) \in Nat /\ m \in Nat /\ Max(S) >= m /\ Max(S) <= m
  BY <1>1, <1>2
<1>. QED
  BY <1>3

LEMMA MinIn ==
  ASSUME NEW S \in SUBSET Nat, NEW m \in S, \A n \in S : m <= n
  PROVE  Min(S) = m
<1>1. \A n \in S : n \in Nat
  OBVIOUS
<1>2. Min(S) \in S /\ \A n \in S : Min(S) <= n
  BY DEF Min
<1>3. Min(S) \in Nat /\ m \in Nat /\ Min(S) <= m /\ m <= Min(S)
  BY <1>1, <1>2
<1>. QED
  BY <1>3

\* The frames a and those that follow it up to b.
Block(a, b) == [n \in 1..b - a + 1 |-> a + n - 1]

LEMMA InOrderIs ==
  ASSUME NEW a \in Nat, NEW b \in Nat, a <= b
  PROVE  Stream!InOrder(a..b) = Block(a, b) /\ Min(a..b) = a
<1>1. a..b \in SUBSET Nat /\ a \in a..b /\ \A n \in a..b : a <= n
  OBVIOUS
<1>2. Min(a..b) = a
  BY <1>1, MinIn
<1>3. Cardinality(a..b) = b - a + 1
  BY FS_Interval
<1>. QED
  BY <1>2, <1>3, StreamLibrary DEF Stream!InOrder, Block

\* The first frame that begins at a place is the only one.
LEMMA FrameIs ==
  ASSUME ScriptOK, NEW a \in Stream!Frames
  PROVE  Stream!FrameAt(Stream!Start(a)) = a
<1>1. Len(script) \in Nat /\ a - 1 \in 0..Len(script)
  BY DEF ScriptOK, Stream!Frames
<1>2. ASSUME NEW k \in Stream!Frames, Stream!Start(k) = Stream!Start(a) PROVE k = a
  <2>1. k - 1 \in 0..Len(script)
    BY <1>1 DEF Stream!Frames
  <2>2. k - 1 = a - 1
    BY <1>1, <1>2, <2>1, EndOrder DEF Stream!Start
  <2>. QED
    BY <1>1, <2>2 DEF Stream!Frames
<1>. QED
  BY <1>2 DEF Stream!FrameAt

\* Nothing whole, or the frames from the one that begins there to the last one that is
\* whole and has no bad header before it or in it.
LEMMA Split ==
  ASSUME ScriptOK, NEW from \in Nat, NEW to \in Nat
  PROVE  \/ /\ Stream!Whole(from, to) = {} /\ Stream!Reached(from, to) = from
            /\ \A a \in Stream!Frames : Stream!Start(a) = from => to < Stream!End[a] \/ ~script[a].good
         \/ \E a, b \in Stream!Frames :
              /\ a <= b /\ Stream!Start(a) = from /\ Stream!End[b] <= to
              /\ Stream!Whole(from, to) = a..b /\ Stream!Reached(from, to) = Stream!End[b]
              /\ b = Len(script) \/ to < Stream!End[b + 1] \/ ~script[b + 1].good
<1>. DEFINE W == Stream!Whole(from, to)
            N == Len(script)
<1>0. N \in Nat /\ Stream!Frames = 1..N /\ Stream!Frames \subseteq 0..N /\ \A k \in 0..N : Stream!End[k] \in Nat
  BY EndGrows DEF ScriptOK, Stream!Frames
<1>1. CASE W = {}
  <2>1. Stream!Reached(from, to) = from
    <3>1. {from} \cup {Stream!End[k] : k \in Stream!Whole(from, to)} = {from}
      BY <1>1
    <3>2. Max({from}) = from
      BY MaxIn
    <3>. QED
      BY <3>1, <3>2, StreamLibrary DEF Stream!Reached
  <2>2. ASSUME NEW a \in Stream!Frames, Stream!Start(a) = from, script[a].good, ~(to < Stream!End[a]) PROVE FALSE
    <3>1. Stream!FrameAt(from) = a
      BY <2>2, FrameIs
    <3>2. Stream!End[a] <= to
      BY <1>0, <2>2
    <3>3. a \in a..N /\ \A j \in a..a : j = a
      BY <1>0
    <3>4. a \in Stream!Whole(from, to)
      BY <2>2, <3>1, <3>2, <3>3 DEF Stream!Whole
    <3>. QED
      BY <1>1, <3>4
  <2>. QED
    BY <1>1, <2>1, <2>2
<1>2. CASE W # {}
  <2>1. PICK a \in Stream!Frames : Stream!Start(a) = from
    BY <1>2 DEF Stream!Whole
  <2>2. Stream!FrameAt(from) = a
    BY <2>1, FrameIs
  <2>3. W = {k \in a..N : Stream!End[k] <= to /\ \A j \in a..k : script[j].good}
    BY <2>1, <2>2 DEF Stream!Whole
  <2>. DEFINE D == {n \in Nat : \A k \in W : k <= n}
  <2>4. D \in SUBSET Nat /\ N \in D
    BY <1>0, <2>3
  <2>5. PICK b \in D : \A n \in D : b <= n
    BY <2>4, NatMin
  <2>6. b \in W
    <3>. SUFFICES ASSUME b \notin W PROVE FALSE
      OBVIOUS
    <3>1. \A k \in W : k \in Nat /\ k <= b /\ k # b
      BY <1>0, <2>3, <2>5
    <3>2. \A k \in W : k \in Nat /\ k <= b - 1
      BY <3>1
    <3>3. b - 1 \in Nat
      BY <1>2, <3>2
    <3>4. b - 1 \in D
      BY <3>2, <3>3
    <3>5. b <= b - 1
      BY <2>5, <3>4
    <3>. QED
      BY <3>3, <3>5
  <2>7. b \in Stream!Frames /\ a <= b /\ Stream!End[b] <= to /\ (\A j \in a..b : script[j].good)
    BY <1>0, <2>3, <2>6
  <2>8. W = a..b
    <3>1. \A k \in W : k \in a..b
      BY <1>0, <2>3, <2>5
    <3>2. ASSUME NEW k \in a..b PROVE k \in W
      <4>1. k \in a..N /\ k \in 0..N /\ b \in 0..N /\ k <= b /\ \A j \in a..k : j \in a..b
        BY <1>0, <2>7
      <4>2. Stream!End[k] <= Stream!End[b]
        BY <4>1, EndOrder
      <4>3. Stream!End[k] <= to
        BY <1>0, <2>7, <4>1, <4>2
      <4>. QED
        BY <2>3, <2>7, <4>1, <4>3
    <3>. QED
      BY <3>1, <3>2
  <2>9. Stream!Reached(from, to) = Stream!End[b]
    <3>. DEFINE S == {from} \cup {Stream!End[k] : k \in W}
    <3>1. S \in SUBSET Nat /\ Stream!End[b] \in S
      <4>1. \A k \in W : k \in 0..N
        BY <1>0, <2>3
      <4>. QED
        BY <1>0, <2>6, <4>1
    <3>2. ASSUME NEW n \in S PROVE n <= Stream!End[b]
      <4>1. a - 1 \in 0..N /\ b \in 0..N /\ a - 1 <= b
        BY <1>0, <2>7
      <4>2. Stream!End[a - 1] <= Stream!End[b]
        BY <4>1, EndOrder
      <4>3. from <= Stream!End[b]
        BY <2>1, <4>2 DEF Stream!Start
      <4>4. ASSUME NEW k \in W PROVE Stream!End[k] <= Stream!End[b]
        <5>1. k \in 0..N /\ k <= b
          BY <1>0, <2>8, <2>7
        <5>. QED
          BY <5>1, <4>1, EndOrder
      <4>. QED
        BY <4>3, <4>4
    <3>. HIDE DEF S
    <3>3. Max(S) = Stream!End[b]
      BY <3>1, <3>2, MaxIn
    <3>. QED
      BY <3>3, StreamLibrary DEF Stream!Reached, S
  <2>10. b = N \/ to < Stream!End[b + 1] \/ ~script[b + 1].good
    <3>. SUFFICES ASSUME b # N, script[b + 1].good, ~(to < Stream!End[b + 1]) PROVE FALSE
      OBVIOUS
    <3>1. b + 1 \in a..N /\ b + 1 \in 0..N /\ \A j \in a..b + 1 : j \in a..b \/ j = b + 1
      BY <1>0, <2>7
    <3>2. Stream!End[b + 1] <= to
      BY <1>0, <3>1
    <3>3. b + 1 \in W
      BY <2>3, <2>7, <3>1, <3>2
    <3>. QED
      BY <2>5, <3>3, <1>0, <2>7
  <2>. QED
    BY <2>1, <2>7, <2>8, <2>9, <2>10
<1>. QED
  BY <1>1, <1>2

-----------------------------------------------------------------------------
(* The invariant                                                           *)

All == handled \o queue
AllGood == \A k \in Stream!Frames : script[k].good

\* What has been written, read and split.
BytesOK ==
  /\ script \in Scripts
  /\ written \in 0..Stream!End[Len(script)] /\ read \in 0..written /\ tail \in 0..read
  /\ handled \in Seq(Stream!Frames) /\ queue \in Seq(Stream!Frames)

\* Until the key change the client has sent no more than it was asked for.
HandshakeOK ==
  /\ phase \in {"auth", "syn", "stream", "deaf", "closed"}
  /\ phase = "auth" => written <= Stream!End[1] /\ handled = <<>> /\ queue = <<>>
  /\ phase = "syn" => written <= Stream!End[2] /\ handled = <<1>> /\ queue = <<>>

\* In their order, and all of them before the tail.
OrderOK ==
  /\ \A i, j \in 1..Len(All) : i < j => All[i] < All[j]
  /\ phase = "stream" => \A i \in 1..Len(All) : Stream!End[All[i]] <= tail

\* Without a bad header the tail begins where the last frame split off ends, and holds
\* no whole frame.
CompleteOK ==
  phase = "stream" /\ AllGood =>
    \E k \in Stream!Frames :
      /\ tail = Stream!End[k] /\ 1..k \subseteq ToSet(All)
      /\ k = Len(script) \/ read < Stream!End[k + 1]

StreamInv == BytesOK /\ HandshakeOK /\ OrderOK /\ CompleteOK

-----------------------------------------------------------------------------
(* The steps                                                               *)

\* Any client's script is one of the right form.
LEMMA ScriptTyped == ASSUME Stream!StreamAssumption, BytesOK PROVE ScriptOK
<1>1. script \in Seq([size : Nat, good : BOOLEAN]) /\ Len(script) >= 2 /\ Header \in Nat \ {0}
  BY DEF Stream!StreamAssumption, BytesOK
<1>2. \A k \in 1..Len(script) : script[k] \in [size : Nat, good : BOOLEAN]
  BY <1>1, ElementOfSeq
<1>3. \A k \in 1..Len(script) : script[k].size >= Header
  BY DEF Stream!StreamAssumption, BytesOK
<1>. QED
  BY <1>1, <1>2, <1>3 DEF ScriptOK, Stream!Frames

LEMMA SameScript ==
  ASSUME script' = script
  PROVE  Stream!End' = Stream!End /\ Stream!Frames' = Stream!Frames /\ (AllGood' <=> AllGood)
  BY DEF Stream!End, Stream!Frames, AllGood

\* The numbers that the invariant compares.
LEMMA Numbers ==
  ASSUME BytesOK, ScriptOK
  PROVE  /\ Len(script) \in Nat /\ 1 \in Stream!Frames /\ 2 \in Stream!Frames /\ Stream!Frames = 1..Len(script)
         /\ \A k \in Stream!Frames : k \in Nat /\ Stream!End[k] \in Nat /\ Stream!Start(k) \in Nat
         /\ Stream!End[Len(script)] \in Nat /\ \A k \in Stream!Frames : Stream!End[k] <= Stream!End[Len(script)]
         /\ written \in Nat /\ read \in Nat /\ tail \in Nat
<1>1. Len(script) \in Nat /\ Len(script) >= 2
  BY DEF ScriptOK
<1>2. \A k \in 0..Len(script) : Stream!End[k] \in Nat
  BY EndGrows
<1>3. \A k \in Stream!Frames : k \in 0..Len(script) /\ k - 1 \in 0..Len(script) /\ k <= Len(script)
  BY <1>1 DEF Stream!Frames
<1>4. Len(script) \in 0..Len(script)
  BY <1>1
<1>5. \A k \in Stream!Frames : Stream!End[k] <= Stream!End[Len(script)]
  BY <1>3, <1>4, EndOrder
<1>6. Stream!End[Len(script)] \in Nat
  BY <1>2, <1>4
<1>7. written \in Nat /\ read \in Nat /\ tail \in Nat
  BY <1>6 DEF BytesOK
<1>. QED
  BY <1>1, <1>2, <1>3, <1>5, <1>6, <1>7 DEF Stream!Frames, Stream!Start

\* What handling or queueing nothing keeps.
LEMMA SameFrames ==
  ASSUME UNCHANGED <<script, handled, queue>>
  PROVE  All' = All /\ Stream!End' = Stream!End /\ Stream!Frames' = Stream!Frames /\ (AllGood' <=> AllGood)
  BY SameScript DEF All

LEMMA AllTyped ==
  ASSUME BytesOK
  PROVE  All \in Seq(Stream!Frames) /\ Len(All) = Len(handled) + Len(queue)
  BY ConcatProperties DEF BytesOK, All

LEMMA InitKeeps == ASSUME Stream!StreamAssumption, Stream!Init PROVE StreamInv
<1>1. ScriptOK
  <2>1. script \in Seq([size : Nat, good : BOOLEAN]) /\ Len(script) >= 2 /\ Header \in Nat \ {0}
    BY DEF Stream!StreamAssumption, Stream!Init
  <2>2. \A k \in 1..Len(script) : script[k] \in [size : Nat, good : BOOLEAN]
    BY <2>1, ElementOfSeq
  <2>3. \A k \in 1..Len(script) : script[k].size >= Header
    BY DEF Stream!StreamAssumption, Stream!Init
  <2>. QED
    BY <2>1, <2>2, <2>3 DEF ScriptOK, Stream!Frames
<1>2. /\ script \in Scripts /\ written = 0 /\ read = 0 /\ phase = "auth" /\ tail = 0
      /\ queue = <<>> /\ handled = <<>>
  BY DEF Stream!Init
<1>3. Len(script) \in 0..Len(script) /\ 1 \in 0..Len(script)
  BY <1>1 DEF ScriptOK
<1>4. Stream!End[Len(script)] \in Nat /\ Stream!End[1] \in Nat
  BY <1>1, <1>3, EndGrows
<1>5. <<>> \in Seq(Stream!Frames) /\ Len(<<>>) = 0
  BY EmptySeq
<1>6. BytesOK
  BY <1>2, <1>4, <1>5 DEF BytesOK
<1>7. HandshakeOK
  BY <1>2, <1>4 DEF HandshakeOK
<1>8. Len(All) = 0
  BY <1>2, <1>5, <1>6, AllTyped
<1>9. OrderOK
  BY <1>2, <1>8 DEF OrderOK
<1>10. CompleteOK
  BY <1>2 DEF CompleteOK
<1>. QED
  BY <1>6, <1>7, <1>9, <1>10 DEF StreamInv

\* The client writes.
LEMMA WriteKeeps == ASSUME Stream!StreamAssumption, StreamInv, Stream!Writes PROVE StreamInv'
<1>1. ScriptOK
  BY ScriptTyped DEF StreamInv
<1>2. /\ Len(script) \in Nat /\ 1 \in Stream!Frames /\ 2 \in Stream!Frames
      /\ (\A k \in Stream!Frames : Stream!End[k] \in Nat /\ Stream!End[k] <= Stream!End[Len(script)])
      /\ Stream!End[Len(script)] \in Nat /\ written \in Nat /\ read \in Nat /\ tail \in Nat
  BY <1>1, Numbers DEF StreamInv
<1>3. /\ UNCHANGED <<script, read, phase, tail, queue, handled>>
      /\ All' = All /\ Stream!End' = Stream!End /\ Stream!Frames' = Stream!Frames /\ (AllGood' <=> AllGood)
  BY SameFrames DEF Stream!Writes
<1>4. /\ written' \in (written + 1)..Stream!MayWrite
      /\ phase \in {"auth", "syn", "stream"}
  BY DEF Stream!Writes
<1>5. /\ phase = "auth" => Stream!MayWrite = Stream!End[1]
      /\ phase = "syn" => Stream!MayWrite = Stream!End[2]
      /\ phase = "stream" => Stream!MayWrite = Stream!End[Len(script)]
  BY DEF Stream!MayWrite
<1>6. /\ written' \in 0..Stream!End[Len(script)] /\ written <= written'
      /\ phase = "auth" => written' <= Stream!End[1]
      /\ phase = "syn" => written' <= Stream!End[2]
  BY <1>2, <1>4, <1>5
<1>7. BytesOK'
  BY <1>2, <1>3, <1>6 DEF StreamInv, BytesOK
<1>8. HandshakeOK'
  BY <1>3, <1>6 DEF StreamInv, HandshakeOK
<1>9. OrderOK' /\ CompleteOK'
  BY <1>3 DEF StreamInv, OrderOK, CompleteOK
<1>. QED
  BY <1>7, <1>8, <1>9 DEF StreamInv

\* Nothing but the end of the connection, and a part of the first burst.
LEMMA QuietKeeps ==
  ASSUME Stream!StreamAssumption, StreamInv, UNCHANGED Stream!vars \/ Stream!Closes \/ Stream!CollectsBurst
  PROVE  StreamInv'
<1>1. UNCHANGED <<script, written, tail, queue, handled>>
  BY DEF Stream!vars, Stream!Closes, Stream!CollectsBurst
<1>2. All' = All /\ Stream!End' = Stream!End /\ Stream!Frames' = Stream!Frames /\ (AllGood' <=> AllGood)
  BY <1>1, SameFrames
<1>3. ScriptOK
  BY ScriptTyped DEF StreamInv
<1>4. written \in Nat /\ read \in Nat /\ tail \in Nat
  BY <1>3, Numbers DEF StreamInv
<1>5. read' \in 0..written /\ read <= read'
  BY <1>4 DEF Stream!vars, Stream!Closes, Stream!CollectsBurst, Stream!Receives, StreamInv, BytesOK
<1>6. BytesOK'
  BY <1>1, <1>2, <1>4, <1>5 DEF StreamInv, BytesOK
<1>7. phase' = phase \/ phase' = "closed"
  BY DEF Stream!vars, Stream!Closes, Stream!CollectsBurst
<1>8. HandshakeOK' /\ OrderOK'
  BY <1>1, <1>2, <1>7 DEF StreamInv, HandshakeOK, OrderOK
<1>9. CompleteOK'
  <2>1. phase' = "stream" => read' = read
    BY DEF Stream!vars, Stream!Closes, Stream!CollectsBurst
  <2>. QED
    BY <1>1, <1>2, <1>7, <2>1 DEF StreamInv, CompleteOK
<1>. QED
  BY <1>6, <1>8, <1>9 DEF StreamInv

\* The first burst is handled.
LEMMA BurstKeeps == ASSUME Stream!StreamAssumption, StreamInv, Stream!BurstEnds PROVE StreamInv'
<1>1. ScriptOK
  BY ScriptTyped DEF StreamInv
<1>2. /\ Len(script) \in Nat /\ 1 \in Stream!Frames /\ 2 \in Stream!Frames
      /\ (\A k \in Stream!Frames : Stream!End[k] \in Nat)
      /\ written \in Nat /\ read \in Nat /\ tail \in Nat
  BY <1>1, Numbers DEF StreamInv
<1>3. /\ phase = "auth" /\ queue = <<>> /\ handled = <<>> /\ written <= Stream!End[1]
      /\ UNCHANGED <<script, written, read, tail, queue>>
  BY DEF Stream!BurstEnds, StreamInv, HandshakeOK
<1>4. Stream!End' = Stream!End /\ Stream!Frames' = Stream!Frames
  BY <1>3, SameScript
<1>5. \/ phase' = "syn" /\ handled' = <<1>>
      \/ phase' = "deaf" /\ handled' = <<>>
  BY DEF Stream!BurstEnds
<1>6. <<>> \in Seq(Stream!Frames) /\ <<1>> \in Seq(Stream!Frames) /\ Len(<<1>>) = 1 /\ Len(<<>>) = 0
  BY <1>2
<1>7. BytesOK'
  BY <1>3, <1>4, <1>5, <1>6 DEF StreamInv, BytesOK
<1>8. Stream!End[1] <= Stream!End[2]
  BY <1>1, <1>2, EndOrder DEF Stream!Frames
<1>9. HandshakeOK'
  BY <1>2, <1>3, <1>4, <1>5, <1>8 DEF HandshakeOK
<1>10. OrderOK' /\ CompleteOK'
  <2>1. Len(All)' <= 1 /\ Len(All)' \in Nat
    <3>a. queue' \in Seq(Stream!Frames) /\ Len(queue') = 0
      BY <1>3, <1>6
    <3>b. handled' \in Seq(Stream!Frames) /\ Len(handled') <= 1
      <4>1. CASE handled' = <<1>>
        BY <4>1, <1>6
      <4>2. CASE handled' = <<>>
        BY <4>2, <1>6
      <4>. QED
        BY <1>5, <4>1, <4>2
    <3>1. handled' \in Seq(Stream!Frames) /\ queue' \in Seq(Stream!Frames) /\ Len(handled') <= 1 /\ Len(queue') = 0
      BY <3>a, <3>b
    <3>2. Len(handled' \o queue') = Len(handled') + Len(queue')
      BY <3>1, ConcatProperties
    <3>. QED
      BY <3>1, <3>2 DEF All
  <2>2. OrderOK'
    BY <1>5, <2>1 DEF OrderOK
  <2>3. CompleteOK'
    BY <1>5 DEF CompleteOK
  <2>. QED
    BY <2>2, <2>3
<1>. QED
  BY <1>7, <1>9, <1>10 DEF StreamInv

\* The recv() for the cmd09.
LEMMA SynackKeeps == ASSUME Stream!StreamAssumption, StreamInv, Stream!ReceivesSynack PROVE StreamInv'
<1>1. ScriptOK
  BY ScriptTyped DEF StreamInv
<1>2. /\ Len(script) \in Nat /\ 1 \in Stream!Frames /\ 2 \in Stream!Frames /\ Stream!Frames = 1..Len(script)
      /\ (\A k \in Stream!Frames : Stream!End[k] \in Nat)
      /\ written \in Nat /\ read \in Nat /\ tail \in Nat
  BY <1>1, Numbers DEF StreamInv
<1>3. /\ phase = "syn" /\ queue = <<>> /\ handled = <<1>> /\ written <= Stream!End[2]
      /\ UNCHANGED <<script, written, queue>> /\ tail' = read'
  BY DEF Stream!ReceivesSynack, StreamInv, HandshakeOK
<1>4. Stream!End' = Stream!End /\ Stream!Frames' = Stream!Frames /\ (AllGood' <=> AllGood)
  BY <1>3, SameScript
<1>5. read' \in 0..written /\ read <= read' /\ tail' \in 0..read'
  BY <1>2, <1>3 DEF Stream!ReceivesSynack, Stream!Receives
<1>6. <<1>> \in Seq(Stream!Frames) /\ <<>> \in Seq(Stream!Frames) /\ Len(<<1>>) = 1 /\ Len(<<>>) = 0 /\ <<1>>[1] = 1
  BY <1>2
<1>7. CASE phase' = "syn" /\ handled' = handled
  <2>1. All' = All
    BY <1>3, <1>7 DEF All
  <2>2. BytesOK'
    BY <1>3, <1>4, <1>5, <1>7 DEF StreamInv, BytesOK
  <2>3. HandshakeOK' /\ OrderOK' /\ CompleteOK'
    BY <1>3, <1>4, <1>7, <2>1 DEF StreamInv, HandshakeOK, OrderOK, CompleteOK
  <2>. QED
    BY <2>2, <2>3 DEF StreamInv
<1>8. CASE phase' = "stream" /\ handled' = Append(handled, 2) /\ Stream!End[2] <= read'
  <2>1. /\ handled' \in Seq(Stream!Frames) /\ Len(handled') = 2 /\ handled'[1] = 1 /\ handled'[2] = 2
    <3>1. /\ Append(<<1>>, 2) \in Seq(Stream!Frames) /\ Len(Append(<<1>>, 2)) = 2
          /\ Append(<<1>>, 2)[1] = 1 /\ Append(<<1>>, 2)[2] = 2
      BY <1>2, <1>6, AppendProperties
    <3>. QED
      BY <1>3, <1>8, <3>1
  <2>2. All' = handled'
    BY <1>3, <2>1, ConcatEmptySeq DEF All
  <2>3. read' = Stream!End[2] /\ tail' = Stream!End[2]
    BY <1>2, <1>3, <1>5, <1>8
  <2>4. Stream!End[1] <= Stream!End[2]
    BY <1>1, <1>2, EndOrder
  <2>5. BytesOK'
    BY <1>3, <1>4, <1>5, <2>1 DEF StreamInv, BytesOK
  <2>6. HandshakeOK'
    BY <1>8 DEF HandshakeOK
  <2>7. OrderOK'
    <3>1. \A i \in 1..2 : i = 1 \/ i = 2
      OBVIOUS
    <3>2. \A i \in 1..Len(handled') : i \in 1..2 /\ handled'[i] = i
      BY <2>1, <3>1
    <3>3. \A i, j \in 1..Len(handled') : i < j => handled'[i] < handled'[j]
      BY <3>2
    <3>4. \A i \in 1..Len(handled') : Stream!End[handled'[i]] <= tail'
      BY <1>2, <2>3, <2>4, <3>1, <3>2
    <3>. QED
      BY <1>4, <2>2, <3>3, <3>4 DEF OrderOK
  <2>8. CompleteOK'
    <3>1. 1..2 \subseteq ToSet(All')
      <4>1. DOMAIN handled' = 1..2
        BY <2>1, LenProperties
      <4>. QED
        BY <2>1, <2>2, <4>1 DEF ToSet
    <3>2. 2 = Len(script) \/ read' < Stream!End[3]
      <4>. SUFFICES ASSUME 2 # Len(script) PROVE read' < Stream!End[3]
        OBVIOUS
      <4>0. Len(script) \in Nat /\ Len(script) >= 2 /\ Len(script) # 2
        BY <1>2
      <4>a. \A n \in Nat : n >= 2 /\ n # 2 => 3 \in 0..n /\ 2 \in 0..n
        OBVIOUS
      <4>1. 3 \in 0..Len(script) /\ 2 \in 0..Len(script)
        BY <4>0, <4>a
      <4>2. Stream!End[2] + Header <= Stream!End[3] /\ Header \in Nat \ {0} /\ Stream!End[3] \in Nat
        <5>1. ScriptOK /\ Header \in Nat \ {0}
          BY <1>1 DEF ScriptOK
        <5>2. \A j, k \in 0..Len(script) : j < k => Stream!End[j] + Header <= Stream!End[k]
          BY <5>1, EndGrows
        <5>3. Stream!End[3] \in Nat
          BY <4>1, <5>1, EndGrows
        <5>4. 2 < 3
          OBVIOUS
        <5>. QED
          BY <4>1, <5>1, <5>2, <5>3, <5>4
      <4>. QED
        BY <1>2, <2>3, <4>2
    <3>3. tail' = Stream!End[2] /\ 2 \in Stream!Frames /\ 2 + 1 = 3
      BY <1>2, <2>3
    <3>. QED
      BY <1>2, <1>3, <1>4, <3>1, <3>2, <3>3 DEF CompleteOK
  <2>. QED
    BY <2>5, <2>6, <2>7, <2>8 DEF StreamInv
<1>. QED
  BY <1>3, <1>7, <1>8 DEF Stream!ReceivesSynack

\* A queued frame is handled.
LEMMA QueuedKeeps == ASSUME Stream!StreamAssumption, StreamInv, Stream!HandlesQueued PROVE StreamInv'
<1>1. /\ phase = "stream" /\ queue # <<>>
      /\ handled' = Append(handled, Head(queue)) /\ queue' = Tail(queue)
      /\ UNCHANGED <<script, written, read, phase, tail>>
      /\ handled \in Seq(Stream!Frames) /\ queue \in Seq(Stream!Frames)
  BY DEF Stream!HandlesQueued, StreamInv, BytesOK
<1>2. Stream!End' = Stream!End /\ Stream!Frames' = Stream!Frames /\ (AllGood' <=> AllGood)
  BY <1>1, SameScript
<1>3. /\ Head(queue) \in Stream!Frames /\ Tail(queue) \in Seq(Stream!Frames) /\ Head(queue) = queue[1]
      /\ Len(queue) \in Nat \ {0} /\ Len(Tail(queue)) = Len(queue) - 1
      /\ \A i \in 1..Len(Tail(queue)) : Tail(queue)[i] = queue[i + 1]
  BY <1>1, HeadTailProperties, EmptySeq
<1>4. /\ handled' \in Seq(Stream!Frames) /\ Len(handled') = Len(handled) + 1 /\ Len(handled) \in Nat
      /\ (\A i \in 1..Len(handled) : handled'[i] = handled[i])
      /\ handled'[Len(handled) + 1] = queue[1]
  BY <1>1, <1>3, AppendProperties, LenProperties
<1>5. All' = All
  <2>1. /\ All \in Seq(Stream!Frames) /\ Len(All) = Len(handled) + Len(queue)
        /\ \A i \in 1..Len(handled) + Len(queue) :
             All[i] = IF i <= Len(handled) THEN handled[i] ELSE queue[i - Len(handled)]
    BY <1>1, ConcatProperties DEF All
  <2>2. /\ handled' \o queue' \in Seq(Stream!Frames) /\ Len(handled' \o queue') = Len(handled') + Len(queue')
        /\ \A i \in 1..Len(handled') + Len(queue') :
             (handled' \o queue')[i] = IF i <= Len(handled') THEN handled'[i] ELSE queue'[i - Len(handled')]
    BY <1>1, <1>3, <1>4, ConcatProperties
  <2>. DEFINE n == Len(handled)
              m == Len(queue)
              both == handled' \o queue'
  <2>3. Len(both) = n + m /\ Len(handled') = n + 1 /\ Len(queue') = m - 1
    BY <1>1, <1>3, <1>4, <2>2
  <2>4. ASSUME NEW i \in 1..n + m PROVE both[i] = All[i]
    <3>1. CASE i <= n
      BY <1>3, <1>4, <2>1, <2>2, <2>3, <3>1, SMTT(30)
    <3>2. CASE i = n + 1
      <4>1. both[i] = handled'[n + 1] /\ All[i] = queue[1]
        BY <1>3, <1>4, <2>1, <2>2, <2>3, <3>2
      <4>. QED
        BY <4>1, <1>4
    <3>3. CASE i > n + 1
      <4>1. both[i] = queue'[i - (n + 1)] /\ All[i] = queue[i - n]
        BY <1>3, <1>4, <2>1, <2>2, <2>3, <3>3
      <4>2. i - (n + 1) \in 1..Len(Tail(queue)) /\ i - (n + 1) + 1 = i - n
        BY <1>3, <1>4, <3>3
      <4>3. Tail(queue)[i - (n + 1)] = queue[i - n]
        BY <1>3, <4>2
      <4>. QED
        BY <1>1, <4>1, <4>3
    <3>4. n \in Nat /\ i \in Nat
      BY <1>3, <1>4
    <3>5. i <= n \/ i = n + 1 \/ i > n + 1
      BY <3>4
    <3>. QED
      BY <3>1, <3>2, <3>3, <3>5
  <2>. HIDE DEF both
  <2>5. both = All
    BY <2>1, <2>2, <2>3, <2>4, SeqEqual DEF both
  <2>. QED
    BY <2>5 DEF All, both
<1>6. BytesOK'
  BY <1>1, <1>2, <1>3, <1>4 DEF StreamInv, BytesOK
<1>7. HandshakeOK' /\ OrderOK' /\ CompleteOK'
  BY <1>1, <1>2, <1>5 DEF StreamInv, HandshakeOK, OrderOK, CompleteOK
<1>. QED
  BY <1>6, <1>7 DEF StreamInv

\* What a block of frames behind the tail adds, the first one handled.
LEMMA Extended ==
  ASSUME StreamInv, ScriptOK, phase = "stream", queue = <<>>,
         NEW a \in Stream!Frames, NEW b \in Stream!Frames, a <= b, Stream!Start(a) = tail,
         script' = script, handled' = Append(handled, a), queue' \in Seq(Stream!Frames),
         Len(queue') = b - a, \A n \in 1..b - a : queue'[n] = a + n
  PROVE  /\ handled' \in Seq(Stream!Frames)
         /\ \A i, j \in 1..Len(All') : i < j => All'[i] < All'[j]
         /\ \A i \in 1..Len(All') : Stream!End[All'[i]] <= Stream!End[b]
         /\ ToSet(All) \cup a..b \subseteq ToSet(All')
<1>1. /\ Len(script) \in Nat /\ Stream!Frames = 1..Len(script) /\ a \in Nat /\ b \in Nat
      /\ \A k \in Stream!Frames : Stream!End[k] \in Nat /\ Stream!Start(k) \in Nat
  BY Numbers DEF StreamInv
<1>2. handled \in Seq(Stream!Frames) /\ All = handled /\ Len(handled) \in Nat /\ DOMAIN handled = 1..Len(handled)
  BY ConcatEmptySeq, LenProperties DEF StreamInv, BytesOK, All
<1>3. /\ handled' \in Seq(Stream!Frames) /\ Len(handled') = Len(handled) + 1
      /\ (\A i \in 1..Len(handled) : handled'[i] = handled[i]) /\ handled'[Len(handled) + 1] = a
  BY <1>2, AppendProperties
<1>. DEFINE n == Len(handled)
            d == b - a
<1>4. /\ All' \in Seq(Stream!Frames) /\ Len(All') = n + 1 + d /\ DOMAIN All' = 1..n + 1 + d
      /\ \A i \in 1..n + 1 + d :
           All'[i] = IF i <= n + 1 THEN handled'[i] ELSE queue'[i - (n + 1)]
  <2>1. /\ handled' \o queue' \in Seq(Stream!Frames) /\ Len(handled' \o queue') = Len(handled') + Len(queue')
        /\ \A i \in 1..Len(handled') + Len(queue') :
             (handled' \o queue')[i] = IF i <= Len(handled') THEN handled'[i] ELSE queue'[i - Len(handled')]
    BY <1>3, ConcatProperties, ZenonT(60)
  <2>2. DOMAIN (handled' \o queue') = 1..Len(handled' \o queue')
    BY <2>1, LenProperties
  <2>. QED
    BY <1>3, <2>1, <2>2 DEF All
<1>5. n \in Nat /\ d \in Nat
  BY <1>1, <1>2
<1>6. /\ \A i \in 1..n : i \in 1..n + 1 + d /\ All'[i] = handled[i]
      /\ \A i \in n + 1..n + 1 + d : i \in 1..n + 1 + d /\ All'[i] = a + (i - (n + 1))
  <2>1. ASSUME NEW i \in 1..n PROVE i \in 1..n + 1 + d /\ All'[i] = handled[i]
    BY <1>3, <1>4, <1>5
  <2>2. ASSUME NEW i \in n + 1..n + 1 + d PROVE i \in 1..n + 1 + d /\ All'[i] = a + (i - (n + 1))
    <3>1. CASE i = n + 1
      <4>1. All'[i] = a
        BY <1>3, <1>4, <1>5, <3>1
      <4>. QED
        BY <1>1, <1>5, <3>1, <4>1
    <3>2. CASE i > n + 1
      <4>1. i - (n + 1) \in 1..b - a /\ i \in 1..n + 1 + d
        BY <1>5, <1>1, <3>2
      <4>2. All'[i] = queue'[i - (n + 1)]
        BY <1>4, <1>5, <3>2, <4>1
      <4>3. queue'[i - (n + 1)] = a + (i - (n + 1))
        BY <4>1
      <4>. QED
        BY <4>1, <4>2, <4>3
    <3>. QED
      BY <1>5, <3>1, <3>2
  <2>. QED
    BY <2>1, <2>2
<1>7. /\ \A i, j \in 1..n : i < j => handled[i] < handled[j]
      /\ \A i \in 1..n : handled[i] \in Stream!Frames /\ Stream!End[handled[i]] <= tail
  BY <1>2, ElementOfSeq DEF StreamInv, OrderOK
<1>8. \A i \in 1..n : handled[i] < a
  <2>. TAKE i \in 1..n
  <2>1. Stream!End[handled[i]] <= Stream!End[a - 1] /\ handled[i] \in 0..Len(script) /\ a - 1 \in 0..Len(script)
    BY <1>1, <1>7 DEF Stream!Start
  <2>2. handled[i] <= a - 1
    BY <2>1, EndOrder
  <2>. QED
    BY <1>1, <2>1, <2>2
<1>. HIDE DEF n, d
<1>9. ASSUME NEW i \in 1..n + 1 + d, NEW j \in 1..n + 1 + d, i < j PROVE All'[i] < All'[j]
  <2>1. CASE j <= n
    BY <1>5, <1>6, <1>7, <1>9, <2>1
  <2>2. CASE i <= n /\ n < j
    <3>1. All'[i] = handled[i] /\ handled[i] < a /\ handled[i] \in Nat
      BY <1>1, <1>5, <1>6, <1>7, <1>8, <2>2
    <3>2. j \in n + 1..n + 1 + d
      BY <1>5, <2>2
    <3>3. All'[j] = a + (j - (n + 1)) /\ j - (n + 1) \in Nat
      BY <1>5, <1>6, <3>2
    <3>. QED
      BY <1>1, <3>1, <3>3
  <2>3. CASE n < i
    <3>1. i \in n + 1..n + 1 + d /\ j \in n + 1..n + 1 + d
      BY <1>5, <1>9, <2>3
    <3>2. All'[i] = a + (i - (n + 1)) /\ All'[j] = a + (j - (n + 1))
      BY <1>6, <3>1
    <3>. QED
      BY <1>1, <1>5, <1>9, <3>1, <3>2
  <2>. QED
    BY <1>5, <2>1, <2>2, <2>3
<1>10. ASSUME NEW i \in 1..n + 1 + d PROVE Stream!End[All'[i]] <= Stream!End[b]
  <2>1. All'[i] \in Stream!Frames /\ All'[i] <= b
    <3>1. All'[i] \in Stream!Frames
      BY <1>4, ElementOfSeq
    <3>2. CASE i <= n
      <4>1. i \in 1..n
        BY <1>5, <3>2
      <4>2. All'[i] < a /\ All'[i] \in Nat
        <5>1. All'[i] = handled[i]
          BY <1>6, <4>1
        <5>2. handled[i] < a
          BY <1>8, <4>1 DEF n
        <5>. QED
          BY <1>1, <3>1, <5>1, <5>2
      <4>. QED
        BY <1>1, <3>1, <4>2
    <3>3. CASE n < i
      <4>1. i \in n + 1..n + 1 + d
        BY <1>5, <3>3
      <4>2. All'[i] = a + (i - (n + 1)) /\ i - (n + 1) <= d
        BY <1>5, <1>6, <4>1
      <4>. QED
        BY <1>1, <1>5, <3>1, <4>1, <4>2 DEF d
    <3>. QED
      BY <1>5, <3>1, <3>2, <3>3
  <2>2. All'[i] \in 0..Len(script) /\ b \in 0..Len(script)
    BY <1>1, <2>1
  <2>. QED
    BY <2>1, <2>2, EndOrder
<1>11. ToSet(All) \subseteq ToSet(All')
  <2>. SUFFICES ASSUME NEW x \in ToSet(All) PROVE x \in ToSet(All')
    OBVIOUS
  <2>1. PICK i \in 1..n : x = handled[i]
    BY <1>2 DEF ToSet, n
  <2>2. i \in DOMAIN All' /\ x = All'[i]
    BY <1>4, <1>6, <2>1
  <2>. QED
    BY <2>2 DEF ToSet
<1>12. ASSUME NEW x \in a..b PROVE x \in ToSet(All')
  <2>1. (n + 1) + (x - a) \in n + 1..n + 1 + d /\ a + (((n + 1) + (x - a)) - (n + 1)) = x
    BY <1>1, <1>5 DEF d
  <2>2. (n + 1) + (x - a) \in DOMAIN All' /\ x = All'[(n + 1) + (x - a)]
    BY <1>4, <1>6, <2>1
  <2>. QED
    BY <2>2 DEF ToSet
<1>. QED
  BY <1>3, <1>4, <1>9, <1>10, <1>11, <1>12

\* What a recv() after the key change reads.
LEMMA Reading ==
  ASSUME BytesOK, ScriptOK, Stream!Receives
  PROVE  read' \in 0..written /\ read <= read' /\ read' \in Nat /\ tail <= read'
<1>1. written \in Nat /\ read \in Nat /\ tail \in Nat /\ tail <= read
  BY Numbers DEF BytesOK
<1>2. read' \in (read + 1)..written
  BY DEF Stream!Receives
<1>. QED
  BY <1>1, <1>2

LEMMA NextStart == ASSUME NEW k \in Nat PROVE Stream!Start(k + 1) = Stream!End[k]
<1>. DEFINE m == k + 1
<1>1. Stream!Start(m) = Stream!End[m - 1]
  BY DEF Stream!Start
<1>2. m - 1 = k
  OBVIOUS
<1>. QED
  BY <1>1, <1>2

\* With proper headers only, the frame behind the tail is the one after the last.
LEMMA NextFrame ==
  ASSUME ScriptOK, NEW k \in Stream!Frames, NEW a \in Stream!Frames, Stream!Start(a) = Stream!End[k]
  PROVE  a = k + 1
<1>1. Len(script) \in Nat
  BY DEF ScriptOK
<1>2. a - 1 \in 0..Len(script) /\ k \in 0..Len(script)
  BY <1>1 DEF Stream!Frames
<1>3. a - 1 = k
  BY <1>2, EndOrder DEF Stream!Start
<1>. QED
  BY <1>1, <1>3 DEF Stream!Frames

LEMMA SplitKeeps == ASSUME Stream!StreamAssumption, StreamInv, Stream!Splits PROVE StreamInv'
<1>1. ScriptOK
  BY ScriptTyped DEF StreamInv
<1>2. /\ Len(script) \in Nat /\ Stream!Frames = 1..Len(script)
      /\ (\A k \in Stream!Frames : k \in Nat /\ Stream!End[k] \in Nat /\ Stream!Start(k) \in Nat)
      /\ written \in Nat /\ read \in Nat /\ tail \in Nat
  BY <1>1, Numbers DEF StreamInv
<1>3. /\ phase = "stream" /\ queue = <<>> /\ UNCHANGED <<script, written, phase>>
      /\ tail' = Stream!Reached(tail, read')
  BY DEF Stream!Splits
<1>4. Stream!End' = Stream!End /\ Stream!Frames' = Stream!Frames /\ (AllGood' <=> AllGood)
  BY <1>3, SameScript
<1>5. read' \in 0..written /\ read <= read' /\ read' \in Nat /\ tail <= read'
  BY <1>1, Reading DEF Stream!Splits, StreamInv
<1>. DEFINE W == Stream!Whole(tail, read')
            frames == Stream!InOrder(W)
<1>6. IF frames = <<>>
      THEN UNCHANGED <<queue, handled>>
      ELSE handled' = Append(handled, Head(frames)) /\ queue' = Tail(frames)
  BY DEF Stream!Splits
<1>7. CASE /\ W = {} /\ Stream!Reached(tail, read') = tail
           /\ \A a \in Stream!Frames : Stream!Start(a) = tail => read' < Stream!End[a] \/ ~script[a].good
  <2>1. frames = <<>>
    <3>1. Cardinality({}) = 0 /\ 1..0 = {}
      BY FS_EmptySet
    <3>2. frames = [n \in {} |-> Min({}) + n - 1]
      BY <1>7, <3>1, StreamLibrary DEF Stream!InOrder
    <3>. QED
      BY <3>2
  <2>2. UNCHANGED <<script, tail, queue, handled>>
    BY <1>3, <1>6, <1>7, <2>1
  <2>3. All' = All
    BY <2>2, SameFrames
  <2>4. BytesOK'
    BY <1>2, <1>3, <1>4, <1>5, <2>2 DEF StreamInv, BytesOK
  <2>5. HandshakeOK' /\ OrderOK'
    BY <1>3, <1>4, <2>2, <2>3 DEF StreamInv, HandshakeOK, OrderOK
  <2>6. CompleteOK'
    <3>. SUFFICES ASSUME AllGood
         PROVE \E k \in Stream!Frames : /\ tail = Stream!End[k] /\ 1..k \subseteq ToSet(All)
                                        /\ k = Len(script) \/ read' < Stream!End[k + 1]
      BY <1>3, <1>4, <2>2, <2>3 DEF CompleteOK
    <3>1. PICK k \in Stream!Frames : tail = Stream!End[k] /\ 1..k \subseteq ToSet(All)
      BY <1>3 DEF StreamInv, CompleteOK
    <3>2. ASSUME k # Len(script) PROVE read' < Stream!End[k + 1]
      <4>1. k + 1 \in Stream!Frames /\ k + 1 - 1 = k
        BY <1>2, <3>2
      <4>2. Stream!Start(k + 1) = tail
        <5>1. Stream!Start(k + 1) = Stream!End[k]
          BY <1>2, NextStart
        <5>. QED
          BY <3>1, <5>1
      <4>3. script[k + 1].good
        BY <4>1 DEF AllGood
      <4>. QED
        BY <1>7, <4>1, <4>2, <4>3
    <3>. QED
      BY <3>1, <3>2
  <2>. QED
    BY <2>4, <2>5, <2>6 DEF StreamInv
<1>8. ASSUME NEW a \in Stream!Frames, NEW b \in Stream!Frames, a <= b, Stream!Start(a) = tail, Stream!End[b] <= read',
             W = a..b, Stream!Reached(tail, read') = Stream!End[b],
             b = Len(script) \/ read' < Stream!End[b + 1] \/ ~script[b + 1].good
      PROVE  StreamInv'
  <2>1. frames = Block(a, b)
    BY <1>2, <1>8, InOrderIs
  <2>2. /\ frames \in Seq(Stream!Frames) /\ Len(frames) = b - a + 1 /\ frames # <<>>
        /\ \A n \in 1..b - a + 1 : frames[n] = a + n - 1
    <3>1. b - a + 1 \in Nat /\ \A n \in 1..b - a + 1 : a + n - 1 \in Stream!Frames
      BY <1>2, <1>8
    <3>2. Block(a, b) \in [1..b - a + 1 -> Stream!Frames]
      BY <3>1 DEF Block
    <3>3. Block(a, b) \in Seq(Stream!Frames) /\ Len(Block(a, b)) = b - a + 1
      <4>1. Block(a, b) \in Seq(Stream!Frames)
        BY <3>1, <3>2, SeqDef
      <4>2. DOMAIN Block(a, b) = 1..b - a + 1 /\ DOMAIN Block(a, b) = 1..Len(Block(a, b))
        BY <4>1, LenProperties DEF Block
      <4>. QED
        BY <3>1, <4>1, <4>2, LenProperties
    <3>4. b - a + 1 # 0
      BY <1>2, <1>8
    <3>. QED
      BY <2>1, <3>3, <3>4, EmptySeq DEF Block
  <2>. HIDE DEF frames, W
  <2>3. /\ Head(frames) = a /\ Tail(frames) \in Seq(Stream!Frames) /\ Len(Tail(frames)) = b - a
        /\ \A n \in 1..b - a : Tail(frames)[n] = a + n
    <3>1. /\ Tail(frames) \in Seq(Stream!Frames) /\ Len(Tail(frames)) = Len(frames) - 1
          /\ \A n \in 1..Len(Tail(frames)) : Tail(frames)[n] = frames[n + 1]
      BY <2>2, HeadTailProperties
    <3>2. Head(frames) = frames[1]
      BY <2>2
    <3>3. 1 \in 1..b - a + 1 /\ a + 1 - 1 = a
      BY <1>2, <1>8
    <3>4. Len(Tail(frames)) = b - a
      BY <1>2, <2>2, <3>1
    <3>5. ASSUME NEW n \in 1..b - a PROVE Tail(frames)[n] = a + n
      <4>1. n + 1 \in 1..b - a + 1 /\ a + (n + 1) - 1 = a + n
        BY <1>2, <3>5
      <4>. QED
        BY <2>2, <3>1, <3>4, <4>1
    <3>. QED
      BY <2>2, <3>1, <3>2, <3>3, <3>4, <3>5
  <2>4. /\ handled' = Append(handled, a) /\ queue' = Tail(frames)
        /\ queue' \in Seq(Stream!Frames) /\ Len(queue') = b - a /\ \A n \in 1..b - a : queue'[n] = a + n
    BY <1>6, <2>2, <2>3
  <2>5. /\ handled' \in Seq(Stream!Frames)
        /\ \A i, j \in 1..Len(All') : i < j => All'[i] < All'[j]
        /\ \A i \in 1..Len(All') : Stream!End[All'[i]] <= Stream!End[b]
        /\ ToSet(All) \cup a..b \subseteq ToSet(All')
    BY <1>1, <1>3, <1>8, <2>4, Extended
  <2>6. tail' = Stream!End[b] /\ tail' \in 0..read'
    BY <1>2, <1>3, <1>5, <1>8
  <2>7. BytesOK'
    BY <1>3, <1>4, <1>5, <2>4, <2>5, <2>6 DEF StreamInv, BytesOK
  <2>8. HandshakeOK' /\ OrderOK'
    BY <1>3, <1>4, <2>5, <2>6 DEF HandshakeOK, OrderOK
  <2>9. CompleteOK'
    <3>. SUFFICES ASSUME AllGood
         PROVE \E k \in Stream!Frames : /\ Stream!End[b] = Stream!End[k] /\ 1..k \subseteq ToSet(All')
                                        /\ k = Len(script) \/ read' < Stream!End[k + 1]
      BY <1>3, <1>4, <2>6 DEF CompleteOK
    <3>1. PICK k \in Stream!Frames : tail = Stream!End[k] /\ 1..k \subseteq ToSet(All)
      BY <1>3 DEF StreamInv, CompleteOK
    <3>2. a = k + 1
      BY <1>1, <1>8, <3>1, NextFrame
    <3>3. 1..b \subseteq 1..k \cup a..b
      BY <1>2, <3>2
    <3>4. 1..b \subseteq ToSet(All')
      BY <2>5, <3>1, <3>3
    <3>5. b # Len(script) => b + 1 \in Stream!Frames
      BY <1>2
    <3>6. b = Len(script) \/ read' < Stream!End[b + 1]
      BY <1>8, <3>5 DEF AllGood
    <3>. QED
      BY <3>4, <3>6
  <2>. QED
    BY <2>7, <2>8, <2>9 DEF StreamInv
<1>. HIDE DEF W, frames
<1>9. \/ /\ W = {} /\ Stream!Reached(tail, read') = tail
         /\ \A a \in Stream!Frames : Stream!Start(a) = tail => read' < Stream!End[a] \/ ~script[a].good
      \/ \E a, b \in Stream!Frames :
           /\ a <= b /\ Stream!Start(a) = tail /\ Stream!End[b] <= read'
           /\ W = a..b /\ Stream!Reached(tail, read') = Stream!End[b]
           /\ b = Len(script) \/ read' < Stream!End[b + 1] \/ ~script[b + 1].good
  BY <1>1, <1>2, <1>5, Split DEF W
<1>. QED
  BY <1>7, <1>8, <1>9

\* With proper headers only, the splitter never raises.
LEMMA NoDesync ==
  ASSUME StreamInv, ScriptOK, phase = "stream", AllGood, NEW to \in Nat, to <= written
  PROVE  ~Stream!Desync(tail, to)
<1>. SUFFICES ASSUME Stream!Desync(tail, to) PROVE FALSE
  OBVIOUS
<1>1. /\ Len(script) \in Nat /\ Stream!Frames = 1..Len(script)
      /\ (\A k \in Stream!Frames : k \in Nat /\ Stream!End[k] \in Nat)
      /\ written \in Nat /\ tail \in Nat /\ Stream!End[Len(script)] \in Nat /\ written <= Stream!End[Len(script)]
  BY Numbers DEF StreamInv, BytesOK
<1>2. Header \in Nat \ {0}
  BY DEF ScriptOK
<1>3. PICK k \in Stream!Frames : Stream!Reached(tail, to) = Stream!End[k]
  <2>1. PICK k \in Stream!Frames : tail = Stream!End[k]
    BY DEF StreamInv, CompleteOK
  <2>2. Stream!Reached(tail, to) = tail \/ \E b \in Stream!Frames : Stream!Reached(tail, to) = Stream!End[b]
    BY <1>1, Split, SMTT(30)
  <2>. QED
    BY <2>1, <2>2
<1>4. to - Stream!End[k] >= Header /\ ~Stream!GoodAt(Stream!End[k])
  BY <1>3 DEF Stream!Desync
<1>5. k # Len(script)
  BY <1>1, <1>2, <1>4
<1>6. k + 1 \in Stream!Frames /\ k + 1 - 1 = k
  BY <1>1, <1>5
<1>7. Stream!GoodAt(Stream!End[k])
  <2>1. Stream!Start(k + 1) = Stream!End[k]
    BY <1>1, NextStart
  <2>2. script[k + 1].good
    BY <1>6 DEF AllGood
  <2>. QED
    BY <1>6, <2>1, <2>2 DEF Stream!GoodAt
<1>. QED
  BY <1>4, <1>7

LEMMA FallBackKeeps == ASSUME Stream!StreamAssumption, StreamInv, Stream!FallsBack PROVE StreamInv'
<1>1. ScriptOK
  BY ScriptTyped DEF StreamInv
<1>2. /\ Len(script) \in Nat /\ Stream!Frames = 1..Len(script)
      /\ (\A k \in Stream!Frames : k \in Nat /\ Stream!End[k] \in Nat /\ Stream!Start(k) \in Nat)
      /\ written \in Nat /\ read \in Nat /\ tail \in Nat
  BY <1>1, Numbers DEF StreamInv
<1>3. /\ phase = "stream" /\ queue = <<>> /\ UNCHANGED <<script, written, phase, queue>>
      /\ tail' = read' /\ Stream!Desync(tail, read')
  BY StreamLibrary DEF Stream!FallsBack
<1>4. Stream!End' = Stream!End /\ Stream!Frames' = Stream!Frames /\ (AllGood' <=> AllGood)
  BY <1>3, SameScript
<1>5. read' \in 0..written /\ read <= read' /\ read' \in Nat /\ tail <= read'
  BY <1>1, Reading DEF Stream!FallsBack, StreamInv
<1>6. CompleteOK'
  <2>1. ~AllGood
    BY <1>1, <1>2, <1>3, <1>5, NoDesync
  <2>. QED
    BY <1>4, <2>1 DEF CompleteOK
<1>7. HandshakeOK'
  BY <1>3 DEF HandshakeOK
<1>. DEFINE W == Stream!Whole(tail, read')
<1>8. handled' = IF W = {} THEN handled ELSE Append(handled, Min(W))
  BY StreamLibrary DEF Stream!FallsBack
<1>9. CASE W = {}
  <2>1. UNCHANGED <<handled, queue, script>>
    BY <1>3, <1>8, <1>9
  <2>2. All' = All
    BY <2>1, SameFrames
  <2>3. BytesOK'
    BY <1>2, <1>3, <1>4, <1>5, <2>1 DEF StreamInv, BytesOK
  <2>4. All \in Seq(Stream!Frames) /\ \A i \in 1..Len(All) : Stream!End[All[i]] <= tail /\ All[i] \in Stream!Frames
    BY <1>3, AllTyped, ElementOfSeq DEF StreamInv, OrderOK
  <2>5. \A i \in 1..Len(All) : Stream!End[All[i]] <= read'
    BY <1>2, <1>5, <2>4
  <2>6. OrderOK'
    BY <1>3, <1>4, <2>2, <2>5 DEF StreamInv, OrderOK
  <2>. QED
    BY <1>6, <1>7, <2>3, <2>6 DEF StreamInv
<1>10. CASE W # {}
  <2>1. PICK a, b \in Stream!Frames : a <= b /\ Stream!Start(a) = tail /\ Stream!End[b] <= read' /\ W = a..b
    <3>1. \/ W = {}
          \/ \E a, b \in Stream!Frames :
               /\ a <= b /\ Stream!Start(a) = tail /\ Stream!End[b] <= read' /\ W = a..b
               /\ Stream!Reached(tail, read') = Stream!End[b]
               /\ b = Len(script) \/ read' < Stream!End[b + 1] \/ ~script[b + 1].good
      BY <1>1, <1>2, <1>5, Split
    <3>. QED
      BY <1>10, <3>1, Zenon
  <2>2. Min(W) = a
    BY <1>2, <2>1, InOrderIs
  <2>3. /\ handled' = Append(handled, a) /\ queue' \in Seq(Stream!Frames) /\ Len(queue') = 0
    BY <1>3, <1>8, <1>10, <2>2, EmptySeq
  <2>4. a - a = 0 /\ a <= a /\ \A n \in 1..0 : queue'[n] = a + n
    BY <1>2
  <2>5. /\ handled' \in Seq(Stream!Frames)
        /\ \A i, j \in 1..Len(All') : i < j => All'[i] < All'[j]
        /\ \A i \in 1..Len(All') : Stream!End[All'[i]] <= Stream!End[a]
    BY <1>1, <1>3, <2>1, <2>3, <2>4, Extended
  <2>6. Stream!End[a] <= read' /\ \A i \in 1..Len(All') : Stream!End[All'[i]] <= read'
    <3>1. a \in 0..Len(script) /\ b \in 0..Len(script) /\ Stream!End[a] <= Stream!End[b]
      BY <1>1, <1>2, <2>1, EndOrder
    <3>2. Stream!End[a] <= read'
      BY <1>2, <1>5, <2>1, <3>1
    <3>3. handled' \o queue' \in Seq(Stream!Frames)
      BY <2>3, <2>5, ConcatProperties
    <3>4. \A i \in 1..Len(All') : All'[i] \in Stream!Frames
      BY <3>3, ElementOfSeq DEF All
    <3>. QED
      BY <1>2, <1>5, <2>5, <3>2, <3>4
  <2>7. BytesOK'
    BY <1>2, <1>3, <1>4, <1>5, <2>3, <2>5 DEF StreamInv, BytesOK
  <2>8. OrderOK'
    BY <1>3, <1>4, <2>5, <2>6 DEF OrderOK
  <2>. QED
    BY <1>6, <1>7, <2>7, <2>8 DEF StreamInv
<1>. QED
  BY <1>9, <1>10

-----------------------------------------------------------------------------
\* The invariant says what FramesOnce asks: a frame that has been read whole ends before
\* the tail does.
LEMMA InvIsOnce == ASSUME Stream!StreamAssumption, StreamInv PROVE Stream!FramesOnce
<1>1. ScriptOK
  BY ScriptTyped DEF StreamInv
<1>2. /\ Len(script) \in Nat /\ Stream!Frames = 1..Len(script)
      /\ (\A k \in Stream!Frames : k \in Nat /\ Stream!End[k] \in Nat) /\ read \in Nat
  BY <1>1, Numbers DEF StreamInv
<1>3. ASSUME phase = "stream", AllGood, NEW k \in Stream!Frames, Stream!End[k] <= read
      PROVE  k \in ToSet(All)
  <2>1. PICK m \in Stream!Frames : /\ 1..m \subseteq ToSet(All)
                                   /\ m = Len(script) \/ read < Stream!End[m + 1]
    BY <1>3 DEF StreamInv, CompleteOK
  <2>2. k <= m
    <3>. SUFFICES ASSUME m < k PROVE FALSE
      BY <1>2
    <3>1. m + 1 \in Stream!Frames /\ m + 1 <= k /\ m # Len(script)
      BY <1>2
    <3>2. m + 1 \in 0..Len(script) /\ k \in 0..Len(script)
      BY <1>2, <3>1
    <3>3. Stream!End[m + 1] <= Stream!End[k]
      BY <1>1, <3>1, <3>2, EndOrder
    <3>4. Stream!End[m + 1] \in Nat /\ Stream!End[k] \in Nat /\ read < Stream!End[m + 1]
      BY <1>2, <2>1, <3>1
    <3>. QED
      BY <1>2, <1>3, <3>3, <3>4
  <2>3. k \in 1..m
    BY <1>2, <2>2
  <2>. QED
    BY <2>1, <2>3
<1>. QED
  BY <1>3, StreamLibrary DEF Stream!FramesOnce, StreamInv, OrderOK, All, AllGood

\* Every step.
LEMMA StreamStep == ASSUME Stream!StreamAssumption, StreamInv, [Stream!Next]_(Stream!vars) PROVE StreamInv'
  BY QuietKeeps, WriteKeeps, BurstKeeps, SynackKeeps, QueuedKeeps, SplitKeeps, FallBackKeeps DEF Stream!Next

\* The TPDUs of a client are handled in their order and none twice, however recv() cuts
\* the stream; and without a bad header each one that has been read whole is handled or
\* queued: tgame_split_generic_stream and the loop around it.
THEOREM FramesHandledOnce == ASSUME Stream!StreamAssumption PROVE Stream!Spec => []Stream!FramesOnce
<1>1. Stream!Init => StreamInv
  BY InitKeeps
<1>2. StreamInv /\ [Stream!Next]_(Stream!vars) => StreamInv'
  BY StreamStep
<1>3. StreamInv => Stream!FramesOnce
  BY InvIsOnce
<1>. QED
  BY <1>1, <1>2, <1>3, PTL DEF Stream!Spec

-----------------------------------------------------------------------------
(* The bytes of the first steps                                            *)

Plus(f, j) == IF j = 0 THEN 0 ELSE f[j - 1] + Serve!Size(j)
Sum(f, k) == f = [j \in 0..k |-> Plus(f, j)]

LEMMA UptoSum == ASSUME NEW k PROVE Serve!Upto(k) = (CHOOSE f : Sum(f, k))[k]
  BY DEF Serve!Upto, Sum, Plus

LEMMA SumExists == ASSUME NEW k \in Nat PROVE \E f : Sum(f, k)
<1>. DEFINE S == {n \in Nat : \E f : Sum(f, n)}
<1>1. 0 \in S
  <2>. DEFINE g == [j \in 0..0 |-> 0]
  <2>1. g = [j \in 0..0 |-> Plus(g, j)]
    BY DEF Plus
  <2>. QED
    BY <2>1 DEF Sum
<1>2. ASSUME NEW n \in S PROVE n + 1 \in S
  <2>1. n \in Nat
    OBVIOUS
  <2>2. PICK f : Sum(f, n)
    OBVIOUS
  <2>. DEFINE g == [j \in 0..n + 1 |-> Plus(f, j)]
  <2>3. \A j \in 0..n : j \in 0..n + 1 /\ g[j] = f[j]
    <3>1. \A j \in 0..n : j \in 0..n + 1
      BY <2>1
    <3>2. \A j \in 0..n : f[j] = Plus(f, j)
      BY <2>2 DEF Sum
    <3>. QED
      BY <3>1, <3>2
  <2>4. ASSUME NEW j \in 0..n + 1 PROVE Plus(f, j) = Plus(g, j)
    <3>1. j = 0 \/ j - 1 \in 0..n
      BY <2>1
    <3>. HIDE DEF g
    <3>. QED
      BY <2>3, <3>1 DEF Plus
  <2>5. g = [j \in 0..n + 1 |-> Plus(g, j)]
    BY <2>4, Zenon
  <2>. HIDE DEF g
  <2>6. Sum(g, n + 1)
    BY <2>5 DEF Sum
  <2>. QED
    BY <2>1, <2>6
<1>. HIDE DEF S
<1>3. S = Nat
  <2>1. S \in SUBSET Nat
    BY DEF S
  <2>. QED
    BY <1>1, <1>2, <2>1, NatInd
<1>. QED
  BY <1>3 DEF S

LEMMA SumsAgree ==
  ASSUME NEW f, NEW g, NEW k \in Nat, NEW m \in Nat, Sum(f, k), Sum(g, m), NEW n \in Nat, n <= k, n <= m
  PROVE  f[n] = g[n]
<1>. DEFINE S == {j \in Nat : j <= k /\ j <= m => f[j] = g[j]}
<1>1. \A j \in 0..k : f[j] = Plus(f, j)
  BY DEF Sum
<1>2. \A j \in 0..m : g[j] = Plus(g, j)
  BY DEF Sum
<1>3. 0 \in S
  BY <1>1, <1>2 DEF Plus
<1>4. ASSUME NEW j \in S PROVE j + 1 \in S
  <2>. SUFFICES ASSUME j + 1 <= k, j + 1 <= m PROVE f[j + 1] = g[j + 1]
    OBVIOUS
  <2>1. j \in Nat /\ j <= k /\ j <= m /\ j + 1 \in 0..k /\ j + 1 \in 0..m /\ j + 1 # 0 /\ j + 1 - 1 = j
    OBVIOUS
  <2>2. f[j] = g[j]
    BY <2>1
  <2>. QED
    BY <1>1, <1>2, <2>1, <2>2 DEF Plus
<1>. HIDE DEF S
<1>5. S = Nat
  <2>1. S \in SUBSET Nat
    BY DEF S
  <2>. QED
    BY <1>3, <1>4, <2>1, NatInd
<1>. QED
  BY <1>5 DEF S

\* Step by step.
LEMMA UptoSteps ==
  /\ Serve!Upto(0) = 0
  /\ \A k \in Nat : Serve!Upto(k + 1) = Serve!Upto(k) + Serve!Size(k + 1)
<1>. DEFINE F(k) == CHOOSE f : Sum(f, k)
<1>1. \A k \in Nat : Sum(F(k), k)
  BY SumExists
<1>2. \A k \in Nat : Serve!Upto(k) = F(k)[k]
  BY UptoSum
<1>. HIDE DEF F
<1>3. \A k \in Nat : \A j \in 0..k : F(k)[j] = Plus(F(k), j)
  BY <1>1 DEF Sum
<1>4. Serve!Upto(0) = 0
  BY <1>2, <1>3 DEF Plus
<1>5. ASSUME NEW k \in Nat PROVE Serve!Upto(k + 1) = Serve!Upto(k) + Serve!Size(k + 1)
  <2>1. k + 1 \in Nat /\ k + 1 \in 0..k + 1 /\ k + 1 # 0 /\ k + 1 - 1 = k /\ k <= k /\ k <= k + 1
    OBVIOUS
  <2>2. F(k + 1)[k + 1] = F(k + 1)[k] + Serve!Size(k + 1)
    BY <1>3, <2>1 DEF Plus
  <2>3. F(k + 1)[k] = F(k)[k]
    BY <1>1, <2>1, SumsAgree
  <2>. QED
    BY <1>2, <2>1, <2>2, <2>3
<1>. QED
  BY <1>4, <1>5

-----------------------------------------------------------------------------
(* The three programs                                                      *)

\* What the proof needs to know of a handler's steps.
GoodProgram(p) ==
  /\ Len(p) \in Nat \ {0} /\ DOMAIN p = 1..Len(p)
  /\ \A k \in 1..Len(p) :
       /\ p[k].do \in {"read", "answer", "linger"} /\ p[k].size \in Nat /\ p[k].none \in 0..Len(p)
       /\ p[k].do = "read" => p[k].size > 0
       /\ p[k].do # "read" => p[k].size = 0
       /\ p[k].do = "linger" => k = Len(p)
       /\ p[k].none # 0 => /\ p[k].none = Len(p) /\ p[Len(p)].do = "linger"
                           /\ \A m \in k..Len(p) : p[m].do # "answer"

LEMMA Joins ==
  ASSUME NEW T, NEW s \in Seq(T), NEW t \in Seq(T), NEW u \in Seq(T),
         Len(u) = Len(s) + Len(t), \A i \in 1..Len(s) : u[i] = s[i],
         \A i \in 1..Len(t) : u[Len(s) + i] = t[i]
  PROVE  s \o t = u
<1>. DEFINE v == s \o t
<1>1. Len(s) \in Nat /\ Len(t) \in Nat
  BY LenProperties
<1>2. /\ v \in Seq(T) /\ Len(v) = Len(s) + Len(t)
      /\ \A i \in 1..Len(s) + Len(t) : v[i] = IF i <= Len(s) THEN s[i] ELSE t[i - Len(s)]
  BY ConcatProperties
<1>. HIDE DEF v
<1>3. ASSUME NEW i \in 1..Len(v) PROVE v[i] = u[i]
  <2>1. CASE i <= Len(s)
    <3>1. i \in 1..Len(s) /\ i \in 1..Len(s) + Len(t)
      BY <1>1, <1>2, <2>1
    <3>2. v[i] = s[i]
      BY <1>2, <2>1, <3>1
    <3>3. u[i] = s[i]
      BY <3>1
    <3>. QED
      BY <3>2, <3>3
  <2>2. CASE ~(i <= Len(s))
    <3>1. i - Len(s) \in 1..Len(t) /\ Len(s) + (i - Len(s)) = i
      BY <1>1, <1>2, <2>2
    <3>2. u[Len(s) + (i - Len(s))] = t[i - Len(s)]
      BY <3>1
    <3>3. v[i] = t[i - Len(s)]
      BY <1>2, <2>2
    <3>. QED
      BY <3>1, <3>2, <3>3
  <2>. QED
    BY <2>1, <2>2
<1>4. v = u
  BY <1>2, <1>3, SeqEqual
<1>. QED
  BY <1>4 DEF v

LEMMA AuthSteps ==
  ASSUME NEW a, NEW b, NEW c, NEW d, NEW e, NEW f, NEW g, NEW h
  PROVE  (<<a, b>> \o <<c, d>>) \o <<e>> \o <<f, g>> \o <<h>> = <<a, b, c, d, e, f, g, h>>
<1>. DEFINE T == {a, b, c, d, e, f, g, h}
<1>0. \A i \in 1..2 : i = 1 \/ i = 2
  OBVIOUS
<1>1. <<a, b>> \o <<c, d>> = <<a, b, c, d>>
  <2>. DEFINE s == <<a, b>>
              t == <<c, d>>
              u == <<a, b, c, d>>
  <2>1. s \in Seq(T) /\ t \in Seq(T) /\ u \in Seq(T) /\ Len(s) = 2 /\ Len(t) = 2 /\ Len(u) = 2 + 2
    OBVIOUS
  <2>2. u[1] = s[1] /\ u[2] = s[2] /\ u[2 + 1] = t[1] /\ u[2 + 2] = t[2]
    OBVIOUS
  <2>. HIDE DEF s, t, u, T
  <2>3. (\A i \in 1..2 : u[i] = s[i]) /\ \A i \in 1..2 : u[2 + i] = t[i]
    BY <1>0, <2>2
  <2>4. /\ Len(u) = Len(s) + Len(t) /\ \A i \in 1..Len(s) : u[i] = s[i]
        /\ \A i \in 1..Len(t) : u[Len(s) + i] = t[i]
    BY <2>1, <2>3
  <2>5. s \o t = u
    BY <2>1, <2>4, Joins
  <2>. QED
    BY <2>5 DEF s, t, u
<1>2. <<a, b, c, d>> \o <<e>> = <<a, b, c, d, e>>
  <2>. DEFINE s == <<a, b, c, d>>
              t == <<e>>
              u == <<a, b, c, d, e>>
  <2>1. s \in Seq(T) /\ t \in Seq(T) /\ u \in Seq(T) /\ Len(s) = 4 /\ Len(t) = 1 /\ Len(u) = 4 + 1
    OBVIOUS
  <2>2. u[1] = s[1] /\ u[2] = s[2] /\ u[3] = s[3] /\ u[4] = s[4] /\ u[4 + 1] = t[1]
    OBVIOUS
  <2>. HIDE DEF s, t, u, T
  <2>3. (\A i \in 1..4 : i = 1 \/ i = 2 \/ i = 3 \/ i = 4) /\ \A i \in 1..1 : i = 1
    OBVIOUS
  <2>4. (\A i \in 1..4 : u[i] = s[i]) /\ \A i \in 1..1 : u[4 + i] = t[i]
    BY <2>2, <2>3
  <2>5. /\ Len(u) = Len(s) + Len(t) /\ \A i \in 1..Len(s) : u[i] = s[i]
        /\ \A i \in 1..Len(t) : u[Len(s) + i] = t[i]
    BY <2>1, <2>4
  <2>6. s \o t = u
    BY <2>1, <2>5, Joins
  <2>. QED
    BY <2>6 DEF s, t, u
<1>3. <<a, b, c, d, e>> \o <<f, g>> = <<a, b, c, d, e, f, g>>
  <2>. DEFINE s == <<a, b, c, d, e>>
              t == <<f, g>>
              u == <<a, b, c, d, e, f, g>>
  <2>1. s \in Seq(T) /\ t \in Seq(T) /\ u \in Seq(T) /\ Len(s) = 5 /\ Len(t) = 2 /\ Len(u) = 5 + 2
    OBVIOUS
  <2>2. /\ u[1] = s[1] /\ u[2] = s[2] /\ u[3] = s[3] /\ u[4] = s[4] /\ u[5] = s[5]
        /\ u[5 + 1] = t[1] /\ u[5 + 2] = t[2]
    OBVIOUS
  <2>. HIDE DEF s, t, u, T
  <2>3. \A i \in 1..5 : i = 1 \/ i = 2 \/ i = 3 \/ i = 4 \/ i = 5
    OBVIOUS
  <2>4. (\A i \in 1..5 : u[i] = s[i]) /\ \A i \in 1..2 : u[5 + i] = t[i]
    BY <1>0, <2>2, <2>3
  <2>5. /\ Len(u) = Len(s) + Len(t) /\ \A i \in 1..Len(s) : u[i] = s[i]
        /\ \A i \in 1..Len(t) : u[Len(s) + i] = t[i]
    BY <2>1, <2>4
  <2>6. s \o t = u
    BY <2>1, <2>5, Joins
  <2>. QED
    BY <2>6 DEF s, t, u
<1>4. <<a, b, c, d, e, f, g>> \o <<h>> = <<a, b, c, d, e, f, g, h>>
  <2>. DEFINE s == <<a, b, c, d, e, f, g>>
              t == <<h>>
              u == <<a, b, c, d, e, f, g, h>>
  <2>1. s \in Seq(T) /\ t \in Seq(T) /\ u \in Seq(T) /\ Len(s) = 7 /\ Len(t) = 1 /\ Len(u) = 7 + 1
    OBVIOUS
  <2>2. /\ u[1] = s[1] /\ u[2] = s[2] /\ u[3] = s[3] /\ u[4] = s[4] /\ u[5] = s[5]
        /\ u[6] = s[6] /\ u[7] = s[7] /\ u[7 + 1] = t[1]
    OBVIOUS
  <2>. HIDE DEF s, t, u, T
  <2>3. /\ \A i \in 1..7 : i = 1 \/ i = 2 \/ i = 3 \/ i = 4 \/ i = 5 \/ i = 6 \/ i = 7
        /\ \A i \in 1..1 : i = 1
    OBVIOUS
  <2>4. (\A i \in 1..7 : u[i] = s[i]) /\ \A i \in 1..1 : u[7 + i] = t[i]
    BY <2>2, <2>3
  <2>5. /\ Len(u) = Len(s) + Len(t) /\ \A i \in 1..Len(s) : u[i] = s[i]
        /\ \A i \in 1..Len(t) : u[Len(s) + i] = t[i]
    BY <2>1, <2>4
  <2>6. s \o t = u
    BY <2>1, <2>5, Joins
  <2>. QED
    BY <2>6 DEF s, t, u
<1>. QED
  BY <1>1, <1>2, <1>3, <1>4

LEMMA ProgramIs == ASSUME Serve!ServiceAssumption, label \in Serve!ServiceNames PROVE GoodProgram(Serve!Program(label))
<1>1. /\ RequestSize["VERSION"] \in Nat \ {0} /\ RequestSize["AUTH"] \in Nat \ {0}
      /\ RequestSize["DIR"] \in Nat \ {0} /\ HeadSize \in Nat \ {0} /\ BodySize \in Nat \ {0}
  BY DEF Serve!ServiceAssumption, Serve!ServiceNames
<1>2. CASE label = "VERSION"
  <2>. DEFINE p == <<Serve!Reads(RequestSize["VERSION"], FALSE, 0), Serve!Answers>>
  <2>1. Serve!Program(label) = p
    BY <1>2 DEF Serve!Program, Serve!handle_version
  <2>2. Len(p) = 2 /\ DOMAIN p = 1..2
    OBVIOUS
  <2>3. p[1] = Serve!Reads(RequestSize["VERSION"], FALSE, 0) /\ p[2] = Serve!Answers
    OBVIOUS
  <2>. HIDE DEF p
  <2>4. \A k \in 1..2 : k = 1 \/ k = 2
    OBVIOUS
  <2>. QED
    BY <1>1, <2>1, <2>2, <2>3, <2>4 DEF GoodProgram, Serve!Reads, Serve!Answers
<1>3. CASE label = "DIR"
  <2>. DEFINE p == <<Serve!Reads(RequestSize["DIR"], FALSE, 0), Serve!Answers, Serve!Lingers>>
  <2>1. Serve!Program(label) = p
    BY <1>3 DEF Serve!Program, Serve!handle_dir
  <2>2. Len(p) = 3 /\ DOMAIN p = 1..3
    OBVIOUS
  <2>3. p[1] = Serve!Reads(RequestSize["DIR"], FALSE, 0) /\ p[2] = Serve!Answers /\ p[3] = Serve!Lingers
    OBVIOUS
  <2>. HIDE DEF p
  <2>4. \A k \in 1..3 : k = 1 \/ k = 2 \/ k = 3
    OBVIOUS
  <2>. QED
    BY <1>1, <2>1, <2>2, <2>3, <2>4 DEF GoodProgram, Serve!Reads, Serve!Answers, Serve!Lingers
<1>4. CASE label = "AUTH"
  <2>. DEFINE r1 == Serve!Reads(RequestSize["AUTH"], TRUE, 0)
              r3 == Serve!Reads(HeadSize, TRUE, 0)
              r4 == Serve!Reads(BodySize, TRUE, 0)
              r6 == Serve!Reads(HeadSize, TRUE, 8)
              p == <<r1, Serve!Answers, r3, r4, Serve!Answers, r6, r4, Serve!Lingers>>
  <2>1. Serve!Program(label) = p
    <3>1. Serve!Program(label) = (<<r1, Serve!Answers>> \o <<r3, r4>>) \o <<Serve!Answers>> \o <<r6, r4>> \o <<Serve!Lingers>>
      BY <1>4 DEF Serve!Program, Serve!handle_auth, Serve!recv_ap_frame
    <3>. HIDE DEF r1, r3, r4, r6
    <3>2. (<<r1, Serve!Answers>> \o <<r3, r4>>) \o <<Serve!Answers>> \o <<r6, r4>> \o <<Serve!Lingers>> = p
      BY AuthSteps
    <3>. QED
      BY <3>1, <3>2
  <2>2. Len(p) = 8 /\ DOMAIN p = 1..8
    OBVIOUS
  <2>3. /\ p[1] = r1 /\ p[2] = Serve!Answers /\ p[3] = r3 /\ p[4] = r4 /\ p[5] = Serve!Answers
        /\ p[6] = r6 /\ p[7] = r4 /\ p[8] = Serve!Lingers
    OBVIOUS
  <2>. HIDE DEF p
  <2>4. \A k \in 1..8 : k = 1 \/ k = 2 \/ k = 3 \/ k = 4 \/ k = 5 \/ k = 6 \/ k = 7 \/ k = 8
    OBVIOUS
  <2>5. \A m \in 6..8 : m = 6 \/ m = 7 \/ m = 8
    OBVIOUS
  <2>6. \A k \in 1..8 :
       /\ p[k].do \in {"read", "answer", "linger"} /\ p[k].size \in Nat /\ p[k].none \in 0..8
       /\ p[k].do = "read" => p[k].size > 0
       /\ p[k].do # "read" => p[k].size = 0
       /\ p[k].do = "linger" => k = 8
       /\ p[k].none # 0 => k = 6 /\ p[k].none = 8
    BY <1>1, <2>3, <2>4 DEF Serve!Reads, Serve!Answers, Serve!Lingers
  <2>7. p[8].do = "linger" /\ \A m \in 6..8 : p[m].do # "answer"
    BY <2>3, <2>5 DEF Serve!Reads, Serve!Lingers
  <2>. QED
    BY <2>1, <2>2, <2>6, <2>7 DEF GoodProgram
<1>. QED
  BY <1>2, <1>3, <1>4 DEF Serve!ServiceNames

LEMMA UptoNat ==
  ASSUME Serve!ServiceAssumption, label \in Serve!ServiceNames
  PROVE  \A k \in 0..Len(Serve!Program(label)) : Serve!Upto(k) \in Nat
<1>. DEFINE p == Serve!Program(label)
            S == {k \in Nat : k <= Len(p) => Serve!Upto(k) \in Nat}
<1>1. GoodProgram(p)
  BY ProgramIs
<1>2. 0 \in S
  BY UptoSteps
<1>3. ASSUME NEW k \in S PROVE k + 1 \in S
  <2>. SUFFICES ASSUME k + 1 <= Len(p) PROVE Serve!Upto(k + 1) \in Nat
    OBVIOUS
  <2>1. k \in Nat /\ Serve!Upto(k + 1) = Serve!Upto(k) + Serve!Size(k + 1)
    BY UptoSteps
  <2>2. Serve!Size(k + 1) = p[k + 1].size
    BY DEF Serve!Size
  <2>. HIDE DEF p
  <2>3. k <= Len(p) /\ k + 1 \in 1..Len(p)
    <3>1. Len(p) \in Nat /\ k \in Nat /\ k + 1 <= Len(p)
      BY <1>1, <2>1 DEF GoodProgram, p
    <3>. QED
      BY <3>1
  <2>4. Serve!Upto(k) \in Nat /\ p[k + 1].size \in Nat
    BY <1>1, <2>3 DEF GoodProgram
  <2>. QED
    BY <2>1, <2>2, <2>4
<1>. HIDE DEF S
<1>4. S = Nat
  <2>1. S \in SUBSET Nat
    BY DEF S
  <2>. QED
    BY <1>2, <1>3, <2>1, NatInd
<1>5. \A k \in Nat : k <= Len(p) => Serve!Upto(k) \in Nat
  BY <1>4 DEF S
<1>6. \A k \in 0..Len(p) : k \in Nat /\ k <= Len(p)
  <2>1. Len(p) \in Nat
    BY <1>1 DEF GoodProgram
  <2>. HIDE DEF p
  <2>. QED
    BY <2>1
<1>. QED
  BY <1>5, <1>6

\* The answers among the first steps.
Answered(k) == Cardinality({t \in Serve!AnswerSteps : t <= k})

LEMMA AnsweredSteps ==
  ASSUME Serve!ServiceAssumption, label \in Serve!ServiceNames
  PROVE  /\ Answered(0) = 0
         /\ \A k \in 1..Len(Serve!Program(label)) :
              /\ Answered(k - 1) \in Nat
              /\ Serve!Program(label)[k].do = "answer" =>
                   k \in Serve!AnswerSteps /\ Answered(k) = Answered(k - 1) + 1
              /\ Serve!Program(label)[k].do # "answer" => Answered(k) = Answered(k - 1)
         /\ \A k \in 0..Len(Serve!Program(label)) :
              (\A m \in k + 1..Len(Serve!Program(label)) : Serve!Program(label)[m].do # "answer") =>
                Answered(k) = Cardinality(Serve!AnswerSteps)
<1>. DEFINE p == Serve!Program(label)
            n == Len(p)
            A == Serve!AnswerSteps
            First(k) == {t \in A : t <= k}
<1>1. GoodProgram(p)
  BY ProgramIs
<1>. HIDE DEF p
<1>2. n \in Nat \ {0} /\ DOMAIN p = 1..n
  BY <1>1 DEF GoodProgram
<1>3. A = {k \in 1..n : p[k].do = "answer"}
  BY <1>2 DEF Serve!AnswerSteps, p
<1>. HIDE DEF A, n
<1>4. IsFiniteSet(A)
  <2>1. IsFiniteSet(1..n)
    BY <1>2, FS_Interval
  <2>. QED
    BY <1>3, <2>1, FS_Subset
<1>5. \A k : IsFiniteSet(First(k)) /\ Answered(k) = Cardinality(First(k))
  BY <1>4, FS_Subset DEF Answered, A
<1>6. First(0) = {}
  BY <1>2, <1>3
<1>7. ASSUME NEW k \in 1..n, p[k].do = "answer"
      PROVE  First(k) = First(k - 1) \cup {k} /\ k \notin First(k - 1) /\ k \in A
  BY <1>2, <1>3, <1>7
<1>8. ASSUME NEW k \in 1..n, p[k].do # "answer" PROVE First(k) = First(k - 1)
  BY <1>2, <1>3, <1>8
<1>9. ASSUME NEW k \in 0..n, \A m \in k + 1..n : p[m].do # "answer" PROVE First(k) = A
  BY <1>2, <1>3, <1>9
<1>. HIDE DEF First
<1>10. Answered(0) = 0
  BY <1>5, <1>6, FS_EmptySet
<1>11. \A k \in 1..n : /\ Answered(k - 1) \in Nat
                       /\ p[k].do = "answer" => k \in A /\ Answered(k) = Answered(k - 1) + 1
                       /\ p[k].do # "answer" => Answered(k) = Answered(k - 1)
  <2>. TAKE k \in 1..n
  <2>1. Answered(k - 1) \in Nat
    BY <1>5, FS_CardinalityType
  <2>2. ASSUME p[k].do = "answer" PROVE k \in A /\ Answered(k) = Answered(k - 1) + 1
    <3>1. First(k) = First(k - 1) \cup {k} /\ k \notin First(k - 1) /\ k \in A
      BY <1>7, <2>2
    <3>2. Cardinality(First(k - 1) \cup {k}) = Cardinality(First(k - 1)) + 1
      BY <1>5, <3>1, FS_AddElement
    <3>. QED
      BY <1>5, <3>1, <3>2
  <2>3. ASSUME p[k].do # "answer" PROVE Answered(k) = Answered(k - 1)
    BY <1>5, <1>8, <2>3
  <2>. QED
    BY <2>1, <2>2, <2>3
<1>12. \A k \in 0..n : (\A m \in k + 1..n : p[m].do # "answer") => Answered(k) = Cardinality(A)
  BY <1>5, <1>9
<1>. QED
  BY <1>10, <1>11, <1>12 DEF p, n, A

-----------------------------------------------------------------------------
(* The invariant.  What has been taken is what the steps before this one   *)
(* ask for and what this one has got, until the handler lingers; and each  *)
(* answer that was due has been given.                                     *)

TypesOK ==
  /\ label \in Serve!ServiceNames /\ sane \in BOOLEAN /\ gone \in BOOLEAN /\ late \in BOOLEAN
  /\ at \in {-1} \cup 0..Len(Serve!Program(label)) /\ got \in Nat /\ taken \in Nat /\ sent \in Nat
  /\ answers \in Seq(Nat)
TakenOK ==
  /\ at = -1 => got = 0 /\ taken = 0 /\ answers = <<>>
  /\ at > 0 => /\ IF Serve!Step.do = "read" THEN got < Serve!Step.size ELSE got = 0
               /\ Serve!Step.do # "linger" => taken = Serve!Upto(at - 1) + got
               /\ Len(answers) = Answered(at - 1)
AnswersOK ==
  /\ \A k \in DOMAIN answers : \E s \in Serve!AnswerSteps : Answered(s) = k /\ answers[k] = Serve!Upto(s)
  /\ at = 0 /\ sane /\ ~gone /\ ~late => Len(answers) = Cardinality(Serve!AnswerSteps)
ServiceInv == TypesOK /\ TakenOK /\ AnswersOK

\* Nothing the handler keeps depends on the client's side of the state but the service.
same == <<label, at, got, taken, answers>>

LEMMA SameProgram ==
  ASSUME label' = label
  PROVE  /\ Serve!Program(label)' = Serve!Program(label) /\ Serve!AnswerSteps' = Serve!AnswerSteps
         /\ \A k : Serve!Upto(k)' = Serve!Upto(k) /\ Answered(k)' = Answered(k)
  BY DEF Serve!AnswerSteps, Serve!Upto, Serve!Size, Answered

\* The client's steps.
LEMMA SameKeeps ==
  ASSUME ServiceInv, UNCHANGED same, sane' = sane, late' = late, gone' \in BOOLEAN, gone => gone', sent' \in Nat
  PROVE  ServiceInv'
<1>1. UNCHANGED <<label, at, got, taken, answers>>
  BY DEF same
<1>2. /\ Serve!Program(label)' = Serve!Program(label) /\ Serve!AnswerSteps' = Serve!AnswerSteps
      /\ \A k : Serve!Upto(k)' = Serve!Upto(k) /\ Answered(k)' = Answered(k)
  BY <1>1, SameProgram
<1>3. TypesOK'
  BY <1>1 DEF ServiceInv, TypesOK
<1>4. TakenOK'
  BY <1>1, <1>2 DEF ServiceInv, TakenOK, Serve!Step
<1>5. AnswersOK'
  <2>1. \A k \in DOMAIN answers : \E s \in Serve!AnswerSteps : Answered(s) = k /\ answers[k] = Serve!Upto(s)
    BY DEF ServiceInv, AnswersOK
  <2>2. \A k \in DOMAIN answers' : \E s \in Serve!AnswerSteps' : Answered(s)' = k /\ answers'[k] = Serve!Upto(s)'
    BY <1>1, <1>2, <2>1
  <2>3. at' = 0 /\ sane' /\ ~gone' /\ ~late' => Len(answers') = Cardinality(Serve!AnswerSteps')
    BY <1>1, <1>2 DEF ServiceInv, AnswersOK
  <2>. QED
    BY <2>2, <2>3 DEF AnswersOK
<1>. QED
  BY <1>3, <1>4, <1>5 DEF ServiceInv

\* What the steps of the handler have in common.
LEMMA AtStep ==
  ASSUME Serve!ServiceAssumption, ServiceInv, at > 0
  PROVE  LET p == Serve!Program(label) IN
         /\ Len(p) \in Nat \ {0} /\ DOMAIN p = 1..Len(p) /\ at \in 1..Len(p) /\ Serve!Step = p[at]
         /\ Serve!Upto(at - 1) \in Nat /\ Serve!Step.size \in Nat /\ got \in Nat /\ taken \in Nat /\ answers \in Seq(Nat) /\ Len(answers) \in Nat
         /\ Serve!Step.do = "read" => got < Serve!Step.size
         /\ Serve!Step.do # "read" => got = 0 /\ Serve!Step.size = 0
         /\ Serve!Step.do # "linger" => taken = Serve!Upto(at - 1) + got
         /\ Len(answers) = Answered(at - 1)
         /\ Serve!Upto(at) = Serve!Upto(at - 1) + Serve!Step.size
<1>. DEFINE p == Serve!Program(label)
<1>1. GoodProgram(p) /\ TypesOK /\ TakenOK
  BY ProgramIs DEF ServiceInv, TypesOK
<1>2. at \in {-1} \cup 0..Len(p) /\ Len(p) \in Nat \ {0}
  BY <1>1 DEF TypesOK, GoodProgram
<1>. HIDE DEF p
<1>3. at \in 1..Len(p) /\ at - 1 \in Nat /\ (at - 1) + 1 = at
  BY <1>2
<1>4. Serve!Step = p[at]
  BY DEF Serve!Step, p
<1>5. Serve!Upto(at) = Serve!Upto(at - 1) + Serve!Step.size
  <2>1. Serve!Upto((at - 1) + 1) = Serve!Upto(at - 1) + Serve!Size((at - 1) + 1)
    BY <1>3, UptoSteps
  <2>. QED
    BY <1>3, <1>4, <2>1 DEF Serve!Size, p
<1>6. Serve!Step.size \in Nat /\ (Serve!Step.do # "read" => Serve!Step.size = 0) /\ DOMAIN p = 1..Len(p)
  BY <1>1, <1>3, <1>4 DEF GoodProgram
<1>9. Serve!Upto(at - 1) \in Nat
  <2>1. at - 1 \in 0..Len(p) /\ label \in Serve!ServiceNames
    BY <1>1, <1>3 DEF TypesOK
  <2>. QED
    BY <2>1, UptoNat DEF p
<1>7. got \in Nat /\ taken \in Nat /\ answers \in Seq(Nat) /\ Len(answers) \in Nat
  BY <1>1, LenProperties DEF TypesOK
<1>8. /\ IF Serve!Step.do = "read" THEN got < Serve!Step.size ELSE got = 0
      /\ Serve!Step.do # "linger" => taken = Serve!Upto(at - 1) + got
      /\ Len(answers) = Answered(at - 1)
  BY <1>1 DEF TakenOK
<1>. QED
  BY <1>2, <1>3, <1>4, <1>5, <1>6, <1>7, <1>8, <1>9 DEF p

\* A handler's step leaves the client's side of the state alone.
Fixed == label' = label /\ sane' = sane /\ sent' = sent /\ gone' = gone

\* A handler that goes on at a step, or past the last one, with what was asked for taken
\* and every answer due given.
LEMMA Onward ==
  ASSUME Serve!ServiceAssumption, ServiceInv, Fixed, NEW to \in Nat \ {0}, Serve!GoesOn(to),
         to <= Len(Serve!Program(label)) =>
           /\ Serve!Program(label)[to].do # "linger" => taken' = Serve!Upto(to - 1)
           /\ Len(answers') = Answered(to - 1),
         to > Len(Serve!Program(label)) => Len(answers') = Cardinality(Serve!AnswerSteps),
         taken' \in Nat, answers' \in Seq(Nat), late' \in BOOLEAN,
         \A k \in DOMAIN answers' : \E s \in Serve!AnswerSteps : Answered(s) = k /\ answers'[k] = Serve!Upto(s)
  PROVE  ServiceInv'
<1>. DEFINE p == Serve!Program(label)
<1>1. GoodProgram(p) /\ TypesOK
  BY ProgramIs DEF ServiceInv, TypesOK
<1>2. Len(p) \in Nat \ {0}
  BY <1>1 DEF GoodProgram
<1>3. /\ p' = p /\ Serve!AnswerSteps' = Serve!AnswerSteps /\ \A k : Serve!Upto(k)' = Serve!Upto(k) /\ Answered(k)' = Answered(k)
  BY SameProgram DEF Fixed
<1>4. at' = (IF to > Len(p) THEN 0 ELSE to) /\ got' = 0
  BY DEF Serve!GoesOn
<1>5. TypesOK'
  <2>1. at' \in {-1} \cup 0..Len(p')
    <3>. HIDE DEF p
    <3>. QED
      BY <1>2, <1>3, <1>4
  <2>. QED
    BY <1>1, <1>4, <2>1 DEF TypesOK, Fixed
<1>6. AnswersOK'
  <2>1. \A k \in DOMAIN answers' : \E s \in Serve!AnswerSteps' : Answered(s)' = k /\ answers'[k] = Serve!Upto(s)'
    BY <1>3
  <2>2. at' = 0 => Len(answers') = Cardinality(Serve!AnswerSteps')
    <3>. HIDE DEF p
    <3>1. at' = 0 => to > Len(p)
      BY <1>2, <1>4
    <3>. QED
      BY <1>3, <3>1 DEF p
  <2>. QED
    BY <2>1, <2>2 DEF AnswersOK
<1>7. TakenOK'
  <2>1. at' # -1 /\ (at' > 0 => at' = to /\ to <= Len(p))
    <3>. HIDE DEF p
    <3>. QED
      BY <1>2, <1>4
  <2>2. ASSUME at' > 0
        PROVE  /\ IF Serve!Step'.do = "read" THEN got' < Serve!Step'.size ELSE got' = 0
               /\ Serve!Step'.do # "linger" => taken' = Serve!Upto(at' - 1) + got'
               /\ Len(answers') = Answered(at' - 1)
    <3>1. at' = to /\ to \in 1..Len(p) /\ Serve!Step' = p[to]
      <4>1. at' = to /\ to <= Len(p)
        BY <2>1, <2>2
      <4>2. Serve!Step' = p'[at']
        BY DEF Serve!Step
      <4>. HIDE DEF p
      <4>. QED
        BY <1>2, <1>3, <4>1, <4>2
    <3>2. (p[to].do = "read" => 0 < p[to].size) /\ p[to].size \in Nat
      <4>. HIDE DEF p
      <4>. QED
        BY <1>1, <3>1 DEF GoodProgram
    <3>3. p[to].do # "linger" => taken' = Serve!Upto(to - 1) + 0
      BY <3>1
    <3>. QED
      BY <1>4, <3>1, <3>2, <3>3
  <2>. QED
    BY <1>3, <2>1, <2>2 DEF TakenOK
<1>. QED
  BY <1>5, <1>6, <1>7 DEF ServiceInv

\* A handler that closes early: its client does not pass, has gone, or let a read time out,
\* or had every answer.
LEMMA Ending ==
  ASSUME Serve!ServiceAssumption, ServiceInv, Fixed, Serve!Closes, taken' \in Nat, late' \in BOOLEAN, answers' = answers,
         sane /\ ~gone /\ ~late' => Len(answers) = Cardinality(Serve!AnswerSteps)
  PROVE  ServiceInv'
<1>1. Serve!AnswerSteps' = Serve!AnswerSteps /\ \A k : Serve!Upto(k)' = Serve!Upto(k) /\ Answered(k)' = Answered(k)
  BY SameProgram DEF Fixed
<1>2. at' = 0 /\ got' = 0
  BY DEF Serve!Closes
<1>3. Len(Serve!Program(label)) \in Nat
  BY ProgramIs DEF ServiceInv, TypesOK, GoodProgram
<1>4. TypesOK'
  BY <1>2, <1>3 DEF ServiceInv, TypesOK, Fixed
<1>5. TakenOK'
  BY <1>2 DEF TakenOK
<1>6. AnswersOK'
  <2>1. \A k \in DOMAIN answers' : \E s \in Serve!AnswerSteps' : Answered(s)' = k /\ answers'[k] = Serve!Upto(s)'
    BY <1>1 DEF ServiceInv, AnswersOK
  <2>2. sane' /\ ~gone' /\ ~late' => Len(answers') = Cardinality(Serve!AnswerSteps')
    BY <1>1 DEF Fixed
  <2>. QED
    BY <2>1, <2>2 DEF AnswersOK
<1>. QED
  BY <1>4, <1>5, <1>6 DEF ServiceInv

LEMMA InitServes == ASSUME Serve!ServiceAssumption PROVE Serve!Init => ServiceInv
<1>. SUFFICES ASSUME Serve!Init PROVE ServiceInv
  OBVIOUS
<1>1. TypesOK
  <2>1. at \in {-1} \cup 0..Len(Serve!Program(label)) /\ <<>> \in Seq(Nat) /\ FALSE \in BOOLEAN
    BY EmptySeq DEF Serve!Init
  <2>. QED
    BY <2>1 DEF Serve!Init, TypesOK
<1>2. TakenOK
  BY DEF Serve!Init, TakenOK
<1>3. AnswersOK
  BY DEF Serve!Init, AnswersOK
<1>. QED
  BY <1>1, <1>2, <1>3 DEF ServiceInv

\* The answers so far are right.
LEMMA Given ==
  ASSUME ServiceInv
  PROVE  \A k \in DOMAIN answers : \E s \in Serve!AnswerSteps : Answered(s) = k /\ answers[k] = Serve!Upto(s)
  BY DEF ServiceInv, AnswersOK

LEMMA AcceptsServes == ASSUME Serve!ServiceAssumption PROVE ServiceInv /\ Serve!Accepts => ServiceInv'
<1>. SUFFICES ASSUME ServiceInv, Serve!Accepts PROVE ServiceInv'
  OBVIOUS
<1>1. /\ at = -1 /\ at' = 1 /\ UNCHANGED <<label, sane, sent, gone, got, taken, answers, late>>
      /\ got = 0 /\ taken = 0 /\ answers = <<>> /\ label \in Serve!ServiceNames
  BY DEF Serve!Accepts, Serve!client, ServiceInv, TakenOK, TypesOK
<1>2. Len(Serve!Program(label)) \in Nat \ {0}
  BY <1>1, ProgramIs DEF GoodProgram
<1>3. Fixed /\ Serve!GoesOn(1)
  BY <1>1, <1>2 DEF Fixed, Serve!GoesOn
<1>4. Serve!Upto(0) = 0 /\ Answered(0) = 0
  BY <1>1, UptoSteps, AnsweredSteps
<1>5. taken' \in Nat /\ answers' \in Seq(Nat) /\ late' \in BOOLEAN
  BY <1>1 DEF ServiceInv, TypesOK
<1>6. taken' = Serve!Upto(1 - 1) /\ Len(answers') = Answered(1 - 1) /\ ~(1 > Len(Serve!Program(label)))
  BY <1>1, <1>2, <1>4
<1>7. \A k \in DOMAIN answers' : \E s \in Serve!AnswerSteps : Answered(s) = k /\ answers'[k] = Serve!Upto(s)
  BY <1>1, Given
<1>. QED
  BY <1>3, <1>5, <1>6, <1>7, Onward

\* The step after a read or an answer.
LEMMA Passed ==
  ASSUME Serve!ServiceAssumption, ServiceInv, at > 0, Serve!Step.do # "answer"
  PROVE  /\ at + 1 <= Len(Serve!Program(label)) => Len(answers) = Answered(at)
         /\ at + 1 > Len(Serve!Program(label)) => Len(answers) = Cardinality(Serve!AnswerSteps)
<1>. DEFINE p == Serve!Program(label)
<1>1. at \in 1..Len(p) /\ Serve!Step = p[at] /\ Len(p) \in Nat /\ Len(answers) = Answered(at - 1)
  BY AtStep
<1>2. label \in Serve!ServiceNames
  BY DEF ServiceInv, TypesOK
<1>3. Answered(at) = Answered(at - 1)
  BY <1>1, <1>2, AnsweredSteps
<1>4. ASSUME at + 1 > Len(p) PROVE Answered(at) = Cardinality(Serve!AnswerSteps)
  <2>1. at \in 0..Len(p) /\ \A m \in at + 1..Len(p) : p[m].do # "answer"
    <3>. HIDE DEF p
    <3>. QED
      BY <1>1, <1>4
  <2>. QED
    BY <1>2, <2>1, AnsweredSteps
<1>. QED
  BY <1>1, <1>3, <1>4

LEMMA ReceivesServes == ASSUME Serve!ServiceAssumption PROVE ServiceInv /\ Serve!Receives => ServiceInv'
<1>. SUFFICES ASSUME ServiceInv, Serve!Receives PROVE ServiceInv'
  OBVIOUS
<1>1. at > 0 /\ Serve!Step.do = "read" /\ taken < sent /\ UNCHANGED <<label, sane, sent, gone, answers, late>>
  BY DEF Serve!Receives, Serve!client
<1>2. PICK n \in 1..Min({Serve!Step.size - got, sent - taken}) :
        /\ taken' = taken + n
        /\ IF got + n < Serve!Step.size THEN got' = got + n /\ UNCHANGED at
           ELSE IF Serve!Step.checked /\ ~sane THEN Serve!Closes ELSE Serve!GoesOn(at + 1)
  BY ServeLibrary DEF Serve!Receives
<1>3. /\ at \in 1..Len(Serve!Program(label)) /\ Len(Serve!Program(label)) \in Nat
      /\ Serve!Step.size \in Nat /\ got \in Nat /\ taken \in Nat /\ got < Serve!Step.size
      /\ Serve!Upto(at - 1) \in Nat /\ taken = Serve!Upto(at - 1) + got /\ Serve!Upto(at) = Serve!Upto(at - 1) + Serve!Step.size /\ answers \in Seq(Nat)
  BY <1>1, AtStep
<1>4. n \in Nat /\ n >= 1 /\ got + n <= Serve!Step.size
  <2>. DEFINE M == {Serve!Step.size - got, sent - taken}
  <2>1. sent \in Nat /\ M \in SUBSET Nat /\ M # {}
    BY <1>1, <1>3, SMTT(30) DEF ServiceInv, TypesOK
  <2>2. Min(M) \in M /\ Min(M) <= Serve!Step.size - got
    <3>. HIDE DEF M
    <3>1. \E m \in M : \A x \in M : m <= x
      BY <2>1, NatMin
    <3>2. Min(M) \in M /\ \A x \in M : Min(M) <= x
      BY <3>1 DEF Min
    <3>. QED
      BY <3>2 DEF M
  <2>. HIDE DEF M
  <2>3. Min(M) \in Nat /\ n \in 1..Min(M)
    BY <1>2, <2>1, <2>2 DEF M
  <2>. QED
    BY <1>3, <2>2, <2>3
<1>5. late' \in BOOLEAN /\ taken' \in Nat /\ answers' \in Seq(Nat)
  BY <1>1, <1>2, <1>3, <1>4, SMTT(30) DEF ServiceInv, TypesOK
<1>6. Fixed
  BY <1>1 DEF Fixed
<1>7. CASE got + n < Serve!Step.size
  <2>1. got' = got + n /\ at' = at /\ taken' = taken + n
    BY <1>2, <1>7
  <2>2. /\ Serve!Program(label)' = Serve!Program(label) /\ Serve!AnswerSteps' = Serve!AnswerSteps
        /\ \A k : Serve!Upto(k)' = Serve!Upto(k) /\ Answered(k)' = Answered(k)
    BY <1>1, SameProgram
  <2>3. Serve!Step' = Serve!Step
    BY <2>1, <2>2 DEF Serve!Step
  <2>4. TypesOK'
    BY <1>1, <1>3, <1>4, <1>5, <2>1 DEF ServiceInv, TypesOK
  <2>5. TakenOK'
    <3>1. at' # -1 /\ taken' = Serve!Upto(at' - 1) + got' /\ got' < Serve!Step'.size /\ Len(answers') = Answered(at' - 1)
      <4>1. Serve!Upto(at - 1) \in Int
        BY <1>3
      <4>2. Len(answers) = Answered(at - 1)
        BY <1>1, AtStep
      <4>. QED
        BY <1>1, <1>3, <1>4, <1>7, <2>1, <2>3, <4>1, <4>2, SMTT(30)
    <3>. QED
      BY <1>1, <2>1, <2>2, <2>3, <3>1 DEF TakenOK
  <2>6. AnswersOK'
    <3>1. \A k \in DOMAIN answers' : \E s \in Serve!AnswerSteps' : Answered(s)' = k /\ answers'[k] = Serve!Upto(s)'
      BY <1>1, <2>2, Given
    <3>2. at' # 0
      BY <1>3, <2>1
    <3>. QED
      BY <3>1, <3>2 DEF AnswersOK
  <2>. QED
    BY <2>4, <2>5, <2>6 DEF ServiceInv
<1>8. CASE ~(got + n < Serve!Step.size) /\ Serve!Step.checked /\ ~sane
  <2>1. Serve!Closes
    BY <1>2, <1>8
  <2>. QED
    BY <1>1, <1>5, <1>6, <1>8, <2>1, Ending
<1>9. CASE ~(got + n < Serve!Step.size) /\ ~(Serve!Step.checked /\ ~sane)
  <2>1. Serve!GoesOn(at + 1)
    BY <1>2, <1>9
  <2>2. taken' = Serve!Upto((at + 1) - 1)
    <3>1. got + n = Serve!Step.size /\ (at + 1) - 1 = at
      <4>1. ~(got + n < Serve!Step.size)
        BY <1>9
      <4>2. got \in Nat /\ n \in Nat /\ Serve!Step.size \in Nat /\ got + n <= Serve!Step.size
        BY <1>3, <1>4
      <4>3. at \in Int
        BY <1>3
      <4>. QED
        BY <4>1, <4>2, <4>3
    <3>2. Serve!Upto(at - 1) \in Int
      BY <1>3
    <3>. QED
      BY <1>2, <1>3, <1>4, <3>1, <3>2
  <2>3. /\ at + 1 <= Len(Serve!Program(label)) => Len(answers') = Answered((at + 1) - 1)
        /\ at + 1 > Len(Serve!Program(label)) => Len(answers') = Cardinality(Serve!AnswerSteps)
    <3>1. (at + 1) - 1 = at
      BY <1>3
    <3>. QED
      BY <1>1, <3>1, Passed
  <2>4. \A k \in DOMAIN answers' : \E s \in Serve!AnswerSteps : Answered(s) = k /\ answers'[k] = Serve!Upto(s)
    BY <1>1, Given
  <2>5. at + 1 \in Nat \ {0}
    BY <1>3
  <2>. QED
    BY <1>5, <1>6, <2>1, <2>2, <2>3, <2>4, <2>5, Onward
<1>. QED
  BY <1>7, <1>8, <1>9

LEMMA EndsShortServes == ASSUME Serve!ServiceAssumption PROVE ServiceInv /\ Serve!EndsShort => ServiceInv'
<1>. SUFFICES ASSUME ServiceInv, Serve!EndsShort PROVE ServiceInv'
  OBVIOUS
<1>. DEFINE p == Serve!Program(label)
<1>1. /\ at > 0 /\ Serve!Step.do = "read" /\ late' = (late \/ ~gone)
      /\ UNCHANGED <<label, sane, sent, gone, taken, answers>>
  BY DEF Serve!EndsShort, Serve!client
<1>2. Fixed /\ late' \in BOOLEAN /\ taken' \in Nat /\ answers' \in Seq(Nat)
  BY <1>1 DEF Fixed, ServiceInv, TypesOK
<1>3. CASE got = 0 /\ Serve!Step.none # 0
  <2>1. Serve!GoesOn(Serve!Step.none)
    BY <1>3 DEF Serve!EndsShort
  <2>2. GoodProgram(p) /\ label \in Serve!ServiceNames
    BY ProgramIs DEF ServiceInv, TypesOK
  <2>3. at \in 1..Len(p) /\ Serve!Step = p[at] /\ Len(p) \in Nat \ {0} /\ Len(answers) = Answered(at - 1)
    BY <1>1, AtStep
  <2>4. /\ Serve!Step.none = Len(p) /\ p[Len(p)].do = "linger" /\ \A m \in at..Len(p) : p[m].do # "answer"
    <3>. HIDE DEF p
    <3>. QED
      BY <1>3, <2>2, <2>3 DEF GoodProgram
  <2>5. Answered(at - 1) = Cardinality(Serve!AnswerSteps) /\ Answered(Len(p) - 1) = Cardinality(Serve!AnswerSteps)
    <3>1. /\ at - 1 \in 0..Len(p) /\ Len(p) - 1 \in 0..Len(p) /\ (at - 1) + 1 = at
          /\ \A m \in (Len(p) - 1) + 1..Len(p) : m \in at..Len(p)
      <4>. HIDE DEF p
      <4>. QED
        BY <2>3
    <3>. QED
      BY <2>2, <2>4, <3>1, AnsweredSteps
  <2>6. \A k \in DOMAIN answers' : \E s \in Serve!AnswerSteps : Answered(s) = k /\ answers'[k] = Serve!Upto(s)
    BY <1>1, Given
  <2>7. Len(answers') = Answered(Serve!Step.none - 1) /\ Len(answers') = Cardinality(Serve!AnswerSteps)
    BY <1>1, <2>3, <2>4, <2>5
  <2>. QED
    BY <1>2, <2>1, <2>3, <2>4, <2>6, <2>7, Onward
<1>4. CASE ~(got = 0 /\ Serve!Step.none # 0)
  <2>1. Serve!Closes
    BY <1>4 DEF Serve!EndsShort
  <2>. QED
    BY <1>1, <1>2, <2>1, Ending
<1>. QED
  BY <1>3, <1>4

LEMMA RepliesServes == ASSUME Serve!ServiceAssumption PROVE ServiceInv /\ Serve!Replies => ServiceInv'
<1>. SUFFICES ASSUME ServiceInv, Serve!Replies PROVE ServiceInv'
  OBVIOUS
<1>. DEFINE p == Serve!Program(label)
<1>1. /\ at > 0 /\ Serve!Step.do = "answer" /\ UNCHANGED <<label, sane, sent, gone, taken, late>>
      /\ \/ Serve!GoesOn(at + 1) /\ answers' = Append(answers, taken)
         \/ gone /\ Serve!Closes /\ UNCHANGED answers
  BY DEF Serve!Replies, Serve!client
<1>2. Fixed /\ late' \in BOOLEAN /\ taken' \in Nat /\ taken \in Nat
  BY <1>1 DEF Fixed, ServiceInv, TypesOK
<1>3. CASE gone /\ Serve!Closes /\ UNCHANGED answers
  BY <1>1, <1>2, <1>3, Ending
<1>4. CASE Serve!GoesOn(at + 1) /\ answers' = Append(answers, taken)
  <2>1. /\ at \in 1..Len(p) /\ Serve!Step = p[at] /\ Len(p) \in Nat \ {0} /\ Len(answers) = Answered(at - 1)
        /\ got = 0 /\ Serve!Step.size = 0 /\ taken = Serve!Upto(at - 1) + got /\ Serve!Upto(at) = Serve!Upto(at - 1) + Serve!Step.size
        /\ answers \in Seq(Nat) /\ Len(answers) \in Nat
    BY <1>1, AtStep
  <2>2. label \in Serve!ServiceNames
    BY DEF ServiceInv, TypesOK
  <2>3. at \in Serve!AnswerSteps /\ Answered(at) = Answered(at - 1) + 1
    BY <1>1, <2>1, <2>2, AnsweredSteps
  <2>4. taken = Serve!Upto(at)
    BY <2>1
  <2>5. /\ answers' \in Seq(Nat) /\ Len(answers') = Len(answers) + 1 /\ answers'[Len(answers) + 1] = taken
        /\ \A k \in 1..Len(answers) : answers'[k] = answers[k]
        /\ DOMAIN answers = 1..Len(answers) /\ DOMAIN answers' = 1..Len(answers) + 1
    BY <1>2, <1>4, <2>1, AppendProperties, LenProperties
  <2>6. \A k \in DOMAIN answers' : \E s \in Serve!AnswerSteps : Answered(s) = k /\ answers'[k] = Serve!Upto(s)
    <3>. TAKE k \in DOMAIN answers'
    <3>1. k \in 1..Len(answers) \/ k = Len(answers) + 1
      BY <2>1, <2>5
    <3>2. CASE k \in 1..Len(answers)
      BY <2>5, <3>2, Given
    <3>3. CASE k = Len(answers) + 1
      BY <2>1, <2>3, <2>4, <2>5, <3>3
    <3>. QED
      BY <3>1, <3>2, <3>3
  <2>7. (at + 1) - 1 = at /\ at + 1 \in Nat \ {0} /\ Len(answers') = Answered(at) /\ taken' = Serve!Upto(at)
    BY <1>1, <2>1, <2>3, <2>4, <2>5
  <2>8. at + 1 > Len(p) => Answered(at) = Cardinality(Serve!AnswerSteps)
    <3>1. at + 1 > Len(p) => at \in 0..Len(p) /\ \A m \in at + 1..Len(p) : p[m].do # "answer"
      <4>. HIDE DEF p
      <4>. QED
        BY <2>1
    <3>. QED
      BY <2>2, <3>1, AnsweredSteps
  <2>. QED
    BY <1>2, <1>4, <2>5, <2>6, <2>7, <2>8, Onward
<1>. QED
  BY <1>1, <1>3, <1>4

LEMMA PartsServes == ASSUME Serve!ServiceAssumption PROVE ServiceInv /\ Serve!Parts => ServiceInv'
<1>. SUFFICES ASSUME ServiceInv, Serve!Parts PROVE ServiceInv'
  OBVIOUS
<1>. DEFINE p == Serve!Program(label)
<1>1. /\ at > 0 /\ Serve!Step.do = "linger" /\ Serve!Closes /\ taken' = sent
      /\ UNCHANGED <<label, sane, sent, gone, answers, late>>
  BY DEF Serve!Parts, Serve!client
<1>2. Fixed /\ late' \in BOOLEAN /\ taken' \in Nat
  BY <1>1 DEF Fixed, ServiceInv, TypesOK
<1>3. at \in 1..Len(p) /\ Serve!Step = p[at] /\ Len(p) \in Nat
  BY <1>1, AtStep
<1>4. GoodProgram(p)
  BY ProgramIs DEF ServiceInv, TypesOK
<1>5. at + 1 > Len(p)
  <2>. HIDE DEF p
  <2>1. p[at].do = "linger"
    BY <1>1, <1>3
  <2>2. at = Len(p)
    BY <1>3, <1>4, <2>1 DEF GoodProgram
  <2>. QED
    BY <1>3, <2>2
<1>6. Len(answers) = Cardinality(Serve!AnswerSteps)
  BY <1>1, <1>5, Passed
<1>. QED
  BY <1>1, <1>2, <1>6, Ending

\* Each answer of the VERSION, AUTH and DIR services goes out after exactly the bytes of
\* the requests before it, however the client cuts and joins them, and a client that stays
\* in time and passes the checks gets every answer.
THEOREM AnswersServed == ASSUME Serve!ServiceAssumption PROVE Serve!Spec => []Serve!Served
<1>1. Serve!Init => ServiceInv
  BY InitServes
<1>2. ServiceInv /\ [Serve!Next]_(Serve!vars) => ServiceInv'
  <2>. SUFFICES ASSUME ServiceInv, [Serve!Next]_(Serve!vars) PROVE ServiceInv'
    OBVIOUS
  <2>1. sent \in Nat /\ gone \in BOOLEAN
    BY DEF ServiceInv, TypesOK
  <2>2. CASE Serve!Sends
    <3>1. sent' \in Nat
      BY <2>1, <2>2 DEF Serve!Sends
    <3>. QED
      BY <2>1, <2>2, <3>1, SameKeeps DEF Serve!Sends, same
  <2>3. CASE Serve!Leaves
    BY <2>1, <2>3, SameKeeps DEF Serve!Leaves, same
  <2>4. CASE Serve!Accepts
    BY <2>4, AcceptsServes
  <2>5. CASE Serve!Receives
    BY <2>5, ReceivesServes
  <2>6. CASE Serve!EndsShort
    BY <2>6, EndsShortServes
  <2>7. CASE Serve!Replies
    BY <2>7, RepliesServes
  <2>8. CASE Serve!Parts
    BY <2>8, PartsServes
  <2>9. CASE UNCHANGED Serve!vars
    BY <2>1, <2>9, SameKeeps DEF Serve!vars, Serve!client, same
  <2>. QED
    BY <2>2, <2>3, <2>4, <2>5, <2>6, <2>7, <2>8, <2>9 DEF Serve!Next, Serve!Handler
<1>3. ServiceInv => Serve!Served
  BY ServeLibrary DEF ServiceInv, AnswersOK, Serve!Served, Answered
<1>. QED
  BY <1>1, <1>2, <1>3, PTL DEF Serve!Spec

-----------------------------------------------------------------------------
\* Constants
LEMMA ScanNumbers ==
  ASSUME Scan!ScanAssumption
  PROVE  /\ WordSize \in Nat \ {0} /\ PageSize \in Nat \ {0} /\ Chunk \in Nat \ {0} /\ NPages \in Nat \ {0}
         /\ Target \in Seq(Int) /\ Len(Target) = WordSize /\ MaxHits \in Nat
         /\ PageSize % WordSize = 0 /\ Chunk % WordSize = 0
  BY DEF Scan!ScanAssumption

LEMMA DivMod ==
  ASSUME NEW a \in Nat, NEW b \in Nat \ {0}
  PROVE  a \div b \in Nat /\ a % b \in 0..b - 1 /\ a = b * (a \div b) + (a % b)
  OBVIOUS

LEMMA TimesLess ==
  ASSUME NEW s \in Nat \ {0}, NEW p \in Nat, NEW q \in Nat
  PROVE  /\ p <= q => s * p <= s * q
         /\ s * p \in Nat
         /\ s * (p + 1) = s * p + s
  OBVIOUS

LEMMA Multiple ==
  ASSUME NEW a \in Nat, NEW b \in Nat \ {0}
  PROVE  a % b = 0 <=> \E q \in Nat : a = b * q
<1>1. \A q \in Nat : (b * q) % b = 0
  OBVIOUS
<1>2. ASSUME a % b = 0 PROVE \E q \in Nat : a = b * q
  <2>. DEFINE q == a \div b
  <2>1. q \in Nat /\ a = b * q + (a % b)
    BY DivMod
  <2>. HIDE DEF q
  <2>2. b * q \in Nat
    BY <2>1
  <2>3. a = b * q
    BY <1>2, <2>1, <2>2
  <2>. QED
    BY <2>1, <2>3
<1>. QED
  BY <1>1, <1>2

\* Between two multiples lies at least one size.
LEMMA NextMultiple ==
  ASSUME NEW b \in Nat \ {0}, NEW x \in Nat, NEW y \in Nat, x % b = 0, y % b = 0
  PROVE  /\ (x + y) % b = 0
         /\ x < y => x + b <= y
<1>1. PICK p \in Nat : x = b * p
  BY Multiple
<1>2. PICK q \in Nat : y = b * q
  BY Multiple
<1>3. x + y = b * (p + q) /\ p + q \in Nat /\ x + y \in Nat
  BY <1>1, <1>2
<1>4. (x + y) % b = 0
  BY <1>3, Multiple
<1>5. ASSUME x < y PROVE x + b <= y
  <2>1. p < q
    <3>1. q <= p => b * q <= b * p
      BY TimesLess
    <3>2. ~(b * q <= b * p)
      BY <1>1, <1>2, <1>5
    <3>. QED
      BY <3>1, <3>2
  <2>2. b * (p + 1) <= b * q /\ b * (p + 1) = b * p + b
    BY <2>1, TimesLess
  <2>. QED
    BY <1>1, <1>2, <2>2
<1>. QED
  BY <1>4, <1>5

LEMMA TimesMultiple ==
  ASSUME NEW b \in Nat \ {0}, NEW x \in Nat, NEW n \in Nat, x % b = 0
  PROVE  (x * n) % b = 0
<1>1. PICK p \in Nat : x = b * p
  BY Multiple
<1>2. x * n = b * (p * n) /\ p * n \in Nat /\ x * n \in Nat
  BY <1>1
<1>. QED
  BY <1>2, Multiple

\* The page of a byte.
LEMMA PageIs ==
  ASSUME Scan!ScanAssumption, NEW a \in Nat
  PROVE  /\ Scan!PageOf(a) \in Nat \ {0}
         /\ \A p \in Nat : a < PageSize * p <=> Scan!PageOf(a) <= p
<1>. DEFINE d == a \div PageSize
            S == PageSize
<1>1. S \in Nat \ {0}
  BY ScanNumbers
<1>2. d \in Nat /\ a % S \in 0..S - 1 /\ a = S * d + (a % S)
  BY <1>1, DivMod
<1>3. Scan!PageOf(a) = d + 1
  BY <1>2 DEF Scan!PageOf
<1>. HIDE DEF d, S
<1>4. S * d \in Nat /\ S * (d + 1) = S * d + S
  BY <1>1, <1>2, TimesLess
<1>5. S * d <= a /\ a < S * (d + 1)
  BY <1>1, <1>2, <1>4
<1>6. ASSUME NEW p \in Nat PROVE a < S * p <=> d + 1 <= p
  <2>1. ASSUME d + 1 <= p PROVE a < S * p
    <3>1. S * (d + 1) <= S * p /\ S * p \in Nat
      BY <1>1, <1>2, <2>1, TimesLess
    <3>. QED
      BY <1>1, <1>4, <1>5, <3>1
  <2>2. ASSUME p <= d PROVE S * p <= a
    <3>1. S * p <= S * d /\ S * p \in Nat
      BY <1>1, <1>2, <2>2, TimesLess
    <3>. QED
      BY <1>4, <1>5, <3>1
  <2>3. S * p \in Nat
    BY <1>1, TimesLess
  <2>. QED
    BY <1>2, <2>1, <2>2, <2>3
<1>. QED
  BY <1>2, <1>3, <1>6 DEF S

-----------------------------------------------------------------------------
(* The search in what was read                                             *)

\* A match at k: the target's bytes from there on.
Match(blob, k) == SubSeq(blob, k + 1, k + WordSize) = Target

\* Two matches do not overlap.
LEMMA NoOverlap ==
  ASSUME Scan!ScanAssumption, NEW T, NEW blob \in Seq(T),
         NEW k \in 0..Len(blob) - WordSize, NEW m \in 0..Len(blob) - WordSize,
         Match(blob, k), Match(blob, m), k < m
  PROVE  k + WordSize <= m
<1>. SUFFICES ASSUME m < k + WordSize PROVE FALSE
  BY ScanNumbers
<1>. DEFINE W == WordSize
            n == W - (m - k)
<1>1. /\ W \in Nat \ {0} /\ Len(blob) \in Nat /\ Target \in Seq(Int) /\ Len(Target) = W
      /\ \A j \in 1..Len(blob) : blob[j] \in T
  BY ScanNumbers, LenProperties, ElementOfSeq
<1>2. n \in 1..W - 1 /\ W - n = m - k
  BY <1>1
<1>3. ASSUME NEW x \in 0..Len(blob) - W, Match(blob, x), NEW j \in 1..W
      PROVE  Target[j] = blob[x + j]
  <2>1. \A i \in x + 1..x + W : blob[i] \in T
    BY <1>1
  <2>2. x + 1 \in Int /\ x + W \in Int /\ (x + W) - (x + 1) + 1 = W /\ x + 1 + j - 1 = x + j
    BY <1>1
  <2>3. \A i \in 1..(x + W) - (x + 1) + 1 : SubSeq(blob, x + 1, x + W)[i] = blob[x + 1 + i - 1]
    BY <2>1, <2>2, SubSeqProperties
  <2>. QED
    BY <1>3, <2>2, <2>3 DEF Match
<1>. HIDE DEF n, W
<1>4. SubSeq(Target, 1, n) = SubSeq(Target, W - n + 1, W)
  <2>. DEFINE a == SubSeq(Target, 1, n)
              b == SubSeq(Target, W - n + 1, W)
  <2>1. \A i \in 1..W : Target[i] \in Int
    BY <1>1, ElementOfSeq
  <2>2. a \in Seq(Int) /\ Len(a) = n /\ \A i \in 1..n : a[i] = Target[i]
    <3>1. (\A i \in 1..n : Target[i] \in Int) /\ 1 <= n /\ n \in Int /\ n - 1 + 1 = n
      BY <1>1, <1>2, <2>1
    <3>2. /\ a \in Seq(Int) /\ Len(a) = IF 1 <= n THEN n - 1 + 1 ELSE 0
          /\ \A i \in 1..n - 1 + 1 : a[i] = Target[1 + i - 1]
      BY <3>1, SubSeqProperties
    <3>3. \A i \in 1..n : 1 + i - 1 = i
      OBVIOUS
    <3>. QED
      BY <3>1, <3>2, <3>3
  <2>3. b \in Seq(Int) /\ Len(b) = n /\ \A i \in 1..n : b[i] = Target[W - n + i]
    <3>1. /\ (\A i \in W - n + 1..W : Target[i] \in Int) /\ W - n + 1 \in Int /\ W \in Int
          /\ W - n + 1 <= W /\ W - (W - n + 1) + 1 = n
      BY <1>1, <1>2, <2>1
    <3>2. /\ b \in Seq(Int) /\ Len(b) = IF W - n + 1 <= W THEN W - (W - n + 1) + 1 ELSE 0
          /\ \A i \in 1..W - (W - n + 1) + 1 : b[i] = Target[W - n + 1 + i - 1]
      BY <3>1, SubSeqProperties
    <3>3. \A i \in 1..n : W - n + 1 + i - 1 = W - n + i
      BY <1>1, <1>2
    <3>. QED
      BY <3>1, <3>2, <3>3
  <2>4. ASSUME NEW i \in 1..n PROVE a[i] = b[i]
    <3>1. i \in 1..W /\ W - n + i \in 1..W /\ k + (W - n + i) = m + i
      BY <1>1, <1>2
    <3>2. Target[i] = blob[m + i]
      BY <1>3, <3>1 DEF W
    <3>3. Target[W - n + i] = blob[k + (W - n + i)]
      BY <1>3, <3>1 DEF W
    <3>. QED
      BY <2>2, <2>3, <3>1, <3>2, <3>3
  <2>. HIDE DEF a, b
  <2>5. a = b
    BY <2>2, <2>3, <2>4, SeqEqual
  <2>. QED
    BY <2>5 DEF a, b
<1>. QED
  BY <1>2, <1>4 DEF Scan!ScanAssumption, W

\* Find is the first match from i on, or the length of the blob.
LEMMA FindIs ==
  ASSUME Scan!ScanAssumption, NEW T, NEW blob \in Seq(T), NEW i \in Nat
  PROVE  \/ Scan!Find(blob, i) = Len(blob) /\ \A k \in i..Len(blob) - WordSize : ~Match(blob, k)
         \/ /\ Scan!Find(blob, i) \in i..Len(blob) - WordSize /\ Match(blob, Scan!Find(blob, i))
            /\ \A k \in i..Len(blob) - WordSize : Match(blob, k) => Scan!Find(blob, i) <= k
<1>. DEFINE places == {k \in i..Len(blob) - WordSize : Match(blob, k)}
<1>1. Scan!Find(blob, i) = IF places = {} THEN Len(blob) ELSE CHOOSE k \in places : \A m \in places : k <= m
  BY DEF Scan!Find, Match
<1>2. CASE places = {}
  BY <1>1, <1>2
<1>3. CASE places # {}
  <2>1. places \in SUBSET Nat
    BY ScanNumbers, LenProperties
  <2>2. \E k \in places : \A m \in places : k <= m
    BY <1>3, <2>1, NatMin
  <2>3. Scan!Find(blob, i) \in places /\ \A m \in places : Scan!Find(blob, i) <= m
    BY <1>1, <1>3, <2>2
  <2>. QED
    BY <2>3
<1>. QED
  BY <1>2, <1>3

-----------------------------------------------------------------------------
(* One step of the search and the whole of it                              *)

Next1(blob, i) == IF i > Len(blob) THEN Len(blob) ELSE Scan!Find(blob, i)
Hit(base, k) == IF (base + k) % WordSize = 0 THEN <<base + k>> ELSE <<>>
Body(f, blob, base, i) ==
  IF Next1(blob, i) = Len(blob) THEN <<>> ELSE Hit(base, Next1(blob, i)) \o f[Scan!Behind(Next1(blob, i))]
Search(f, blob, base) == f = [i \in 0..Len(blob) + 2 * WordSize |-> Body(f, blob, base, i)]

LEMMA FoundSearch ==
  ASSUME NEW blob, NEW base
  PROVE  Scan!Found(blob, base) = (CHOOSE f : Search(f, blob, base))[0]
  BY DEF Scan!Found, Search, Body, Next1, Hit

\* A step goes on behind a match, further on.
LEMMA StepOn ==
  ASSUME Scan!ScanAssumption, NEW T, NEW blob \in Seq(T), NEW i \in Nat, Next1(blob, i) # Len(blob)
  PROVE  /\ Next1(blob, i) \in i..Len(blob) - WordSize /\ Match(blob, Next1(blob, i))
         /\ (\A k \in i..Len(blob) - WordSize : Match(blob, k) => Next1(blob, i) <= k)
         /\ Scan!Behind(Next1(blob, i)) \in i + 1..Len(blob)
<1>1. i <= Len(blob) /\ Next1(blob, i) = Scan!Find(blob, i)
  BY LenProperties DEF Next1
<1>2. /\ Next1(blob, i) \in i..Len(blob) - WordSize /\ Match(blob, Next1(blob, i))
      /\ \A k \in i..Len(blob) - WordSize : Match(blob, k) => Next1(blob, i) <= k
  BY <1>1, FindIs
<1>3. WordSize \in Nat \ {0} /\ Len(blob) \in Nat
  BY ScanNumbers, LenProperties
<1>4. Scan!Behind(Next1(blob, i)) \in i + 1..Len(blob)
  BY <1>2, <1>3 DEF Scan!Behind
<1>. QED
  BY <1>2, <1>4

LEMMA SearchExists ==
  ASSUME Scan!ScanAssumption, NEW T, NEW blob \in Seq(T), NEW base \in Nat
  PROVE  \E f : Search(f, blob, base)
<1>. DEFINE n == Len(blob) + 2 * WordSize
            Part(f, m) == f = [i \in n - m..n |-> Body(f, blob, base, i)]
            S == {m \in Nat : m <= n => \E f : Part(f, m)}
<1>1. WordSize \in Nat \ {0} /\ Len(blob) \in Nat /\ n \in Nat /\ Len(blob) < n
  BY ScanNumbers, LenProperties
<1>. HIDE DEF n
<1>2. 0 \in S
  <2>. DEFINE g == [i \in n - 0..n |-> <<>>]
  <2>1. \A i \in n - 0..n : Body(g, blob, base, i) = <<>>
    BY <1>1 DEF Body, Next1
  <2>2. g = [i \in n - 0..n |-> Body(g, blob, base, i)]
    BY <2>1
  <2>. QED
    BY <2>2
<1>3. ASSUME NEW m \in S PROVE m + 1 \in S
  <2>. SUFFICES ASSUME m + 1 <= n PROVE \E f : Part(f, m + 1)
    OBVIOUS
  <2>1. m \in Nat /\ m <= n
    BY <1>1
  <2>2. PICK f : Part(f, m)
    BY <2>1
  <2>. DEFINE g == [i \in n - (m + 1)..n |-> Body(f, blob, base, i)]
  <2>3. \A i \in n - m..n : i \in n - (m + 1)..n /\ g[i] = f[i]
    <3>1. \A i \in n - m..n : f[i] = Body(f, blob, base, i)
      BY <2>2
    <3>2. \A i \in n - m..n : i \in n - (m + 1)..n
      BY <1>1, <2>1
    <3>. QED
      BY <3>1, <3>2
  <2>4. ASSUME NEW i \in n - (m + 1)..n PROVE Body(f, blob, base, i) = Body(g, blob, base, i)
    <3>1. CASE Next1(blob, i) = Len(blob)
      BY <3>1 DEF Body
    <3>2. CASE Next1(blob, i) # Len(blob)
      <4>1. i \in Nat
        BY <1>1, <2>1
      <4>2. Scan!Behind(Next1(blob, i)) \in i + 1..Len(blob)
        BY <3>2, <4>1, StepOn
      <4>3. Scan!Behind(Next1(blob, i)) \in n - m..n
        BY <1>1, <2>1, <4>1, <4>2
      <4>. HIDE DEF g
      <4>. QED
        BY <2>3, <4>3 DEF Body
    <3>. QED
      BY <3>1, <3>2
  <2>5. Part(g, m + 1)
    BY <2>4, Zenon
  <2>. HIDE DEF g, Part
  <2>. QED
    BY <2>5
<1>. HIDE DEF S
<1>4. S = Nat
  <2>1. S \in SUBSET Nat
    BY DEF S
  <2>. QED
    BY <1>2, <1>3, <2>1, NatInd
<1>5. \E f : Part(f, n)
  <2>1. n \in S /\ n <= n
    BY <1>1, <1>4
  <2>. HIDE DEF Part
  <2>. QED
    BY <2>1 DEF S
<1>6. n - n = 0
  BY <1>1
<1>7. \E f : f = [i \in 0..n |-> Body(f, blob, base, i)]
  BY <1>5, <1>6
<1>. QED
  BY <1>7 DEF Search, n

\* Where the search ends, no match is left.
LEMMA StepEnd ==
  ASSUME Scan!ScanAssumption, NEW T, NEW blob \in Seq(T), NEW i \in Nat, Next1(blob, i) = Len(blob)
  PROVE  \A k \in i..Len(blob) - WordSize : ~Match(blob, k)
<1>1. WordSize \in Nat \ {0} /\ Len(blob) \in Nat
  BY ScanNumbers, LenProperties
<1>2. CASE i > Len(blob)
  BY <1>1, <1>2
<1>3. CASE ~(i > Len(blob))
  <2>1. Scan!Find(blob, i) = Len(blob)
    BY <1>3 DEF Next1
  <2>2. ~(Scan!Find(blob, i) \in i..Len(blob) - WordSize)
    BY <1>1, <2>1
  <2>. QED
    BY <2>2, FindIs
<1>. QED
  BY <1>2, <1>3

Rising(s) == \A j \in 1..Len(s) : \A m \in 1..j - 1 : s[m] < s[j]

\* A smaller number in front.
LEMMA InFront ==
  ASSUME NEW s \in Seq(Nat), Rising(s), NEW x \in Nat, \A y \in ToSet(s) : x < y
  PROVE  <<x>> \o s \in Seq(Nat) /\ Rising(<<x>> \o s) /\ ToSet(<<x>> \o s) = {x} \cup ToSet(s)
<1>. DEFINE a == <<x>> \o s
<1>1. <<x>> \in Seq(Nat) /\ Len(<<x>>) = 1 /\ <<x>>[1] = x /\ Len(s) \in Nat
  BY LenProperties
<1>2. /\ a \in Seq(Nat) /\ Len(a) = Len(s) + 1 /\ DOMAIN a = 1..Len(s) + 1
      /\ a[1] = x /\ \A j \in 1..Len(s) : a[j + 1] = s[j]
  <2>1. a \in Seq(Nat) /\ Len(a) = 1 + Len(s)
    BY <1>1, ConcatProperties
  <2>2. \A j \in 1..1 + Len(s) : a[j] = IF j <= 1 THEN <<x>>[j] ELSE s[j - 1]
    BY <1>1, ConcatProperties
  <2>3. DOMAIN a = 1..Len(a)
    BY <2>1, LenProperties
  <2>. HIDE DEF a
  <2>4. \A j \in 1..Len(s) : j + 1 \in 1..1 + Len(s) /\ ~(j + 1 <= 1) /\ j + 1 - 1 = j
    BY <1>1
  <2>5. a[1] = x
    BY <1>1, <2>2
  <2>. QED
    BY <1>1, <2>1, <2>2, <2>3, <2>4, <2>5
<1>. HIDE DEF a
<1>3. DOMAIN s = 1..Len(s) /\ \A j \in 1..Len(s) : s[j] \in Nat /\ s[j] \in ToSet(s)
  BY LenProperties, ElementOfSeq DEF ToSet
<1>4. \A j \in 1..Len(s) + 1 : j = 1 \/ (j - 1 \in 1..Len(s) /\ a[j] = s[j - 1])
  <2>. TAKE j \in 1..Len(s) + 1
  <2>1. j = 1 \/ (j - 1 \in 1..Len(s) /\ (j - 1) + 1 = j)
    BY <1>1
  <2>. QED
    BY <1>2, <2>1
<1>5. Rising(a)
  <2>. SUFFICES ASSUME NEW j \in 1..Len(s) + 1, NEW m \in 1..j - 1 PROVE a[m] < a[j]
    BY <1>2 DEF Rising
  <2>1. j # 1 /\ j - 1 \in 1..Len(s) /\ m \in 1..Len(s) + 1
    BY <1>1
  <2>2. a[j] = s[j - 1]
    BY <1>4, <2>1
  <2>3. CASE m = 1
    BY <1>2, <1>3, <2>1, <2>2, <2>3
  <2>4. CASE m # 1
    <3>1. a[m] = s[m - 1] /\ m - 1 \in 1..Len(s)
      BY <1>4, <2>1, <2>4
    <3>2. m - 1 \in 1..(j - 1) - 1
      BY <2>1, <2>4
    <3>. QED
      BY <2>1, <2>2, <3>1, <3>2 DEF Rising
  <2>. QED
    BY <2>3, <2>4
<1>6. ToSet(a) = {x} \cup ToSet(s)
  <2>1. ASSUME NEW y \in ToSet(a) PROVE y \in {x} \cup ToSet(s)
    <3>1. PICK j \in 1..Len(s) + 1 : y = a[j]
      BY <1>2 DEF ToSet
    <3>. QED
      BY <1>2, <1>3, <1>4, <3>1
  <2>2. x \in ToSet(a)
    <3>1. 1 \in 1..Len(s) + 1
      BY <1>1
    <3>. QED
      BY <1>2, <3>1 DEF ToSet
  <2>3. ASSUME NEW y \in ToSet(s) PROVE y \in ToSet(a)
    <3>1. PICK j \in 1..Len(s) : y = s[j]
      BY <1>3 DEF ToSet
    <3>2. j + 1 \in 1..Len(s) + 1 /\ a[j + 1] = y
      BY <1>1, <1>2, <3>1
    <3>. QED
      BY <1>2, <3>2 DEF ToSet
  <2>. QED
    BY <2>1, <2>2, <2>3
<1>. QED
  BY <1>2, <1>5, <1>6 DEF a

\* The aligned matches from i on.
Aligned(blob, base, i) ==
  {a \in base + i..base + Len(blob) - WordSize : Match(blob, a - base) /\ a % WordSize = 0}

\* The search finds every aligned match, in ascending order.
LEMMA FoundIs ==
  ASSUME Scan!ScanAssumption, NEW T, NEW blob \in Seq(T), NEW base \in Nat
  PROVE  /\ Scan!Found(blob, base) \in Seq(Nat) /\ Rising(Scan!Found(blob, base))
         /\ ToSet(Scan!Found(blob, base)) = Aligned(blob, base, 0)
<1>. DEFINE n == Len(blob) + 2 * WordSize
            f == CHOOSE g : Search(g, blob, base)
            Right(s, i) == s \in Seq(Nat) /\ Rising(s) /\ ToSet(s) = Aligned(blob, base, i)
            S == {m \in Nat : \A i \in 0..n : n - m <= i => Right(f[i], i)}
<1>1. WordSize \in Nat \ {0} /\ Len(blob) \in Nat /\ n \in Nat /\ Len(blob) < n
  BY ScanNumbers, LenProperties
<1>2. \A i \in 0..n : f[i] = Body(f, blob, base, i)
  <2>1. Search(f, blob, base)
    BY SearchExists
  <2>. HIDE DEF f
  <2>. QED
    BY <2>1 DEF Search
<1>. HIDE DEF n, f
<1>3. ASSUME NEW i \in 0..n, Next1(blob, i) = Len(blob) PROVE Right(f[i], i)
  <2>1. f[i] = <<>>
    BY <1>2, <1>3 DEF Body
  <2>2. \A k \in i..Len(blob) - WordSize : ~Match(blob, k)
    BY <1>1, <1>3, StepEnd
  <2>3. ASSUME NEW a \in Aligned(blob, base, i) PROVE FALSE
    <3>1. a - base \in i..Len(blob) - WordSize /\ Match(blob, a - base)
      BY <1>1 DEF Aligned
    <3>. QED
      BY <2>2, <3>1
  <2>4. <<>> \in Seq(Nat) /\ Rising(<<>>) /\ ToSet(<<>>) = {}
    BY EmptySeq DEF Rising, ToSet
  <2>. QED
    BY <2>1, <2>3, <2>4
<1>4. ASSUME NEW i \in 0..n, Next1(blob, i) # Len(blob),
             \A j \in i + 1..n : Right(f[j], j)
      PROVE  Right(f[i], i)
  <2>. DEFINE k == Next1(blob, i)
              b == Scan!Behind(k)
  <2>1. /\ k \in i..Len(blob) - WordSize /\ Match(blob, k) /\ b \in i + 1..Len(blob)
        /\ \A m \in i..Len(blob) - WordSize : Match(blob, m) => k <= m
    BY <1>1, <1>4, StepOn
  <2>2. b = k + WordSize
    BY DEF Scan!Behind
  <2>3. f[i] = Hit(base, k) \o f[b]
    BY <1>2, <1>4 DEF Body
  <2>. HIDE DEF k, b
  <2>4. k \in Nat /\ b \in i + 1..n
    BY <1>1, <2>1
  <2>5. f[b] \in Seq(Nat) /\ Rising(f[b]) /\ ToSet(f[b]) = Aligned(blob, base, b)
    BY <1>4, <2>4
  <2>6. ASSUME NEW a \in Aligned(blob, base, i), a # base + k PROVE a \in Aligned(blob, base, b)
    <3>1. /\ a - base \in i..Len(blob) - WordSize /\ Match(blob, a - base) /\ a - base # k
          /\ a \in Int /\ a % WordSize = 0 /\ a <= base + Len(blob) - WordSize
      BY <1>1, <2>4, <2>6 DEF Aligned
    <3>2. k < a - base
      BY <1>1, <2>1, <3>1
    <3>3. k + WordSize <= a - base
      BY <1>1, <2>1, <3>1, <3>2, NoOverlap
    <3>. QED
      BY <1>1, <2>1, <2>2, <3>1, <3>3 DEF Aligned
  <2>7. ASSUME NEW a \in Aligned(blob, base, b) PROVE a \in Aligned(blob, base, i) /\ base + k < a
    BY <1>1, <2>1, <2>2 DEF Aligned
  <2>8. CASE (base + k) % WordSize = 0
    <3>1. Hit(base, k) = <<base + k>>
      BY <2>8 DEF Hit
    <3>2. base + k \in Aligned(blob, base, i)
      <4>1. base + k - base = k /\ base + k \in base + i..base + Len(blob) - WordSize
        BY <1>1, <2>1
      <4>. QED
        BY <2>1, <2>8, <4>1 DEF Aligned
    <3>3. base + k \in Nat /\ \A y \in ToSet(f[b]) : base + k < y
      BY <2>4, <2>5, <2>7
    <3>4. /\ <<base + k>> \o f[b] \in Seq(Nat) /\ Rising(<<base + k>> \o f[b])
          /\ ToSet(<<base + k>> \o f[b]) = {base + k} \cup ToSet(f[b])
      BY <2>5, <3>3, InFront
    <3>5. Aligned(blob, base, i) = {base + k} \cup Aligned(blob, base, b)
      BY <2>6, <2>7, <3>2
    <3>. QED
      BY <2>3, <2>5, <3>1, <3>4, <3>5
  <2>9. CASE (base + k) % WordSize # 0
    <3>1. Hit(base, k) = <<>>
      BY <2>9 DEF Hit
    <3>2. f[i] = f[b]
      BY <2>3, <2>5, <3>1, ConcatEmptySeq
    <3>3. ~(base + k \in Aligned(blob, base, i))
      BY <2>9 DEF Aligned
    <3>4. Aligned(blob, base, i) = Aligned(blob, base, b)
      BY <2>6, <2>7, <3>3
    <3>. QED
      BY <2>5, <3>2, <3>4
  <2>. QED
    BY <2>8, <2>9
<1>. HIDE DEF Right
<1>5. 0 \in S
  <2>1. n \in 0..n /\ \A i \in 0..n : n - 0 <= i => i = n
    BY <1>1
  <2>2. Next1(blob, n) = Len(blob)
    BY <1>1 DEF Next1
  <2>. QED
    BY <1>3, <2>1, <2>2
<1>6. ASSUME NEW m \in S PROVE m + 1 \in S
  <2>. SUFFICES ASSUME NEW i \in 0..n, n - (m + 1) <= i PROVE Right(f[i], i)
    OBVIOUS
  <2>1. \A j \in i + 1..n : j \in 0..n /\ n - m <= j
    BY <1>1
  <2>2. \A j \in i + 1..n : Right(f[j], j)
    BY <2>1
  <2>. QED
    BY <1>3, <1>4, <2>2
<1>7. S = Nat
  <2>1. S \in SUBSET Nat
    OBVIOUS
  <2>. HIDE DEF S
  <2>. QED
    BY <1>5, <1>6, <2>1, NatInd
<1>8. Right(f[0], 0)
  <2>1. 0 \in 0..n /\ n - n <= 0
    BY <1>1
  <2>2. \A m \in Nat : \A i \in 0..n : n - m <= i => Right(f[i], i)
    BY <1>7
  <2>. QED
    BY <1>1, <2>1, <2>2
<1>. QED
  BY <1>8, FoundSearch DEF Right, f

-----------------------------------------------------------------------------
(* The region of a query                                                   *)

\* A region is a run of pages in the same state that begins with the address's own.
LEMMA RegionIs ==
  ASSUME Scan!ScanAssumption, NEW a \in Nat, a < Scan!End
  PROVE  \E p \in Scan!PageOf(a)..NPages :
           /\ Scan!RegionEnd(a) = PageSize * p
           /\ \A q \in Scan!PageOf(a)..p : q \in open <=> Scan!PageOf(a) \in open
<1>. DEFINE s == Scan!PageOf(a)
            alike(p) == p \in open <=> Scan!PageOf(a) \in open
            Stops(p) == (\A q \in Scan!PageOf(a)..p : alike(q)) /\ (p = NPages \/ ~alike(p + 1))
            C == CHOOSE p \in Scan!PageOf(a)..NPages : Stops(p)
            U == {p \in s..NPages : p = NPages \/ ~alike(p + 1)}
<1>1. NPages \in Nat /\ PageSize \in Nat \ {0} /\ s \in Nat \ {0}
  BY ScanNumbers, PageIs
<1>2. s <= NPages
  <2>1. Scan!End = PageSize * NPages
    BY <1>1 DEF Scan!End
  <2>. QED
    BY <1>1, <2>1, PageIs
<1>3. Scan!RegionEnd(a) = PageSize * C
  BY DEF Scan!RegionEnd
<1>. HIDE DEF alike
<1>4. PICK m \in U : \A p \in U : m <= p
  <2>1. NPages \in U /\ U \in SUBSET Nat
    BY <1>1, <1>2
  <2>. HIDE DEF U
  <2>. QED
    BY <2>1, NatMin
<1>5. ASSUME NEW q \in s..m PROVE alike(q)
  <2>1. CASE q = s
    BY <2>1 DEF alike
  <2>2. CASE q # s
    <3>1. q - 1 \in s..NPages /\ q - 1 < m /\ q - 1 # NPages /\ (q - 1) + 1 = q
      BY <1>1, <1>2, <1>4, <2>2
    <3>2. ~(q - 1 \in U)
      <4>1. m \in Nat /\ q - 1 \in Nat /\ ~(m <= q - 1)
        BY <1>1, <1>4, <3>1
      <4>. HIDE DEF U
      <4>. QED
        BY <1>4, <4>1
    <3>. QED
      BY <3>1, <3>2
  <2>. QED
    BY <2>1, <2>2
<1>6. m \in Scan!PageOf(a)..NPages /\ Stops(m)
  BY <1>4, <1>5
<1>. HIDE DEF Stops
<1>7. C \in Scan!PageOf(a)..NPages /\ Stops(C)
  BY <1>6
<1>. HIDE DEF C
<1>. QED
  BY <1>3, <1>7 DEF Stops, alike

-----------------------------------------------------------------------------
(* The invariant.  Outside of a region the next query is at the start of a *)
(* page; inside of one the pages still to be read are open, unless a page  *)
(* came or went; behind the address every object that stayed has been      *)
(* found, and the hits before it are in order.                             *)

PlaceOK ==
  /\ address \in Nat /\ address % WordSize = 0
  /\ limit = 0 => \E q \in Nat : address = PageSize * q
  /\ limit # 0 => /\ limit \in Nat /\ address < limit /\ limit <= Scan!End
                  /\ \E q \in Nat : limit = PageSize * q
                  /\ steady => \A a \in address..limit - 1 : Scan!PageOf(a) \in open
HitsOK ==
  /\ hits \in Seq(Nat) /\ Rising(hits)
  /\ \A a \in ToSet(hits) : a < address /\ a \in had
KeptOK ==
  /\ kept \subseteq Scan!Holding /\ Scan!Holding \subseteq had
  /\ steady /\ Len(hits) < MaxHits => \A a \in kept : a < address => a \in ToSet(hits)
ScanInv == PlaceOK /\ HitsOK /\ KeptOK

LEMMA ScanInvInit == ASSUME Scan!ScanAssumption PROVE Scan!Init => ScanInv
<1>. SUFFICES ASSUME Scan!Init PROVE ScanInv
  OBVIOUS
<1>1. address = 0 /\ limit = 0 /\ hits = <<>> /\ kept = Scan!Holding /\ had = Scan!Holding
  BY DEF Scan!Init
<1>2. PlaceOK
  <2>1. 0 % WordSize = 0 /\ 0 = PageSize * 0
    BY ScanNumbers
  <2>. QED
    BY <1>1, <2>1 DEF PlaceOK
<1>3. HitsOK
  BY <1>1, EmptySeq DEF HitsOK, Rising, ToSet
<1>4. KeptOK
  BY <1>1 DEF KeptOK, Scan!Holding, Scan!Words
<1>. QED
  BY <1>2, <1>3, <1>4 DEF ScanInv

\* The ends of memory are the start and the end of pages and of words.
LEMMA PageStarts ==
  ASSUME Scan!ScanAssumption, NEW p \in Nat
  PROVE  /\ PageSize * p \in Nat /\ (PageSize * p) % WordSize = 0
         /\ p <= NPages => PageSize * p <= Scan!End
<1>1. WordSize \in Nat \ {0} /\ PageSize \in Nat \ {0} /\ NPages \in Nat /\ PageSize % WordSize = 0
  BY ScanNumbers
<1>2. (PageSize * p) % WordSize = 0
  BY <1>1, TimesMultiple
<1>3. Scan!End = PageSize * NPages
  BY <1>1 DEF Scan!End
<1>. QED
  BY <1>1, <1>2, <1>3, TimesLess

\* The bytes of a region lie on its pages.
LEMMA OnPages ==
  ASSUME Scan!ScanAssumption, NEW a \in Nat, NEW p \in Nat, NEW b \in a..PageSize * p - 1
  PROVE  Scan!PageOf(b) \in Scan!PageOf(a)..p
<1>. DEFINE r == Scan!PageOf(a) - 1
<1>1. PageSize * p \in Nat /\ b \in Nat /\ b < PageSize * p /\ a <= b
  BY PageStarts
<1>2. Scan!PageOf(a) \in Nat \ {0} /\ Scan!PageOf(b) \in Nat \ {0} /\ r \in Nat
  BY <1>1, PageIs
<1>3. Scan!PageOf(b) <= p
  BY <1>1, PageIs
<1>4. ~(a < PageSize * r)
  BY <1>2, PageIs
<1>5. PageSize * r \in Nat
  BY <1>2, PageStarts
<1>6. ~(b < PageSize * r)
  BY <1>1, <1>4, <1>5
<1>7. ~(Scan!PageOf(b) <= r)
  BY <1>1, <1>2, <1>6, PageIs
<1>. QED
  BY <1>2, <1>3, <1>7

LEMMA QueryKeeps == ASSUME Scan!ScanAssumption PROVE ScanInv /\ Scan!Query => ScanInv'
<1>. SUFFICES ASSUME ScanInv, Scan!Query PROVE ScanInv'
  OBVIOUS
<1>1. /\ address \in Nat /\ address % WordSize = 0 /\ limit = 0 /\ address < Scan!End
      /\ Len(hits) < MaxHits /\ hits \in Seq(Nat)
  <2>1. limit = 0 /\ ~Scan!Done /\ address \in Nat /\ address % WordSize = 0 /\ hits \in Seq(Nat)
    BY DEF Scan!Query, ScanInv, PlaceOK, HitsOK
  <2>2. Scan!End \in Nat /\ MaxHits \in Nat /\ Len(hits) \in Nat
    BY <2>1, ScanNumbers, PageStarts, LenProperties DEF Scan!End
  <2>. QED
    BY <2>1, <2>2 DEF Scan!Done
<1>2. UNCHANGED <<page, open, writes, steady, hits>>
  BY DEF Scan!Query, Scan!game
<1>3. Scan!Holding' = Scan!Holding
  BY <1>2 DEF Scan!Holding, Scan!Words, Scan!Bytes, Scan!Byte, Scan!PageOf, Scan!End
<1>4. kept' = kept /\ had' = had /\ kept \subseteq Scan!Holding /\ Scan!Holding \subseteq had
  BY <1>3 DEF Scan!Query, Scan!Follow, ScanInv, KeptOK
<1>5. PICK p \in Scan!PageOf(address)..NPages :
           /\ Scan!RegionEnd(address) = PageSize * p
           /\ \A q \in Scan!PageOf(address)..p : q \in open <=> Scan!PageOf(address) \in open
  BY <1>1, RegionIs
<1>6. /\ Scan!PageOf(address) \in Nat /\ p \in Nat /\ p <= NPages
      /\ PageSize * p \in Nat /\ (PageSize * p) % WordSize = 0 /\ PageSize * p <= Scan!End
      /\ address < PageSize * p
  <2>1. Scan!PageOf(address) \in Nat \ {0} /\ NPages \in Nat
    BY <1>1, PageIs, ScanNumbers
  <2>2. p \in Nat /\ p <= NPages /\ Scan!PageOf(address) <= p
    BY <2>1
  <2>. QED
    BY <1>1, <2>1, <2>2, PageIs, PageStarts
<1>7. \A a \in address..PageSize * p - 1 : Scan!PageOf(a) \in open <=> Scan!PageOf(address) \in open
  BY <1>1, <1>5, <1>6, OnPages
<1>8. (\A a \in ToSet(hits) : a < address /\ a \in had) /\ Rising(hits)
  BY DEF ScanInv, HitsOK
<1>9. steady => \A a \in kept : a < address => a \in ToSet(hits)
  BY <1>1 DEF ScanInv, KeptOK
<1>10. CASE Scan!PageOf(address) \in open
  <2>1. limit' = PageSize * p /\ address' = address
    BY <1>5, <1>10 DEF Scan!Query
  <2>2. PlaceOK'
    <3>1. limit' # 0 /\ limit' \in Nat /\ address' < limit' /\ limit' <= Scan!End
      BY <1>1, <1>6, <2>1
    <3>2. \A a \in address'..limit' - 1 : Scan!PageOf(a) \in open'
      BY <1>2, <1>7, <1>10, <2>1
    <3>. QED
      BY <1>1, <1>6, <2>1, <3>1, <3>2 DEF PlaceOK, Scan!PageOf, Scan!End
  <2>3. HitsOK'
    BY <1>1, <1>2, <1>4, <1>8, <2>1 DEF HitsOK, Rising, ToSet
  <2>4. KeptOK'
    BY <1>2, <1>3, <1>4, <1>9, <2>1 DEF KeptOK, ToSet
  <2>. QED
    BY <2>2, <2>3, <2>4 DEF ScanInv
<1>11. CASE Scan!PageOf(address) \notin open
  <2>1. address' = PageSize * p /\ limit' = limit
    BY <1>5, <1>11 DEF Scan!Query
  <2>2. PlaceOK'
    BY <1>1, <1>6, <2>1 DEF PlaceOK
  <2>3. HitsOK'
    <3>1. \A a \in ToSet(hits) : a < PageSize * p
      <4>1. \A a \in ToSet(hits) : a \in Nat
        BY <1>1, ElementOfSeq, LenProperties DEF ToSet
      <4>. QED
        BY <1>1, <1>6, <1>8, <4>1
    <3>. QED
      BY <1>1, <1>2, <1>4, <1>8, <2>1, <3>1 DEF HitsOK, Rising, ToSet
  <2>4. ASSUME steady, NEW a \in kept, a < PageSize * p PROVE a \in ToSet(hits)
    <3>1. a \in Nat /\ Scan!PageOf(a) \in open
      BY <1>4, ScanNumbers, PageStarts DEF Scan!Holding, Scan!Words
    <3>2. ~(a \in address..PageSize * p - 1)
      BY <1>7, <1>11, <3>1
    <3>3. a < address
      BY <1>1, <1>6, <2>4, <3>1, <3>2
    <3>. QED
      BY <1>9, <2>4, <3>3
  <2>5. KeptOK'
    BY <1>2, <1>3, <1>4, <2>1, <2>4 DEF KeptOK, ToSet
  <2>. QED
    BY <2>2, <2>3, <2>5 DEF ScanInv
<1>. QED
  BY <1>10, <1>11

LEMMA WritesKeep == ASSUME Scan!ScanAssumption PROVE ScanInv /\ Scan!Writes => ScanInv'
<1>. SUFFICES ASSUME ScanInv, Scan!Writes PROVE ScanInv'
  OBVIOUS
<1>1. UNCHANGED <<address, limit, hits>> /\ kept' = kept \cap Scan!Holding' /\ had' = had \cup Scan!Holding'
  BY DEF Scan!Writes, Scan!scan, Scan!Follow
<1>2. (open' = open /\ steady' = steady) \/ steady' = FALSE
  BY DEF Scan!Writes
<1>3. PlaceOK'
  <2>1. CASE open' = open /\ steady' = steady
    BY <1>1, <2>1 DEF ScanInv, PlaceOK, Scan!PageOf, Scan!End
  <2>2. CASE steady' = FALSE
    BY <1>1, <2>2 DEF ScanInv, PlaceOK, Scan!End
  <2>. QED
    BY <1>2, <2>1, <2>2
<1>4. HitsOK'
  BY <1>1 DEF ScanInv, HitsOK, Rising, ToSet
<1>5. KeptOK'
  BY <1>1, <1>2 DEF ScanInv, KeptOK, ToSet
<1>. QED
  BY <1>3, <1>4, <1>5 DEF ScanInv

\* A piece of a sequence, of a known length.
LEMMA PieceIs ==
  ASSUME NEW T, NEW s, NEW k \in Nat, NEW w \in Nat \ {0}, \A i \in k + 1..k + w : s[i] \in T
  PROVE  /\ SubSeq(s, k + 1, k + w) \in Seq(T) /\ Len(SubSeq(s, k + 1, k + w)) = w
         /\ \A i \in 1..w : SubSeq(s, k + 1, k + w)[i] = s[k + i]
<1>. DEFINE u == SubSeq(s, k + 1, k + w)
<1>1. k + 1 \in Int /\ k + w \in Int /\ k + 1 <= k + w /\ k + w - (k + 1) + 1 = w
  OBVIOUS
<1>2. /\ u \in Seq(T) /\ Len(u) = IF k + 1 <= k + w THEN k + w - (k + 1) + 1 ELSE 0
      /\ \A i \in 1..k + w - (k + 1) + 1 : u[i] = s[k + 1 + i - 1]
  BY <1>1, SubSeqProperties
<1>. HIDE DEF u
<1>3. \A i \in 1..w : k + 1 + i - 1 = k + i
  OBVIOUS
<1>. QED
  BY <1>1, <1>2, <1>3 DEF u

\* What is found in the bytes of a chunk are the words in it that hold the target.
LEMMA ChunkFound ==
  ASSUME Scan!ScanAssumption, NEW base \in Nat, NEW n \in Nat, base % WordSize = 0, n % WordSize = 0
  PROVE  /\ Scan!Found(Scan!Bytes(base, n), base) \in Seq(Nat) /\ Rising(Scan!Found(Scan!Bytes(base, n), base))
         /\ ToSet(Scan!Found(Scan!Bytes(base, n), base)) =
              {a \in base..base + n - 1 : a % WordSize = 0 /\ Scan!Bytes(a, WordSize) = Target}
<1>. DEFINE T == {Scan!Byte(base + k - 1) : k \in 1..n}
            blob == Scan!Bytes(base, n)
<1>1. blob \in Seq(T) /\ Len(blob) = n /\ \A k \in 1..n : blob[k] = Scan!Byte(base + k - 1)
  <2>1. blob = [k \in 1..n |-> Scan!Byte(base + k - 1)]
    BY DEF Scan!Bytes
  <2>2. \A k \in 1..n : Scan!Byte(base + k - 1) \in T
    OBVIOUS
  <2>. HIDE DEF blob, T
  <2>3. blob \in [1..n -> T] /\ \A k \in 1..n : blob[k] = Scan!Byte(base + k - 1)
    BY <2>1, <2>2
  <2>. QED
    BY <2>3, SeqDef, LenProperties
<1>. HIDE DEF blob, T
<1>2. /\ Scan!Found(blob, base) \in Seq(Nat) /\ Rising(Scan!Found(blob, base))
      /\ ToSet(Scan!Found(blob, base)) = Aligned(blob, base, 0)
  BY <1>1, FoundIs
<1>3. WordSize \in Nat \ {0}
  BY ScanNumbers
<1>4. ASSUME NEW a \in base..base + n - WordSize
      PROVE  Match(blob, a - base) <=> Scan!Bytes(a, WordSize) = Target
  <2>. DEFINE k == a - base
              u == SubSeq(blob, k + 1, k + WordSize)
              v == Scan!Bytes(a, WordSize)
  <2>1. k \in Nat /\ k + WordSize <= n /\ a = base + k /\ a \in Nat
    BY <1>3
  <2>. HIDE DEF k
  <2>2. \A i \in k + 1..k + WordSize : blob[i] \in T
    BY <1>1, <1>3, <2>1, ElementOfSeq
  <2>4. u \in Seq(T) /\ Len(u) = WordSize /\ \A i \in 1..WordSize : u[i] = blob[k + i]
    BY <1>3, <2>1, <2>2, PieceIs
  <2>5. v = [i \in 1..WordSize |-> Scan!Byte(a + i - 1)]
    BY DEF Scan!Bytes
  <2>. HIDE DEF u, v
  <2>6. ASSUME NEW i \in 1..WordSize PROVE u[i] = Scan!Byte(a + i - 1)
    <3>1. k + i \in 1..n /\ base + (k + i) - 1 = a + i - 1
      BY <1>3, <2>1
    <3>2. blob[k + i] = Scan!Byte(base + (k + i) - 1)
      BY <1>1, <3>1
    <3>. QED
      BY <2>4, <3>1, <3>2
  <2>7. u = v
    <3>1. u = [i \in 1..WordSize |-> u[i]]
      BY <2>4, SeqDef, LenProperties
    <3>. QED
      BY <2>5, <2>6, <3>1
  <2>. QED
    BY <2>7 DEF Match, u, v, k
<1>5. ASSUME NEW a \in base..base + n - 1, a % WordSize = 0 PROVE a <= base + n - WordSize
  <2>1. a \in Nat /\ base + n \in Nat /\ a < base + n
    OBVIOUS
  <2>2. (base + n) % WordSize = 0
    BY <1>3, NextMultiple
  <2>3. a + WordSize <= base + n
    BY <1>3, <1>5, <2>1, <2>2, NextMultiple
  <2>. QED
    BY <1>3, <2>1, <2>3
<1>6. Aligned(blob, base, 0) =
        {a \in base..base + n - 1 : a % WordSize = 0 /\ Scan!Bytes(a, WordSize) = Target}
  <2>1. ASSUME NEW a \in Aligned(blob, base, 0)
        PROVE  a \in base..base + n - 1 /\ a % WordSize = 0 /\ Scan!Bytes(a, WordSize) = Target
    <3>1. a \in base..base + n - WordSize /\ Match(blob, a - base) /\ a % WordSize = 0
      BY <1>1 DEF Aligned
    <3>2. a \in base..base + n - 1
      BY <1>3, <3>1
    <3>. QED
      BY <1>4, <3>1, <3>2
  <2>2. ASSUME NEW a \in base..base + n - 1, a % WordSize = 0, Scan!Bytes(a, WordSize) = Target
        PROVE  a \in Aligned(blob, base, 0)
    <3>1. a \in base..base + n - WordSize
      BY <1>3, <1>5, <2>2
    <3>2. Match(blob, a - base) /\ a \in base + 0..base + Len(blob) - WordSize
      BY <1>1, <1>4, <2>2, <3>1
    <3>. QED
      BY <2>2, <3>2 DEF Aligned
  <2>. QED
    BY <2>1, <2>2
<1>. QED
  BY <1>2, <1>6 DEF blob

\* Two ascending runs, the second above the first, and what is left of them when cut.
LEMMA Joined ==
  ASSUME NEW s \in Seq(Nat), NEW t \in Seq(Nat), Rising(s), Rising(t),
         \A x \in ToSet(s) : \A y \in ToSet(t) : x < y, NEW max \in Nat
  PROVE  LET all == s \o t
             cut == SubSeq(all, 1, IF Len(all) < max THEN Len(all) ELSE max)
         IN  /\ cut \in Seq(Nat) /\ Rising(cut) /\ ToSet(cut) \subseteq ToSet(s) \cup ToSet(t)
             /\ Len(cut) < max => Len(s) < max /\ ToSet(s) \cup ToSet(t) \subseteq ToSet(cut)
<1>. DEFINE all == s \o t
            m == IF Len(all) < max THEN Len(all) ELSE max
            cut == SubSeq(all, 1, m)
<1>1. Len(s) \in Nat /\ Len(t) \in Nat /\ DOMAIN s = 1..Len(s) /\ DOMAIN t = 1..Len(t)
  BY LenProperties
<1>2. /\ all \in Seq(Nat) /\ Len(all) = Len(s) + Len(t)
      /\ \A i \in 1..Len(s) + Len(t) : all[i] = IF i <= Len(s) THEN s[i] ELSE t[i - Len(s)]
  BY ConcatProperties
<1>. HIDE DEF all
<1>3. \A i \in 1..Len(s) : all[i] = s[i]
  BY <1>1, <1>2
<1>4. ASSUME NEW i \in 1..Len(t) PROVE all[Len(s) + i] = t[i]
  <2>1. Len(s) + i \in 1..Len(s) + Len(t) /\ ~(Len(s) + i <= Len(s)) /\ Len(s) + i - Len(s) = i
    BY <1>1
  <2>. QED
    BY <1>2, <2>1
<1>5. \A i \in 1..Len(s) + Len(t) :
        \/ i \in 1..Len(s) /\ all[i] = s[i]
        \/ i - Len(s) \in 1..Len(t) /\ i > Len(s) /\ all[i] = t[i - Len(s)]
  BY <1>1, <1>2
<1>6. \A i \in 1..Len(s) + Len(t) : \A j \in 1..i - 1 : all[j] < all[i]
  <2>. SUFFICES ASSUME NEW i \in 1..Len(s) + Len(t), NEW j \in 1..i - 1 PROVE all[j] < all[i]
    OBVIOUS
  <2>1. j \in 1..Len(s) + Len(t) /\ j < i
    BY <1>1
  <2>2. CASE i \in 1..Len(s)
    <3>1. j \in 1..Len(s)
      BY <1>1, <2>2
    <3>. QED
      BY <1>3, <2>2, <3>1 DEF Rising
  <2>3. CASE i \notin 1..Len(s)
    <3>1. i - Len(s) \in 1..Len(t) /\ all[i] = t[i - Len(s)] /\ t[i - Len(s)] \in ToSet(t)
      BY <1>1, <1>5, <2>3 DEF ToSet
    <3>2. CASE j \in 1..Len(s)
      <4>1. all[j] = s[j] /\ s[j] \in ToSet(s)
        BY <1>1, <1>3, <3>2 DEF ToSet
      <4>. QED
        BY <3>1, <4>1
    <3>3. CASE j \notin 1..Len(s)
      <4>1. all[j] = t[j - Len(s)]
        BY <1>5, <2>1, <3>3
      <4>2. j - Len(s) \in 1..i - Len(s) - 1
        BY <1>1, <2>1, <3>3
      <4>. QED
        BY <3>1, <4>1, <4>2 DEF Rising
    <3>. QED
      BY <3>2, <3>3
  <2>. QED
    BY <2>2, <2>3
<1>7. m \in 0..Len(all)
  BY <1>1, <1>2
<1>8. cut \in Seq(Nat) /\ Len(cut) = m /\ DOMAIN cut = 1..m /\ \A i \in 1..m : cut[i] = all[i]
  <2>. HIDE DEF m
  <2>1. (\A i \in 1..m : all[i] \in Nat) /\ m \in Nat /\ 1 \in Int
    BY <1>1, <1>2, <1>7, ElementOfSeq
  <2>2. /\ cut \in Seq(Nat) /\ Len(cut) = IF 1 <= m THEN m - 1 + 1 ELSE 0
        /\ \A i \in 1..m - 1 + 1 : cut[i] = all[1 + i - 1]
    BY <2>1, SubSeqProperties
  <2>. HIDE DEF cut
  <2>3. Len(cut) = m /\ (m - 1 + 1 = m) /\ \A i \in 1..m : 1 + i - 1 = i
    BY <2>1, <2>2
  <2>4. DOMAIN cut = 1..m
    BY <2>2, <2>3, LenProperties
  <2>5. \A i \in 1..m : cut[i] = all[i]
    BY <2>2, <2>3
  <2>. QED
    BY <2>2, <2>3, <2>4, <2>5
<1>. HIDE DEF cut
<1>9. Rising(cut)
  <2>. SUFFICES ASSUME NEW i \in 1..m, NEW j \in 1..i - 1 PROVE cut[j] < cut[i]
    BY <1>8 DEF Rising
  <2>1. i \in 1..Len(s) + Len(t) /\ j \in 1..m
    BY <1>1, <1>2, <1>7
  <2>. QED
    BY <1>6, <1>8, <2>1
<1>10. ASSUME NEW x \in ToSet(cut) PROVE x \in ToSet(s) \cup ToSet(t)
  <2>1. PICK i \in 1..m : x = all[i]
    BY <1>8 DEF ToSet
  <2>2. i \in 1..Len(s) + Len(t)
    BY <1>1, <1>2, <1>7
  <2>. QED
    BY <1>1, <1>5, <2>1, <2>2 DEF ToSet
<1>11. ASSUME Len(cut) < max PROVE Len(s) < max /\ ToSet(s) \cup ToSet(t) \subseteq ToSet(cut)
  <2>1. m = Len(s) + Len(t) /\ Len(s) < max
    BY <1>1, <1>2, <1>8, <1>11
  <2>2. ASSUME NEW x \in ToSet(s) PROVE x \in ToSet(cut)
    <3>1. PICK i \in 1..Len(s) : x = s[i]
      BY <1>1 DEF ToSet
    <3>2. i \in 1..m
      BY <1>1, <2>1
    <3>. QED
      BY <1>3, <1>8, <3>1, <3>2 DEF ToSet
  <2>3. ASSUME NEW x \in ToSet(t) PROVE x \in ToSet(cut)
    <3>1. PICK i \in 1..Len(t) : x = t[i]
      BY <1>1 DEF ToSet
    <3>2. Len(s) + i \in 1..m
      BY <1>1, <2>1
    <3>. QED
      BY <1>4, <1>8, <3>1, <3>2 DEF ToSet
  <2>. QED
    BY <2>1, <2>2, <2>3
<1>. QED
  BY <1>8, <1>9, <1>10, <1>11 DEF cut, all

LEMMA ReadChunkKeeps == ASSUME Scan!ScanAssumption PROVE ScanInv /\ Scan!ReadChunk => ScanInv'
<1>. SUFFICES ASSUME ScanInv, Scan!ReadChunk PROVE ScanInv'
  OBVIOUS
<1>. DEFINE want == IF limit - address < Chunk THEN limit - address ELSE Chunk
            readable == \A a \in address..address + want - 1 : Scan!PageOf(a) \in open
            found == IF readable THEN Scan!Found(Scan!Bytes(address, want), address) ELSE <<>>
            all == hits \o found
            New == {a \in address..address + want - 1 :
                      a % WordSize = 0 /\ Scan!Bytes(a, WordSize) = Target}
<1>1. /\ hits' = SubSeq(all, 1, IF Len(all) < MaxHits THEN Len(all) ELSE MaxHits)
      /\ address' = IF Len(hits') >= MaxHits THEN limit ELSE address + want
      /\ limit' = IF address' >= limit THEN 0 ELSE limit
  BY DEF Scan!ReadChunk
<1>2. UNCHANGED <<page, open, writes, steady>> /\ limit > 0
  BY DEF Scan!ReadChunk, Scan!game
<1>3. Scan!Holding' = Scan!Holding
  BY <1>2 DEF Scan!Holding, Scan!Words, Scan!Bytes, Scan!Byte, Scan!PageOf, Scan!End
<1>4. kept' = kept /\ had' = had /\ kept \subseteq Scan!Holding /\ Scan!Holding \subseteq had
  BY <1>3 DEF Scan!ReadChunk, Scan!Follow, ScanInv, KeptOK
<1>5. /\ WordSize \in Nat \ {0} /\ Chunk \in Nat \ {0} /\ Chunk % WordSize = 0 /\ MaxHits \in Nat
      /\ Scan!End \in Nat
  <2>1. Scan!End = NPages * PageSize /\ NPages \in Nat /\ PageSize \in Nat
    BY ScanNumbers DEF Scan!End
  <2>. QED
    BY <2>1, ScanNumbers
<1>6. /\ address \in Nat /\ address % WordSize = 0 /\ limit \in Nat /\ address < limit /\ limit <= Scan!End
      /\ steady => \A a \in address..limit - 1 : Scan!PageOf(a) \in open
      /\ \E q \in Nat : limit = PageSize * q
  BY <1>2 DEF ScanInv, PlaceOK
<1>7. hits \in Seq(Nat) /\ Rising(hits) /\ \A a \in ToSet(hits) : a < address /\ a \in had /\ a \in Nat
  <2>1. hits \in Seq(Nat)
    BY DEF ScanInv, HitsOK
  <2>2. \A a \in ToSet(hits) : a \in Nat
    BY <2>1, ElementOfSeq, LenProperties DEF ToSet
  <2>. QED
    BY <2>1, <2>2 DEF ScanInv, HitsOK
<1>8. limit % WordSize = 0
  BY <1>6, PageStarts
<1>9. want \in Nat \ {0} /\ want % WordSize = 0 /\ address + want <= limit
  <2>1. (limit - address) % WordSize = 0
    <3>1. PICK p \in Nat : address = WordSize * p
      BY <1>5, <1>6, Multiple
    <3>2. PICK q \in Nat : limit = WordSize * q
      BY <1>5, <1>6, <1>8, Multiple
    <3>3. p < q
      <4>1. q <= p => WordSize * q <= WordSize * p
        BY <1>5, TimesLess
      <4>. QED
        BY <1>6, <3>1, <3>2, <4>1
    <3>4. limit - address = WordSize * (q - p) /\ q - p \in Nat /\ limit - address \in Nat
      BY <1>5, <1>6, <3>1, <3>2, <3>3
    <3>. QED
      BY <1>5, <3>4, Multiple
  <2>. QED
    BY <1>5, <1>6, <2>1
<1>. HIDE DEF want
<1>10. /\ found \in Seq(Nat) /\ Rising(found) /\ ToSet(found) \subseteq New
       /\ readable => ToSet(found) = New
  <2>1. CASE readable
    <3>1. found = Scan!Found(Scan!Bytes(address, want), address)
      BY <2>1
    <3>2. found \in Seq(Nat) /\ Rising(found) /\ ToSet(found) = New
      BY <1>6, <1>9, <3>1, ChunkFound
    <3>. QED
      BY <3>2
  <2>2. CASE ~readable
    <3>1. found = <<>>
      BY <2>2
    <3>. QED
      BY <2>2, <3>1, EmptySeq DEF Rising, ToSet
  <2>. QED
    BY <2>1, <2>2
<1>11. ASSUME NEW a \in ToSet(found) PROVE a \in had /\ a \in Nat /\ address <= a /\ a < address + want
  <2>1. a \in New
    BY <1>10
  <2>2. a \in Nat /\ address <= a /\ a < address + want /\ a \in address..address + want - 1
    BY <1>6, <1>9, <2>1
  <2>3. readable
    BY EmptySeq DEF ToSet
  <2>4. Scan!PageOf(a) \in open
    BY <2>2, <2>3
  <2>5. a \in Scan!Words
    BY <1>5, <1>6, <1>9, <2>1, <2>2 DEF Scan!Words
  <2>6. a \in Scan!Holding
    BY <2>1, <2>4, <2>5 DEF Scan!Holding
  <2>. QED
    BY <1>4, <2>2, <2>6
<1>12. ASSUME steady, NEW a \in kept, address <= a, a < address + want PROVE a \in ToSet(found)
  <2>1. a \in Nat /\ a % WordSize = 0 /\ Scan!Bytes(a, WordSize) = Target
    BY <1>4, <1>5 DEF Scan!Holding, Scan!Words
  <2>2. a \in New
    BY <1>6, <1>9, <1>12, <2>1
  <2>3. \A b \in address..address + want - 1 : b \in address..limit - 1
    BY <1>6, <1>9
  <2>4. readable
    BY <1>6, <1>12, <2>3
  <2>. QED
    BY <1>10, <2>2, <2>4
<1>. HIDE DEF found
<1>13. \A x \in ToSet(hits) : \A y \in ToSet(found) : x < y
  BY <1>6, <1>7, <1>11
<1>14. /\ hits' \in Seq(Nat) /\ Rising(hits') /\ ToSet(hits') \subseteq ToSet(hits) \cup ToSet(found)
       /\ Len(hits') < MaxHits => /\ Len(hits) < MaxHits
                                  /\ ToSet(hits) \cup ToSet(found) \subseteq ToSet(hits')
  BY <1>1, <1>5, <1>7, <1>10, <1>13, Joined
<1>15. /\ address' \in Nat /\ address' % WordSize = 0 /\ address + want <= address' /\ address' <= limit
       /\ Len(hits') < MaxHits => address' = address + want
  <2>1. Len(hits') \in Nat
    BY <1>14, LenProperties
  <2>2. (address + want) % WordSize = 0
    BY <1>5, <1>6, <1>9, NextMultiple
  <2>. QED
    BY <1>1, <1>5, <1>6, <1>8, <1>9, <2>1, <2>2
<1>16. PlaceOK'
  <2>1. CASE address' = limit
    <3>1. limit' = 0
      <4>1. limit' = IF address' >= limit THEN 0 ELSE limit
        BY <1>1
      <4>. QED
        BY <1>6, <2>1, <4>1
    <3>. QED
      BY <1>6, <1>15, <2>1, <3>1 DEF PlaceOK
  <2>2. CASE address' # limit
    <3>1. limit' = limit /\ address' < limit
      <4>1. limit' = IF address' >= limit THEN 0 ELSE limit
        BY <1>1
      <4>. QED
        BY <1>6, <1>15, <2>2, <4>1
    <3>2. \A a \in address'..limit - 1 : a \in address..limit - 1
      BY <1>6, <1>9, <1>15
    <3>3. steady' => \A a \in address'..limit' - 1 : Scan!PageOf(a)' \in open'
      BY <1>2, <1>6, <3>1, <3>2 DEF Scan!PageOf
    <3>. QED
      BY <1>2, <1>6, <1>15, <3>1, <3>3 DEF PlaceOK, Scan!PageOf, Scan!End
  <2>. QED
    BY <2>1, <2>2
<1>17. HitsOK'
  <2>1. ASSUME NEW a \in ToSet(hits') PROVE a < address' /\ a \in had
    <3>1. CASE a \in ToSet(hits)
      BY <1>6, <1>7, <1>9, <1>15, <3>1
    <3>2. CASE a \in ToSet(found)
      BY <1>6, <1>9, <1>11, <1>15, <3>2
    <3>. QED
      BY <1>14, <3>1, <3>2
  <2>. QED
    BY <1>4, <1>14, <2>1 DEF HitsOK, Rising, ToSet
<1>18. KeptOK'
  <2>1. ASSUME steady, Len(hits') < MaxHits, NEW a \in kept, a < address' PROVE a \in ToSet(hits')
    <3>1. address' = address + want /\ Len(hits) < MaxHits
      BY <1>14, <1>15, <2>1
    <3>2. a \in Nat
      BY <1>4, <1>5 DEF Scan!Holding, Scan!Words
    <3>3. CASE a < address
      <4>1. a \in ToSet(hits)
        BY <2>1, <3>1, <3>3 DEF ScanInv, KeptOK
      <4>. QED
        BY <1>14, <2>1, <4>1
    <3>4. CASE address <= a
      <4>1. a \in ToSet(found)
        BY <1>12, <2>1, <3>1, <3>4
      <4>. QED
        BY <1>14, <2>1, <4>1
    <3>. QED
      BY <1>6, <3>2, <3>3, <3>4
  <2>. QED
    BY <1>2, <1>3, <1>4, <2>1 DEF KeptOK, ToSet
<1>. QED
  BY <1>16, <1>17, <1>18 DEF ScanInv

\* scan_private_memory_for_vtable() reports only what was there, in ascending order and no
\* address twice; and when no page came or went and the limit of hits was not reached, it
\* has found every object that stayed where it was, for every size of word, page and
\* chunk, wherever the target lies and whatever the game writes meanwhile.
THEOREM ScanFindsWhatStays == ASSUME Scan!ScanAssumption PROVE Scan!Spec => []Scan!ScanSound
<1>1. Scan!Init => ScanInv
  BY ScanInvInit
<1>2. ScanInv /\ [Scan!Next]_(Scan!vars) => ScanInv'
  <2>. SUFFICES ASSUME ScanInv, [Scan!Next]_(Scan!vars) PROVE ScanInv'
    OBVIOUS
  <2>1. CASE Scan!Query
    BY <2>1, QueryKeeps
  <2>2. CASE Scan!ReadChunk
    BY <2>2, ReadChunkKeeps
  <2>3. CASE Scan!Writes
    BY <2>3, WritesKeep
  <2>4. CASE UNCHANGED Scan!vars
    <3>1. UNCHANGED <<page, open, writes, steady, address, limit, hits, kept, had>>
      BY <2>4 DEF Scan!vars, Scan!game, Scan!scan
    <3>2. PlaceOK' /\ HitsOK'
      BY <3>1 DEF ScanInv, PlaceOK, HitsOK, Scan!PageOf, Scan!End, Rising, ToSet
    <3>3. KeptOK'
      BY <3>1 DEF ScanInv, KeptOK, Scan!Holding, Scan!Words, Scan!Bytes, Scan!Byte, Scan!PageOf, Scan!End, ToSet
    <3>. QED
      BY <3>2, <3>3 DEF ScanInv
  <2>. QED
    BY <2>1, <2>2, <2>3, <2>4 DEF Scan!Next
<1>3. ScanInv => Scan!ScanSound
  <2>. SUFFICES ASSUME ScanInv PROVE Scan!ScanSound
    OBVIOUS
  <2>1. hits \in Seq(Nat) /\ Rising(hits) /\ DOMAIN hits = 1..Len(hits)
    BY LenProperties DEF ScanInv, HitsOK
  <2>2. \A k \in DOMAIN hits : hits[k] \in had
    BY DEF ScanInv, HitsOK, ToSet
  <2>3. ASSUME Scan!Done, Len(hits) < MaxHits, steady, NEW a \in kept PROVE a \in ToSet(hits)
    <3>1. MaxHits \in Nat /\ Len(hits) \in Nat /\ Scan!End \in Nat /\ address \in Nat
      <4>1. Scan!End = NPages * PageSize /\ NPages \in Nat /\ PageSize \in Nat
        BY ScanNumbers DEF Scan!End
      <4>. QED
        BY <2>1, <4>1, ScanNumbers, LenProperties DEF ScanInv, PlaceOK
    <3>2. address >= Scan!End
      BY <2>3, <3>1 DEF Scan!Done
    <3>3. a \in 0..Scan!End - 1
      BY DEF ScanInv, KeptOK, Scan!Holding, Scan!Words
    <3>4. a < address
      BY <3>1, <3>2, <3>3
    <3>. QED
      BY <2>3, <3>4 DEF ScanInv, KeptOK
  <2>. QED
    BY <2>1, <2>2, <2>3, ScanLibrary DEF Scan!ScanSound, Rising
<1>. QED
  BY <1>1, <1>2, <1>3, PTL DEF Scan!Spec

=============================================================================
