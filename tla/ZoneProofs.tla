----------------------------- MODULE ZoneProofs -----------------------------
(***************************************************************************)
(* Proofs about a connection to the Zone port: its key (GameKeys) and what *)
(* it is told (ZoneLobby), for any connections, requests and crashes.      *)
(*                                                                         *)
(* ClanKept: a clan whose creation was confirmed, or whose ClanID was told *)
(* though its save did not fail, is never lost.  Nothing in it says that a *)
(* clan with no file was created before the file was moved aside, nor what *)
(* a connection has in memory; ClanInv adds that clans are numbered as     *)
(* they are created, so that none told or on disk comes after the last     *)
(* one, and that what is in memory is on disk or its save has failed.      *)
(*                                                                         *)
(* ToldOnce: the profile once per login and as one block, the friend's     *)
(* invite once and not to a friend.  ToldInv relates what a client was     *)
(* told to the flags of its thread: a profile that is pending has a login  *)
(* without one, and only a broken socket was told a part of a profile.     *)
(*                                                                         *)
(* KeysRight: the server's key is that of the connection it has it for.    *)
(* A game opens its connections one after the other, each when those       *)
(* before have switched or closed (Ordered).  Until it switches, only what *)
(* is its own or older is in memory (HeapOK).  Of an older connection that *)
(* has echoed the challenge, the server's key was right, so the address it *)
(* was found at is the object's, and it is noted before the SYN goes out   *)
(* (FoundOK, RightOK); so it is among those a later connection has seen    *)
(* (SeenOK).                                                               *)
(***************************************************************************)
EXTENDS ZoneLobby, FiniteSetTheorems, SequenceTheorems, TLAPS

CONSTANTS Anchors, KeyModes, Tries, MaxConns, MaxRuns     \* GameKeys
VARIABLES run, heap, client, born, used, server, seen, tried, found, mode, key, right

Keys == INSTANCE GameKeys WITH Modes <- KeyModes

-----------------------------------------------------------------------------
(* The clan                                                                *)

Safe(k) == file >= k \/ k <= asideAt
ClanInv ==
  /\ clans \in Nat /\ file \in 0..clans /\ asideAt \in 0..clans
  /\ granted \subseteq 1..clans /\ shown \subseteq 1..clans
  /\ clan \in [Sockets -> 0..clans]
  /\ \A c \in Sockets : clan[c] = NoClan \/ clan[c] \in unsaved \/ Safe(clan[c])
  /\ ClanKept

onDisk == <<file, clans, granted, unsaved, asideAt>>

\* What most requests leave alone.
LEMMA Untouched == ASSUME ClanInv, UNCHANGED <<onDisk, shown, clan>> PROVE ClanInv'
  BY DEF ClanInv, ClanKept, Safe, onDisk

\* An A005 tells the clan its connection has in memory.
LEMMA ShowsKeeps ==
  ASSUME NEW c \in Sockets, NEW out, ClanInv, UNCHANGED <<onDisk, clan>>, Shows(c, clan[c], out)
  PROVE  ClanInv'
<1>1. shown' = shown \/ (clan[c] # NoClan /\ shown' = shown \cup {clan[c]})
  BY DEF Shows
<1>2. clan[c] \in 0..clans /\ (clan[c] = NoClan \/ clan[c] \in unsaved \/ Safe(clan[c]))
  BY DEF ClanInv
<1>3. UNCHANGED <<file, clans, granted, unsaved, asideAt, clan>>
  BY DEF onDisk
<1>4. shown' \subseteq 1..clans
  <2>1. clan[c] # NoClan => clan[c] \in 1..clans
    BY <1>2 DEF ClanInv, NoClan
  <2>. QED
    BY <1>1, <2>1 DEF ClanInv
<1>5. ClanKept'
  <2>. SUFFICES ASSUME NEW k \in granted \cup (shown' \ unsaved) PROVE Safe(k)
    BY <1>3 DEF ClanKept, Safe
  <2>1. CASE k \in granted \cup (shown \ unsaved)
    BY <2>1 DEF ClanInv, ClanKept, Safe
  <2>2. CASE k = clan[c]
    BY <1>1, <1>2, <2>2, <2>1 DEF ClanInv, ClanKept, Safe
  <2>. QED
    BY <1>1, <2>1, <2>2
<1>. QED
  BY <1>3, <1>4, <1>5 DEF ClanInv, Safe

\* A connection that ends takes its clan along.
LEMMA ForgetsClan ==
  ASSUME ClanInv, NEW gone, Forgets(gone), UNCHANGED <<onDisk, shown>>
  PROVE  ClanInv'
<1>1. clan' = [c \in Sockets |-> IF c \in gone THEN NoClan ELSE clan[c]]
  BY DEF Forgets
<1>. QED
  BY <1>1 DEF ClanInv, ClanKept, Safe, onDisk, NoClan

\* The start: no clan and no file.
LEMMA InitClan == ASSUME Init PROVE ClanInv
  BY DEF Init, ClanInv, ClanKept, Safe, NoClan

\* A file that is moved aside is older than nothing that was granted, and a clan that was
\* read is on disk.
LEMMA OpenKeeps == ASSUME NEW c \in Sockets, ClanInv, Opens(c) PROVE ClanInv'
<1>1. UNCHANGED <<clans, granted, shown, unsaved>>
  BY DEF Opens
<1>2. CASE clan' = [clan EXCEPT ![c] = file] /\ UNCHANGED <<file, asideAt>>
  BY <1>1, <1>2 DEF ClanInv, ClanKept, Safe, NoClan
<1>3. CASE clan' = [clan EXCEPT ![c] = NoClan] /\ file' = NoClan /\ asideAt' = clans
  BY <1>1, <1>3 DEF ClanInv, ClanKept, Safe, NoClan
<1>4. CASE clan' = [clan EXCEPT ![c] = NoClan] /\ UNCHANGED <<file, asideAt>>
  BY <1>1, <1>4 DEF ClanInv, ClanKept, Safe, NoClan
<1>. QED
  BY <1>2, <1>3, <1>4 DEF Opens, LoadsClan

\* A clan is granted only when it is on disk, and replaces an older one.
LEMMA CreateKeeps ==
  ASSUME NEW c \in Sockets, NEW name, ClanInv, CreateClan(c, name)
  PROVE  ClanInv'
<1>1. CASE ~Valid(name)
  BY <1>1, Untouched DEF CreateClan, onDisk
<1>2. CASE Valid(name)
  <2>. PICK writes \in BOOLEAN : CreatesClan(c, name, writes)
    BY <1>2 DEF CreateClan
  <2>0. asideAt' = asideAt
    BY DEF CreateClan
  <2>1. /\ clans' = clans + 1 /\ file' = (IF writes THEN clans' ELSE file)
        /\ unsaved' = (IF writes THEN unsaved ELSE unsaved \cup {clans'})
        /\ clan' = [clan EXCEPT ![c] = clans']
    BY DEF CreatesClan
  <2>2. CASE writes
    <3>1. granted' \subseteq granted \cup {clans'} /\ shown' \subseteq shown \cup {clans'}
      BY Zenon DEF CreatesClan, Shows
    <3>. QED
      BY <2>0, <2>1, <2>2, <3>1 DEF ClanInv, ClanKept, Safe
  <2>3. CASE ~writes
    <3>1. granted' = granted /\ shown' = shown
      BY <2>3 DEF CreatesClan
    <3>. QED
      BY <2>0, <2>1, <2>3, <3>1 DEF ClanInv, ClanKept, Safe
  <2>. QED
    BY <2>2, <2>3
<1>. QED
  BY <1>1, <1>2

\* Every step.
LEMMA StepKeeps == ASSUME ClanInv, [Next]_vars PROVE ClanInv'
<1>1. CASE UNCHANGED vars
  BY <1>1, Untouched DEF vars, disk, onDisk
<1>2. CASE Crashes
  BY <1>2, ForgetsClan DEF Crashes, disk, onDisk
<1>3. ASSUME NEW c \in Sockets, Opens(c) PROVE ClanInv'
  BY <1>3, OpenKeeps
<1>4. ASSUME NEW c \in Sockets, NEW name, CreateClan(c, name) PROVE ClanInv'
  BY <1>4, CreateKeeps
<1>5. ASSUME NEW c \in Sockets, Ends(c) PROVE ClanInv'
  BY <1>5, ForgetsClan DEF Ends, onDisk
<1>6. ASSUME NEW c \in Sockets, Login(c) \/ DeleteFriend(c) PROVE ClanInv'
  BY <1>6, Untouched DEF Login, DeleteFriend, disk, onDisk
<1>9. ASSUME NEW c \in Sockets, Ready(c) \/ Refreshes(c) PROVE ClanInv'
  <2>1. UNCHANGED <<onDisk, clan>>
    BY <1>9 DEF Ready, Refreshes, DiskKept, onDisk
  <2>2. shown' = shown \/ \E out \in BOOLEAN : Shows(c, clan[c], out)
    BY <1>9, Zenon DEF Ready, Refreshes, SendsProfile, Shows
  <2>. QED
    BY <2>1, <2>2, Untouched, ShowsKeeps
<1>7. ASSUME NEW c \in Sockets, NEW x,
             CreateAccount(c, x) \/ AddFriend(c, x) \/ CreateRoom(c, x)
               \/ FriendStatus(c, x) \/ AnswerInvite(c, x) \/ AsksOnly(c, x)
      PROVE  ClanInv'
  BY <1>7, Untouched
     DEF CreateAccount, AddFriend, CreateRoom, FriendStatus, AnswerInvite, AsksOnly, disk, onDisk
<1>8. ASSUME NEW c \in Sockets, NEW m, NEW s, NEW w, RoomList(c, m, s, w) PROVE ClanInv'
  BY <1>8, Untouched DEF RoomList, disk, onDisk
<1>. QED
  BY <1>1, <1>2, <1>3, <1>4, <1>5, <1>6, <1>7, <1>8, <1>9 DEF Next

\* A clan whose creation was confirmed to its client (A602), or whose ClanID an A005 told
\* and whose own save did not fail, is on disk, or was replaced by a later one, unless the
\* file could not be read afterwards: _v94_save_clan_state comes before every answer.
THEOREM ClanOutlives == Spec => []ClanKept
<1>1. Init => ClanInv
  BY InitClan
<1>2. ClanInv /\ [Next]_vars => ClanInv'
  BY StepKeeps
<1>3. ClanInv => ClanKept
  BY DEF ClanInv
<1>. QED
  BY <1>1, <1>2, <1>3, PTL DEF Spec
-----------------------------------------------------------------------------
(* The elements of a sequence that are in a set                            *)

Kept(s, S) == {i \in DOMAIN s : s[i] \in S}
Rank(s, S, i) == Cardinality({j \in Kept(s, S) : j <= i})

LEMMA OnlyIs ==
  ASSUME NEW s, NEW S
  PROVE  Only(s, S) = [n \in 1..Cardinality(Kept(s, S)) |->
                         s[CHOOSE i \in Kept(s, S) : Rank(s, S, i) = n]]
  BY DEF Only, Kept, Rank

\* All of them, or none.
LEMMA OnlyAll ==
  ASSUME NEW T, NEW s \in Seq(T), NEW S, \A i \in 1..Len(s) : s[i] \in S
  PROVE  Only(s, S) = s
<1>. DEFINE L == Len(s)
            at(n) == CHOOSE i \in Kept(s, S) : Rank(s, S, i) = n
<1>1. L \in Nat /\ DOMAIN s = 1..L /\ s \in [1..L -> T]
  BY LenProperties
<1>2. Kept(s, S) = 1..L
  BY <1>1 DEF Kept
<1>. HIDE DEF L
<1>3. Cardinality(Kept(s, S)) = L
  <2>1. Cardinality(1..L) = IF 1 > L THEN 0 ELSE L - 1 + 1
    BY <1>1, FS_Interval
  <2>. QED
    BY <1>1, <1>2, <2>1
<1>4. ASSUME NEW n \in 1..L PROVE Rank(s, S, n) = n
  <2>1. {j \in 1..L : j <= n} = 1..n
    BY <1>1
  <2>2. Cardinality(1..n) = n
    <3>1. Cardinality(1..n) = IF 1 > n THEN 0 ELSE n - 1 + 1
      BY <1>1, FS_Interval
    <3>. QED
      BY <1>1, <3>1
  <2>3. {j \in Kept(s, S) : j <= n} = 1..n
    BY <1>2, <2>1
  <2>. QED
    BY <2>2, <2>3 DEF Rank
<1>5. ASSUME NEW n \in 1..L PROVE at(n) = n
  <2>1. at(n) \in Kept(s, S) /\ Rank(s, S, at(n)) = n
    BY <1>2, <1>4
  <2>. HIDE DEF at
  <2>. QED
    BY <1>2, <1>4, <2>1
<1>. HIDE DEF at
<1>6. [n \in 1..L |-> s[at(n)]] = s
  BY <1>1, <1>5
<1>. QED
  BY <1>3, <1>6, OnlyIs DEF at

LEMMA OnlyNone ==
  ASSUME NEW T, NEW s \in Seq(T), NEW S, \A i \in 1..Len(s) : s[i] \notin S
  PROVE  Only(s, S) = <<>>
<1>1. Kept(s, S) = {}
  BY LenProperties DEF Kept
<1>2. Cardinality(Kept(s, S)) = 0
  BY <1>1, FS_EmptySet
<1>. DEFINE e == [n \in 1..0 |-> s[CHOOSE i \in Kept(s, S) : Rank(s, S, i) = n]]
<1>3. Only(s, S) = e
  BY <1>2, OnlyIs
<1>4. e = <<>>
  OBVIOUS
<1>. QED
  BY <1>3, <1>4

\* No more of them than there are elements.
LEMMA OnlySome ==
  ASSUME NEW T, NEW s \in Seq(T), NEW S
  PROVE  \E U : Only(s, S) \in Seq(U) /\ Len(Only(s, S)) <= Len(s)
<1>. DEFINE m == Cardinality(Kept(s, S))
            U == {s[CHOOSE i \in Kept(s, S) : Rank(s, S, i) = n] : n \in 1..m}
<1>1. Len(s) \in Nat /\ DOMAIN s = 1..Len(s)
  BY LenProperties
<1>2. IsFiniteSet(1..Len(s)) /\ Cardinality(1..Len(s)) = Len(s)
  <2>1. IsFiniteSet(1..Len(s)) /\ Cardinality(1..Len(s)) = IF 1 > Len(s) THEN 0 ELSE Len(s) - 1 + 1
    BY <1>1, FS_Interval
  <2>2. \A n \in Nat : (IF 1 > n THEN 0 ELSE n - 1 + 1) = n
    OBVIOUS
  <2>. QED
    BY <1>1, <2>1, <2>2
<1>3. Kept(s, S) \in SUBSET (1..Len(s))
  BY <1>1 DEF Kept
<1>4. m \in Nat /\ m <= Len(s)
  <2>1. IsFiniteSet(Kept(s, S)) /\ m <= Cardinality(1..Len(s))
    BY <1>2, <1>3, FS_Subset
  <2>. QED
    BY <1>2, <2>1, FS_CardinalityType
<1>5. Only(s, S) \in [1..m -> U]
  BY OnlyIs
<1>. HIDE DEF m, U
<1>6. Only(s, S) \in Seq(U)
  BY <1>4, <1>5, SeqDef
<1>7. Len(Only(s, S)) = m
  BY <1>4, <1>5, <1>6, LenProperties
<1>. QED
  BY <1>4, <1>6, <1>7

\* The one that is in the set, behind one that is not.
LEMMA OnlySecond ==
  ASSUME NEW a, NEW b, NEW S, a \notin S, b \in S
  PROVE  Only(<<a, b>>, S) = <<b>>
<1>. DEFINE s == <<a, b>>
            at(n) == CHOOSE i \in Kept(s, S) : Rank(s, S, i) = n
<1>1. Kept(s, S) = {2}
  <2>1. DOMAIN s = 1..2 /\ s[1] = a /\ s[2] = b
    OBVIOUS
  <2>. HIDE DEF s
  <2>2. \A i \in 1..2 : i = 1 \/ i = 2
    OBVIOUS
  <2>. QED
    BY <2>1, <2>2 DEF Kept
<1>2. Cardinality(Kept(s, S)) = 1 /\ Rank(s, S, 2) = 1
  <2>1. {j \in {2} : j <= 2} = {2}
    OBVIOUS
  <2>2. Cardinality({2}) = 1
    BY FS_Singleton
  <2>. HIDE DEF s
  <2>. QED
    BY <1>1, <2>1, <2>2 DEF Rank
<1>3. at(1) = 2
  <2>. HIDE DEF s
  <2>. QED
    BY <1>1, <1>2
<1>4. Only(s, S) = [n \in 1..1 |-> s[at(n)]]
  BY <1>2, OnlyIs
<1>5. s[2] = b
  OBVIOUS
<1>6. \A n \in 1..1 : s[at(n)] = b
  <2>. HIDE DEF s, at
  <2>1. \A n \in 1..1 : n = 1
    OBVIOUS
  <2>. QED
    BY <1>3, <1>5, <2>1
<1>. HIDE DEF s, at
<1>7. [n \in 1..1 |-> s[at(n)]] = [n \in 1..1 |-> b]
  BY <1>6
<1>8. [n \in 1..1 |-> b] = <<b>>
  OBVIOUS
<1>. QED
  BY <1>4, <1>7, <1>8 DEF s

-----------------------------------------------------------------------------
(* One message more                                                        *)

Last1(t, x) == Len(t) > 0 /\ t[Len(t)] = x
Answered(t) == \A j \in DOMAIN t : t[j] = "FRIEND" => \E k \in (j + 1)..Len(t) : t[k] = "UNFRIENDED"

\* What may come next without breaking the promise.
MayFollow(t, m) ==
  /\ m = "PLAYERINFO" => Count(t, "PLAYERINFO") < Count(t, "LOGIN")
  /\ \A k \in 1..3 : Last1(t, Profile[k]) <=> (Len(t) > 0 /\ m = Profile[k + 1])
  /\ m = "INVITE" => Count(t, "INVITE") = 0 /\ Answered(t)

\* ToldOnce, of what one client was told.
Fine(t) ==
  \A i \in DOMAIN t :
    LET m == t[i]
        before == Upto(t, i - 1)
    IN /\ m = "PLAYERINFO" => Count(before, "PLAYERINFO") < Count(before, "LOGIN")
       /\ \A k \in 1..3 : (m = Profile[k] /\ i < Len(t)) <=> (i < Len(t) /\ t[i + 1] = Profile[k + 1])
       /\ m = "INVITE" =>
            /\ Count(before, "INVITE") = 0
            /\ \A j \in DOMAIN before : before[j] = "FRIEND" =>
                 \E k \in (j + 1)..Len(before) : before[k] = "UNFRIENDED"

LEMMA ToldFine == ToldOnce <=> \A c \in Sockets : Fine(told[c])
  BY DEF ToldOnce, Fine

\* What stays as it was, and what the new message is.
LEMMA OneMore ==
  ASSUME NEW T, NEW t \in Seq(T), NEW m \in T
  PROVE  LET u == Append(t, m) IN
         /\ u \in Seq(T) /\ Len(t) \in Nat /\ Len(u) = Len(t) + 1
         /\ DOMAIN t = 1..Len(t) /\ DOMAIN u = 1..Len(t) + 1
         /\ u[Len(t) + 1] = m /\ \A i \in 1..Len(t) : u[i] = t[i]
         /\ \A i \in 1..Len(t) : Upto(u, i - 1) = Upto(t, i - 1)
         /\ Upto(u, Len(t)) = t
         /\ \A x : Count(t, x) \in Nat
         /\ \A x : Count(u, x) = IF m = x THEN Count(t, x) + 1 ELSE Count(t, x)
<1>. DEFINE u == Append(t, m)
            L == Len(t)
<1>1. /\ u \in Seq(T) /\ L \in Nat /\ Len(u) = L + 1 /\ DOMAIN t = 1..L /\ DOMAIN u = 1..L + 1
      /\ u[L + 1] = m /\ \A i \in 1..L : u[i] = t[i]
  <2>1. u \in Seq(T) /\ L \in Nat /\ Len(u) = L + 1 /\ DOMAIN t = 1..L
    BY AppendProperties, LenProperties
  <2>2. u[L + 1] = m /\ \A i \in 1..L : u[i] = t[i]
    BY AppendProperties
  <2>. HIDE DEF u
  <2>3. DOMAIN u = 1..Len(u)
    BY <2>1, LenProperties
  <2>. QED
    BY <2>1, <2>2, <2>3
<1>. HIDE DEF u
<1>2. ASSUME NEW n \in 0..L
      PROVE  /\ SubSeq(u, 1, n) = SubSeq(t, 1, n) /\ SubSeq(t, 1, n) \in Seq(T)
             /\ Len(SubSeq(t, 1, n)) = n /\ \A i \in 1..n : SubSeq(t, 1, n)[i] = t[i]
  <2>. DEFINE a == SubSeq(u, 1, n)
              b == SubSeq(t, 1, n)
  <2>1. n \in Nat /\ 1 \in Int /\ n - 1 + 1 = n /\ \A i \in 1..n : i \in 1..L /\ 1 + i - 1 = i
    BY <1>1
  <2>2. \A i \in 1..n : u[i] \in T /\ t[i] \in T
    <3>1. \A i \in 1..L : t[i] \in T
      BY ElementOfSeq
    <3>. QED
      BY <1>1, <2>1, <3>1
  <2>3. /\ a \in Seq(T) /\ Len(a) = IF 1 <= n THEN n - 1 + 1 ELSE 0
        /\ \A i \in 1..n - 1 + 1 : a[i] = u[1 + i - 1]
    BY <2>1, <2>2, SubSeqProperties
  <2>4. /\ b \in Seq(T) /\ Len(b) = IF 1 <= n THEN n - 1 + 1 ELSE 0
        /\ \A i \in 1..n - 1 + 1 : b[i] = t[1 + i - 1]
    BY <2>1, <2>2, SubSeqProperties
  <2>. HIDE DEF a, b
  <2>5. Len(a) = n /\ Len(b) = n
    BY <2>1, <2>3, <2>4
  <2>6. \A i \in 1..n : a[i] = t[i] /\ b[i] = t[i]
    BY <1>1, <2>1, <2>3, <2>4
  <2>7. a = b
    BY <2>3, <2>4, <2>5, <2>6, SeqEqual
  <2>. QED
    BY <2>4, <2>5, <2>6, <2>7 DEF a, b
<1>3. \A i \in 1..L : Upto(u, i - 1) = Upto(t, i - 1)
  <2>. TAKE i \in 1..L
  <2>1. i - 1 \in 0..L
    BY <1>1
  <2>. QED
    BY <1>2, <2>1 DEF Upto
<1>4. Upto(u, L) = t
  <2>1. L \in 0..L
    BY <1>1
  <2>2. /\ SubSeq(t, 1, L) \in Seq(T) /\ Len(SubSeq(t, 1, L)) = L
        /\ \A i \in 1..L : SubSeq(t, 1, L)[i] = t[i]
    BY <1>2, <2>1
  <2>3. SubSeq(t, 1, L) = t
    BY <2>2, SeqEqual
  <2>. QED
    BY <1>2, <2>1, <2>3 DEF Upto
<1>5. ASSUME NEW x
      PROVE  Count(t, x) \in Nat /\ Count(u, x) = IF m = x THEN Count(t, x) + 1 ELSE Count(t, x)
  <2>. DEFINE P == {i \in 1..L : t[i] = x}
              Q == {i \in 1..L + 1 : u[i] = x}
  <2>1. IsFiniteSet(P)
    <3>1. IsFiniteSet(1..L) /\ P \in SUBSET (1..L)
      BY <1>1, FS_Interval
    <3>. QED
      BY <3>1, FS_Subset
  <2>2. Count(t, x) = Cardinality(P) /\ Count(u, x) = Cardinality(Q)
    BY <1>1 DEF Count
  <2>3. L + 1 \notin P /\ (m = x => Q = P \cup {L + 1}) /\ (m # x => Q = P)
    <3>. HIDE DEF L
    <3>1. \A i \in 1..L + 1 : i \in 1..L \/ i = L + 1
      BY <1>1
    <3>2. L + 1 \notin 1..L /\ L + 1 \in 1..L + 1 /\ \A i \in 1..L : i \in 1..L + 1
      BY <1>1
    <3>3. \A i \in 1..L + 1 : i \in Q <=> IF i = L + 1 THEN m = x ELSE i \in P
      BY <1>1, <3>1, <3>2
    <3>4. P \subseteq 1..L + 1 /\ Q \subseteq 1..L + 1 /\ L + 1 \notin P
      BY <3>2
    <3>. HIDE DEF P, Q
    <3>. QED
      BY <3>2, <3>3, <3>4
  <2>. HIDE DEF P, Q
  <2>4. Cardinality(P) \in Nat /\ Cardinality(P \cup {L + 1}) = Cardinality(P) + 1
    BY <2>1, <2>3, FS_CardinalityType, FS_AddElement
  <2>. QED
    BY <2>2, <2>3, <2>4
<1>. QED
  BY <1>1, <1>3, <1>4, <1>5 DEF u

LEMMA FineOneMore ==
  ASSUME NEW T, NEW t \in Seq(T), NEW m \in T, Fine(t), MayFollow(t, m)
  PROVE  Fine(Append(t, m))
<1>. DEFINE u == Append(t, m)
            L == Len(t)
<1>1. /\ L \in Nat /\ Len(u) = L + 1 /\ DOMAIN t = 1..L /\ DOMAIN u = 1..L + 1
      /\ u[L + 1] = m /\ \A i \in 1..L : u[i] = t[i]
      /\ \A i \in 1..L : Upto(u, i - 1) = Upto(t, i - 1)
      /\ Upto(u, L) = t
  BY OneMore
<1>. HIDE DEF u
<1>2. ASSUME NEW i \in 1..L
      PROVE  \A k \in 1..3 : (u[i] = Profile[k] /\ i < Len(u)) <=> (i < Len(u) /\ u[i + 1] = Profile[k + 1])
  <2>. TAKE k \in 1..3
  <2>1. CASE i < L
    <3>1. (t[i] = Profile[k] /\ i < L) <=> (i < L /\ t[i + 1] = Profile[k + 1])
      BY <1>1 DEF Fine
    <3>2. i + 1 \in 1..L /\ i < Len(u) /\ u[i] = t[i] /\ u[i + 1] = t[i + 1]
      BY <1>1, <2>1
    <3>. QED
      BY <2>1, <3>1, <3>2
  <2>2. CASE i = L
    <3>1. Last1(t, Profile[k]) <=> (L > 0 /\ m = Profile[k + 1])
      BY DEF MayFollow
    <3>2. L > 0 /\ L < L + 1
      BY <1>1, <1>2, <2>2
    <3>3. i < Len(u) /\ u[i] = t[L] /\ u[i + 1] = m
      BY <1>1, <2>2, <3>2
    <3>. QED
      BY <3>1, <3>2, <3>3 DEF Last1
  <2>3. i < L \/ i = L
    <3>. HIDE DEF L
    <3>. QED
      BY <1>1, <1>2
  <2>. QED
    BY <2>1, <2>2, <2>3
<1>3. ASSUME NEW i \in 1..L
      PROVE  /\ u[i] = "PLAYERINFO" => Count(Upto(u, i - 1), "PLAYERINFO") < Count(Upto(u, i - 1), "LOGIN")
             /\ u[i] = "INVITE" =>
                  /\ Count(Upto(u, i - 1), "INVITE") = 0
                  /\ Answered(Upto(u, i - 1))
  <2>1. u[i] = t[i] /\ Upto(u, i - 1) = Upto(t, i - 1) /\ i \in DOMAIN t
    BY <1>1
  <2>. QED
    BY <2>1 DEF Fine, Answered
<1>4. /\ m = "PLAYERINFO" => Count(Upto(u, (L + 1) - 1), "PLAYERINFO") < Count(Upto(u, (L + 1) - 1), "LOGIN")
      /\ \A k \in 1..3 : (m = Profile[k] /\ L + 1 < Len(u)) <=> (L + 1 < Len(u) /\ u[L + 1 + 1] = Profile[k + 1])
      /\ m = "INVITE" => Count(Upto(u, (L + 1) - 1), "INVITE") = 0 /\ Answered(Upto(u, (L + 1) - 1))
  <2>1. (L + 1) - 1 = L /\ ~(L + 1 < Len(u))
    BY <1>1
  <2>. QED
    BY <1>1, <2>1 DEF MayFollow
<1>5. \A i \in 1..L + 1 : i \in 1..L \/ i = L + 1
  BY <1>1
<1>6. ASSUME NEW i \in 1..L + 1
      PROVE  /\ u[i] = "PLAYERINFO" => Count(Upto(u, i - 1), "PLAYERINFO") < Count(Upto(u, i - 1), "LOGIN")
             /\ \A k \in 1..3 : (u[i] = Profile[k] /\ i < Len(u)) <=> (i < Len(u) /\ u[i + 1] = Profile[k + 1])
             /\ u[i] = "INVITE" =>
                  /\ Count(Upto(u, i - 1), "INVITE") = 0
                  /\ Answered(Upto(u, i - 1))
  BY <1>1, <1>2, <1>3, <1>4, <1>5
<1>. QED
  BY <1>1, <1>6 DEF Fine, Answered, u

-----------------------------------------------------------------------------
(* The invariant.  A profile that is pending has its login without one, a  *)
(* block of a profile is cut only where the connection broke, and the      *)
(* flags say what the client was told last about its friend.               *)

Links == {"new", "up", "broken", "ended"}
Row(t, l, p, i, a) ==
  /\ t \in Seq(Noted) /\ Fine(t) /\ Count(t, "PLAYERINFO") <= Count(t, "LOGIN")
  /\ l = "new" => t = <<>> /\ ~p /\ ~i /\ ~a
  /\ l = "up" => /\ p => Count(t, "PLAYERINFO") < Count(t, "LOGIN")
                 /\ \A k \in 1..3 : ~Last1(t, Profile[k])
                 /\ ~i => Count(t, "INVITE") = 0
                 /\ ~a => Answered(t)
SocketOK(c) == Row(told[c], link[c], pending[c], invited[c], accepted[c])

ToldTypes ==
  /\ told \in [Sockets -> Seq(Noted)] /\ link \in [Sockets -> Links]
  /\ pending \in [Sockets -> BOOLEAN] /\ invited \in [Sockets -> BOOLEAN] /\ accepted \in [Sockets -> BOOLEAN]
ToldInv == ToldTypes /\ \A c \in Sockets : SocketOK(c)

LEMMA EmptyRow == /\ <<>> \in Seq(Noted) /\ Fine(<<>>) /\ Answered(<<>>)
                  /\ \A x : Count(<<>>, x) = 0 /\ ~Last1(<<>>, x)
<1>1. \A x : Count(<<>>, x) = 0
  <2>. TAKE x
  <2>1. {i \in DOMAIN <<>> : <<>>[i] = x} = {}
    OBVIOUS
  <2>. QED
    BY <2>1, FS_EmptySet DEF Count
<1>. QED
  BY <1>1, EmptySeq DEF Fine, Answered, Last1

LEMMA FreshRow ==
  ASSUME NEW l PROVE Row(<<>>, l, FALSE, FALSE, FALSE)
  BY EmptyRow DEF Row

-----------------------------------------------------------------------------
(* Sending                                                                 *)

\* The connections that are not sent to.
Elsewhere(c) ==
  /\ told' \in [Sockets -> Seq(Noted)] /\ link' \in [Sockets -> Links]
  /\ \A d \in Sockets \ {c} : told'[d] = told[d] /\ link'[d] = link[d]

LEMMA Sent ==
  ASSUME ToldTypes, NEW c \in Sockets, link[c] = "up", NEW messages, NEW n, DeliversFirst(c, n, messages),
         NEW new \in Seq(Noted), told[c] \o Only(SubSeq(messages, 1, n), Noted) = new
  PROVE  /\ Elsewhere(c) /\ told'[c] = new
         /\ link'[c] = IF n < Len(messages) THEN "broken" ELSE "up"
<1>1. told' = [told EXCEPT ![c] = told[c] \o Only(SubSeq(messages, 1, n), Noted)]
  BY DEF DeliversFirst
<1>2. link' = [link EXCEPT ![c] = IF n < Len(messages) THEN "broken" ELSE link[c]]
  BY DEF DeliversFirst
<1>3. told' = [told EXCEPT ![c] = new]
  BY <1>1
<1>4. told'[c] = new /\ told' \in [Sockets -> Seq(Noted)] /\ \A d \in Sockets \ {c} : told'[d] = told[d]
  BY <1>3 DEF ToldTypes
<1>5. /\ link'[c] = IF n < Len(messages) THEN "broken" ELSE "up"
      /\ link' \in [Sockets -> Links] /\ \A d \in Sockets \ {c} : link'[d] = link[d]
  BY <1>2 DEF ToldTypes, Links
<1>. QED
  BY <1>4, <1>5 DEF Elsewhere

\* Prefixes, one element after the other.
LEMMA FirstOf ==
  ASSUME NEW T, NEW s \in Seq(T), NEW n \in 0..Len(s)
  PROVE  /\ SubSeq(s, 1, n) \in Seq(T) /\ Len(SubSeq(s, 1, n)) = n
         /\ \A i \in 1..n : SubSeq(s, 1, n)[i] = s[i]
         /\ n < Len(s) => SubSeq(s, 1, n + 1) = Append(SubSeq(s, 1, n), s[n + 1])
         /\ SubSeq(s, 1, 0) = <<>> /\ SubSeq(s, 1, Len(s)) = s
<1>1. Len(s) \in Nat /\ \A i \in 1..Len(s) : s[i] \in T
  BY LenProperties, ElementOfSeq
<1>2. ASSUME NEW m \in 0..Len(s)
      PROVE  /\ SubSeq(s, 1, m) \in Seq(T) /\ Len(SubSeq(s, 1, m)) = m
             /\ \A i \in 1..m : SubSeq(s, 1, m)[i] = s[i]
  <2>. DEFINE a == SubSeq(s, 1, m)
  <2>1. m \in Nat /\ 1 \in Int /\ m - 1 + 1 = m /\ \A i \in 1..m : i \in 1..Len(s) /\ 1 + i - 1 = i
    BY <1>1
  <2>2. /\ a \in Seq(T) /\ Len(a) = IF 1 <= m THEN m - 1 + 1 ELSE 0
        /\ \A i \in 1..m - 1 + 1 : a[i] = s[1 + i - 1]
    BY <1>1, <2>1, SubSeqProperties
  <2>. HIDE DEF a
  <2>3. Len(a) = m
    BY <2>1, <2>2
  <2>4. \A i \in 1..m : a[i] = s[i]
    BY <2>1, <2>2
  <2>. QED
    BY <2>2, <2>3, <2>4 DEF a
<1>3. ASSUME n < Len(s) PROVE SubSeq(s, 1, n + 1) = Append(SubSeq(s, 1, n), s[n + 1])
  <2>. DEFINE a == SubSeq(s, 1, n)
              b == SubSeq(s, 1, n + 1)
              c == Append(a, s[n + 1])
  <2>1. n \in Nat /\ n + 1 \in 0..Len(s) /\ s[n + 1] \in T
    BY <1>1, <1>3
  <2>2. a \in Seq(T) /\ Len(a) = n /\ \A i \in 1..n : a[i] = s[i]
    BY <1>2
  <2>3. b \in Seq(T) /\ Len(b) = n + 1 /\ \A i \in 1..n + 1 : b[i] = s[i]
    BY <1>2, <2>1
  <2>. HIDE DEF a, b
  <2>4. c \in Seq(T) /\ Len(c) = n + 1 /\ c[n + 1] = s[n + 1] /\ \A i \in 1..n : c[i] = a[i]
    BY <2>1, <2>2, AppendProperties
  <2>. HIDE DEF c
  <2>5. \A i \in 1..n + 1 : i \in 1..n \/ i = n + 1
    BY <2>1
  <2>6. \A i \in 1..n + 1 : b[i] = c[i]
    BY <2>2, <2>3, <2>4, <2>5
  <2>7. b = c
    BY <2>3, <2>4, <2>6, SeqEqual
  <2>. QED
    BY <2>7 DEF a, b, c
<1>4. SubSeq(s, 1, Len(s)) = s
  <2>1. Len(s) \in 0..Len(s)
    BY <1>1
  <2>. QED
    BY <1>2, <2>1, SeqEqual
<1>5. SubSeq(s, 1, 0) = <<>>
  <2>1. 0 \in 0..Len(s)
    BY <1>1
  <2>2. Len(SubSeq(s, 1, 0)) = 0 /\ SubSeq(s, 1, 0) \in Seq(T)
    BY <1>2, <2>1
  <2>. QED
    BY <2>2, EmptySeq, SeqEqual
<1>. QED
  BY <1>2, <1>3, <1>4, <1>5

LEMMA LongerBy ==
  ASSUME NEW T, NEW t \in Seq(T), NEW s \in Seq(T), NEW n \in 0..Len(s) - 1
  PROVE  /\ t \o SubSeq(s, 1, n) \in Seq(T) /\ s[n + 1] \in T
         /\ t \o SubSeq(s, 1, n + 1) = Append(t \o SubSeq(s, 1, n), s[n + 1])
<1>1. Len(s) \in Nat /\ n \in 0..Len(s) /\ n < Len(s) /\ n + 1 \in 1..Len(s)
  BY LenProperties
<1>2. SubSeq(s, 1, n) \in Seq(T) /\ SubSeq(s, 1, n + 1) = Append(SubSeq(s, 1, n), s[n + 1]) /\ s[n + 1] \in T
  BY <1>1, FirstOf, ElementOfSeq
<1>. DEFINE a == SubSeq(s, 1, n)
            e == s[n + 1]
<1>3. Append(a, e) = a \o <<e>>
  BY <1>2, AppendIsConcat
<1>. HIDE DEF a, e
<1>4. a \in Seq(T) /\ e \in T /\ <<e>> \in Seq(T)
  BY <1>2 DEF a, e
<1>5. t \o a \in Seq(T)
  BY <1>4, ConcatProperties
<1>6. (t \o a) \o <<e>> = t \o (a \o <<e>>)
  BY <1>4, ConcatAssociative
<1>7. Append(t \o a, e) = (t \o a) \o <<e>>
  BY <1>4, <1>5, AppendIsConcat
<1>8. SubSeq(s, 1, n + 1) = Append(a, e)
  BY <1>2 DEF a, e
<1>. QED
  BY <1>3, <1>4, <1>5, <1>6, <1>7, <1>8 DEF a, e

\* Messages nobody counts.
Plain == {"ACCOUNT", "REFRESH", "ONLINE", "NOBODY", "CLAN", "CLANINFO", "NOCLAN", "ROOM", "ROOMS",
          "PINGLIST", "ZONELIST", "MAINCHANNELS", "ZONECHANNELS", "SHOPCONFHASH", "TP_", "ROOMALLOC",
          "ENTERROOMALLOC", "ECHO", "CLANNAME", "HEARTBEAT"}

LEMMA SendsPlain ==
  ASSUME ToldTypes, NEW c \in Sockets, link[c] = "up", NEW messages \in Seq(Plain),
         NEW n \in 0..Len(messages), DeliversFirst(c, n, messages)
  PROVE  Elsewhere(c) /\ told'[c] = told[c] /\ link'[c] \in {"up", "broken"}
<1>. DEFINE sent == SubSeq(messages, 1, n)
<1>1. sent \in Seq(Plain)
  BY FirstOf
<1>2. Only(sent, Noted) = <<>>
  <2>1. \A i \in 1..Len(sent) : sent[i] \in Plain
    BY <1>1, ElementOfSeq
  <2>2. \A x \in Plain : x \notin Noted
    BY DEF Plain, Noted
  <2>. HIDE DEF sent
  <2>. QED
    BY <1>1, <2>1, <2>2, OnlyNone
<1>3. told[c] \in Seq(Noted) /\ told[c] \o <<>> = told[c]
  <2>1. told[c] \in Seq(Noted)
    BY DEF ToldTypes
  <2>. QED
    BY <2>1, ConcatEmptySeq
<1>4. told[c] \o Only(sent, Noted) = told[c]
  BY <1>2, <1>3
<1>. QED
  BY <1>3, <1>4, Sent

LEMMA DeliversPlain ==
  ASSUME ToldTypes, NEW c \in Sockets, link[c] = "up", NEW messages \in Seq(Plain), Delivers(c, messages)
  PROVE  Elsewhere(c) /\ told'[c] = told[c] /\ link'[c] \in {"up", "broken"}
<1>. PICK n \in 0..Len(messages) : DeliversFirst(c, n, messages)
  BY DEF Delivers
<1>. QED
  BY SendsPlain

LEMMA DeliversOne ==
  ASSUME ToldTypes, NEW c \in Sockets, link[c] = "up", NEW m \in Noted, Delivers(c, <<m>>)
  PROVE  /\ Elsewhere(c)
         /\ \/ told'[c] = told[c] /\ link'[c] = "broken"
            \/ told'[c] = Append(told[c], m) /\ link'[c] = "up"
<1>. DEFINE messages == <<m>>
            t == told[c]
<1>1. messages \in Seq(Noted) /\ Len(messages) = 1 /\ messages[1] = m
  OBVIOUS
<1>. PICK n \in 0..Len(messages) : DeliversFirst(c, n, messages)
  BY DEF Delivers
<1>2. t \in Seq(Noted)
  BY DEF ToldTypes
<1>3. SubSeq(messages, 1, 0) = <<>> /\ SubSeq(messages, 1, 1) = messages
  BY <1>1, FirstOf
<1>4. Only(<<>>, Noted) = <<>> /\ Only(messages, Noted) = messages
  <2>1. \A i \in 1..Len(messages) : messages[i] \in Noted
    BY <1>1, ElementOfSeq
  <2>2. <<>> \in Seq(Noted) /\ \A i \in 1..Len(<<>>) : <<>>[i] \in Noted
    OBVIOUS
  <2>3. Only(messages, Noted) = messages
    BY <1>1, <2>1, OnlyAll
  <2>4. Only(<<>>, Noted) = <<>>
    BY <2>2, OnlyAll
  <2>. QED
    BY <2>3, <2>4
<1>5. t \o <<>> = t /\ t \o messages = Append(t, m) /\ Append(t, m) \in Seq(Noted)
  <2>1. t \o <<>> = t
    BY <1>2, ConcatEmptySeq
  <2>2. Append(t, m) = t \o <<m>>
    BY <1>2, AppendIsConcat
  <2>3. Append(t, m) \in Seq(Noted)
    BY <1>2, AppendProperties
  <2>. QED
    BY <2>1, <2>2, <2>3
<1>6. CASE n = 0
  <2>1. told[c] \o Only(SubSeq(messages, 1, n), Noted) = t
    BY <1>3, <1>4, <1>5, <1>6
  <2>2. n < Len(messages)
    BY <1>1, <1>6
  <2>. HIDE DEF messages
  <2>3. Elsewhere(c) /\ told'[c] = t /\ link'[c] = IF n < Len(messages) THEN "broken" ELSE "up"
    BY <1>2, <2>1, Sent
  <2>. QED
    BY <2>2, <2>3
<1>7. CASE n = 1
  <2>1. told[c] \o Only(SubSeq(messages, 1, n), Noted) = Append(t, m)
    BY <1>3, <1>4, <1>5, <1>7
  <2>2. ~(n < Len(messages))
    BY <1>1, <1>7
  <2>. HIDE DEF messages
  <2>3. Elsewhere(c) /\ told'[c] = Append(t, m) /\ link'[c] = IF n < Len(messages) THEN "broken" ELSE "up"
    BY <1>5, <2>1, Sent
  <2>. QED
    BY <2>2, <2>3
<1>8. n = 0 \/ n = 1
  BY <1>1
<1>. QED
  BY <1>6, <1>7, <1>8

\* What a message that may follow leaves.
LEMMA Grows ==
  ASSUME NEW t \in Seq(Noted), NEW m \in Noted, Fine(t), MayFollow(t, m)
  PROVE  LET u == Append(t, m) IN
         /\ u \in Seq(Noted) /\ Fine(u) /\ \A x : Last1(u, x) <=> x = m
         /\ \A x : Count(t, x) \in Nat
         /\ \A x : Count(u, x) = IF m = x THEN Count(t, x) + 1 ELSE Count(t, x)
         /\ m = "UNFRIENDED" \/ (Answered(t) /\ m # "FRIEND") => Answered(u)
<1>. DEFINE u == Append(t, m)
            L == Len(t)
<1>1. /\ u \in Seq(Noted) /\ L \in Nat /\ Len(u) = L + 1
      /\ DOMAIN t = 1..L /\ DOMAIN u = 1..L + 1
      /\ u[L + 1] = m /\ \A i \in 1..L : u[i] = t[i]
      /\ \A x : Count(t, x) \in Nat
      /\ \A x : Count(u, x) = IF m = x THEN Count(t, x) + 1 ELSE Count(t, x)
  BY OneMore
<1>2. Fine(u)
  BY FineOneMore
<1>. HIDE DEF u, L
<1>3. \A x : Last1(u, x) <=> x = m
  BY <1>1 DEF Last1
<1>4. ASSUME m = "UNFRIENDED" \/ (Answered(t) /\ m # "FRIEND"), NEW j \in 1..L + 1, u[j] = "FRIEND"
      PROVE  \E k \in (j + 1)..L + 1 : u[k] = "UNFRIENDED"
  <2>1. j \in 1..L
    BY <1>1, <1>4
  <2>2. CASE m = "UNFRIENDED"
    <3>1. L + 1 \in (j + 1)..L + 1
      BY <1>1, <2>1
    <3>. QED
      BY <1>1, <2>2, <3>1
  <2>3. CASE Answered(t) /\ m # "FRIEND"
    <3>1. t[j] = "FRIEND" /\ j \in DOMAIN t
      BY <1>1, <1>4, <2>1
    <3>2. PICK k \in (j + 1)..L : t[k] = "UNFRIENDED"
      BY <2>3, <3>1 DEF Answered, L
    <3>3. k \in (j + 1)..L + 1 /\ k \in 1..L
      BY <1>1, <2>1
    <3>. QED
      BY <1>1, <3>2, <3>3
  <2>. QED
    BY <1>4, <2>2, <2>3
<1>5. m = "UNFRIENDED" \/ (Answered(t) /\ m # "FRIEND") => Answered(u)
  BY <1>1, <1>4 DEF Answered
<1>. QED
  BY <1>1, <1>2, <1>3, <1>5 DEF u

-----------------------------------------------------------------------------
(* The rows of the invariant, one kind of answer after the other           *)

\* A connection that is broken promises less.
LEMMA RowBreaks ==
  ASSUME NEW t, NEW l, NEW p, NEW i, NEW a, NEW q, NEW j, NEW b, Row(t, l, p, i, a)
  PROVE  Row(t, "broken", q, j, b)
  BY DEF Row

\* Nothing was heard, the profile is no more pending than it was, and the flags only rose.
LEMMA RowStays ==
  ASSUME NEW t, NEW p, NEW i, NEW a, NEW q, NEW j, NEW b, NEW l \in {"up", "broken"},
         Row(t, "up", p, i, a), q => p, i => j, a => b
  PROVE  Row(t, l, q, j, b)
  BY DEF Row

LEMMA RowLogin ==
  ASSUME NEW t, NEW p, NEW i, NEW a, NEW q, Row(t, "up", p, i, a)
  PROVE  Row(Append(t, "LOGIN"), "up", q, i, a)
<1>. DEFINE m == "LOGIN"
            u == Append(t, m)
<1>1. /\ t \in Seq(Noted) /\ Fine(t) /\ Count(t, "PLAYERINFO") <= Count(t, "LOGIN")
      /\ \A k \in 1..3 : ~Last1(t, Profile[k])
      /\ ~i => Count(t, "INVITE") = 0
      /\ ~a => Answered(t)
  BY DEF Row
<1>2. m \in Noted /\ m # "INVITE" /\ m # "PLAYERINFO" /\ m # "FRIEND" /\ \A k \in 1..4 : m # Profile[k]
  BY DEF Noted, Profile
<1>3. MayFollow(t, m)
  <2>1. \A k \in 1..3 : k \in 1..4 /\ k + 1 \in 1..4
    OBVIOUS
  <2>. QED
    BY <1>1, <1>2, <2>1 DEF MayFollow
<1>4. /\ u \in Seq(Noted) /\ Fine(u) /\ \A x : Last1(u, x) <=> x = m
      /\ \A x : Count(t, x) \in Nat
      /\ \A x : Count(u, x) = IF m = x THEN Count(t, x) + 1 ELSE Count(t, x)
      /\ Answered(t) => Answered(u)
  BY <1>1, <1>2, <1>3, Grows
<1>5. /\ Count(u, "PLAYERINFO") = Count(t, "PLAYERINFO") /\ Count(u, "INVITE") = Count(t, "INVITE")
      /\ Count(u, "LOGIN") = Count(t, "LOGIN") + 1
  BY <1>2, <1>4
<1>6. Count(u, "PLAYERINFO") < Count(u, "LOGIN") /\ Count(u, "PLAYERINFO") <= Count(u, "LOGIN")
  BY <1>1, <1>4, <1>5
<1>7. \A k \in 1..3 : ~Last1(u, Profile[k])
  BY <1>2, <1>4
<1>. HIDE DEF u, m
<1>. QED
  BY <1>1, <1>4, <1>5, <1>6, <1>7 DEF Row, u, m

\* The friend is one, or is one no more.
LEMMA RowFriend ==
  ASSUME NEW t, NEW p, NEW i, NEW a, NEW b, NEW m \in {"FRIEND", "UNFRIENDED"},
         Row(t, "up", p, i, a), m = "FRIEND" => b
  PROVE  Row(Append(t, m), "up", p, i, b)
<1>. DEFINE u == Append(t, m)
<1>1. /\ t \in Seq(Noted) /\ Fine(t) /\ Count(t, "PLAYERINFO") <= Count(t, "LOGIN")
      /\ p => Count(t, "PLAYERINFO") < Count(t, "LOGIN")
      /\ \A k \in 1..3 : ~Last1(t, Profile[k])
      /\ ~i => Count(t, "INVITE") = 0
  BY DEF Row
<1>2. m \in Noted /\ m # "INVITE" /\ m # "PLAYERINFO" /\ m # "LOGIN" /\ \A k \in 1..4 : m # Profile[k]
  BY DEF Noted, Profile
<1>3. MayFollow(t, m)
  <2>1. \A k \in 1..3 : k \in 1..4 /\ k + 1 \in 1..4
    OBVIOUS
  <2>. QED
    BY <1>1, <1>2, <2>1 DEF MayFollow
<1>4. /\ u \in Seq(Noted) /\ Fine(u) /\ \A x : Last1(u, x) <=> x = m
      /\ \A x : Count(u, x) = IF m = x THEN Count(t, x) + 1 ELSE Count(t, x)
      /\ m = "UNFRIENDED" => Answered(u)
  BY <1>1, <1>2, <1>3, Grows
<1>5. /\ Count(u, "PLAYERINFO") = Count(t, "PLAYERINFO") /\ Count(u, "INVITE") = Count(t, "INVITE")
      /\ Count(u, "LOGIN") = Count(t, "LOGIN")
  BY <1>2, <1>4
<1>6. \A k \in 1..3 : ~Last1(u, Profile[k])
  BY <1>2, <1>4
<1>7. ~b => Answered(u)
  BY <1>4
<1>. HIDE DEF u
<1>. QED
  BY <1>1, <1>4, <1>5, <1>6, <1>7 DEF Row, u

\* The friend asks, once and only when it is none.
LEMMA RowInvite ==
  ASSUME NEW t, NEW p, Row(t, "up", p, FALSE, FALSE)
  PROVE  Row(Append(t, "INVITE"), "up", p, TRUE, FALSE)
<1>. DEFINE m == "INVITE"
            u == Append(t, m)
<1>1. /\ t \in Seq(Noted) /\ Fine(t) /\ Count(t, "PLAYERINFO") <= Count(t, "LOGIN")
      /\ p => Count(t, "PLAYERINFO") < Count(t, "LOGIN")
      /\ \A k \in 1..3 : ~Last1(t, Profile[k])
      /\ Count(t, "INVITE") = 0 /\ Answered(t)
  BY DEF Row
<1>2. m \in Noted /\ m # "FRIEND" /\ m # "PLAYERINFO" /\ m # "LOGIN" /\ \A k \in 1..4 : m # Profile[k]
  BY DEF Noted, Profile
<1>3. MayFollow(t, m)
  <2>1. \A k \in 1..3 : k \in 1..4 /\ k + 1 \in 1..4
    OBVIOUS
  <2>. QED
    BY <1>1, <1>2, <2>1 DEF MayFollow
<1>4. /\ u \in Seq(Noted) /\ Fine(u) /\ \A x : Last1(u, x) <=> x = m
      /\ \A x : Count(u, x) = IF m = x THEN Count(t, x) + 1 ELSE Count(t, x)
      /\ Answered(u)
  BY <1>1, <1>2, <1>3, Grows
<1>5. Count(u, "PLAYERINFO") = Count(t, "PLAYERINFO") /\ Count(u, "LOGIN") = Count(t, "LOGIN")
  BY <1>2, <1>4
<1>6. \A k \in 1..3 : ~Last1(u, Profile[k])
  BY <1>2, <1>4
<1>. HIDE DEF u, m
<1>. QED
  BY <1>1, <1>4, <1>5, <1>6 DEF Row, u, m

\* A profile, as far as it came: each of its messages may follow the one before.
Told(t, i, a) ==
  /\ t \in Seq(Noted) /\ Fine(t) /\ Count(t, "PLAYERINFO") <= Count(t, "LOGIN")
  /\ ~i => Count(t, "INVITE") = 0
  /\ ~a => Answered(t)

LEMMA ProfileBegins ==
  ASSUME NEW t, NEW i, NEW a, Row(t, "up", TRUE, i, a)
  PROVE  LET u == Append(t, "PLAYERINFO") IN Told(u, i, a) /\ \A x : Last1(u, x) <=> x = "PLAYERINFO"
<1>. DEFINE m == "PLAYERINFO"
            u == Append(t, m)
<1>1. /\ t \in Seq(Noted) /\ Fine(t) /\ Count(t, "PLAYERINFO") < Count(t, "LOGIN")
      /\ \A k \in 1..3 : ~Last1(t, Profile[k])
      /\ ~i => Count(t, "INVITE") = 0
      /\ ~a => Answered(t)
  BY DEF Row
<1>2. m \in Noted /\ m # "INVITE" /\ m # "LOGIN" /\ m # "FRIEND" /\ \A k \in 1..3 : m # Profile[k + 1]
  BY DEF Noted, Profile
<1>3. MayFollow(t, m)
  BY <1>1, <1>2 DEF MayFollow
<1>4. /\ u \in Seq(Noted) /\ Fine(u) /\ \A x : Last1(u, x) <=> x = m
      /\ \A x : Count(t, x) \in Nat
      /\ \A x : Count(u, x) = IF m = x THEN Count(t, x) + 1 ELSE Count(t, x)
      /\ Answered(t) => Answered(u)
  BY <1>1, <1>2, <1>3, Grows
<1>5. /\ Count(u, m) = Count(t, m) + 1 /\ Count(u, "INVITE") = Count(t, "INVITE")
      /\ Count(u, "LOGIN") = Count(t, "LOGIN")
  BY <1>2, <1>4
<1>6. Count(u, m) <= Count(u, "LOGIN")
  BY <1>1, <1>4, <1>5
<1>. HIDE DEF u
<1>. QED
  BY <1>1, <1>4, <1>5, <1>6 DEF Told, u

LEMMA ProfileGoesOn ==
  ASSUME NEW t, NEW i, NEW a, NEW n \in 1..3, Told(t, i, a), Len(t) > 0,
         \A x : Last1(t, x) <=> x = Profile[n]
  PROVE  LET u == Append(t, Profile[n + 1]) IN
         Told(u, i, a) /\ Len(u) > 0 /\ \A x : Last1(u, x) <=> x = Profile[n + 1]
<1>. DEFINE m == Profile[n + 1]
            u == Append(t, m)
<1>1. /\ t \in Seq(Noted) /\ Fine(t) /\ Count(t, "PLAYERINFO") <= Count(t, "LOGIN")
      /\ ~i => Count(t, "INVITE") = 0
      /\ ~a => Answered(t)
  BY DEF Told
<1>2. /\ m \in Noted /\ m \notin {"INVITE", "LOGIN", "FRIEND", "PLAYERINFO"}
      /\ \A k \in 1..3 : Profile[k] = Profile[n] <=> m = Profile[k + 1]
  BY DEF Noted, Profile
<1>3. MayFollow(t, m)
  BY <1>1, <1>2 DEF MayFollow
<1>4. /\ u \in Seq(Noted) /\ Fine(u) /\ \A x : Last1(u, x) <=> x = m
      /\ \A x : Count(u, x) = IF m = x THEN Count(t, x) + 1 ELSE Count(t, x)
      /\ Answered(t) => Answered(u)
  BY <1>1, <1>2, <1>3, Grows
<1>5. /\ Count(u, "PLAYERINFO") = Count(t, "PLAYERINFO") /\ Count(u, "INVITE") = Count(t, "INVITE")
      /\ Count(u, "LOGIN") = Count(t, "LOGIN")
  BY <1>2, <1>4
<1>6. Len(u) > 0
  BY <1>4 DEF Last1
<1>. HIDE DEF u
<1>. QED
  BY <1>1, <1>4, <1>5, <1>6 DEF Told, u, m

\* The whole of it is not pending any more, and a part of it is where the connection broke.
LEMMA RowProfile ==
  ASSUME NEW t, NEW p, NEW i, NEW a, Row(t, "up", p, i, a), p, NEW n \in 0..4
  PROVE  /\ t \o SubSeq(Profile, 1, n) \in Seq(Noted)
         /\ Row(t \o SubSeq(Profile, 1, n), "broken", p, i, a)
         /\ n = 4 => Row(t \o SubSeq(Profile, 1, n), "up", FALSE, i, a)
<1>. DEFINE u(k) == t \o SubSeq(Profile, 1, k)
<1>1. Profile \in Seq(Noted) /\ Len(Profile) = 4
  BY DEF Profile, Noted
<1>2. t \in Seq(Noted) /\ Row(t, "up", TRUE, i, a)
  BY DEF Row
<1>3. u(0) = t
  BY <1>1, <1>2, FirstOf, ConcatEmptySeq
<1>4. ASSUME NEW k \in 0..3 PROVE u(k + 1) = Append(u(k), Profile[k + 1])
  <2>1. k \in 0..Len(Profile) - 1
    BY <1>1
  <2>. QED
    BY <1>1, <1>2, <2>1, LongerBy
<1>5. Profile[1] = "PLAYERINFO" /\ Profile[4] = "HINTS"
  BY DEF Profile
<1>. HIDE DEF u
<1>. DEFINE Part(k) == Told(u(k), i, a) /\ Len(u(k)) > 0 /\ \A x : Last1(u(k), x) <=> x = Profile[k]
<1>6. Part(1)
  <2>1. u(1) = Append(t, "PLAYERINFO")
    BY <1>3, <1>4, <1>5
  <2>2. Told(u(1), i, a) /\ \A x : Last1(u(1), x) <=> x = Profile[1]
    BY <1>2, <1>5, <2>1, ProfileBegins
  <2>. QED
    BY <2>2 DEF Last1
<1>7. ASSUME NEW k \in 1..3, Part(k) PROVE Part(k + 1)
  <2>1. u(k + 1) = Append(u(k), Profile[k + 1])
    BY <1>4
  <2>. DEFINE v == u(k)
  <2>2. Told(v, i, a) /\ Len(v) > 0 /\ \A x : Last1(v, x) <=> x = Profile[k]
    BY <1>7
  <2>. HIDE DEF v
  <2>3. LET w == Append(v, Profile[k + 1]) IN
        Told(w, i, a) /\ Len(w) > 0 /\ \A x : Last1(w, x) <=> x = Profile[k + 1]
    BY <2>2, ProfileGoesOn
  <2>. QED
    BY <2>1, <2>3 DEF v
<1>8. Part(2) /\ Part(3) /\ Part(4)
  <2>. HIDE DEF Part
  <2>1. Part(2)
    BY <1>6, <1>7
  <2>2. Part(3)
    BY <1>7, <2>1
  <2>. QED
    BY <1>7, <2>1, <2>2
<1>9. CASE n = 0
  <2>1. Row(t, "broken", p, i, a)
    BY RowBreaks
  <2>2. u(n) = t
    BY <1>3, <1>9
  <2>3. u(n) \in Seq(Noted) /\ Row(u(n), "broken", p, i, a)
    BY <1>2, <2>1, <2>2
  <2>4. n # 4
    BY <1>9
  <2>. QED
    BY <2>3, <2>4, Zenon DEF u
<1>10. CASE n # 0
  <2>1. Part(n)
    <3>. HIDE DEF Part
    <3>1. n = 1 \/ n = 2 \/ n = 3 \/ n = 4
      BY <1>10
    <3>. QED
      BY <1>6, <1>8, <3>1
  <2>2. Row(u(n), "broken", p, i, a) /\ u(n) \in Seq(Noted)
    BY <2>1 DEF Told, Row
  <2>3. ASSUME n = 4 PROVE \A k \in 1..3 : ~Last1(u(n), Profile[k])
    <3>1. \A k \in 1..3 : Profile[k] # Profile[4]
      BY DEF Profile
    <3>. QED
      BY <2>1, <2>3, <3>1
  <2>4. n = 4 => Row(u(n), "up", FALSE, i, a)
    BY <2>1, <2>3 DEF Told, Row
  <2>. QED
    BY <2>2, <2>4 DEF u
<1>. QED
  BY <1>9, <1>10

-----------------------------------------------------------------------------
(* The actions                                                             *)

\* A flag of one connection.
Turns(f, g, c) == g \in [Sockets -> BOOLEAN] /\ \A d \in Sockets \ {c} : g[d] = f[d]

LEMMA OneSocket ==
  ASSUME ToldInv, NEW c \in Sockets, Elsewhere(c), Turns(pending, pending', c),
         Turns(invited, invited', c), Turns(accepted, accepted', c), SocketOK(c)'
  PROVE  ToldInv'
<1>1. ToldTypes'
  BY DEF ToldTypes, Elsewhere, Turns
<1>2. ASSUME NEW d \in Sockets PROVE SocketOK(d)'
  <2>1. CASE d = c
    BY <2>1
  <2>2. CASE d # c
    BY <2>2 DEF Elsewhere, Turns, SocketOK, ToldInv
  <2>. QED
    BY <2>1, <2>2
<1>. QED
  BY <1>1, <1>2 DEF ToldInv

LEMMA SameFlags ==
  ASSUME ToldInv, NEW c \in Sockets
  PROVE  Turns(pending, pending, c) /\ Turns(invited, invited, c) /\ Turns(accepted, accepted, c)
  BY DEF ToldInv, ToldTypes, Turns

\* A request of a connection that is up.
LEMMA Asking ==
  ASSUME ToldInv, NEW c \in Sockets, Asks(c)
  PROVE  /\ link[c] = "up" /\ ToldTypes /\ told[c] \in Seq(Noted)
         /\ Row(told[c], "up", pending[c], invited[c], accepted[c])
  BY DEF Asks, ToldInv, ToldTypes, SocketOK

\* An answer that is not counted, with no flag lowered.
LEMMA QuietKeeps ==
  ASSUME ToldInv, NEW c \in Sockets, Asks(c), Elsewhere(c), told'[c] = told[c], link'[c] \in {"up", "broken"},
         UNCHANGED <<pending, invited, accepted>>
  PROVE  ToldInv'
<1>1. Row(told[c], link'[c], pending[c], invited[c], accepted[c])
  BY Asking, RowStays
<1>2. SocketOK(c)'
  BY <1>1 DEF SocketOK
<1>. QED
  BY <1>2, OneSocket, SameFlags

LEMMA PlainKeeps ==
  ASSUME ToldInv, NEW c \in Sockets, Asks(c), NEW messages \in Seq(Plain), Delivers(c, messages),
         UNCHANGED <<pending, invited, accepted>>
  PROVE  ToldInv'
  BY Asking, DeliversPlain, QuietKeeps

LEMMA InitTold == ASSUME Init PROVE ToldInv
<1>1. ToldTypes
  BY EmptyRow DEF Init, ToldTypes, Links
<1>2. ASSUME NEW c \in Sockets PROVE SocketOK(c)
  BY FreshRow DEF Init, SocketOK
<1>. QED
  BY <1>1, <1>2 DEF ToldInv

LEMMA OpensTold == ASSUME ToldInv, NEW c \in Sockets, Opens(c) PROVE ToldInv'
<1>1. link[c] = "new" /\ link' = [link EXCEPT ![c] = "up"] /\ UNCHANGED <<told, pending, invited, accepted>>
  BY DEF Opens, social
<1>2. Elsewhere(c) /\ link'[c] = "up"
  BY <1>1 DEF Elsewhere, ToldInv, ToldTypes, Links
<1>3. told[c] = <<>> /\ pending[c] = FALSE /\ invited[c] = FALSE /\ accepted[c] = FALSE
  BY <1>1 DEF ToldInv, ToldTypes, SocketOK, Row
<1>4. SocketOK(c)'
  BY <1>1, <1>2, <1>3, FreshRow DEF SocketOK
<1>. QED
  BY <1>1, <1>2, <1>4, OneSocket, SameFlags

LEMMA ForgetsTold == ASSUME ToldInv, NEW gone, Forgets(gone) PROVE ToldInv'
<1>1. /\ link' = [c \in Sockets |-> IF c \in gone THEN "ended" ELSE link[c]]
      /\ told' = [c \in Sockets |-> IF c \in gone THEN <<>> ELSE told[c]]
      /\ pending' = [c \in Sockets |-> IF c \in gone THEN FALSE ELSE pending[c]]
      /\ invited' = [c \in Sockets |-> IF c \in gone THEN FALSE ELSE invited[c]]
      /\ accepted' = [c \in Sockets |-> IF c \in gone THEN FALSE ELSE accepted[c]]
  BY Zenon DEF Forgets
<1>2. ToldTypes'
  BY <1>1, EmptyRow DEF ToldInv, ToldTypes, Links
<1>3. ASSUME NEW c \in Sockets PROVE SocketOK(c)'
  <2>1. CASE c \in gone
    <3>1. /\ told'[c] = <<>> /\ link'[c] = "ended" /\ pending'[c] = FALSE /\ invited'[c] = FALSE
          /\ accepted'[c] = FALSE
      BY <1>1, <2>1
    <3>. QED
      BY <3>1, FreshRow DEF SocketOK
  <2>2. CASE c \notin gone
    <3>1. /\ told'[c] = told[c] /\ link'[c] = link[c] /\ pending'[c] = pending[c] /\ invited'[c] = invited[c]
          /\ accepted'[c] = accepted[c]
      BY <1>1, <2>2
    <3>. QED
      BY <3>1 DEF SocketOK, ToldInv
  <2>. QED
    BY <2>1, <2>2
<1>. QED
  BY <1>2, <1>3 DEF ToldInv

LEMMA LoginTold == ASSUME ToldInv, NEW c \in Sockets, Login(c) PROVE ToldInv'
<1>1. /\ Asks(c) /\ Delivers(c, <<"LOGIN">>) /\ UNCHANGED <<invited, accepted>>
      /\ pending' = [pending EXCEPT ![c] = Whole(c) \/ pending[c]]
  BY DEF Login, social
<1>2. "LOGIN" \in Noted
  BY DEF Noted
<1>3. /\ Elsewhere(c)
      /\ \/ told'[c] = told[c] /\ link'[c] = "broken"
         \/ told'[c] = Append(told[c], "LOGIN") /\ link'[c] = "up"
  BY <1>1, <1>2, Asking, DeliversOne
<1>4. Turns(pending, pending', c)
  BY <1>1 DEF Turns, ToldInv, ToldTypes, Whole
<1>5. SocketOK(c)'
  <2>1. Row(told[c], "up", pending[c], invited[c], accepted[c])
    BY <1>1, Asking
  <2>2. Row(told[c], "broken", pending'[c], invited[c], accepted[c])
    BY <2>1, RowBreaks
  <2>3. Row(Append(told[c], "LOGIN"), "up", pending'[c], invited[c], accepted[c])
    BY <2>1, RowLogin
  <2>. QED
    BY <1>1, <1>3, <2>2, <2>3 DEF SocketOK
<1>. QED
  BY <1>1, <1>3, <1>4, <1>5, OneSocket, SameFlags

LEMMA ReadyTold == ASSUME ToldInv, NEW c \in Sockets, Ready(c) PROVE ToldInv'
<1>1. Asks(c) /\ UNCHANGED <<invited, accepted>>
  BY DEF Ready, social
<1>2. /\ link[c] = "up" /\ ToldTypes /\ told[c] \in Seq(Noted)
      /\ Row(told[c], "up", pending[c], invited[c], accepted[c])
  BY <1>1, Asking
<1>3. CASE UNCHANGED <<told, link, pending>>
  <2>1. Elsewhere(c)
    BY <1>2, <1>3 DEF Elsewhere, ToldTypes
  <2>. QED
    BY <1>1, <1>2, <1>3, <2>1, QuietKeeps
<1>4. CASE pending[c] /\ SendsProfile(c) /\ pending' = [pending EXCEPT ![c] = ~Whole(c)]
  <2>1. Profile \in Seq(Noted) /\ Len(Profile) = 4 /\ \A i \in 1..4 : Profile[i] \in Noted
    BY DEF Profile, Noted
  <2>2. PICK n \in 0..4 : DeliversFirst(c, n, Profile)
    BY <1>4, <2>1 DEF SendsProfile
  <2>. DEFINE sent == SubSeq(Profile, 1, n)
              u == told[c] \o sent
  <2>3. /\ u \in Seq(Noted) /\ Row(u, "broken", pending[c], invited[c], accepted[c])
        /\ n = 4 => Row(u, "up", FALSE, invited[c], accepted[c])
    BY <1>2, <1>4, RowProfile
  <2>4. Only(sent, Noted) = sent
    <3>1. sent \in Seq(Noted)
      BY <2>1, FirstOf
    <3>2. \A i \in 1..Len(sent) : sent[i] \in Noted
      BY <3>1, ElementOfSeq
    <3>. HIDE DEF sent
    <3>. QED
      BY <3>1, <3>2, OnlyAll
  <2>5. told[c] \o Only(SubSeq(Profile, 1, n), Noted) = u
    BY <2>4
  <2>. HIDE DEF u
  <2>6. Elsewhere(c) /\ told'[c] = u /\ link'[c] = IF n < Len(Profile) THEN "broken" ELSE "up"
    BY <1>2, <2>2, <2>3, <2>5, Sent
  <2>7. Turns(pending, pending', c) /\ pending'[c] = ~Whole(c)
    BY <1>4 DEF Turns, ToldInv, ToldTypes, Whole
  <2>8. SocketOK(c)'
    <3>1. CASE n = 4
      <4>1. link'[c] = "up" /\ pending'[c] = FALSE
        <5>1. link'[c] = "up"
          BY <2>1, <2>6, <3>1
        <5>2. Whole(c) = TRUE
          BY <5>1 DEF Whole
        <5>. QED
          BY <2>7, <5>1, <5>2
      <4>. QED
        BY <1>1, <2>3, <2>6, <3>1, <4>1 DEF SocketOK
    <3>2. CASE n # 4
      <4>1. link'[c] = "broken"
        BY <2>1, <2>6, <3>2
      <4>2. Row(u, "broken", pending'[c], invited[c], accepted[c])
        BY <2>3, RowBreaks
      <4>. QED
        BY <1>1, <2>6, <4>1, <4>2 DEF SocketOK
    <3>. QED
      BY <3>1, <3>2
  <2>. QED
    BY <1>1, <2>6, <2>7, <2>8, OneSocket, SameFlags
<1>. QED
  BY <1>3, <1>4 DEF Ready

LEMMA RefreshesTold == ASSUME ToldInv, NEW c \in Sockets, Refreshes(c) PROVE ToldInv'
<1>1. Asks(c) /\ UNCHANGED <<pending, invited, accepted>>
  BY DEF Refreshes, social
<1>2. CASE UNCHANGED <<told, link>>
  <2>1. Elsewhere(c) /\ link'[c] = "up"
    BY <1>1, <1>2, Asking DEF Elsewhere, ToldInv, ToldTypes
  <2>. QED
    BY <1>1, <1>2, <2>1, QuietKeeps
<1>3. CASE \E n \in 0..1 : DeliversFirst(c, n, <<"REFRESH">>)
  <2>1. <<"REFRESH">> \in Seq(Plain) /\ Len(<<"REFRESH">>) = 1
    BY DEF Plain
  <2>. QED
    BY <1>1, <1>3, <2>1, Asking, SendsPlain, QuietKeeps
<1>. QED
  BY <1>2, <1>3 DEF Refreshes

\* The answers to AddFriend, AnswerInvite and DeleteFriend.
LEMMA FriendTold ==
  ASSUME ToldInv, NEW c \in Sockets, Asks(c), UNCHANGED <<pending, invited>>, NEW b \in BOOLEAN,
         accepted' = [accepted EXCEPT ![c] = b],
         \/ Delivers(c, <<>>) /\ (accepted[c] => b)
         \/ \E m \in {"FRIEND", "UNFRIENDED"} : Delivers(c, <<m>>) /\ (m = "FRIEND" => b)
  PROVE  ToldInv'
<1>1. /\ link[c] = "up" /\ ToldTypes /\ told[c] \in Seq(Noted)
      /\ Row(told[c], "up", pending[c], invited[c], accepted[c])
  BY Asking
<1>2. Turns(accepted, accepted', c) /\ accepted'[c] = b
  BY DEF Turns, ToldInv, ToldTypes
<1>3. CASE Delivers(c, <<>>) /\ (accepted[c] => b)
  <2>1. <<>> \in Seq(Plain)
    OBVIOUS
  <2>2. Elsewhere(c) /\ told'[c] = told[c] /\ link'[c] \in {"up", "broken"}
    BY <1>1, <1>3, <2>1, DeliversPlain
  <2>3. Row(told[c], link'[c], pending[c], invited[c], b)
    <3>1. accepted[c] => b
      BY <1>3
    <3>2. Row(told[c], "up", pending[c], invited[c], accepted[c])
      BY <1>1
    <3>. DEFINE l == link'[c]
    <3>3. l \in {"up", "broken"}
      BY <2>2
    <3>. HIDE DEF l
    <3>4. l # "new"
      BY <3>3
    <3>5. Row(told[c], l, pending[c], invited[c], b)
      BY <3>1, <3>2, <3>4, Zenon DEF Row
    <3>. QED
      BY <3>5 DEF l
  <2>4. SocketOK(c)'
    BY <1>2, <2>2, <2>3 DEF SocketOK
  <2>. QED
    BY <1>2, <2>2, <2>4, OneSocket, SameFlags
<1>4. ASSUME NEW m \in {"FRIEND", "UNFRIENDED"}, Delivers(c, <<m>>), m = "FRIEND" => b
      PROVE  ToldInv'
  <2>1. m \in Noted
    BY DEF Noted
  <2>2. /\ Elsewhere(c)
        /\ \/ told'[c] = told[c] /\ link'[c] = "broken"
           \/ told'[c] = Append(told[c], m) /\ link'[c] = "up"
    BY <1>1, <1>4, <2>1, DeliversOne
  <2>3. Row(told[c], "broken", pending[c], invited[c], b)
    BY <1>1, RowBreaks
  <2>4. Row(Append(told[c], m), "up", pending[c], invited[c], b)
    BY <1>1, <1>4, RowFriend
  <2>5. SocketOK(c)'
    BY <1>2, <2>2, <2>3, <2>4 DEF SocketOK
  <2>. QED
    BY <1>2, <2>2, <2>5, OneSocket, SameFlags
<1>. QED
  BY <1>3, <1>4

LEMMA AddFriendTold == ASSUME ToldInv, NEW c \in Sockets, NEW name, AddFriend(c, name) PROVE ToldInv'
<1>1. /\ Asks(c) /\ accepted' = [accepted EXCEPT ![c] = TRUE] /\ UNCHANGED <<pending, invited>>
      /\ Delivers(c, IF name = "ascii" THEN <<"FRIEND">> ELSE <<>>)
  BY DEF AddFriend
<1>2. Delivers(c, <<"FRIEND">>) \/ Delivers(c, <<>>)
  BY <1>1
<1>. QED
  BY <1>1, <1>2, FriendTold

LEMMA AnswerInviteTold ==
  ASSUME ToldInv, NEW c \in Sockets, NEW result \in {"success", "refused"}, AnswerInvite(c, result)
  PROVE  ToldInv'
<1>. DEFINE b == accepted[c] \/ result = "success"
<1>1. /\ Asks(c) /\ accepted' = [accepted EXCEPT ![c] = b] /\ UNCHANGED <<pending, invited>>
      /\ Delivers(c, IF result = "refused" THEN <<>> ELSE <<"FRIEND">>)
  BY DEF AnswerInvite
<1>2. b \in BOOLEAN /\ (accepted[c] => b)
  BY DEF ToldInv, ToldTypes
<1>3. Delivers(c, <<>>) \/ (Delivers(c, <<"FRIEND">>) /\ b)
  BY <1>1
<1>. HIDE DEF b
<1>. QED
  BY <1>1, <1>2, <1>3, FriendTold

LEMMA DeleteFriendTold == ASSUME ToldInv, NEW c \in Sockets, DeleteFriend(c) PROVE ToldInv'
  BY FriendTold DEF DeleteFriend

\* A row and an invite: the invite reached the client iff the socket is whole.
LEMMA DeliversInvite ==
  ASSUME ToldTypes, NEW c \in Sockets, link[c] = "up", NEW row \in Plain, Delivers(c, <<row, "INVITE">>)
  PROVE  /\ Elsewhere(c)
         /\ \/ told'[c] = told[c] /\ link'[c] = "broken"
            \/ told'[c] = Append(told[c], "INVITE") /\ link'[c] = "up"
<1>. DEFINE T == Plain \cup Noted
            messages == <<row, "INVITE">>
            t == told[c]
<1>1. messages \in Seq(T) /\ Len(messages) = 2
  BY DEF Noted
<1>2. row \notin Noted /\ "INVITE" \in Noted /\ t \in Seq(Noted)
  BY DEF Plain, Noted, ToldTypes
<1>. PICK n \in 0..Len(messages) : DeliversFirst(c, n, messages)
  BY DEF Delivers
<1>3. CASE n < 2
  <2>. DEFINE sent == SubSeq(messages, 1, n)
  <2>1. sent \in Seq(T) /\ Len(sent) = n /\ \A i \in 1..n : sent[i] = messages[i]
    BY <1>1, FirstOf
  <2>2. \A i \in 1..n : i = 1
    BY <1>1, <1>3
  <2>3. messages[1] \notin Noted
    BY <1>2
  <2>. HIDE DEF sent, messages, T
  <2>4. \A i \in 1..Len(sent) : sent[i] \notin Noted
    BY <2>1, <2>2, <2>3
  <2>5. Only(sent, Noted) = <<>>
    BY <2>1, <2>4, OnlyNone
  <2>6. t \o Only(sent, Noted) = t
    BY <1>2, <2>5, ConcatEmptySeq
  <2>7. Elsewhere(c) /\ told'[c] = t /\ link'[c] = IF n < Len(messages) THEN "broken" ELSE "up"
    BY <1>2, <2>6, Sent DEF sent
  <2>. QED
    BY <1>1, <1>3, <2>7
<1>4. CASE n = 2
  <2>1. SubSeq(messages, 1, n) = messages
    BY <1>1, <1>4, FirstOf
  <2>2. Only(messages, Noted) = <<"INVITE">>
    BY <1>2, OnlySecond
  <2>3. Append(t, "INVITE") = t \o <<"INVITE">> /\ Append(t, "INVITE") \in Seq(Noted)
    BY <1>2, AppendIsConcat, AppendProperties
  <2>. HIDE DEF messages
  <2>4. t \o Only(SubSeq(messages, 1, n), Noted) = Append(t, "INVITE")
    BY <2>1, <2>2, <2>3
  <2>5. /\ Elsewhere(c) /\ told'[c] = Append(t, "INVITE")
        /\ link'[c] = IF n < Len(messages) THEN "broken" ELSE "up"
    BY <2>3, <2>4, Sent
  <2>. QED
    BY <1>1, <1>4, <2>5
<1>5. n < 2 \/ n = 2
  BY <1>1
<1>. QED
  BY <1>3, <1>4, <1>5

LEMMA FriendStatusTold ==
  ASSUME ToldInv, NEW c \in Sockets, NEW about, FriendStatus(c, about)
  PROVE  ToldInv'
<1>. DEFINE row == IF accepted[c] /\ about = "friend" THEN "ONLINE" ELSE "NOBODY"
            invites == ~accepted[c] /\ ~invited[c]
<1>1. /\ Asks(c) /\ Delivers(c, IF invites THEN <<row, "INVITE">> ELSE <<row>>)
      /\ invited' = [invited EXCEPT ![c] = invited[c] \/ (invites /\ Whole(c))]
      /\ UNCHANGED <<pending, accepted>>
  BY DEF FriendStatus
<1>2. row \in Plain
  BY DEF Plain
<1>3. /\ link[c] = "up" /\ ToldTypes /\ told[c] \in Seq(Noted)
      /\ Row(told[c], "up", pending[c], invited[c], accepted[c])
  BY <1>1, Asking
<1>4. Turns(invited, invited', c) /\ invited'[c] = (invited[c] \/ (invites /\ Whole(c)))
  BY <1>1 DEF Turns, ToldInv, ToldTypes, Whole
<1>. HIDE DEF row
<1>5. CASE ~invites
  <2>1. Delivers(c, <<row>>) /\ <<row>> \in Seq(Plain)
    BY <1>1, <1>2, <1>5
  <2>2. Elsewhere(c) /\ told'[c] = told[c] /\ link'[c] \in {"up", "broken"}
    BY <1>3, <2>1, DeliversPlain
  <2>3. invited'[c] = invited[c]
    BY <1>4, <1>5 DEF ToldInv, ToldTypes
  <2>4. Row(told[c], link'[c], pending[c], invited[c], accepted[c])
    BY <1>3, <2>2, RowStays
  <2>5. SocketOK(c)'
    BY <1>1, <2>2, <2>3, <2>4 DEF SocketOK
  <2>. QED
    BY <1>1, <1>4, <2>2, <2>5, OneSocket, SameFlags
<1>6. CASE invites
  <2>1. /\ Elsewhere(c)
        /\ \/ told'[c] = told[c] /\ link'[c] = "broken"
           \/ told'[c] = Append(told[c], "INVITE") /\ link'[c] = "up"
    BY <1>1, <1>2, <1>3, <1>6, DeliversInvite
  <2>2. Row(told[c], "broken", pending[c], invited'[c], accepted[c])
    BY <1>3, RowBreaks
  <2>3. Row(Append(told[c], "INVITE"), "up", pending[c], TRUE, accepted[c])
    <3>1. invited[c] = FALSE /\ accepted[c] = FALSE
      BY <1>3, <1>6 DEF ToldTypes
    <3>2. Row(told[c], "up", pending[c], FALSE, FALSE)
      BY <1>3, <3>1
    <3>3. Row(Append(told[c], "INVITE"), "up", pending[c], TRUE, FALSE)
      BY <3>2, RowInvite
    <3>. QED
      BY <3>1, <3>3
  <2>4. link'[c] = "up" => invited'[c] = TRUE
    BY <1>4, <1>6 DEF Whole
  <2>5. SocketOK(c)'
    BY <1>1, <2>1, <2>2, <2>3, <2>4 DEF SocketOK
  <2>. QED
    BY <1>1, <1>4, <2>1, <2>5, OneSocket, SameFlags
<1>. QED
  BY <1>5, <1>6

LEMMA CreateAccountTold == ASSUME ToldInv, NEW c \in Sockets, NEW name, CreateAccount(c, name) PROVE ToldInv'
<1>1. Asks(c) /\ Delivers(c, <<"ACCOUNT">>) /\ UNCHANGED <<pending, invited, accepted>>
  BY DEF CreateAccount, social
<1>2. <<"ACCOUNT">> \in Seq(Plain)
  BY DEF Plain
<1>. QED
  BY <1>1, <1>2, PlainKeeps

LEMMA CreateRoomTold == ASSUME ToldInv, NEW c \in Sockets, NEW name, CreateRoom(c, name) PROVE ToldInv'
<1>1. Asks(c) /\ Delivers(c, <<"ROOM">>) /\ UNCHANGED <<pending, invited, accepted>>
  BY DEF CreateRoom
<1>2. <<"ROOM">> \in Seq(Plain)
  BY DEF Plain
<1>. QED
  BY <1>1, <1>2, PlainKeeps

LEMMA RoomListTold ==
  ASSUME ToldInv, NEW c \in Sockets, NEW m, NEW start, NEW want, RoomList(c, m, start, want)
  PROVE  ToldInv'
<1>. DEFINE lost == "own" \in ToSet(Page(Rooms(c), m, start, want).rows) /\ room[c] = "latin"
<1>1. /\ Asks(c) /\ Delivers(c, IF lost THEN <<>> ELSE <<"ROOMS">>)
      /\ UNCHANGED <<pending, invited, accepted>>
  BY Zenon DEF RoomList, social
<1>2. <<>> \in Seq(Plain) /\ <<"ROOMS">> \in Seq(Plain)
  BY DEF Plain
<1>. HIDE DEF lost
<1>3. Delivers(c, <<>>) \/ Delivers(c, <<"ROOMS">>)
  BY <1>1
<1>. QED
  BY <1>1, <1>2, <1>3, PlainKeeps

LEMMA CreateClanTold == ASSUME ToldInv, NEW c \in Sockets, NEW name, CreateClan(c, name) PROVE ToldInv'
<1>1. Asks(c) /\ UNCHANGED <<pending, invited, accepted>>
  BY DEF CreateClan, social
<1>2. <<"CLAN">> \in Seq(Plain) /\ <<"CLAN", "CLANINFO">> \in Seq(Plain)
  BY DEF Plain
<1>3. Refusal(name) \in Seq(Plain)
  <2>1. <<"NOCLAN">> \in Seq(Plain) /\ <<>> \in Seq(Plain)
    BY DEF Plain
  <2>2. Refusal(name) = <<"NOCLAN">> \/ Refusal(name) = <<>>
    BY DEF Refusal
  <2>. QED
    BY <2>1, <2>2
<1>4. CASE Delivers(c, Refusal(name))
  BY <1>1, <1>3, <1>4, PlainKeeps
<1>5. CASE UNCHANGED <<told, link>>
  <2>1. Elsewhere(c) /\ link'[c] = "up"
    BY <1>1, <1>5, Asking DEF Elsewhere, ToldInv, ToldTypes
  <2>. QED
    BY <1>1, <1>5, <2>1, QuietKeeps
<1>6. ASSUME NEW answers \in Seq(Plain), NEW n \in 0..Len(answers), DeliversFirst(c, n, answers)
      PROVE  ToldInv'
  BY <1>1, <1>6, Asking, SendsPlain, QuietKeeps
<1>7. \/ Delivers(c, Refusal(name)) \/ UNCHANGED <<told, link>>
      \/ \E answers \in Seq(Plain) : \E n \in 0..Len(answers) : DeliversFirst(c, n, answers)
  <2>1. CASE ~Valid(name)
    BY <2>1 DEF CreateClan
  <2>2. CASE Valid(name)
    <3>. PICK writes \in BOOLEAN : CreatesClan(c, name, writes)
      BY <2>2 DEF CreateClan
    <3>. DEFINE answers == IF nick[c] = "ascii" THEN <<"CLAN", "CLANINFO">> ELSE <<"CLAN">>
    <3>1. answers \in Seq(Plain)
      BY <1>2
    <3>2. UNCHANGED <<told, link>> \/ \E n \in 0..Len(answers) : DeliversFirst(c, n, answers)
      BY Zenon DEF CreatesClan
    <3>. HIDE DEF answers
    <3>. QED
      BY <3>1, <3>2
  <2>. QED
    BY <2>1, <2>2
<1>. QED
  BY <1>4, <1>5, <1>6, <1>7

\* The answers of the requests that change nothing.
LEMMA StatelessQuiet == ASSUME NEW q \in DOMAIN Stateless PROVE Stateless[q] \in Seq(Plain)
<1>1. ASSUME NEW h \in Answering, NEW x \in DOMAIN h PROVE h[x] \in Seq(Plain)
  <2>1. /\ <<"PINGLIST">> \in Seq(Plain) /\ <<"ZONELIST">> \in Seq(Plain) /\ <<"MAINCHANNELS">> \in Seq(Plain)
        /\ <<"ZONECHANNELS">> \in Seq(Plain) /\ <<"SHOPCONFHASH">> \in Seq(Plain) /\ <<"TP_">> \in Seq(Plain)
        /\ <<"ROOMALLOC", "ENTERROOMALLOC">> \in Seq(Plain) /\ <<"ECHO">> \in Seq(Plain)
        /\ <<"CLANNAME">> \in Seq(Plain) /\ <<"HEARTBEAT">> \in Seq(Plain)
    BY DEF Plain
  <2>2. CASE h = Geo
    <3>1. DOMAIN h = {"pinglist", "zonelist"}
      BY <2>2 DEF Geo
    <3>2. h["pinglist"] \in Seq(Plain) /\ h["zonelist"] \in Seq(Plain)
      BY <2>1, <2>2 DEF Geo
    <3>. QED
      BY <3>1, <3>2
  <2>3. CASE h = Channels
    <3>1. DOMAIN h = {"mainchannels", "zonechannels"}
      BY <2>3 DEF Channels
    <3>2. h["mainchannels"] \in Seq(Plain) /\ h["zonechannels"] \in Seq(Plain)
      BY <2>1, <2>3 DEF Channels
    <3>. QED
      BY <3>1, <3>2
  <2>4. CASE h = Wallet
    <3>1. DOMAIN h = {"shopconfhash", "tpbalance"}
      BY <2>4 DEF Wallet
    <3>2. h["shopconfhash"] \in Seq(Plain) /\ h["tpbalance"] \in Seq(Plain)
      BY <2>1, <2>4 DEF Wallet
    <3>. QED
      BY <3>1, <3>2
  <2>5. CASE h = RoomAlloc
    <3>1. DOMAIN h = {"startroomalloc"}
      BY <2>5 DEF RoomAlloc
    <3>2. h["startroomalloc"] \in Seq(Plain)
      BY <2>1, <2>5 DEF RoomAlloc
    <3>. QED
      BY <3>1, <3>2
  <2>6. CASE h = Chat
    <3>1. DOMAIN h = {"chat"}
      BY <2>6 DEF Chat
    <3>2. h["chat"] \in Seq(Plain)
      BY <2>1, <2>6 DEF Chat
    <3>. QED
      BY <3>1, <3>2
  <2>7. CASE h = VerifyClanName
    <3>1. DOMAIN h = {"verifyclanname"}
      BY <2>7 DEF VerifyClanName
    <3>2. h["verifyclanname"] \in Seq(Plain)
      BY <2>1, <2>7 DEF VerifyClanName
    <3>. QED
      BY <3>1, <3>2
  <2>8. CASE h = Heartbeat
    <3>1. DOMAIN h = {"heartbeat"}
      BY <2>8 DEF Heartbeat
    <3>2. h["heartbeat"] \in Seq(Plain)
      BY <2>1, <2>8 DEF Heartbeat
    <3>. QED
      BY <3>1, <3>2
  <2>. QED
    BY <2>2, <2>3, <2>4, <2>5, <2>6, <2>7, <2>8 DEF Answering
<1>2. CASE q \in Deferred
  BY <1>2 DEF Stateless
<1>3. CASE q \notin Deferred
  <2>. DEFINE h == CHOOSE h \in Answering : q \in DOMAIN h
  <2>1. q \in UNION {DOMAIN g : g \in Answering} /\ Stateless[q] = h[q]
    BY <1>3 DEF Stateless
  <2>2. \E g \in Answering : q \in DOMAIN g
    BY <2>1
  <2>3. h \in Answering /\ q \in DOMAIN h
    BY <2>2
  <2>. HIDE DEF h
  <2>. QED
    BY <1>1, <2>1, <2>3
<1>. QED
  BY <1>2, <1>3

LEMMA AsksOnlyTold ==
  ASSUME LobbyAssumption, ToldInv, NEW c \in Sockets, NEW q \in Asked, AsksOnly(c, q)
  PROVE  ToldInv'
<1>1. Stateless[q] \in Seq(Plain)
  BY StatelessQuiet DEF LobbyAssumption
<1>2. Asks(c) /\ Delivers(c, Stateless[q]) /\ UNCHANGED <<pending, invited, accepted>>
  BY DEF AsksOnly, social
<1>. QED
  BY <1>1, <1>2, PlainKeeps

LEMMA StepTold == ASSUME LobbyAssumption, ToldInv, [Next]_vars PROVE ToldInv'
<1>1. CASE UNCHANGED vars
  BY <1>1 DEF vars, social, ToldInv, ToldTypes, SocketOK
<1>2. CASE Crashes
  BY <1>2, ForgetsTold DEF Crashes
<1>3. ASSUME NEW c \in Sockets, Ends(c) PROVE ToldInv'
  BY <1>3, ForgetsTold DEF Ends
<1>4. ASSUME NEW c \in Sockets,
             Opens(c) \/ Login(c) \/ Ready(c) \/ Refreshes(c) \/ DeleteFriend(c)
      PROVE  ToldInv'
  BY <1>4, OpensTold, LoginTold, ReadyTold, RefreshesTold, DeleteFriendTold
<1>5. ASSUME NEW c \in Sockets, NEW x, CreateAccount(c, x) \/ AddFriend(c, x) \/ CreateRoom(c, x)
                                         \/ CreateClan(c, x) \/ FriendStatus(c, x)
      PROVE  ToldInv'
  BY <1>5, CreateAccountTold, AddFriendTold, CreateRoomTold, CreateClanTold, FriendStatusTold
<1>6. ASSUME NEW c \in Sockets, NEW r \in {"success", "refused"}, AnswerInvite(c, r) PROVE ToldInv'
  BY <1>6, AnswerInviteTold
<1>7. ASSUME NEW c \in Sockets, NEW m, NEW s, NEW w, RoomList(c, m, s, w) PROVE ToldInv'
  BY <1>7, RoomListTold
<1>8. ASSUME NEW c \in Sockets, NEW q \in Asked, AsksOnly(c, q) PROVE ToldInv'
  BY <1>8, AsksOnlyTold
<1>. QED
  BY <1>1, <1>2, <1>3, <1>4, <1>5, <1>6, <1>7, <1>8 DEF Next

\* The profile goes out at most once per login and as one block, however the socket breaks
\* while it is sent; the friend asks at most once per connection and never after it has
\* become a friend that was not deleted since: the flags are set with the answer or
\* after it, and a socket that lost an answer sends nothing more.
THEOREM ToldAsPromised == ASSUME LobbyAssumption PROVE Spec => []ToldOnce
<1>1. Init => ToldInv
  BY InitTold
<1>2. ToldInv /\ [Next]_vars => ToldInv'
  BY StepTold
<1>3. ToldInv => ToldOnce
  BY ToldFine DEF ToldInv, SocketOK, Row
<1>. QED
  BY <1>1, <1>2, <1>3, PTL DEF Spec

-----------------------------------------------------------------------------
(* The pages of the room list                                              *)

LEMMA MinOfTwo == ASSUME NEW a \in Nat, NEW b \in Nat PROVE Min({a, b}) = IF a <= b THEN a ELSE b
<1>. DEFINE m == IF a <= b THEN a ELSE b
<1>1. m \in {a, b} /\ \A x \in {a, b} : m <= x
  OBVIOUS
<1>2. \A y \in {a, b} : (\A x \in {a, b} : y <= x) => y = m
  OBVIOUS
<1>. HIDE DEF m
<1>3. Min({a, b}) = m
  BY <1>1, <1>2 DEF Min
<1>. QED
  BY <1>3 DEF m

\* Two pages of two, cut from at most four rows.
LEMMA TwoPages ==
  ASSUME NEW T, NEW s \in Seq(T), Len(s) <= 4, NEW n \in Nat,
         n = IF 2 <= Len(s) THEN 2 ELSE Len(s)
  PROVE  SubSeq(s, 1, n) \o SubSeq(s, n + 1, IF n + 2 <= Len(s) THEN n + 2 ELSE Len(s)) = s
<1>. DEFINE L == Len(s)
            e == IF n + 2 <= L THEN n + 2 ELSE L
<1>1. L \in Nat /\ L <= 4
  BY LenProperties
<1>. HIDE DEF L
<1>2. n \in 0..L /\ e = L
  <2>1. CASE 2 <= L
    <3>1. n = 2
      BY <2>1 DEF L
    <3>2. L = 2 \/ L = 3 \/ L = 4
      BY <1>1, <2>1
    <3>3. (IF 2 + 2 <= L THEN 2 + 2 ELSE L) = L
      BY <3>2
    <3>4. e = L
      BY <3>1, <3>3, Zenon
    <3>5. n \in 0..L
      BY <3>1, <3>2
    <3>. QED
      BY <3>4, <3>5
  <2>2. CASE ~(2 <= L)
    BY <1>1, <2>2 DEF L
  <2>. QED
    BY <2>1, <2>2
<1>3. 1 \in 1..L + 1 /\ n \in 1 - 1..L /\ L \in n..L
  BY <1>1, <1>2
<1>4. SubSeq(s, 1, n) \o SubSeq(s, n + 1, L) = SubSeq(s, 1, L)
  BY <1>3, ConcatAdjacentSubSeq DEF L
<1>5. SubSeq(s, 1, L) = s
  BY SubSeqFull DEF L
<1>. QED
  BY <1>2, <1>4, <1>5 DEF L

LEMMA RoomsFew == ASSUME NEW c PROVE \E T : Rooms(c) \in Seq(T) /\ Len(Rooms(c)) <= 4
<1>. DEFINE T == {"own", "room1", "room2", "room3"}
<1>1. DefaultRooms \in Seq(T) /\ Len(DefaultRooms) = 3 /\ <<"own">> \in Seq(T) /\ Len(<<"own">>) = 1
  BY DEF DefaultRooms
<1>. HIDE DEF T
<1>2. <<"own">> \o DefaultRooms \in Seq(T) /\ Len(<<"own">> \o DefaultRooms) = 4
  <2>. DEFINE own == <<"own">>
  <2>1. own \in Seq(T) /\ Len(own) = 1
    BY <1>1
  <2>. HIDE DEF own
  <2>2. own \o DefaultRooms \in Seq(T) /\ Len(own \o DefaultRooms) = Len(own) + Len(DefaultRooms)
    BY <1>1, <2>1, ConcatProperties
  <2>3. Len(own \o DefaultRooms) = 4
    BY <1>1, <2>1, <2>2
  <2>. QED
    BY <2>2, <2>3 DEF own
<1>. QED
  BY <1>1, <1>2 DEF Rooms

\* A client that asks for two rooms at a time, from where the last page ended, is shown
\* every room of the mode, each one once and in the list's order: _v91_filter_match_lobbies
\* cuts before the end only what the next page begins with.
LEMMA PagesCoverAll == PagesCover
<1>. SUFFICES ASSUME NEW c \in Sockets, NEW md \in Modes
              PROVE  Page(Rooms(c), md, 2 * (1 - 1), 2).rows \o Page(Rooms(c), md, 2 * (2 - 1), 2).rows
                       = OfMode(Rooms(c), md)
  BY DEF PagesCover
<1>. DEFINE s == OfMode(Rooms(c), md)
            L == Len(s)
            n == IF 2 <= L THEN 2 ELSE L
<1>1. PICK T : s \in Seq(T) /\ L <= 4
  <2>1. PICK U : Rooms(c) \in Seq(U) /\ Len(Rooms(c)) <= 4
    BY RoomsFew
  <2>2. PICK V : s \in Seq(V) /\ L <= Len(Rooms(c))
    BY <2>1, OnlySome DEF OfMode
  <2>3. L \in Nat /\ Len(Rooms(c)) \in Nat
    BY <2>1, <2>2, LenProperties
  <2>. QED
    BY <2>1, <2>2, <2>3
<1>2. L \in Nat /\ n \in Nat
  BY <1>1, LenProperties
<1>3. Min({0, L}) = 0 /\ Min({2, L}) = n /\ Min({2, PageMax}) = 2 /\ PageMax \in Nat
  <2>1. PageMax \in Nat /\ 2 <= PageMax
    BY DEF PageMax
  <2>2. Min({0, L}) = IF 0 <= L THEN 0 ELSE L
    BY <1>2, MinOfTwo
  <2>3. Min({2, L}) = IF 2 <= L THEN 2 ELSE L
    BY <1>2, MinOfTwo
  <2>4. Min({2, PageMax}) = IF 2 <= PageMax THEN 2 ELSE PageMax
    BY <2>1, MinOfTwo
  <2>. QED
    BY <1>2, <2>1, <2>2, <2>3, <2>4
<1>4. Min({n + 2, L}) = IF n + 2 <= L THEN n + 2 ELSE L
  BY <1>2, MinOfTwo
<1>. DEFINE Row1(start) ==
              LET from == Min({start, L})
              IN SubSeq(s, from + 1, Min({from + Min({2, PageMax}), L}))
<1>5. \A start : Page(Rooms(c), md, start, 2).rows = Row1(start)
  <2>1. (IF 2 = 0 THEN PageMax ELSE 2) = 2
    OBVIOUS
  <2>. QED
    BY <2>1 DEF Page
<1>6. Row1(0) = SubSeq(s, 1, n)
  <2>1. 0 + 1 = 1 /\ 0 + 2 = 2
    OBVIOUS
  <2>. QED
    BY <1>3, <2>1
<1>7. Row1(2) = SubSeq(s, n + 1, IF n + 2 <= L THEN n + 2 ELSE L)
  BY <1>3, <1>4
<1>8. 2 * (1 - 1) = 0 /\ 2 * (2 - 1) = 2
  OBVIOUS
<1>. HIDE DEF Row1
<1>9. Page(Rooms(c), md, 2 * (1 - 1), 2).rows = SubSeq(s, 1, n)
  BY <1>5, <1>6, <1>8
<1>10. Page(Rooms(c), md, 2 * (2 - 1), 2).rows = SubSeq(s, n + 1, IF n + 2 <= L THEN n + 2 ELSE L)
  BY <1>5, <1>7, <1>8
<1>11. SubSeq(s, 1, n) \o SubSeq(s, n + 1, IF n + 2 <= L THEN n + 2 ELSE L) = s
  BY <1>1, <1>2, TwoPages
<1>. QED
  BY <1>9, <1>10, <1>11

-----------------------------------------------------------------------------
(* The keys: the inductive invariant                                       *)

ClientStates == {"none", "open", "echoed", "switched", "closed"}
ServerStates == {"none", "accepted", "reading", "scanning", "found", "syn", "stream", "deaf", "ended"}
Cells == [of : 0..MaxConns, state : {"raw", "valid", "linked"}, mode : 2..4]

KeyTypes ==
  /\ run \in Nat /\ heap \in [Anchors -> Cells] /\ used \subseteq Anchors
  /\ client \in [Keys!Conns -> ClientStates] /\ born \in [Keys!Conns -> Nat]
  /\ server \in [Keys!Conns -> ServerStates] /\ seen \in [Keys!Conns -> SUBSET Anchors]
  /\ tried \in [Keys!Conns -> Nat] /\ found \in [Keys!Conns -> Anchors \cup {0}]
  /\ mode \in [Keys!Conns -> 2..4] /\ key \in [Keys!Conns -> 0..MaxConns]
  /\ right \in [Keys!Conns -> BOOLEAN]

\* Connections begin in order, each when no earlier one is in its handshake.
Ordered ==
  \A c \in Keys!Conns :
    /\ client[c] = "none" <=> server[c] = "none"
    /\ client[c] # "none" => \A d \in Keys!Conns : d < c => client[d] \in {"switched", "closed"}
    /\ server[c] \in {"accepted", "reading", "scanning", "found"} => client[c] \in {"open", "closed"}

\* An object is that of one connection, of this run, and each connection has one at most.
HeapOK ==
  \A a \in Anchors :
    /\ heap[a].of = 0 => heap[a].state = "raw"
    /\ heap[a].of # 0 => client[heap[a].of] # "none" /\ born[heap[a].of] = run
    /\ \A b \in Anchors : heap[a].of = heap[b].of /\ heap[a].of # 0 => a = b

\* A handler that has a key found it where the connection it belongs to has its object.
FoundOK ==
  \A c \in Keys!Conns :
    /\ server[c] \in {"none", "accepted", "reading", "scanning", "ended"} => key[c] = Keys!NoKey
    /\ key[c] # Keys!NoKey => client[key[c]] # "none"
    /\ key[c] # Keys!NoKey => \A a \in Anchors : heap[a].of = key[c] => a = found[c]
    /\ server[c] = "found" => found[c] \in Anchors
    /\ server[c] \in {"syn", "stream"} => found[c] \in used

\* An echo that is right was made with the connection's own key, which is noted.
RightOK ==
  \A c \in Keys!Conns : right[c] =>
    /\ server[c] \in {"syn", "stream", "ended"}
    /\ server[c] \in {"syn", "stream"} => key[c] = c
    /\ \A a \in Anchors : heap[a].of = c => a \in used

\* What a scan leaves out: the objects of the earlier connections that were right.
SeenOK ==
  \A c \in Keys!Conns : server[c] = "scanning" =>
    \A d \in Keys!Conns : d < c /\ right[d] => \A a \in Anchors : heap[a].of = d => a \in seen[c]

KeyInv == KeyTypes /\ Ordered /\ HeapOK /\ FoundOK /\ RightOK /\ SeenOK /\ Keys!KeysRight

-----------------------------------------------------------------------------
(* Every step keeps it.                                                    *)

\* A key is that of a connection.
LEMMA KeyOf ==
  ASSUME Keys!KeyAssumption, KeyTypes
  PROVE  0 \notin Keys!Conns /\ \A d \in Keys!Conns : key[d] # Keys!NoKey => key[d] \in Keys!Conns
<1>1. MaxConns \in Nat
  BY DEF Keys!KeyAssumption
<1>. QED
  BY <1>1 DEF KeyTypes, Keys!Conns, Keys!NoKey

\* The start: no connection has come.
LEMMA InitInv ==
  ASSUME Keys!KeyAssumption, Keys!Init
  PROVE  KeyInv
<1>. USE DEF KeyInv, Keys!Init, Keys!Free, Keys!Conns, Keys!NoKey, Keys!IsOpen, Keys!game, Keys!handler
<1>1. KeyTypes
  BY DEF Keys!KeyAssumption, KeyTypes, ClientStates, ServerStates, Cells
<1>2. Ordered
  BY DEF Keys!KeyAssumption, KeyTypes, Ordered
<1>3. HeapOK
  BY DEF Keys!KeyAssumption, KeyTypes, Ordered, HeapOK
<1>4. FoundOK
  BY DEF Keys!KeyAssumption, KeyTypes, Ordered, HeapOK, FoundOK
<1>5. RightOK
  BY DEF Keys!KeyAssumption, KeyTypes, Ordered, HeapOK, FoundOK, RightOK
<1>6. SeenOK
  BY DEF Keys!KeyAssumption, KeyTypes, Ordered, HeapOK, FoundOK, RightOK, SeenOK
<1>7. Keys!StreamKeys
  BY DEF KeyTypes, RightOK, Keys!KeysRight, Keys!StreamKeys
<1>8. Keys!FreshKeys
  BY DEF KeyTypes, Ordered, HeapOK, FoundOK, RightOK, SeenOK, Keys!KeysRight, Keys!FreshKeys, Keys!Orderly
<1>. QED
  BY <1>1, <1>2, <1>3, <1>4, <1>5, <1>6, <1>7, <1>8 DEF KeyInv, Keys!KeysRight

\* A new connection has an object of its own, at an address no open one has.
LEMMA OpensInv ==
  ASSUME Keys!KeyAssumption, NEW c \in Keys!Conns, KeyInv, Keys!Opens(c)
  PROVE  KeyInv'
<1>. USE DEF KeyInv, Keys!Opens, Keys!Reusable, Keys!OpenConns, Keys!Conns, Keys!NoKey, Keys!IsOpen, Keys!game, Keys!handler
<1>1. KeyTypes'
  BY DEF Keys!KeyAssumption, KeyTypes, ClientStates, ServerStates, Cells
<1>2. Ordered'
  BY DEF Keys!KeyAssumption, KeyTypes, Ordered
<1>. PICK a0 \in Anchors, m \in KeyModes :
       Keys!Reusable(a0) /\ heap' = [heap EXCEPT ![a0] = [of |-> c, state |-> "raw", mode |-> m]]
  OBVIOUS
<1>a. /\ heap'[a0].of = c /\ \A x \in Anchors : x # a0 => heap'[x] = heap[x]
      /\ heap'[a0].state = "raw" /\ c \in Nat \ {0}
  BY DEF KeyTypes, Keys!KeyAssumption
<1>b. \A x \in Anchors : heap[x].of # c
  BY <1>a DEF HeapOK
<1>3. HeapOK'
  <2>. SUFFICES ASSUME NEW x \in Anchors
       PROVE  /\ heap'[x].of = 0 => heap'[x].state = "raw"
              /\ heap'[x].of # 0 => client'[heap'[x].of] # "none" /\ born'[heap'[x].of] = run
              /\ \A y \in Anchors : heap'[x].of = heap'[y].of /\ heap'[x].of # 0 => x = y
    BY DEF HeapOK
  <2>1. CASE x = a0
    BY <2>1, <1>a, <1>b DEF KeyTypes
  <2>2. CASE x # a0
    <3>1. heap'[x] = heap[x] /\ heap[x].of # c /\ heap[x].of \in 0..MaxConns
      BY <2>2, <1>a, <1>b DEF KeyTypes, Cells
    <3>2. heap[x].of # 0 => client'[heap[x].of] = client[heap[x].of] /\ born'[heap[x].of] = born[heap[x].of]
      BY <3>1 DEF KeyTypes, Keys!KeyAssumption
    <3>. QED
      BY <3>1, <3>2, <1>a, <1>b DEF HeapOK
  <2>. QED
    BY <2>1, <2>2
<1>4. FoundOK'
  <2>1. \A d \in Keys!Conns : key[d] # Keys!NoKey => key[d] # c /\ key[d] \in Keys!Conns
    <3>1. \A d \in Keys!Conns : key[d] # Keys!NoKey => client[key[d]] # "none"
      BY DEF FoundOK
    <3>. QED
      BY <3>1, KeyOf
  <2>2. \A d \in Keys!Conns : d # c => server'[d] = server[d] /\ client'[d] = client[d]
    BY DEF KeyTypes
  <2>3. server'[c] = "accepted" /\ key[c] = Keys!NoKey
    BY DEF KeyTypes, Ordered, FoundOK
  <2>. SUFFICES ASSUME NEW d \in Keys!Conns
       PROVE  /\ server'[d] \in {"none", "accepted", "reading", "scanning", "ended"} => key[d] = Keys!NoKey
              /\ key[d] # Keys!NoKey => client'[key[d]] # "none"
              /\ key[d] # Keys!NoKey => \A x \in Anchors : heap'[x].of = key[d] => x = found[d]
              /\ server'[d] = "found" => found[d] \in Anchors
              /\ server'[d] \in {"syn", "stream"} => found[d] \in used
    BY DEF FoundOK
  <2>4. CASE d = c
    BY <2>3, <2>4
  <2>5. CASE d # c
    <3>1. key[d] # Keys!NoKey => \A x \in Anchors : heap'[x].of = key[d] => heap[x].of = key[d]
      BY <2>1, <1>a
    <3>. QED
      BY <2>1, <2>2, <2>5, <3>1 DEF FoundOK
  <2>. QED
    BY <2>4, <2>5
<1>5. RightOK'
  BY DEF Keys!KeyAssumption, KeyTypes, Ordered, HeapOK, FoundOK, RightOK
<1>6. SeenOK'
  <2>1. ~right[c]
    BY DEF RightOK, Ordered
  <2>. QED
    BY <2>1, <1>a DEF SeenOK, KeyTypes
<1>7. Keys!StreamKeys'
  BY DEF KeyTypes, RightOK, Keys!KeysRight, Keys!StreamKeys
<1>8. Keys!FreshKeys'
  BY DEF KeyTypes, Ordered, HeapOK, FoundOK, RightOK, SeenOK, Keys!KeysRight, Keys!FreshKeys, Keys!Orderly
<1>. QED
  BY <1>1, <1>2, <1>3, <1>4, <1>5, <1>6, <1>7, <1>8 DEF KeyInv, Keys!KeysRight

\* The game writes on an object's fields.
LEMMA FillsInInv ==
  ASSUME Keys!KeyAssumption, NEW b \in Anchors, KeyInv, Keys!FillsIn(b)
  PROVE  KeyInv'
<1>. USE DEF KeyInv, Keys!FillsIn, Keys!OpenConns, Keys!Conns, Keys!NoKey, Keys!IsOpen, Keys!game, Keys!handler
<1>. DEFINE s == IF heap[b].state = "raw" THEN "valid" ELSE "linked"
<1>a. heap[b] \in Cells /\ [heap[b] EXCEPT !.state = s] \in Cells
  <2>1. heap[b] \in Cells
    BY DEF KeyTypes
  <2>2. s \in {"raw", "valid", "linked"}
    OBVIOUS
  <2>. HIDE DEF s
  <2>3. heap[b] \in Cells => [heap[b] EXCEPT !.state = s] \in Cells
    BY <2>2 DEF Cells
  <2>. QED
    BY <2>1, <2>3
<1>b. heap' = [heap EXCEPT ![b] = [heap[b] EXCEPT !.state = s]]
  BY DEF KeyTypes
<1>1. KeyTypes'
  BY <1>a, <1>b DEF KeyTypes
<1>2. Ordered'
  BY DEF Keys!KeyAssumption, KeyTypes, Ordered
<1>3. HeapOK'
  BY DEF Keys!KeyAssumption, KeyTypes, Ordered, HeapOK
<1>4. FoundOK'
  <2>1. \A x \in Anchors : heap'[x].of = heap[x].of
    BY <1>b DEF KeyTypes, Cells
  <2>. QED
    BY <2>1 DEF FoundOK
<1>5. RightOK'
  BY DEF Keys!KeyAssumption, KeyTypes, Ordered, HeapOK, FoundOK, RightOK
<1>6. SeenOK'
  BY SMTT(30) DEF Keys!KeyAssumption, KeyTypes, Ordered, HeapOK, FoundOK, RightOK, SeenOK
<1>7. Keys!StreamKeys'
  BY DEF KeyTypes, RightOK, Keys!KeysRight, Keys!StreamKeys
<1>8. Keys!FreshKeys'
  BY DEF KeyTypes, Ordered, HeapOK, FoundOK, RightOK, SeenOK, Keys!KeysRight, Keys!FreshKeys, Keys!Orderly
<1>. QED
  BY <1>1, <1>2, <1>3, <1>4, <1>5, <1>6, <1>7, <1>8 DEF KeyInv, Keys!KeysRight

\* An echo is right when the key is the connection's own.
LEMMA EchoesInv ==
  ASSUME Keys!KeyAssumption, NEW c \in Keys!Conns, KeyInv, Keys!Echoes(c)
  PROVE  KeyInv'
<1>. USE DEF KeyInv, Keys!Echoes, Keys!Conns, Keys!NoKey, Keys!IsOpen, Keys!game, Keys!handler
<1>1. KeyTypes'
  BY DEF Keys!KeyAssumption, KeyTypes, ClientStates, ServerStates, Cells
<1>2. Ordered'
  BY DEF Keys!KeyAssumption, KeyTypes, Ordered
<1>3. HeapOK'
  BY DEF Keys!KeyAssumption, KeyTypes, Ordered, HeapOK
<1>4. FoundOK'
  BY DEF Keys!KeyAssumption, KeyTypes, Ordered, HeapOK, FoundOK
<1>5. RightOK'
  <2>1. right'[c] => /\ server[c] = "syn" /\ key[c] = c
                     /\ \A a \in Anchors : heap[a].of = c => a \in used
    <3>1. right' = [right EXCEPT ![c] = key[c] = c] /\ server[c] = "syn"
      OBVIOUS
    <3>2. right'[c] => key[c] = c
      BY <3>1 DEF KeyTypes
    <3>3. key[c] # Keys!NoKey => \A a \in Anchors : heap[a].of = key[c] => a \in used
      BY <3>1 DEF FoundOK
    <3>. QED
      BY <3>1, <3>2, <3>3, KeyOf
  <2>2. \A d \in Keys!Conns : d # c => right'[d] = right[d]
    BY DEF KeyTypes
  <2>. QED
    BY <2>1, <2>2 DEF RightOK
<1>6. SeenOK'
  <2>1. \A e \in Keys!Conns : server[e] = "scanning" /\ c < e => FALSE
    BY DEF Ordered
  <2>2. \A d \in Keys!Conns : d # c => right'[d] = right[d]
    BY DEF KeyTypes
  <2>. QED
    BY <2>1, <2>2 DEF SeenOK
<1>7. Keys!StreamKeys'
  BY DEF KeyTypes, RightOK, Keys!KeysRight, Keys!StreamKeys
<1>8. Keys!FreshKeys'
  BY DEF KeyTypes, Ordered, HeapOK, FoundOK, RightOK, SeenOK, Keys!KeysRight, Keys!FreshKeys, Keys!Orderly
<1>. QED
  BY <1>1, <1>2, <1>3, <1>4, <1>5, <1>6, <1>7, <1>8 DEF KeyInv, Keys!KeysRight

\* The game has taken the new key.
LEMMA SwitchesInv ==
  ASSUME Keys!KeyAssumption, NEW c \in Keys!Conns, KeyInv, Keys!Switches(c)
  PROVE  KeyInv'
<1>. USE DEF KeyInv, Keys!Switches, Keys!Conns, Keys!NoKey, Keys!IsOpen, Keys!game, Keys!handler
<1>1. KeyTypes'
  BY DEF Keys!KeyAssumption, KeyTypes, ClientStates, ServerStates, Cells
<1>2. Ordered'
  BY DEF Keys!KeyAssumption, KeyTypes, Ordered
<1>3. HeapOK'
  BY DEF Keys!KeyAssumption, KeyTypes, Ordered, HeapOK
<1>4. FoundOK'
  BY DEF Keys!KeyAssumption, KeyTypes, Ordered, HeapOK, FoundOK
<1>5. RightOK'
  BY DEF Keys!KeyAssumption, KeyTypes, Ordered, HeapOK, FoundOK, RightOK
<1>6. SeenOK'
  BY DEF Keys!KeyAssumption, KeyTypes, Ordered, HeapOK, FoundOK, RightOK, SeenOK
<1>7. Keys!StreamKeys'
  BY DEF KeyTypes, RightOK, Keys!KeysRight, Keys!StreamKeys
<1>8. Keys!FreshKeys'
  BY DEF KeyTypes, Ordered, HeapOK, FoundOK, RightOK, SeenOK, Keys!KeysRight, Keys!FreshKeys, Keys!Orderly
<1>. QED
  BY <1>1, <1>2, <1>3, <1>4, <1>5, <1>6, <1>7, <1>8 DEF KeyInv, Keys!KeysRight

\* The game closes a connection.
LEMMA ClosesInv ==
  ASSUME Keys!KeyAssumption, NEW c \in Keys!Conns, KeyInv, Keys!Closes(c)
  PROVE  KeyInv'
<1>. USE DEF KeyInv, Keys!Closes, Keys!Conns, Keys!NoKey, Keys!IsOpen, Keys!game, Keys!handler
<1>1. KeyTypes'
  BY DEF Keys!KeyAssumption, KeyTypes, ClientStates, ServerStates, Cells
<1>2. Ordered'
  BY DEF Keys!KeyAssumption, KeyTypes, Ordered
<1>3. HeapOK'
  BY DEF Keys!KeyAssumption, KeyTypes, Ordered, HeapOK
<1>4. FoundOK'
  BY DEF Keys!KeyAssumption, KeyTypes, Ordered, HeapOK, FoundOK
<1>5. RightOK'
  BY DEF Keys!KeyAssumption, KeyTypes, Ordered, HeapOK, FoundOK, RightOK
<1>6. SeenOK'
  BY DEF Keys!KeyAssumption, KeyTypes, Ordered, HeapOK, FoundOK, RightOK, SeenOK
<1>7. Keys!StreamKeys'
  BY DEF KeyTypes, RightOK, Keys!KeysRight, Keys!StreamKeys
<1>8. Keys!FreshKeys'
  BY DEF KeyTypes, Ordered, HeapOK, FoundOK, RightOK, SeenOK, Keys!KeysRight, Keys!FreshKeys, Keys!Orderly
<1>. QED
  BY <1>1, <1>2, <1>3, <1>4, <1>5, <1>6, <1>7, <1>8 DEF KeyInv, Keys!KeysRight

\* The server knows the process.
LEMMA IdentifiesInv ==
  ASSUME Keys!KeyAssumption, NEW c \in Keys!Conns, KeyInv, Keys!Identifies(c)
  PROVE  KeyInv'
<1>. USE DEF KeyInv, Keys!Identifies, Keys!Goes, Keys!Conns, Keys!NoKey, Keys!IsOpen, Keys!game, Keys!handler
<1>1. KeyTypes'
  BY DEF Keys!KeyAssumption, KeyTypes, ClientStates, ServerStates, Cells
<1>2. Ordered'
  BY DEF Keys!KeyAssumption, KeyTypes, Ordered
<1>3. HeapOK'
  BY DEF Keys!KeyAssumption, KeyTypes, Ordered, HeapOK
<1>4. FoundOK'
  BY DEF Keys!KeyAssumption, KeyTypes, Ordered, HeapOK, FoundOK
<1>5. RightOK'
  BY DEF Keys!KeyAssumption, KeyTypes, Ordered, HeapOK, FoundOK, RightOK
<1>6. SeenOK'
  BY DEF Keys!KeyAssumption, KeyTypes, Ordered, HeapOK, FoundOK, RightOK, SeenOK
<1>7. Keys!StreamKeys'
  BY DEF KeyTypes, RightOK, Keys!KeysRight, Keys!StreamKeys
<1>8. Keys!FreshKeys'
  BY DEF KeyTypes, Ordered, HeapOK, FoundOK, RightOK, SeenOK, Keys!KeysRight, Keys!FreshKeys, Keys!Orderly
<1>. QED
  BY <1>1, <1>2, <1>3, <1>4, <1>5, <1>6, <1>7, <1>8 DEF KeyInv, Keys!KeysRight

\* The handler copies what has been used.
LEMMA ReadsAuthInv ==
  ASSUME Keys!KeyAssumption, NEW c \in Keys!Conns, KeyInv, Keys!ReadsAuth(c)
  PROVE  KeyInv'
<1>. USE DEF KeyInv, Keys!ReadsAuth, Keys!Goes, Keys!Conns, Keys!NoKey, Keys!IsOpen, Keys!game, Keys!handler
<1>1. KeyTypes'
  BY DEF Keys!KeyAssumption, KeyTypes, ClientStates, ServerStates, Cells
<1>2. Ordered'
  BY DEF Keys!KeyAssumption, KeyTypes, Ordered
<1>3. HeapOK'
  BY DEF Keys!KeyAssumption, KeyTypes, Ordered, HeapOK
<1>4. FoundOK'
  BY DEF Keys!KeyAssumption, KeyTypes, Ordered, HeapOK, FoundOK
<1>5. RightOK'
  BY DEF Keys!KeyAssumption, KeyTypes, Ordered, HeapOK, FoundOK, RightOK
<1>6. SeenOK'
  BY DEF Keys!KeyAssumption, KeyTypes, Ordered, HeapOK, FoundOK, RightOK, SeenOK
<1>7. Keys!StreamKeys'
  BY DEF KeyTypes, RightOK, Keys!KeysRight, Keys!StreamKeys
<1>8. Keys!FreshKeys'
  BY DEF KeyTypes, Ordered, HeapOK, FoundOK, RightOK, SeenOK, Keys!KeysRight, Keys!FreshKeys, Keys!Orderly
<1>. QED
  BY <1>1, <1>2, <1>3, <1>4, <1>5, <1>6, <1>7, <1>8 DEF KeyInv, Keys!KeysRight

\* One scan.
LEMMA RecoversInv ==
  ASSUME Keys!KeyAssumption, NEW c \in Keys!Conns, KeyInv, Keys!Recovers(c)
  PROVE  KeyInv'
<1>. USE DEF KeyInv, Keys!Recovers, Keys!Goes, Keys!Conns, Keys!NoKey, Keys!IsOpen, Keys!game, Keys!handler
<1>a. \A a \in Keys!Best(c) : /\ a \in Anchors /\ heap[a] \in Cells /\ heap[a].state # "raw"
                          /\ a \notin seen[c]
  BY DEF KeyTypes, Keys!Best, Keys!Fresh, Keys!Valid
<1>b. \A a \in Keys!Best(c) : heap[a].of \in Keys!Conns /\ heap[a].mode \in 2..4
  <2>1. \A a \in Keys!Best(c) : heap[a].of # 0
    BY <1>a DEF HeapOK
  <2>2. \A a \in Keys!Best(c) : heap[a].of \in 0..MaxConns /\ heap[a].mode \in 2..4
    BY <1>a DEF Cells
  <2>3. MaxConns \in Nat
    BY DEF Keys!KeyAssumption
  <2>. QED
    BY <2>1, <2>2, <2>3
<1>c. \/ \E a \in Keys!Best(c) : /\ found' = [found EXCEPT ![c] = a] /\ key' = [key EXCEPT ![c] = heap[a].of]
                                 /\ mode' = [mode EXCEPT ![c] = heap[a].mode]
                                 /\ server' = [server EXCEPT ![c] = "found"]
      \/ /\ UNCHANGED <<found, mode, key>>
         /\ \E to \in {"deaf", "scanning"} : server' = [server EXCEPT ![c] = to]
  OBVIOUS
<1>1. KeyTypes'
  <2>1. ASSUME NEW a \in Keys!Best(c), found' = [found EXCEPT ![c] = a], key' = [key EXCEPT ![c] = heap[a].of],
               mode' = [mode EXCEPT ![c] = heap[a].mode], server' = [server EXCEPT ![c] = "found"]
        PROVE  KeyTypes'
    <3>1. /\ found' \in [Keys!Conns -> Anchors \cup {0}] /\ mode' \in [Keys!Conns -> 2..4]
          /\ server' \in [Keys!Conns -> ServerStates]
      BY <2>1, <1>a, <1>b DEF KeyTypes, ServerStates
    <3>2. heap[a].of \in 0..MaxConns
      BY <1>a DEF Cells
    <3>3. key' \in [Keys!Conns -> 0..MaxConns]
      BY <2>1, <3>2 DEF KeyTypes
    <3>4. tried' \in [Keys!Conns -> Nat] /\ UNCHANGED <<run, heap, born, client, used, seen, right>>
      BY DEF KeyTypes
    <3>. QED
      BY <3>1, <3>3, <3>4 DEF KeyTypes
  <2>2. ASSUME UNCHANGED <<found, mode, key>>, NEW to \in {"deaf", "scanning"},
               server' = [server EXCEPT ![c] = to]
        PROVE  KeyTypes'
    BY <2>2 DEF KeyTypes, ServerStates
  <2>. QED
    BY <2>1, <2>2, <1>c
<1>2. Ordered'
  BY DEF Keys!KeyAssumption, KeyTypes, Ordered
<1>3. HeapOK'
  BY DEF Keys!KeyAssumption, KeyTypes, Ordered, HeapOK
<1>4. FoundOK'
  <2>1. ASSUME NEW a \in Keys!Best(c), found' = [found EXCEPT ![c] = a], key' = [key EXCEPT ![c] = heap[a].of],
               server' = [server EXCEPT ![c] = "found"]
        PROVE  FoundOK'
    <3>1. \A b \in Anchors : heap[b].of = heap[a].of => b = a
      BY <1>a, <1>b DEF HeapOK, Keys!KeyAssumption
    <3>2. client[heap[a].of] # "none"
      BY <1>a, <1>b DEF HeapOK, Keys!KeyAssumption
    <3>. QED
      BY <2>1, <3>1, <3>2, <1>a DEF FoundOK, KeyTypes
  <2>2. ASSUME UNCHANGED <<found, mode, key>>, NEW to \in {"deaf", "scanning"},
               server' = [server EXCEPT ![c] = to]
        PROVE  FoundOK'
    BY <2>2 DEF FoundOK, KeyTypes
  <2>. QED
    BY <2>1, <2>2, <1>c
<1>5. RightOK'
  BY DEF Keys!KeyAssumption, KeyTypes, Ordered, HeapOK, FoundOK, RightOK
<1>6. SeenOK'
  BY DEF Keys!KeyAssumption, KeyTypes, Ordered, HeapOK, FoundOK, RightOK, SeenOK
<1>7. Keys!StreamKeys'
  BY DEF KeyTypes, RightOK, Keys!KeysRight, Keys!StreamKeys
<1>8. Keys!FreshKeys'
  <2>1. ASSUME NEW a \in Keys!Best(c), key' = [key EXCEPT ![c] = heap[a].of],
               born[c] = run, Keys!IsOpen(c), Keys!Orderly(c)
        PROVE  heap[a].of = c
    <3>. DEFINE d == heap[a].of
    <3>1. d \in Keys!Conns /\ client[d] # "none" /\ born[d] = born[c]
      BY <2>1, <1>a, <1>b DEF HeapOK, Keys!KeyAssumption
    <3>2. ~(c < d)
      BY <2>1, <3>1 DEF Ordered
    <3>3. ~(d < c)
      BY <2>1, <3>1, <1>a DEF SeenOK, Keys!Orderly
    <3>. QED
      BY <3>1, <3>2, <3>3, c \in Nat, d \in Nat DEF Keys!KeyAssumption
  <2>2. \A d \in Keys!Conns : d # c => key'[d] = key[d]
    BY <1>c DEF KeyTypes
  <2>3. key'[c] = key[c] \/ \E a \in Keys!Best(c) : key' = [key EXCEPT ![c] = heap[a].of]
    BY <1>c
  <2>4. born[c] = run /\ Keys!IsOpen(c) /\ Keys!Orderly(c) => key'[c] \in {Keys!NoKey, c}
    <3>1. \A a : key' = [key EXCEPT ![c] = heap[a].of] => key'[c] = heap[a].of
      BY DEF KeyTypes
    <3>2. born[c] = run /\ Keys!IsOpen(c) /\ Keys!Orderly(c) => key[c] \in {Keys!NoKey, c}
      BY DEF Keys!KeysRight, Keys!FreshKeys
    <3>. QED
      BY <2>1, <2>3, <3>1, <3>2
  <2>. QED
    BY <2>2, <2>4 DEF Keys!KeysRight, Keys!FreshKeys, Keys!Orderly
<1>. QED
  BY <1>1, <1>2, <1>3, <1>4, <1>5, <1>6, <1>7, <1>8 DEF KeyInv, Keys!KeysRight

\* The address is noted.
LEMMA RegistersInv ==
  ASSUME Keys!KeyAssumption, NEW c \in Keys!Conns, KeyInv, Keys!Registers(c)
  PROVE  KeyInv'
<1>. USE DEF KeyInv, Keys!Registers, Keys!Goes, Keys!Conns, Keys!NoKey, Keys!IsOpen, Keys!game, Keys!handler
<1>a. found[c] \in Anchors
  BY DEF FoundOK
<1>1. KeyTypes'
  BY <1>a DEF KeyTypes, ServerStates
<1>2. Ordered'
  BY DEF Keys!KeyAssumption, KeyTypes, Ordered
<1>3. HeapOK'
  BY DEF Keys!KeyAssumption, KeyTypes, Ordered, HeapOK
<1>4. FoundOK'
  BY DEF Keys!KeyAssumption, KeyTypes, Ordered, HeapOK, FoundOK
<1>5. RightOK'
  BY DEF Keys!KeyAssumption, KeyTypes, Ordered, HeapOK, FoundOK, RightOK
<1>6. SeenOK'
  BY DEF Keys!KeyAssumption, KeyTypes, Ordered, HeapOK, FoundOK, RightOK, SeenOK
<1>7. Keys!StreamKeys'
  BY DEF KeyTypes, RightOK, Keys!KeysRight, Keys!StreamKeys
<1>8. Keys!FreshKeys'
  BY DEF KeyTypes, Ordered, HeapOK, FoundOK, RightOK, SeenOK, Keys!KeysRight, Keys!FreshKeys, Keys!Orderly
<1>. QED
  BY <1>1, <1>2, <1>3, <1>4, <1>5, <1>6, <1>7, <1>8 DEF KeyInv, Keys!KeysRight

\* The key change.
LEMMA VerifiesInv ==
  ASSUME Keys!KeyAssumption, NEW c \in Keys!Conns, KeyInv, Keys!Verifies(c)
  PROVE  KeyInv'
<1>. USE DEF KeyInv, Keys!Verifies, Keys!Goes, Keys!Conns, Keys!NoKey, Keys!IsOpen, Keys!game, Keys!handler
<1>1. KeyTypes'
  BY DEF Keys!KeyAssumption, KeyTypes, ClientStates, ServerStates, Cells
<1>2. Ordered'
  BY DEF Keys!KeyAssumption, KeyTypes, Ordered
<1>3. HeapOK'
  BY DEF Keys!KeyAssumption, KeyTypes, Ordered, HeapOK
<1>4. FoundOK'
  BY DEF Keys!KeyAssumption, KeyTypes, Ordered, HeapOK, FoundOK
<1>5. RightOK'
  BY DEF Keys!KeyAssumption, KeyTypes, Ordered, HeapOK, FoundOK, RightOK
<1>6. SeenOK'
  BY DEF Keys!KeyAssumption, KeyTypes, Ordered, HeapOK, FoundOK, RightOK, SeenOK
<1>7. Keys!StreamKeys'
  BY DEF KeyTypes, RightOK, Keys!KeysRight, Keys!StreamKeys
<1>8. Keys!FreshKeys'
  BY DEF KeyTypes, Ordered, HeapOK, FoundOK, RightOK, SeenOK, Keys!KeysRight, Keys!FreshKeys, Keys!Orderly
<1>. QED
  BY <1>1, <1>2, <1>3, <1>4, <1>5, <1>6, <1>7, <1>8 DEF KeyInv, Keys!KeysRight

\* The thread ends.
LEMMA EndsInv ==
  ASSUME Keys!KeyAssumption, NEW c \in Keys!Conns, KeyInv, Keys!Ends(c)
  PROVE  KeyInv'
<1>. USE DEF KeyInv, Keys!Ends, Keys!Goes, Keys!Conns, Keys!NoKey, Keys!IsOpen, Keys!game, Keys!handler
<1>1. KeyTypes'
  BY DEF Keys!KeyAssumption, KeyTypes, ClientStates, ServerStates, Cells
<1>2. Ordered'
  BY DEF Keys!KeyAssumption, KeyTypes, Ordered
<1>3. HeapOK'
  BY DEF Keys!KeyAssumption, KeyTypes, Ordered, HeapOK
<1>4. FoundOK'
  BY DEF Keys!KeyAssumption, KeyTypes, Ordered, HeapOK, FoundOK
<1>5. RightOK'
  BY DEF Keys!KeyAssumption, KeyTypes, Ordered, HeapOK, FoundOK, RightOK
<1>6. SeenOK'
  BY DEF Keys!KeyAssumption, KeyTypes, Ordered, HeapOK, FoundOK, RightOK, SeenOK
<1>7. Keys!StreamKeys'
  BY DEF KeyTypes, RightOK, Keys!KeysRight, Keys!StreamKeys
<1>8. Keys!FreshKeys'
  BY DEF KeyTypes, Ordered, HeapOK, FoundOK, RightOK, SeenOK, Keys!KeysRight, Keys!FreshKeys, Keys!Orderly
<1>. QED
  BY <1>1, <1>2, <1>3, <1>4, <1>5, <1>6, <1>7, <1>8 DEF KeyInv, Keys!KeysRight

\* A new game: nothing of the old one is in memory, none of its connections is open.
LEMMA RestartsInv ==
  ASSUME Keys!KeyAssumption, KeyInv, Keys!Restarts
  PROVE  KeyInv'
<1>. USE DEF KeyInv, Keys!Restarts, Keys!Free, Keys!Conns, Keys!NoKey, Keys!IsOpen, Keys!game, Keys!handler
<1>1. KeyTypes'
  BY DEF Keys!KeyAssumption, KeyTypes, ClientStates, ServerStates, Cells
<1>2. Ordered'
  BY DEF Keys!KeyAssumption, KeyTypes, Ordered
<1>3. HeapOK'
  BY DEF Keys!KeyAssumption, KeyTypes, Ordered, HeapOK
<1>4. FoundOK'
  <2>1. \A x \in Anchors : heap'[x].of = 0
    OBVIOUS
  <2>2. \A d \in Keys!Conns : client[d] # "none" => client'[d] # "none"
    BY DEF KeyTypes
  <2>3. \A d \in Keys!Conns : key[d] # Keys!NoKey => client'[key[d]] # "none"
    BY <2>2, KeyOf DEF FoundOK
  <2>. QED
    BY <2>1, <2>3 DEF FoundOK
<1>5. RightOK'
  BY DEF Keys!KeyAssumption, KeyTypes, Ordered, HeapOK, FoundOK, RightOK
<1>6. SeenOK'
  BY DEF Keys!KeyAssumption, KeyTypes, Ordered, HeapOK, FoundOK, RightOK, SeenOK
<1>7. Keys!StreamKeys'
  BY DEF KeyTypes, RightOK, Keys!KeysRight, Keys!StreamKeys
<1>8. Keys!FreshKeys'
  BY DEF KeyTypes, Ordered, HeapOK, FoundOK, RightOK, SeenOK, Keys!KeysRight, Keys!FreshKeys, Keys!Orderly
<1>. QED
  BY <1>1, <1>2, <1>3, <1>4, <1>5, <1>6, <1>7, <1>8 DEF KeyInv, Keys!KeysRight

\* Every step.
LEMMA StepInv == ASSUME Keys!KeyAssumption, KeyInv, [Keys!Next]_(Keys!vars) PROVE KeyInv'
<1>1. CASE UNCHANGED Keys!vars
  BY <1>1 DEF Keys!vars, Keys!game, Keys!handler, KeyInv, KeyTypes, Ordered, HeapOK, FoundOK, RightOK, SeenOK, Keys!KeysRight,
              Keys!StreamKeys, Keys!FreshKeys, Keys!Orderly, Keys!IsOpen
<1>2. CASE Keys!Next
  BY <1>2, OpensInv, FillsInInv, EchoesInv, SwitchesInv, ClosesInv, IdentifiesInv, ReadsAuthInv,
     RecoversInv, RegistersInv, VerifiesInv, EndsInv, RestartsInv DEF Keys!Next
<1>. QED
  BY <1>1, <1>2

\* A connection that switched to the stream uses its own key, and one that comes after
\* connections that answered the challenge rightly never has another's: handle_placeholder
\* with tgame_recover_key_by_ticket and _TGAME_USED_AUTH_ANCHORS.
THEOREM OwnKeys == ASSUME Keys!KeyAssumption PROVE Keys!Spec => []Keys!KeysRight
<1>1. KeyInv => Keys!KeysRight
  BY DEF KeyInv
<1>2. Keys!Init => KeyInv
  BY InitInv
<1>3. KeyInv /\ [Keys!Next]_(Keys!vars) => KeyInv'
  BY StepInv
<1>. QED
  BY <1>1, <1>2, <1>3, PTL DEF Keys!Spec

=============================================================================
