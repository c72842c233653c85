------------------------------ MODULE ZoneLobby ------------------------------
(***************************************************************************)
(* What handle_placeholder answers a TGame beyond its wallet and inventory *)
(* (PlayerState): login and profile, nickname, friends and their invite,   *)
(* the clan and its file, match rooms, and the requests that change        *)
(* nothing.  Names are of two kinds: the parsers take latin-1, the         *)
(* builders only ASCII, and a builder that raises ends its handler there;  *)
(* the connection goes on.                                                 *)
(***************************************************************************)
EXTENDS Naturals, Sequences, SequencesExt, FiniteSetsExt

CONSTANTS
  Sockets,      \* connections to the Zone port, numbered in the order they come
  Asked,        \* the requests of Stateless clients send
  MaxRequests   \* bound: requests in one behaviour

Names == {"ascii", "latin"}     \* a name the builders take, one they raise on
NoClan == 0

VARIABLES
  link,     \* socket -> "new", "up", "broken" (its sends reach nobody), "ended"
  told,     \* socket -> the messages of Noted that have reached the client
  pending,  \* socket -> pending_zone_profile is set
  nick,     \* socket -> local_nickname
  invited,  \* socket -> v92_friend_invite_sent
  accepted, \* socket -> v92_friend_accepted
  room,     \* socket -> the kind of v91_created_match_room's names, "none"
  clan,     \* socket -> local_clan
  session,  \* the newest Zone connection, the only one that may save the player
  saved,    \* the nickname in the player's file
  file,     \* the clan in assaultfire_clan_state.json, NoClan: no file
  clans,    \* clans created so far; the clan's number says which one it is
  granted,  \* the clans whose creation was confirmed to their client
  shown,    \* the clans whose ClanID a client was told
  unsaved,  \* the clans whose save failed
  asideAt,  \* clans created before the file was last moved aside
  requests

social == <<invited, accepted, room>>
disk   == <<session, saved, file, clans, granted, shown, unsaved, asideAt>>
vars   == <<link, told, pending, nick, social, clan, disk, requests>>

Init ==
  /\ link = [c \in Sockets |-> "new"] /\ told = [c \in Sockets |-> <<>>]
  /\ pending = [c \in Sockets |-> FALSE] /\ nick = [c \in Sockets |-> "ascii"]
  /\ invited = [c \in Sockets |-> FALSE] /\ accepted = [c \in Sockets |-> FALSE]
  /\ room = [c \in Sockets |-> "none"] /\ clan = [c \in Sockets |-> NoClan]
  /\ session = 0 /\ saved = "ascii" /\ file = NoClan /\ clans = 0 /\ granted = {} /\ shown = {}
  /\ unsaved = {} /\ asideAt = 0 /\ requests = 0

-----------------------------------------------------------------------------
(* Sending.  A socket that breaks while a handler sends loses the rest.    *)

\* The elements of a sequence that are in a set.
Only(s, S) ==
  LET kept == {i \in DOMAIN s : s[i] \in S}
  IN  [n \in 1..Cardinality(kept) |-> s[CHOOSE i \in kept : Cardinality({j \in kept : j <= i}) = n]]

Noted == {"LOGIN", "PLAYERINFO", "TP", "PLAYERPROPS", "HINTS", "INVITE", "FRIEND", "UNFRIENDED"}
DeliversFirst(c, n, messages) ==
  /\ told' = [told EXCEPT ![c] = @ \o Only(SubSeq(messages, 1, n), Noted)]
  /\ link' = [link EXCEPT ![c] = IF n < Len(messages) THEN "broken" ELSE @]
Delivers(c, messages) == \E n \in 0..Len(messages) : DeliversFirst(c, n, messages)
Whole(c) == link'[c] = "up"

Asks(c) == link[c] = "up" /\ requests < MaxRequests /\ requests' = requests + 1

-----------------------------------------------------------------------------
(* A connection begins, and ends.                                          *)

\* A player's file that cannot be read is PlayerState's business.
\* The clan file is read under its lock; one that cannot be read is moved aside if it can
\* be, and there is no clan in either case.
LoadsClan(c) ==
  \/ clan' = [clan EXCEPT ![c] = file] /\ UNCHANGED <<file, asideAt>>
  \/ /\ file # NoClan /\ clan' = [clan EXCEPT ![c] = NoClan]
     /\ \/ file' = NoClan /\ asideAt' = clans
        \/ UNCHANGED <<file, asideAt>>

Opens(c) ==
  /\ link[c] = "new" /\ \A d \in Sockets : d < c => link[d] # "new"
  /\ link' = [link EXCEPT ![c] = "up"] /\ session' = c
  /\ nick' = [nick EXCEPT ![c] = saved] /\ LoadsClan(c)
  /\ UNCHANGED <<told, pending, social, saved, clans, granted, shown, unsaved, requests>>

\* The thread's locals go with it, and role_state with them.
Forgets(gone) ==
  LET without(f, x) == [c \in Sockets |-> IF c \in gone THEN x ELSE f[c]] IN
  /\ link' = without(link, "ended") /\ told' = without(told, <<>>)
  /\ pending' = without(pending, FALSE) /\ nick' = without(nick, "ascii")
  /\ invited' = without(invited, FALSE) /\ accepted' = without(accepted, FALSE)
  /\ room' = without(room, "none") /\ clan' = without(clan, NoClan)

\* The last save of the player, by the newest connection only; it may fail.
Ends(c) ==
  /\ link[c] \in {"up", "broken"} /\ Forgets({c})
  /\ saved' \in IF c = session THEN {saved, nick[c]} ELSE {saved}
  /\ UNCHANGED <<session, file, clans, granted, shown, unsaved, asideAt, requests>>

\* The server's process ends, and with it every connection.
Crashes ==
  /\ \E c \in Sockets : link[c] \in {"up", "broken"}
  /\ Forgets({c \in Sockets : link[c] \in {"up", "broken"}})
  /\ UNCHANGED <<disk, requests>>

-----------------------------------------------------------------------------
(* Login and profile.                                                      *)

\* A001 first; the profile waits for the client's FF05.
Login(c) ==
  /\ Asks(c) /\ Delivers(c, <<"LOGIN">>)
  /\ pending' = [pending EXCEPT ![c] = Whole(c) \/ @]
  /\ UNCHANGED <<nick, social, clan, disk>>

\* A005 carries the nickname, and ends its handler when it cannot, and the ClanID of the
\* clan in memory, which may be one whose save has failed.
Shows(c, k, out) == shown' = IF out /\ k # NoClan THEN shown \cup {k} ELSE shown
DiskKept == UNCHANGED <<session, saved, file, clans, granted, unsaved, asideAt>>

\* With a nickname it cannot carry the profile stays pending for good.
Profile == <<"PLAYERINFO", "TP", "PLAYERPROPS", "HINTS">>
SendsProfile(c) ==
  \E n \in 0..Len(Profile) : DeliversFirst(c, n, Profile) /\ Shows(c, clan[c], n >= 1)
BadReady(c) ==
  /\ Asks(c)
  /\ IF pending[c] /\ nick[c] = "ascii" THEN SendsProfile(c) ELSE UNCHANGED <<told, link, shown>>
  /\ UNCHANGED <<pending, nick, social, clan>> /\ DiskKept
Ready(c) ==
  /\ Asks(c)
  /\ IF pending[c] /\ nick[c] = "ascii"
     THEN SendsProfile(c) /\ pending' = [pending EXCEPT ![c] = ~Whole(c)]
     ELSE UNCHANGED <<told, link, pending, shown>>
  /\ UNCHANGED <<nick, social, clan>> /\ DiskKept

\* A purchase and an equip, whose effects are PlayerState's, end with an A005 as well.
Refreshes(c) ==
  /\ Asks(c)
  /\ IF nick[c] = "ascii"
     THEN \E n \in 0..1 : DeliversFirst(c, n, <<"REFRESH">>) /\ Shows(c, clan[c], n = 1)
     ELSE UNCHANGED <<told, link, shown>>
  /\ UNCHANGED <<pending, nick, social, clan>> /\ DiskKept

\* The answer, then the name in memory and in the player's file, which the newest
\* connection alone writes and which may fail.
CreateAccount(c, name) ==
  /\ Asks(c) /\ Delivers(c, <<"ACCOUNT">>)
  /\ nick' = [nick EXCEPT ![c] = IF Whole(c) THEN name ELSE @]
  /\ saved' \in IF Whole(c) /\ c = session THEN {saved, name} ELSE {saved}
  /\ UNCHANGED <<pending, social, clan, session, file, clans, granted, shown, unsaved, asideAt>>

-----------------------------------------------------------------------------
(* Friends: one synthetic friend, which asks once to be one.               *)

\* The status row is there iff the friend is accepted and asked for, by uin or by an
\* empty list ("friend"); then the invite, once per connection, marked when it has gone out.
FriendStatus(c, about) ==
  /\ Asks(c)
  /\ LET row == IF accepted[c] /\ about = "friend" THEN "ONLINE" ELSE "NOBODY"
         invites == ~accepted[c] /\ ~invited[c]
     IN /\ Delivers(c, IF invites THEN <<row, "INVITE">> ELSE <<row>>)
        /\ invited' = [invited EXCEPT ![c] = @ \/ (invites /\ Whole(c))]
  /\ UNCHANGED <<pending, nick, accepted, room, clan, disk>>

\* An outgoing request is accepted at once, and echoed with the name it came with.
AddFriend(c, name) ==
  /\ Asks(c) /\ accepted' = [accepted EXCEPT ![c] = TRUE]
  /\ Delivers(c, IF name = "ascii" THEN <<"FRIEND">> ELSE <<>>)
  /\ UNCHANGED <<pending, nick, invited, room, clan, disk>>

\* 0 and 0x8300 accept the invite ("success"), whether one was sent or not.
AnswerInvite(c, result) ==
  /\ Asks(c) /\ accepted' = [accepted EXCEPT ![c] = @ \/ result = "success"]
  /\ Delivers(c, IF result = "refused" THEN <<>> ELSE <<"FRIEND">>)
  /\ UNCHANGED <<pending, nick, invited, room, clan, disk>>

DeleteFriend(c) ==
  /\ Asks(c) /\ accepted' = [accepted EXCEPT ![c] = FALSE]
  /\ Delivers(c, <<"UNFRIENDED">>)
  /\ UNCHANGED <<pending, nick, invited, room, clan, disk>>

-----------------------------------------------------------------------------
(* The clan.                                                               *)

\* An empty name is refused with the name itself; one that is too long is not read, and
\* not answered.
Valid(name) == name \in Names
Refusal(name) == IF name = "empty" THEN <<"NOCLAN">> ELSE <<>>

\* In memory, then on disk, then the answer and a new A005.  A failing write ends the
\* handler, as does an answer whose name, or a profile whose nickname, cannot be built.
CreatesClan(c, name, writes) ==
  /\ clans' = clans + 1 /\ clan' = [clan EXCEPT ![c] = clans']
  /\ file' = IF writes THEN clans' ELSE file
  /\ unsaved' = IF writes THEN unsaved ELSE unsaved \cup {clans'}
  /\ IF writes /\ name = "ascii"
     THEN LET answers == IF nick[c] = "ascii" THEN <<"CLAN", "CLANINFO">> ELSE <<"CLAN">> IN
          \E n \in 0..Len(answers) :
            /\ DeliversFirst(c, n, answers) /\ Shows(c, clans', n = 2)
            /\ granted' = IF n >= 1 THEN granted \cup {clans'} ELSE granted
     ELSE UNCHANGED <<told, link, granted, shown>>
BadCreateClan(c, name) ==
  /\ Asks(c) /\ Valid(name)
  /\ \E writes \in BOOLEAN :
       /\ clans' = clans + 1 /\ clan' = [clan EXCEPT ![c] = clans']
       /\ file' = IF writes THEN clans' ELSE file
       /\ granted' = granted \cup {clans'}
  /\ UNCHANGED <<link, told, pending, nick, social, session, saved, shown, unsaved, asideAt>>
CreateClan(c, name) ==
  /\ Asks(c)
  /\ IF Valid(name)
     THEN \E writes \in BOOLEAN : CreatesClan(c, name, writes)
     ELSE Delivers(c, Refusal(name)) /\ UNCHANGED <<clan, file, clans, granted, shown, unsaved>>
  /\ UNCHANGED <<pending, nick, social, session, saved, asideAt>>

-----------------------------------------------------------------------------
(* Match rooms: three of the server's own, and the one this client made.   *)

DefaultRooms == <<"room1", "room2", "room3">>
Rooms(c) == IF room[c] = "none" THEN DefaultRooms ELSE <<"own">> \o DefaultRooms

\* Kept before the answer, for this connection alone, with the nickname as its owner.
CreateRoom(c, name) ==
  /\ Asks(c)
  /\ room' = [room EXCEPT ![c] = IF nick[c] = "ascii" THEN name ELSE "latin"]
  /\ Delivers(c, <<"ROOM">>)
  /\ UNCHANGED <<pending, nick, invited, accepted, clan, disk>>

\* The client's room has a mode of its own here.
Modes == {"any", "survival", "own"}
HasMode(r, mode) == mode \in {"any", IF r = "own" THEN "own" ELSE "survival"}
OfMode(rooms, mode) == Only(rooms, {r \in ToSet(rooms) : HasMode(r, mode)})

\* The rooms of the mode asked for, 0 for any, from start on; twenty at most, and twenty
\* when no number is given.
PageMax == 20
Page(rooms, mode, start, want) ==
  LET found == OfMode(rooms, mode)
      from  == Min({start, Len(found)})
      count == Min({IF want = 0 THEN PageMax ELSE want, PageMax})
  IN [total |-> Len(found), rows |-> SubSeq(found, from + 1, Min({from + count, Len(found)}))]

\* A room whose name or owner cannot be built is the end of every list it is in.
RoomList(c, mode, start, want) ==
  /\ Asks(c)
  /\ LET page == Page(Rooms(c), mode, start, want) IN
     Delivers(c, IF "own" \in ToSet(page.rows) /\ room[c] = "latin" THEN <<>>
                 ELSE <<"ROOMS">>)
  /\ UNCHANGED <<pending, nick, social, clan, disk>>

-----------------------------------------------------------------------------
(* Requests that change nothing, with their answers.                       *)

Geo == [pinglist |-> <<"PINGLIST">>, zonelist |-> <<"ZONELIST">>]
Channels == [mainchannels |-> <<"MAINCHANNELS">>, zonechannels |-> <<"ZONECHANNELS">>]
Wallet == [shopconfhash |-> <<"SHOPCONFHASH">>, tpbalance |-> <<"TP_">>]
RoomAlloc == [startroomalloc |-> <<"ROOMALLOC", "ENTERROOMALLOC">>]
Chat == [chat |-> <<"ECHO">>]
VerifyClanName == [verifyclanname |-> <<"CLANNAME">>]
Heartbeat == [heartbeat |-> <<"HEARTBEAT">>]
\* Recognised, and left without an answer.
Deferred == {"antibot", "cardinfo", "clandetail", "clanmembers", "clancommon", "recruit", "unknown"}
Answering == {Geo, Channels, Wallet, RoomAlloc, Chat, VerifyClanName, Heartbeat}
Stateless ==
  [q \in Deferred \cup UNION {DOMAIN h : h \in Answering} |->
     IF q \in Deferred THEN <<>> ELSE (CHOOSE h \in Answering : q \in DOMAIN h)[q]]

LobbyAssumption == Sockets \subseteq Nat \ {0} /\ MaxRequests \in Nat /\ Asked \subseteq DOMAIN Stateless

AsksOnly(c, q) ==
  /\ Asks(c) /\ Delivers(c, Stateless[q])
  /\ UNCHANGED <<pending, nick, social, clan, disk>>

Next ==
  \/ Crashes
  \/ \E c \in Sockets :
       \/ Opens(c) \/ Ends(c) \/ Login(c) \/ Ready(c) \/ Refreshes(c) \/ DeleteFriend(c)
       \/ \E name \in Names : CreateAccount(c, name) \/ AddFriend(c, name) \/ CreateRoom(c, name)
       \/ \E name \in Names \cup {"empty", "long"} : CreateClan(c, name)
       \/ \E about \in {"friend", "others"} : FriendStatus(c, about)
       \/ \E result \in {"success", "refused"} : AnswerInvite(c, result)
       \/ RoomList(c, "any", 0, 0) \/ RoomList(c, "survival", 1, 2)
       \/ \E q \in Asked : AsksOnly(c, q)
Spec == Init /\ [][Next]_vars

-----------------------------------------------------------------------------
Count(s, m) == Cardinality({i \in DOMAIN s : s[i] = m})
Upto(s, i) == SubSeq(s, 1, i)

\* The profile goes out at most once per login and as one block; the friend asks at most
\* once per connection, and not when it was the last thing the client heard that they
\* are friends already.
ToldOnce ==
  \A c \in Sockets : \A i \in DOMAIN told[c] :
    LET m == told[c][i]
        before == Upto(told[c], i - 1)
    IN /\ m = "PLAYERINFO" => Count(before, "PLAYERINFO") < Count(before, "LOGIN")
       /\ \A k \in 1..3 : (m = Profile[k] /\ i < Len(told[c])) <=> (i < Len(told[c]) /\ told[c][i + 1] = Profile[k + 1])
       /\ m = "INVITE" =>
            /\ Count(before, "INVITE") = 0
            /\ \A j \in DOMAIN before : before[j] = "FRIEND" =>
                 \E k \in (j + 1)..Len(before) : before[k] = "UNFRIENDED"

\* A clan whose creation was confirmed to its client (A602) is on disk for the next
\* connection and the next run of the server, or one created later, unless the file could
\* not be read after that.  So is every clan whose ClanID an A005 told, of this connection
\* or another one, but those whose own save has failed: they stay in the memory of the
\* connection that made them, and each of its A005s tells them.
ClanKept == \A k \in granted \cup (shown \ unsaved) : file >= k \/ k <= asideAt

\* The pages of a room list, one after the other, are the whole list.
PagesCover ==
  \A c \in Sockets : link[c] = "up" => \A mode \in Modes :
    LET page(k) == Page(Rooms(c), mode, 2 * (k - 1), 2).rows
    IN page(1) \o page(2) = OfMode(Rooms(c), mode)
=============================================================================
