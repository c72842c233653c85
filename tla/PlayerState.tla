---------------------------- MODULE PlayerState ----------------------------
(***************************************************************************)
(* The local player's wallet and inventory in                              *)
(* server/assaultfire_server_v94.py: the JSON save, the Zone connections   *)
(* that each work on a copy of it, the shop, and the prop operations.      *)
(*                                                                         *)
(* A connection is a thread.  It begins a state session, loads the save    *)
(* into its own locals, and from then on changes its locals, saves them    *)
(* and answers, one request after the other; a save goes through only for  *)
(* the session that began last.  Between the save and the answer another   *)
(* connection may begin, or the server may die, so answering is an action  *)
(* of its own.  An exception in a request, of the save or of a send, is    *)
(* logged and the connection goes on with the next request it has; one     *)
(* outside of a request ends it with a last save.                          *)
(*                                                                         *)
(* Of a prop only the fields that operations read are kept; an item of the *)
(* catalogue stands for the commodity that sells it.                       *)
(***************************************************************************)
EXTENDS Integers, FiniteSets, FiniteSetsExt, SequencesExt

CONSTANTS
  Conns,       \* Zone connections
  Catalog,     \* item on sale -> its currency and price
  Canon,       \* item -> canonical location (REAL_ITEM_DEFAULT_LOCATIONS)
  Opening,     \* LOCAL_*_BALANCE, alike for every currency
  WalletCap,   \* 0x7fffffff
  GidSpace,    \* gids are taken modulo this (2^64)
  Requests,    \* purchase requests [pay, cart] clients send
  Seqs,        \* application sequence numbers
  Operations,  \* prop operations clients send
  Edited,      \* saves a user may have left behind, None for no file
  CacheSize,   \* purchase answers a connection remembers (64)
  Faults,      \* subset of {"read", "write"}: file operations that may fail
  MaxSessions, MaxProps,  \* bounds: sessions between two starts, props
  None

Currencies == {"AP", "GP", "MP"}
Locations == {"primary", "ROLE1", "ROLE2", "BAG"}
Gids == 1 .. GidSpace - 1
\* The starters' gids follow each other; 1 stands for the gids below them.
RoleGid == 2
Bag1Gid == 3
Bag2Gid == 4
StarterGids == {RoleGid, Bag1Gid, Bag2Gid}
FirstGid == 5
BagItems == {"bag1", "bag2"}
RoleLocs == {"ROLE1", "ROLE2"}
Items == {"role", "bag1", "bag2"} \cup DOMAIN Catalog

ASSUME PlayerStateAssumption ==
  /\ Opening \in 0 .. WalletCap /\ WalletCap \in Nat
  /\ GidSpace \in Nat /\ GidSpace > FirstGid /\ MaxProps \in 3 .. GidSpace - 2
  /\ CacheSize \in Nat \ {0} /\ MaxSessions \in Nat
  /\ Faults \subseteq {"read", "write"}
  /\ \A i \in DOMAIN Catalog : Catalog[i].cur \in Currencies /\ Catalog[i].price \in Nat
  /\ Canon \in [Items -> Locations] /\ Canon["role"] \in RoleLocs
  /\ \A req \in Requests : req.pay \in Currencies /\ req.cart \in Seq(Items)
  /\ \A op \in Operations : op.target \in 0 .. GidSpace - 1 /\ op.loc \in Locations

Prop == [gid : Gids, item : Items, owner : 0 .. GidSpace - 1, loc : Locations]
\* `books` is no field of the code's state: what wallet and props together must
\* be worth, in the price each prop was sold for.
State == [wallet : [Currencies -> 0 .. WalletCap], inv : SUBSET Prop, role : Gids,
          next : 0 .. GidSpace - 1, books : [Currencies -> Nat]]

VARIABLES
  disk,    \* the save file, None if there is none
  counter, \* _PLAYER_STATE_SESSION_COUNTER
  active,  \* _PLAYER_STATE_ACTIVE_SESSION
  pc,      \* where each connection's thread is
  sid,     \* its session
  mem,     \* its local_* variables
  cache,   \* processed_buy_requests in the order of processed_buy_order
  doing,   \* the purchase it is about to answer, None for another request
  charges  \* history: how often each sequence number was charged on it

file == <<disk, counter, active>>
vars == <<file, pc, sid, mem, cache, doing, charges>>

-----------------------------------------------------------------------------
(* Inventories                                                             *)

GidsOf(inv) == {p.gid : p \in inv}
HasGid(inv, g) == g \in GidsOf(inv)
TheProp(inv, g) == CHOOSE p \in inv : p.gid = g
NewProp(g, i) == [gid |-> g, item |-> i, owner |-> 0, loc |-> "BAG"]
Starter(g) == CASE g = RoleGid -> [NewProp(g, "role") EXCEPT !.loc = "ROLE1"]
                [] g = Bag1Gid -> NewProp(g, "bag1")
                [] g = Bag2Gid -> NewProp(g, "bag2")

\* What a user may leave behind: any JSON that reads as a state, as long as the
\* inventory it comes down to keeps within the bound and puts no two props into
\* one socket, which the code does not look at.
SaveFile ==
  [wallet : [Currencies -> Int], role : 0 .. GidSpace - 1, next : 0 .. GidSpace - 1,
   inv : SUBSET [gid : 0 .. GidSpace - 1, item : Items, owner : 0 .. GidSpace - 1, loc : Locations],
   books : {None}]
ASSUME EditedAssumption ==
  /\ \A s \in Edited \ {None} :
       /\ s \in SaveFile /\ IsFiniteSet(s.inv)
       /\ Cardinality(GidsOf(s.inv) \cup StarterGids) <= MaxProps
       /\ \A p, q \in s.inv \cup {Starter(g) : g \in StarterGids} :
            p.gid # q.gid /\ p.owner = q.owner /\ p.loc = q.loc => p.loc = "BAG"
  /\ None \notin State \cup [Currencies -> Nat]

\* _v89_next_free_gid: the first one from candidate on, around the end of the
\* space and never 0, that is not in use.
Ahead(from, g) == (g - from + GidSpace) % GidSpace
\* Fault: a number in use is stepped over once only.
BadNextFree(candidate, used) ==
  IF candidate \in Gids \ used THEN candidate ELSE (candidate % (GidSpace - 1)) + 1
NextFree(candidate, used) ==
  CHOOSE g \in Gids \ used :
    \A h \in Gids \ used : Ahead(candidate, g) <= Ahead(candidate, h)

IsRole(p) == p.loc \in RoleLocs \/ Canon[p.item] \in RoleLocs
\* Fault: the preferred role is kept without a look at the inventory.
BadPickRole(inv, preferred) == preferred
\* _v87_pick_current_role_gid: the preferred one if it is a role the player has,
\* else the first role, the one worn as ROLE1 before the others.
PickRole(inv, preferred) ==
  LET roles  == {p \in inv : IsRole(p)}
      worn   == {p \in roles : p.loc = "ROLE1"}
      choice == IF worn # {} THEN worn ELSE roles
  IN IF preferred \in GidsOf(roles) THEN preferred
     ELSE IF roles = {} THEN RoleGid ELSE Min(GidsOf(choice))

\* Fault: only a negative balance is put right.
BadClamp(n) == IF n < 0 THEN 0 ELSE n
\* _v89_wallet
Clamp(n) == IF n < 0 THEN 0 ELSE IF n > WalletCap THEN WalletCap ELSE n
\* What wallet and props are worth.
Price(i, cur) == IF i \in DOMAIN Catalog /\ Catalog[i].cur = cur THEN Catalog[i].price ELSE 0
Value(inv, cur) == MapThenSumSet(LAMBDA p : Price(p.item, cur), inv)
Worth(s, cur) == s.wallet[cur] + Value(s.inv, cur)

\* _v87_normalize_state, applied to what is read and to what is written.  Of rows
\* with the same gid one is kept, the last in the file's order, which a set has not: it
\* may be any.  Rows without a gid go, the starters come back.
Normalize(s) ==
  LET rows   == {TheProp(s.inv, g) : g \in GidsOf(s.inv) \ {0}}
      broken == {g \in StarterGids : ~HasGid(rows, g) \/ TheProp(rows, g).item # Starter(g).item}
      inv    == {p \in rows : p.gid \notin broken} \cup {Starter(g) : g \in broken}
      used   == GidsOf(inv)
      top    == Max(used)
      next   == IF s.next \in {0} \cup used \/ s.next <= top THEN (top + 1) % GidSpace ELSE s.next
  IN [s EXCEPT !.wallet = [cur \in Currencies |-> Clamp(s.wallet[cur])],
               !.inv = inv, !.role = PickRole(inv, s.role), !.next = NextFree(next, used)]

Balances(n) == [cur \in Currencies |-> n]
Default ==
  LET starters == {Starter(g) : g \in StarterGids}
  IN [wallet |-> Balances(Opening), inv |-> starters, role |-> RoleGid, next |-> FirstGid,
      books |-> [cur \in Currencies |-> Opening + Value(starters, cur)]]

-----------------------------------------------------------------------------
(* Purchases: _v89_plan_buy and the commit that follows it                 *)

\* Fault: only the last line of the cart is charged.
BadCost(req) == Price(Last(req.cart), req.pay)
Cost(req) == FoldLeft(LAMBDA sum, i : sum + Price(i, req.pay), 0, req.cart)
Accepts(s, req) ==
  /\ req.cart # <<>>
  /\ \A i \in Range(req.cart) : i \in DOMAIN Catalog /\ Catalog[i].cur = req.pay
  /\ FoldLeft(LAMBDA sum, i : sum + Price(i, req.pay), 0, req.cart) <= s.wallet[req.pay]

\* Each line gets the next free gid; past the end of the space the cursor starts
\* again behind the starters.
Grant(got, i) ==
  LET g    == NextFree(got.next, GidsOf(got.inv))
      next == (g + 1) % GidSpace
  IN [inv |-> got.inv \cup {NewProp(g, i)}, next |-> IF next = 0 THEN FirstGid ELSE next]
Bought(s, req) ==
  LET got == FoldLeft(Grant, [inv |-> s.inv, next |-> s.next], req.cart)
  IN [s EXCEPT !.wallet[req.pay] = @ - Cost(req), !.inv = got.inv, !.next = got.next]

-----------------------------------------------------------------------------
(* Prop operations: _v80_apply_prop_operation and the choice of role       *)

Dropped(s, op) ==
  IF op.gid \in StarterGids \/ ~HasGid(s.inv, op.gid) THEN s
  ELSE LET gone == {p \in s.inv : p.gid = op.gid}
       IN [s EXCEPT !.inv = @ \ gone,
             !.books = [cur \in Currencies |-> @[cur] - Value(gone, cur)]]

\* The owner and the location an equip request comes down to.
BagGids(inv) == {p.gid : p \in {q \in inv : q.item \in BagItems}}
EquipOwner(s, p, op) ==
  IF p.item \in BagItems \/ op.target \in BagGids(s.inv) THEN op.target
  ELSE IF op.target \in {0, s.role} THEN Bag1Gid
  ELSE op.target
EquipLoc(s, p, op) ==
  IF p.item \notin BagItems /\ EquipOwner(s, p, op) \in BagGids(s.inv) /\ op.loc = "BAG"
    THEN Canon[p.item] ELSE op.loc

\* Fault: whoever sits in the socket stays there.
BadDisplaced(s, p, owner, loc) == {}
\* Whoever sits in the same socket; the bag holds any number of props.
Displaced(s, p, owner, loc) ==
  {q \in s.inv : q.gid # p.gid /\ loc # "BAG" /\ q.owner = owner /\ q.loc = loc}
Equipped(s, op) ==
  IF ~HasGid(s.inv, op.gid) THEN s
  ELSE LET p     == TheProp(s.inv, op.gid)
           owner == EquipOwner(s, p, op)
           loc   == EquipLoc(s, p, op)
           out   == Displaced(s, p, owner, loc)
           worn  == [p EXCEPT !.owner = owner, !.loc = loc]
       IN [s EXCEPT !.inv = (@ \ (out \cup {p})) \cup {worn}
                              \cup {[q EXCEPT !.owner = 0, !.loc = "BAG"] : q \in out},
                    !.role = IF IsRole(worn) THEN op.gid ELSE @]
TakenOff(s, op) ==
  IF ~HasGid(s.inv, op.gid) THEN s
  ELSE LET p == TheProp(s.inv, op.gid)
       IN [s EXCEPT !.inv = (@ \ {p}) \cup {[p EXCEPT !.owner = 0, !.loc = "BAG"]}]

Operated(s, op) ==
  LET t == CASE op.kind = "DROP"    -> Dropped(s, op)
             [] op.kind = "EQUIP"   -> Equipped(s, op)
             [] op.kind = "TAKEOFF" -> TakenOff(s, op)
             [] OTHER               -> s
  IN [t EXCEPT !.role = PickRole(t.inv, t.role)]

-----------------------------------------------------------------------------
(* The save                                                                *)

\* Fault: any session may write.
BadMaySave(c) == TRUE
MaySave(c) == sid[c] = active
\* Fault: the state before the request is written.
BadSave(c, s) == disk' = IF MaySave(c) THEN Normalize(mem[c]) ELSE disk
\* _v87_save_state: nothing is written for a session that is not the last one;
\* the new file replaces the old one as a whole.
Save(c, s) == disk' = IF MaySave(c) THEN Normalize(s) ELSE disk
SaveRaises(c) == "write" \in Faults /\ MaySave(c) /\ UNCHANGED disk

Goto(c, where) == pc' = [pc EXCEPT ![c] = where]
SetMem(c, s) == mem' = [mem EXCEPT ![c] = s]

-----------------------------------------------------------------------------
Init ==
  /\ disk \in Edited
  /\ counter = 0 /\ active = 0
  /\ pc = [c \in Conns |-> "closed"]
  /\ sid = [c \in Conns |-> 0]
  /\ mem = [c \in Conns |-> Default]
  /\ cache = [c \in Conns |-> <<>>]
  /\ doing = [c \in Conns |-> None]
  /\ charges = [c \in Conns |-> [q \in Seqs |-> 0]]

\* _v89_begin_state_session
BeginSession(c) ==
  /\ pc[c] = "closed" /\ counter < MaxSessions
  /\ counter' = counter + 1 /\ active' = counter + 1
  /\ sid' = [sid EXCEPT ![c] = counter + 1]
  /\ Goto(c, "begun")
  /\ UNCHANGED <<disk, mem, cache, doing, charges>>

\* What a reader starts from a file it can read.
Opened(s) ==
  LET t == Normalize(s) IN [t EXCEPT !.books = [cur \in Currencies |-> Worth(t, cur)]]
\* _v87_load_state.  A file that cannot be read is put aside, if that works, and
\* the player starts anew.
Load(c) ==
  /\ pc[c] = "begun"
  /\ \/ /\ disk # None
        /\ SetMem(c, IF disk.books = None THEN Opened(disk) ELSE Normalize(disk))
        /\ Goto(c, "open") /\ UNCHANGED disk
     \/ /\ disk = None
        /\ SetMem(c, Default)
        /\ Goto(c, "init") /\ UNCHANGED disk
     \/ /\ disk # None /\ "read" \in Faults
        /\ SetMem(c, Default)
        /\ Goto(c, "init") /\ disk' \in {None, disk}
  /\ UNCHANGED <<counter, active, sid, cache, doing, charges>>
\* A state that did not come from the file is saved at once.
InitialSave(c) ==
  /\ pc[c] = "init"
  /\ \/ Save(c, mem[c]) /\ Goto(c, "open")
     \/ SaveRaises(c) /\ Goto(c, "ending")
  /\ UNCHANGED <<counter, active, sid, mem, cache, doing, charges>>

\* Such a request is answered again or refused as a collision, and changes nothing.
Cached(c, q) == \E k \in DOMAIN cache[c] : cache[c][k].seq = q
Remember(c, q, req) ==
  LET grown == Append(cache[c], [seq |-> q, req |-> req])
  IN cache' = [cache EXCEPT ![c] = IF Len(grown) > CacheSize THEN Tail(grown) ELSE grown]

Buy(c, q, req) ==
  /\ pc[c] = "open" /\ ~Cached(c, q) /\ Accepts(mem[c], req)
  /\ Cardinality(mem[c].inv) + Len(req.cart) <= MaxProps
  /\ LET s == Bought(mem[c], req) IN
     /\ SetMem(c, s)
     /\ \/ /\ Save(c, s) /\ Goto(c, "answer")
           /\ doing' = [doing EXCEPT ![c] = [seq |-> q, req |-> req]]
        \/ SaveRaises(c) /\ UNCHANGED <<pc, doing>>
  /\ charges' = [charges EXCEPT ![c][q] = @ + 1]
  /\ UNCHANGED <<counter, active, sid, cache>>
\* Refused before anything has changed.  If the refusal cannot be sent it is not
\* remembered either, which is a stuttering step.
RejectBuy(c, q, req) ==
  /\ pc[c] = "open" /\ ~Cached(c, q) /\ ~Accepts(mem[c], req)
  /\ Remember(c, q, req)
  /\ UNCHANGED <<file, pc, sid, mem, doing, charges>>

\* C2ZN_REQ_PROPOPERATION and C2ZN_REQ_ITEM_OPERATION.
Operate(c, op) ==
  /\ pc[c] = "open"
  /\ LET s == Operated(mem[c], op) IN
     /\ SetMem(c, s)
     /\ \/ Save(c, s) /\ Goto(c, "answer")
        \/ SaveRaises(c) /\ UNCHANGED pc
  /\ UNCHANGED <<counter, active, sid, cache, doing, charges>>

\* The answer goes out and a purchase is remembered; a send that fails is caught
\* like any error of a request.
Answer(c) ==
  /\ pc[c] = "answer" /\ Goto(c, "open")
  /\ \/ doing[c] # None /\ Remember(c, doing[c].seq, doing[c].req)
     \/ UNCHANGED cache
  /\ doing' = [doing EXCEPT ![c] = None]
  /\ UNCHANGED <<file, sid, mem, charges>>

\* C2ZN_REQ_CREATEACCOUNT and C2ZN_REQ_CHANGE_ROLE: answered first, then saved; if
\* either fails nothing changes.
SaveAgain(c) ==
  /\ pc[c] = "open"
  /\ Save(c, mem[c])
  /\ UNCHANGED <<counter, active, pc, sid, mem, cache, doing, charges>>

\* The client closes, resets, or stays longer than the follow-up time.
Leave(c) ==
  /\ pc[c] = "open" /\ Goto(c, "ending")
  /\ UNCHANGED <<file, sid, mem, cache, doing, charges>>
\* The finally block; a save that fails is only logged.
Close(c) ==
  /\ pc[c] = "ending"
  /\ \/ Save(c, [mem[c] EXCEPT !.role = PickRole(mem[c].inv, @)])
     \/ SaveRaises(c)
  /\ Goto(c, "closed") /\ SetMem(c, Default)
  /\ sid' = [sid EXCEPT ![c] = 0]
  /\ cache' = [cache EXCEPT ![c] = <<>>]
  /\ charges' = [charges EXCEPT ![c] = [q \in Seqs |-> 0]]
  /\ UNCHANGED <<counter, active, doing>>

\* The server process ends and is started again: only the file is left.
Restart ==
  /\ counter' = 0 /\ active' = 0
  /\ pc' = [c \in Conns |-> "closed"]
  /\ sid' = [c \in Conns |-> 0]
  /\ mem' = [c \in Conns |-> Default]
  /\ cache' = [c \in Conns |-> <<>>]
  /\ doing' = [c \in Conns |-> None]
  /\ charges' = [c \in Conns |-> [q \in Seqs |-> 0]]
  /\ UNCHANGED disk

Next ==
  \/ \E c \in Conns :
       \/ BeginSession(c) \/ Load(c) \/ InitialSave(c)
       \/ \E q \in Seqs, req \in Requests : Buy(c, q, req) \/ RejectBuy(c, q, req)
       \/ \E op \in Operations : Operate(c, op)
       \/ Answer(c) \/ SaveAgain(c) \/ Leave(c) \/ Close(c)
  \/ Restart

Spec == Init /\ [][Next]_vars

-----------------------------------------------------------------------------
(* Properties                                                              *)

\* What the connections hold, and the save once the server has written it.
Written == disk # None /\ disk.books # None
States == {mem[c] : c \in Conns} \cup (IF Written THEN {disk} ELSE {})

\* Everything has its type; above all no balance leaves the range the protocol's
\* i32 can carry, whatever was in the file (_v89_wallet).
TypeOK ==
  /\ States \subseteq State
  /\ counter \in 0 .. MaxSessions /\ active \in 0 .. counter
  /\ pc \in [Conns -> {"closed", "begun", "init", "open", "answer", "ending"}]
  /\ sid \in [Conns -> 0 .. counter]
  /\ \A c \in Conns : Len(cache[c]) <= CacheSize
  /\ doing \in [Conns -> {None} \cup [seq : Seqs, req : Requests]]

\* No two props share a gid, in memory or in the save: equip, take-off and drop
\* name a prop by it alone (_v89_next_free_gid, _v87_normalize_state).
GidsUnique == \A s \in States : Cardinality(GidsOf(s.inv)) = Cardinality(s.inv)

\* An equipment socket, which is an owner and a location other than the bag, holds
\* one prop at most (_v80_apply_prop_operation).
SocketsExclusive ==
  \A s \in States : \A p, q \in s.inv :
    p # q /\ p.owner = q.owner /\ p.loc = q.loc => p.loc = "BAG"

\* The current role is always a role the player has: dropping or exchanging roles
\* never leaves the profile with one that is gone (_v87_pick_current_role_gid).
RoleOwned == \A s \in States : \E p \in s.inv : p.gid = s.role /\ IsRole(p)

\* Wallet and props together stay worth what the player started with less what was
\* dropped: no purchase charges without a grant or grants without a charge, in
\* memory or in the save, whatever fails and whichever connection saves.
Accounted == \A s \in States : \A cur \in Currencies : Worth(s, cur) = s.books[cur]

\* What the last session is about to report is what a restart would load.
ShownIsSaved ==
  \A c \in Conns : pc[c] = "answer" /\ sid[c] = active =>
    /\ disk # None
    /\ disk.wallet = mem[c].wallet /\ disk.inv = mem[c].inv /\ disk.role = mem[c].role

\* No save takes a purchase back: a connection with an older copy of the wallet
\* never overwrites a newer one (the session check of _v87_save_state).
NothingUnspent ==
  [][disk # None /\ disk' \notin {None, disk} =>
       \A cur \in Currencies : disk'.wallet[cur] <= Clamp(disk.wallet[cur])]_vars

\* A retransmitted purchase is answered again and not charged again, as the comment
\* above processed_buy_requests has it.
ChargedOnce == \A c \in Conns, q \in Seqs : charges[c][q] <= 1
=============================================================================
