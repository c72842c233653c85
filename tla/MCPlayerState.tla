---------------------------- MODULE MCPlayerState ----------------------------
(***************************************************************************)
(* Small instances of PlayerState: a rifle and a second role on sale for   *)
(* one currency, a knife for another, and files a user may have edited.    *)
(***************************************************************************)
EXTENDS PlayerState, TLC

MCCatalog == [rifle |-> [cur |-> "GP", price |-> 2], agent |-> [cur |-> "GP", price |-> 1],
              vest |-> [cur |-> "MP", price |-> 1]]
MCCanon == [role |-> "ROLE1", bag1 |-> "BAG", bag2 |-> "BAG",
            rifle |-> "primary", agent |-> "ROLE2", vest |-> "BAG"]

\* A single line, a cart of two, and one in the wrong currency.
OneRifle == [pay |-> "GP", cart |-> <<"rifle">>]
MCRequests == {OneRifle, [pay |-> "GP", cart |-> <<"rifle", "agent">>],
               [pay |-> "MP", cart |-> <<"rifle">>]}
FewRequests == {[pay |-> "GP", cart |-> <<"agent">>], [pay |-> "GP", cart |-> <<"agent", "agent">>]}

Op(kind, g, target, loc) == [kind |-> kind, gid |-> g, target |-> target, loc |-> loc]
\* What a client asks of its first two purchases, of the starters, and of a gid
\* nobody has.
MCOperations ==
  {Op("EQUIP", g, t, l) : g \in {FirstGid, FirstGid + 1}, t \in {0, Bag2Gid}, l \in {"BAG", "ROLE2"}}
    \cup {Op("EQUIP", Bag1Gid, 1, "BAG"), Op("DROP", RoleGid, 0, "BAG"),
          Op("DROP", FirstGid, 0, "BAG"), Op("TAKEOFF", FirstGid, 0, "BAG"),
          Op("DROP", GidSpace - 1, 0, "BAG")}
FewOperations == {Op("DROP", FirstGid, 0, "BAG"), Op("EQUIP", FirstGid, 0, "BAG")}

\* An edited save: a balance no i32 can hold, the second backpack lost, a gid taken
\* by another item, a row without one, a role nobody has, the last gid of the space
\* in use or the next one at its end.
ByHand(inv, role, next) ==
  [wallet |-> [AP |-> -1, GP |-> WalletCap + 1, MP |-> 1], inv |-> inv, role |-> role,
   next |-> next, books |-> None]
MCEdited ==
  {None,
   ByHand({Starter(RoleGid), NewProp(Bag1Gid, "rifle"), NewProp(0, "vest")}, 1, GidSpace - 1),
   ByHand({Starter(RoleGid), Starter(Bag1Gid), NewProp(GidSpace - 1, "vest"),
           NewProp(FirstGid, "rifle"), NewProp(FirstGid, "agent")}, FirstGid, 1)}
NoFile == {None}

Symmetric == Permutations(Conns)
=============================================================================
