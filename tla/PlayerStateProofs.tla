------------------------- MODULE PlayerStateProofs -------------------------
(***************************************************************************)
(* Safety of the player state for any catalogue, any requests and          *)
(* operations, any files a user left behind, any number of connections and *)
(* any of the failures.  Every state the server holds is a good one        *)
(* (Stored) and sessions tell connections apart (Sessions); that the last  *)
(* session has seen the file (Fresh) needs reads that do not fail.         *)
(*                                                                         *)
(* First what the operators of PlayerState compute, for every argument:    *)
(* values of inventories, free gids, purchases of a whole cart,            *)
(* normalisation.  They are folds over sets and carts and minima of sets   *)
(* of gids, so each fact is an induction.  The induction principle is      *)
(* stated of a set of numbers (NatInd) and comes from the                  *)
(* well-foundedness of <; the set in each use is that of the numbers the   *)
(* fact holds for.                                                         *)
(***************************************************************************)
EXTENDS PlayerState, FiniteSetTheorems, WellFoundedInduction, TLAPS

-----------------------------------------------------------------------------
(* Numbers                                                                 *)

Less == {ss \in Nat \X Nat : ss[1] < ss[2]}

LEMMA LessWellFounded == IsWellFoundedOn(Less, Nat)
  BY NatLessThanWellFounded DEF OpToRel, Less

LEMMA NatMin == ASSUME NEW S \in SUBSET Nat, S # {} PROVE \E m \in S : \A n \in S : m <= n
<1>1. PICK m \in S : \A n \in S : ~(<<n, m>> \in Less)
  BY WFMin, LessWellFounded
<1>2. \A n \in S : n \in Nat /\ m \in Nat
  OBVIOUS
<1>3. \A n \in S : ~(n < m)
  BY <1>1, <1>2 DEF Less
<1>4. \A n \in S : m <= n
  BY <1>2, <1>3
<1>. QED
  BY <1>4

LEMMA NatInd == ASSUME NEW S \in SUBSET Nat, 0 \in S, \A n \in S : n + 1 \in S PROVE S = Nat
<1>. SUFFICES ASSUME S # Nat PROVE FALSE
  OBVIOUS
<1>1. PICK m \in Nat \ S : \A n \in Nat \ S : m <= n
  BY NatMin
<1>2. m # 0 /\ m - 1 \in Nat /\ m - 1 \in S
  BY <1>1
<1>. QED
  BY <1>1, <1>2

\* Min and Max are what their names say.
LEMMA MinIn ==
  ASSUME NEW S \in SUBSET Nat, S # {}
  PROVE  Min(S) \in S /\ \A n \in S : Min(S) <= n
  BY NatMin DEF Min

LEMMA MaxIn ==
  ASSUME NEW S \in SUBSET Nat, S # {}, NEW b \in Nat, \A n \in S : n <= b
  PROVE  Max(S) \in S /\ \A n \in S : n <= Max(S)
<1>. DEFINE D == {b - n : n \in S}
<1>1. D \in SUBSET Nat /\ D # {}
  <2>1. \A n \in S : n \in Nat /\ n <= b /\ b - n \in Nat
    OBVIOUS
  <2>. QED
    BY <2>1
<1>2. PICK d \in D : \A e \in D : d <= e
  BY <1>1, NatMin
<1>3. PICK m \in S : d = b - m
  OBVIOUS
<1>4. \A n \in S : b - m <= b - n
  BY <1>2, <1>3
<1>5. \A n \in S : m >= n
  BY <1>4
<1>. QED
  BY <1>5 DEF Max

-----------------------------------------------------------------------------
(* The value of an inventory                                               *)

LEMMA PriceNat == \A i, cur : Price(i, cur) \in Nat
  BY PlayerStateAssumption DEF Price

Chosen(S) == CHOOSE p \in S : TRUE
\* f is the table of sums that Value builds for the subsets of S.
Sums(f, T, cur) ==
  f = [s \in T |-> IF s = {} THEN 0 ELSE Price(Chosen(s).item, cur) + f[s \ {Chosen(s)}]]

Table(S, cur) == CHOOSE f : Sums(f, SUBSET S, cur)

LEMMA ValueIsSum ==
  ASSUME NEW S, NEW cur
  PROVE  Value(S, cur) = Table(S, cur)[S]
  BY DEF Value, Table, Sums, Chosen, MapThenSumSet, MapThenFoldSet

LEMMA LessOne ==
  ASSUME NEW S, IsFiniteSet(S), S # {}
  PROVE  /\ Chosen(S) \in S /\ IsFiniteSet(S \ {Chosen(S)})
         /\ Cardinality(S) \in Nat \ {0}
         /\ Cardinality(S \ {Chosen(S)}) = Cardinality(S) - 1
  BY FS_RemoveElement, FS_CardinalityType, FS_EmptySet DEF Chosen

LEMMA SumsExist ==
  ASSUME NEW S, IsFiniteSet(S), NEW cur
  PROVE  \E f : Sums(f, SUBSET S, cur)
<1>. DEFINE Small(n) == {s \in SUBSET S : Cardinality(s) <= n}
            N == {n \in Nat : \E f : Sums(f, Small(n), cur)}
<1>1. \A s \in SUBSET S : IsFiniteSet(s) /\ Cardinality(s) \in Nat
  BY FS_Subset, FS_CardinalityType
<1>2. 0 \in N
  <2>1. Small(0) = {{}}
    BY <1>1, FS_EmptySet
  <2>2. Sums([s \in Small(0) |-> 0], Small(0), cur)
    BY <2>1 DEF Sums
  <2>. QED
    BY <2>2
<1>3. ASSUME NEW n \in N PROVE n + 1 \in N
  <2>1. PICK f : Sums(f, Small(n), cur)
    OBVIOUS
  <2>. DEFINE g == [s \in Small(n + 1) |->
                      IF s = {} THEN 0 ELSE Price(Chosen(s).item, cur) + f[s \ {Chosen(s)}]]
  <2>2. ASSUME NEW s \in Small(n + 1), s # {}
        PROVE  s \ {Chosen(s)} \in Small(n) /\ s \ {Chosen(s)} \in Small(n + 1)
    <3>1. Cardinality(s \ {Chosen(s)}) = Cardinality(s) - 1
      BY <1>1, <2>2, LessOne
    <3>2. Cardinality(s) <= n + 1 /\ Cardinality(s) \in Nat /\ s \ {Chosen(s)} \in SUBSET S
      BY <1>1
    <3>. QED
      BY <3>1, <3>2
  <2>3. \A s \in Small(n) : s \in Small(n + 1)
    BY <1>1
  <2>4. \A s \in Small(n) : g[s] = f[s]
    BY <2>1, <2>3 DEF Sums
  <2>5. \A s \in Small(n + 1) \ {{}} : g[s \ {Chosen(s)}] = f[s \ {Chosen(s)}]
    BY <2>2, <2>4
  <2>6. \A s \in Small(n + 1) :
          g[s] = IF s = {} THEN 0 ELSE Price(Chosen(s).item, cur) + g[s \ {Chosen(s)}]
    BY <2>5
  <2>7. Sums(g, Small(n + 1), cur)
    BY <2>6, Zenon DEF Sums
  <2>. HIDE DEF g, Small
  <2>. QED
    BY <2>7
<1>4. Cardinality(S) \in N
  <2>. HIDE DEF N
  <2>1. N = Nat
    <3>1. N \in SUBSET Nat
      BY DEF N
    <3>. QED
      BY <1>2, <1>3, <3>1, NatInd
  <2>. QED
    BY <2>1, <1>1
<1>5. Small(Cardinality(S)) = SUBSET S
  BY <1>1, FS_Subset
<1>. QED
  BY <1>4, <1>5

LEMMA TableSums ==
  ASSUME NEW S, IsFiniteSet(S), NEW cur
  PROVE  \A u \in SUBSET S : Table(S, cur)[u] =
           IF u = {} THEN 0 ELSE Price(Chosen(u).item, cur) + Table(S, cur)[u \ {Chosen(u)}]
<1>1. Sums(Table(S, cur), SUBSET S, cur)
  BY SumsExist DEF Table
<1>. DEFINE f == Table(S, cur)
<1>. HIDE DEF f
<1>2. Sums(f, SUBSET S, cur)
  BY <1>1 DEF f
<1>3. \A u \in SUBSET S :
        f[u] = IF u = {} THEN 0 ELSE Price(Chosen(u).item, cur) + f[u \ {Chosen(u)}]
  BY <1>2 DEF Sums
<1>. QED
  BY <1>3 DEF f

\* Two tables agree where both have an entry.
LEMMA TablesAgree ==
  ASSUME NEW S, NEW T, IsFiniteSet(S), IsFiniteSet(T), NEW U, U \subseteq S, U \subseteq T, NEW cur
  PROVE  Table(S, cur)[U] = Table(T, cur)[U]
<1>. DEFINE f == Table(S, cur)
            g == Table(T, cur)
            N == {n \in Nat : \A u \in SUBSET U : Cardinality(u) = n => f[u] = g[u]}
<1>0. IsFiniteSet(U)
  BY FS_Subset
<1>1. \A u \in SUBSET U : IsFiniteSet(u) /\ Cardinality(u) \in Nat
  BY <1>0, FS_Subset, FS_CardinalityType
<1>2. \A u \in SUBSET U : u \in SUBSET S /\ u \in SUBSET T
  OBVIOUS
<1>a. \A u \in SUBSET U :
        f[u] = IF u = {} THEN 0 ELSE Price(Chosen(u).item, cur) + f[u \ {Chosen(u)}]
  BY <1>2, TableSums
<1>b. \A u \in SUBSET U :
        g[u] = IF u = {} THEN 0 ELSE Price(Chosen(u).item, cur) + g[u \ {Chosen(u)}]
  BY <1>2, TableSums
<1>. HIDE DEF f, g
<1>3. 0 \in N
  BY <1>1, <1>a, <1>b, FS_EmptySet
<1>4. ASSUME NEW n \in N PROVE n + 1 \in N
  <2>. SUFFICES ASSUME NEW u \in SUBSET U, Cardinality(u) = n + 1 PROVE f[u] = g[u]
    OBVIOUS
  <2>1. u # {}
    BY <1>1, FS_EmptySet
  <2>2. Cardinality(u \ {Chosen(u)}) = n
    BY <1>1, <2>1, LessOne
  <2>3. f[u \ {Chosen(u)}] = g[u \ {Chosen(u)}]
    BY <2>2
  <2>. QED
    BY <1>a, <1>b, <2>1, <2>3
<1>5. Cardinality(U) \in N
  <2>. HIDE DEF N
  <2>1. N = Nat
    <3>1. N \in SUBSET Nat
      BY DEF N
    <3>. QED
      BY <1>3, <1>4, <3>1, NatInd
  <2>. QED
    BY <2>1, <1>1
<1>. QED
  BY <1>5 DEF f, g

LEMMA ValueEmpty == ASSUME NEW cur PROVE Value({}, cur) = 0
<1>1. IsFiniteSet({}) /\ {} \in SUBSET {}
  BY FS_EmptySet
<1>2. Table({}, cur)[{}] = 0
  BY <1>1, TableSums
<1>. QED
  BY <1>2, ValueIsSum

\* The sum takes the chosen prop first.
LEMMA ValueChosen ==
  ASSUME NEW S, IsFiniteSet(S), S # {}, NEW cur
  PROVE  Value(S, cur) = Price(Chosen(S).item, cur) + Value(S \ {Chosen(S)}, cur)
<1>. DEFINE R == S \ {Chosen(S)}
<1>1. IsFiniteSet(R) /\ R \subseteq S /\ R \subseteq R /\ S \in SUBSET S
  BY LessOne
<1>2. Table(S, cur)[S] = Price(Chosen(S).item, cur) + Table(S, cur)[R]
  <2>1. \A u \in SUBSET S : u # {} =>
          Table(S, cur)[u] = Price(Chosen(u).item, cur) + Table(S, cur)[u \ {Chosen(u)}]
    BY TableSums
  <2>. HIDE DEF R
  <2>2. Table(S, cur)[S] = Price(Chosen(S).item, cur) + Table(S, cur)[S \ {Chosen(S)}]
    BY <1>1, <2>1
  <2>. QED
    BY <2>2 DEF R
<1>. HIDE DEF R
<1>3. Table(S, cur)[R] = Table(R, cur)[R]
  BY <1>1, TablesAgree
<1>4. Value(S, cur) = Price(Chosen(S).item, cur) + Value(R, cur)
  BY <1>2, <1>3, ValueIsSum
<1>. QED
  BY <1>4 DEF R

LEMMA ValueNat == ASSUME NEW S, IsFiniteSet(S), NEW cur PROVE Value(S, cur) \in Nat
<1>. DEFINE N == {n \in Nat : \A u \in SUBSET S : Cardinality(u) = n => Value(u, cur) \in Nat}
<1>1. \A u \in SUBSET S : IsFiniteSet(u) /\ Cardinality(u) \in Nat
  BY FS_Subset, FS_CardinalityType
<1>2. 0 \in N
  BY <1>1, ValueEmpty, FS_EmptySet
<1>3. ASSUME NEW n \in N PROVE n + 1 \in N
  <2>. SUFFICES ASSUME NEW u \in SUBSET S, Cardinality(u) = n + 1 PROVE Value(u, cur) \in Nat
    OBVIOUS
  <2>1. u # {}
    BY <1>1, FS_EmptySet
  <2>2. Value(u \ {Chosen(u)}, cur) \in Nat
    BY <1>1, <2>1, LessOne
  <2>. QED
    BY <1>1, <2>1, <2>2, ValueChosen, PriceNat
<1>4. Cardinality(S) \in N
  <2>. HIDE DEF N
  <2>1. N = Nat
    <3>1. N \in SUBSET Nat
      BY DEF N
    <3>. QED
      BY <1>2, <1>3, <3>1, NatInd
  <2>. QED
    BY <2>1, <1>1
<1>. QED
  BY <1>4

\* The sum does not depend on the order: a prop more is its price more.
LEMMA ValueAdd ==
  ASSUME NEW S, IsFiniteSet(S), NEW x, x \notin S, NEW cur
  PROVE  Value(S \cup {x}, cur) = Value(S, cur) + Price(x.item, cur)
<1>. DEFINE Z == S \cup {x}
            N == {n \in Nat : \A u \in SUBSET Z, z \in Z : z \notin u /\ Cardinality(u) = n =>
                    Value(u \cup {z}, cur) = Value(u, cur) + Price(z.item, cur)}
<1>1. \A u \in SUBSET Z, z \in Z : /\ IsFiniteSet(u) /\ Cardinality(u) \in Nat
                          /\ IsFiniteSet(u \cup {z}) /\ Value(u, cur) \in Nat
  BY FS_Subset, FS_CardinalityType, FS_AddElement, ValueNat
<1>2. 0 \in N
  <2>. SUFFICES ASSUME NEW u \in SUBSET Z, NEW z \in Z, z \notin u, Cardinality(u) = 0
       PROVE Value(u \cup {z}, cur) = Value(u, cur) + Price(z.item, cur)
    OBVIOUS
  <2>1. u = {} /\ u \cup {z} = {z} /\ Chosen({z}) = z /\ {z} \ {z} = {}
    BY <1>1, FS_EmptySet DEF Chosen
  <2>2. Value({z}, cur) = Price(z.item, cur) + Value({}, cur)
    BY <1>1, <2>1, ValueChosen
  <2>. QED
    BY <2>1, <2>2, ValueEmpty, PriceNat
<1>3. ASSUME NEW n \in N PROVE n + 1 \in N
  <2>. SUFFICES ASSUME NEW u \in SUBSET Z, NEW z \in Z, z \notin u, Cardinality(u) = n + 1
       PROVE Value(u \cup {z}, cur) = Value(u, cur) + Price(z.item, cur)
    OBVIOUS
  <2>. DEFINE T == u \cup {z}
              y == Chosen(T)
  <2>1. y \in T /\ z \notin u
    BY DEF Chosen
  <2>2. Value(T, cur) = Price(y.item, cur) + Value(T \ {y}, cur)
    BY <1>1, ValueChosen
  <2>3. CASE y = z
    <3>1. T \ {y} = u
      BY <2>1, <2>3
    <3>2. Price(y.item, cur) \in Nat /\ Value(u, cur) \in Nat
      BY <1>1, PriceNat
    <3>. HIDE DEF T, y
    <3>3. Value(T, cur) = Value(u, cur) + Price(y.item, cur)
      BY <2>2, <3>1, <3>2
    <3>. QED
      BY <2>3, <3>3 DEF T
  <2>4. CASE y # z
    <3>. DEFINE v == u \ {y}
    <3>1. y \in u /\ T \ {y} = v \cup {z} /\ u = v \cup {y} /\ y \notin v /\ v \in SUBSET Z
      BY <2>1, <2>4
    <3>2. Cardinality(v) = n
      <4>1. Cardinality(u \ {y}) = Cardinality(u) - 1
        BY <3>1, <1>1, FS_RemoveElement
      <4>. QED
        BY <4>1
    <3>3. Value(v \cup {z}, cur) = Value(v, cur) + Price(z.item, cur)
      BY <3>1, <3>2
    <3>4. Value(u, cur) = Value(v, cur) + Price(y.item, cur)
      BY <3>1, <3>2
    <3>5. /\ Value(v, cur) \in Nat /\ Price(y.item, cur) \in Nat
          /\ Price(z.item, cur) \in Nat
      BY <3>1, <1>1, PriceNat
    <3>. HIDE DEF T, y, v
    <3>6. Value(T, cur) = Value(u, cur) + Price(z.item, cur)
      BY <2>2, <3>1, <3>3, <3>4, <3>5
    <3>. QED
      BY <3>6 DEF T
  <2>. QED
    BY <2>3, <2>4
<1>4. Cardinality(S) \in N /\ S \in SUBSET Z /\ x \in Z
  <2>. HIDE DEF N
  <2>1. N = Nat
    <3>1. N \in SUBSET Nat
      BY DEF N
    <3>. QED
      BY <1>2, <1>3, <3>1, NatInd
  <2>. QED
    BY <2>1, <1>1
<1>. QED
  BY <1>4

LEMMA ValueRemove ==
  ASSUME NEW S, IsFiniteSet(S), NEW x \in S, NEW cur
  PROVE  Value(S, cur) = Value(S \ {x}, cur) + Price(x.item, cur)
<1>. DEFINE R == S \ {x}
<1>1. S = R \cup {x} /\ x \notin R /\ IsFiniteSet(R)
  BY FS_RemoveElement
<1>. HIDE DEF R
<1>2. Value(R \cup {x}, cur) = Value(R, cur) + Price(x.item, cur)
  BY <1>1, ValueAdd
<1>3. S = R \cup {x}
  BY <1>1
<1>4. Value(S, cur) = Value(R, cur) + Price(x.item, cur)
  BY <1>2, <1>3
<1>. QED
  BY <1>4 DEF R

LEMMA ValueSingle == ASSUME NEW x, NEW cur PROVE Value({x}, cur) = Price(x.item, cur)
<1>1. IsFiniteSet({}) /\ x \notin {} /\ {} \cup {x} = {x}
  BY FS_EmptySet
<1>2. Value({} \cup {x}, cur) = Value({}, cur) + Price(x.item, cur)
  BY <1>1, ValueAdd
<1>. QED
  BY <1>1, <1>2, ValueEmpty, PriceNat

-----------------------------------------------------------------------------
(* Gids                                                                    *)

Distinct(inv) == \A p, q \in inv : p.gid = q.gid => p = q

LEMMA GidCount ==
  ASSUME NEW inv, IsFiniteSet(inv)
  PROVE  /\ IsFiniteSet(GidsOf(inv)) /\ Cardinality(GidsOf(inv)) \in Nat
         /\ Cardinality(inv) \in Nat /\ Cardinality(GidsOf(inv)) <= Cardinality(inv)
         /\ Cardinality(GidsOf(inv)) = Cardinality(inv) <=> Distinct(inv)
<1>. DEFINE f == [p \in inv |-> p.gid]
<1>1. f \in Surjection(inv, GidsOf(inv))
  BY DEF Surjection, GidsOf
<1>2. f \in Injection(inv, GidsOf(inv)) <=> Distinct(inv)
  <2>1. f \in [inv -> GidsOf(inv)] /\ \A p \in inv : f[p] = p.gid
    BY DEF GidsOf
  <2>. HIDE DEF f
  <2>. QED
    BY <2>1 DEF Injection, IsInjective, Distinct
<1>. HIDE DEF f
<1>. QED
  BY <1>1, <1>2, FS_Surjection, FS_CardinalityType

LEMMA GidsFinite == IsFiniteSet(Gids) /\ Cardinality(Gids) = GidSpace - 1
<1>1. GidSpace \in Int /\ GidSpace > FirstGid
  BY PlayerStateAssumption
<1>. QED
  BY <1>1, FS_Interval DEF Gids, FirstGid

\* There is a free gid as long as the inventory is below the bound.
LEMMA SomeFree ==
  ASSUME NEW used \in SUBSET Gids, IsFiniteSet(used), Cardinality(used) <= MaxProps
  PROVE  Gids \ used # {}
<1>. SUFFICES ASSUME Gids \ used = {} PROVE FALSE
  OBVIOUS
<1>1. used = Gids
  OBVIOUS
<1>. QED
  BY <1>1, GidsFinite, PlayerStateAssumption

LEMMA NextFreeIsFree ==
  ASSUME NEW used, Gids \ used # {}, NEW candidate \in Int
  PROVE  NextFree(candidate, used) \in Gids \ used
<1>. DEFINE D == {Ahead(candidate, g) : g \in Gids \ used}
<1>1. \A g \in Gids : Ahead(candidate, g) \in Nat
  <2>. SUFFICES ASSUME NEW g \in Gids PROVE Ahead(candidate, g) \in Nat
    OBVIOUS
  <2>1. g \in Int /\ GidSpace \in Nat \ {0} /\ g - candidate + GidSpace \in Int
    BY PlayerStateAssumption DEF Gids, FirstGid
  <2>. QED
    BY <2>1 DEF Ahead
<1>2. D \in SUBSET Nat /\ D # {}
  BY <1>1
<1>3. PICK d \in D : \A e \in D : d <= e
  BY <1>2, NatMin
<1>4. PICK g \in Gids \ used : d = Ahead(candidate, g)
  OBVIOUS
<1>5. \A h \in Gids \ used : Ahead(candidate, g) <= Ahead(candidate, h)
  BY <1>3, <1>4
<1>. QED
  BY <1>5 DEF NextFree

-----------------------------------------------------------------------------
(* Inventories the server holds                                            *)

Sockets(inv) == \A p, q \in inv : p # q /\ p.owner = q.owner /\ p.loc = q.loc => p.loc = "BAG"
Starters(inv) == \A g \in StarterGids : \E p \in inv : p.gid = g /\ p.item = Starter(g).item
Fine(inv) ==
  /\ inv \subseteq Prop /\ IsFiniteSet(inv) /\ Cardinality(inv) <= MaxProps
  /\ Distinct(inv) /\ Sockets(inv) /\ Starters(inv)

LEMMA PropFields ==
  ASSUME NEW p \in Prop
  PROVE  /\ p.gid \in Gids /\ p.item \in Items
         /\ p.owner \in 0 .. GidSpace - 1 /\ p.loc \in Locations
  BY DEF Prop

LEMMA NewPropFields ==
  ASSUME NEW g \in Gids, NEW i \in Items
  PROVE  /\ NewProp(g, i) \in Prop
         /\ NewProp(g, i).gid = g /\ NewProp(g, i).item = i /\ NewProp(g, i).loc = "BAG"
<1>1. 0 \in 0 .. GidSpace - 1
  BY PlayerStateAssumption DEF FirstGid
<1>. QED
  BY <1>1 DEF NewProp, Prop, Locations

LEMMA StarterFields ==
  ASSUME NEW g \in StarterGids
  PROVE  /\ g \in Gids /\ Starter(g) \in Prop /\ Starter(g).gid = g
         /\ g = RoleGid => Starter(g).item = "role" /\ Starter(g).loc = "ROLE1"
         /\ g # RoleGid => Starter(g).loc = "BAG"
<1>1. GidSpace \in Nat /\ GidSpace > 5
  BY PlayerStateAssumption DEF FirstGid
<1>2. g \in Gids /\ 0 \in 0 .. GidSpace - 1
  BY <1>1 DEF StarterGids, RoleGid, Bag1Gid, Bag2Gid, Gids
<1>3. RoleGid # Bag1Gid /\ RoleGid # Bag2Gid /\ Bag1Gid # Bag2Gid
  BY DEF RoleGid, Bag1Gid, Bag2Gid
<1>4. {"role", "bag1", "bag2"} \subseteq Items /\ {"ROLE1", "BAG"} \subseteq Locations
  BY DEF Items, Locations
<1>5. CASE g = RoleGid
  <2>1. Starter(g) = [gid |-> g, item |-> "role", owner |-> 0, loc |-> "ROLE1"]
    BY <1>3, <1>5 DEF Starter, NewProp
  <2>. QED
    BY <1>2, <1>4, <1>5, <2>1 DEF Prop
<1>6. CASE g = Bag1Gid
  <2>1. Starter(g) = [gid |-> g, item |-> "bag1", owner |-> 0, loc |-> "BAG"]
    BY <1>3, <1>6 DEF Starter, NewProp
  <2>. QED
    BY <1>2, <1>3, <1>4, <1>6, <2>1 DEF Prop
<1>7. CASE g = Bag2Gid
  <2>1. Starter(g) = [gid |-> g, item |-> "bag2", owner |-> 0, loc |-> "BAG"]
    BY <1>3, <1>7 DEF Starter, NewProp
  <2>. QED
    BY <1>2, <1>3, <1>4, <1>7, <2>1 DEF Prop
<1>. QED
  BY <1>5, <1>6, <1>7 DEF StarterGids

LEMMA ThePropIs ==
  ASSUME NEW inv, NEW g \in GidsOf(inv)
  PROVE  TheProp(inv, g) \in inv /\ TheProp(inv, g).gid = g
  BY DEF GidsOf, TheProp

LEMMA FreeOf ==
  ASSUME NEW inv, Fine(inv), NEW candidate \in Int
  PROVE  NextFree(candidate, GidsOf(inv)) \in Gids \ GidsOf(inv)
<1>1. GidsOf(inv) \in SUBSET Gids
  BY PropFields DEF Fine, GidsOf
<1>2. IsFiniteSet(GidsOf(inv)) /\ Cardinality(GidsOf(inv)) <= MaxProps
  BY GidCount, PlayerStateAssumption DEF Fine
<1>. QED
  BY <1>1, <1>2, SomeFree, NextFreeIsFree

\* A prop that is bought.
LEMMA Added ==
  ASSUME NEW inv, Fine(inv), Cardinality(inv) + 1 <= MaxProps,
         NEW g \in Gids \ GidsOf(inv), NEW i \in Items
  PROVE  /\ Fine(inv \cup {NewProp(g, i)})
         /\ Cardinality(inv \cup {NewProp(g, i)}) = Cardinality(inv) + 1
         /\ \A cur : Value(inv \cup {NewProp(g, i)}, cur) = Value(inv, cur) + Price(i, cur)
<1>. DEFINE x == NewProp(g, i)
<1>1. x \in Prop /\ x.gid = g /\ x.item = i /\ x.loc = "BAG"
  BY NewPropFields
<1>2. x \notin inv /\ \A p \in inv : p.gid # x.gid
  BY <1>1 DEF GidsOf
<1>. HIDE DEF x
<1>3. /\ IsFiniteSet(inv \cup {x}) /\ Cardinality(inv \cup {x}) = Cardinality(inv) + 1
  BY <1>2, FS_AddElement DEF Fine
<1>4. \A cur : Value(inv \cup {x}, cur) = Value(inv, cur) + Price(i, cur)
  BY <1>1, <1>2, ValueAdd DEF Fine
<1>5. Distinct(inv \cup {x})
  BY <1>2 DEF Fine, Distinct
<1>6. Sockets(inv \cup {x})
  BY <1>1 DEF Fine, Sockets
<1>7. Starters(inv \cup {x})
  BY DEF Fine, Starters
<1>8. Fine(inv \cup {x})
  BY <1>1, <1>3, <1>5, <1>6, <1>7 DEF Fine
<1>. QED
  BY <1>3, <1>4, <1>8 DEF x

\* A prop that is dropped.
LEMMA Removed ==
  ASSUME NEW inv, Fine(inv), NEW x \in inv, x.gid \notin StarterGids
  PROVE  /\ Fine(inv \ {x})
         /\ \A cur : Value(inv, cur) = Value(inv \ {x}, cur) + Price(x.item, cur)
<1>1. IsFiniteSet(inv \ {x}) /\ Cardinality(inv \ {x}) = Cardinality(inv) - 1
  BY FS_RemoveElement DEF Fine
<1>2. Cardinality(inv \ {x}) <= MaxProps
  BY <1>1, FS_CardinalityType, PlayerStateAssumption DEF Fine
<1>3. Distinct(inv \ {x}) /\ Sockets(inv \ {x})
  BY DEF Fine, Distinct, Sockets
<1>4. Starters(inv \ {x})
  BY DEF Fine, Starters
<1>5. \A cur : Value(inv, cur) = Value(inv \ {x}, cur) + Price(x.item, cur)
  BY ValueRemove DEF Fine
<1>. QED
  BY <1>1, <1>2, <1>3, <1>4, <1>5 DEF Fine

\* A prop that moves: to the bag, or to a socket nobody else is in.
LEMMA Moved ==
  ASSUME NEW inv, Fine(inv), NEW x \in inv, NEW y \in Prop,
         y.gid = x.gid, y.item = x.item,
         y.loc = "BAG" \/ \A q \in inv \ {x} : ~(q.owner = y.owner /\ q.loc = y.loc)
  PROVE  /\ Fine((inv \ {x}) \cup {y})
         /\ \A cur : Value((inv \ {x}) \cup {y}, cur) = Value(inv, cur)
<1>. DEFINE R == inv \ {x}
<1>1. /\ IsFiniteSet(R) /\ Cardinality(R) = Cardinality(inv) - 1
      /\ \A cur : Value(inv, cur) = Value(R, cur) + Price(x.item, cur)
  BY FS_RemoveElement, ValueRemove DEF Fine
<1>2. y \notin R /\ \A p \in R : p.gid # y.gid
  BY DEF Fine, Distinct
<1>3. /\ Distinct(R) /\ Sockets(R) /\ R \subseteq Prop
      /\ \A q \in R : y.loc = "BAG" \/ ~(q.owner = y.owner /\ q.loc = y.loc)
  BY DEF Fine, Distinct, Sockets
<1>4. Starters(R \cup {y})
  BY DEF Fine, Starters
<1>. HIDE DEF R
<1>5. /\ IsFiniteSet(R \cup {y}) /\ Cardinality(R \cup {y}) = Cardinality(R) + 1
      /\ \A cur : Value(R \cup {y}, cur) = Value(R, cur) + Price(y.item, cur)
  BY <1>1, <1>2, FS_AddElement, ValueAdd
<1>6. Cardinality(R \cup {y}) <= MaxProps
  BY <1>1, <1>5, FS_CardinalityType DEF Fine
<1>7. Distinct(R \cup {y})
  BY <1>2, <1>3 DEF Distinct
<1>8. Sockets(R \cup {y})
  BY <1>3 DEF Sockets
<1>9. Fine(R \cup {y})
  BY <1>3, <1>4, <1>5, <1>6, <1>7, <1>8 DEF Fine
<1>10. \A cur : Value(R \cup {y}, cur) = Value(inv, cur)
  BY <1>1, <1>5
<1>. QED
  BY <1>9, <1>10 DEF R

-----------------------------------------------------------------------------
(* The current role                                                        *)

LEMMA RolePicked ==
  ASSUME NEW inv, inv \subseteq Prop, Starters(inv), NEW preferred
  PROVE  /\ \E p \in inv : p.gid = PickRole(inv, preferred) /\ IsRole(p)
         /\ (\E p \in inv : p.gid = preferred /\ IsRole(p)) => PickRole(inv, preferred) = preferred
<1>. DEFINE roles == {p \in inv : IsRole(p)}
            worn  == {p \in roles : p.loc = "ROLE1"}
            choice == IF worn # {} THEN worn ELSE roles
<1>1. roles # {}
  <2>1. RoleGid \in StarterGids
    BY DEF StarterGids
  <2>2. PICK p \in inv : p.gid = RoleGid /\ p.item = Starter(RoleGid).item
    BY <2>1 DEF Starters
  <2>3. IsRole(p)
    BY <2>1, <2>2, StarterFields, PlayerStateAssumption DEF IsRole
  <2>. QED
    BY <2>3
<1>2. choice # {} /\ choice \subseteq roles /\ roles \subseteq Prop
  BY <1>1
<1>3. PickRole(inv, preferred) = IF preferred \in GidsOf(roles) THEN preferred ELSE Min(GidsOf(choice))
  BY <1>1 DEF PickRole
<1>4. \A p \in inv : IsRole(p) <=> p \in roles
  OBVIOUS
<1>. HIDE DEF roles, worn, choice
<1>5. GidsOf(choice) \in SUBSET Nat /\ GidsOf(choice) # {}
  BY <1>2, PropFields DEF GidsOf, Gids
<1>6. Min(GidsOf(choice)) \in GidsOf(choice)
  BY <1>5, MinIn
<1>7. PickRole(inv, preferred) \in GidsOf(roles)
  BY <1>2, <1>3, <1>6 DEF GidsOf
<1>8. roles \subseteq inv
  BY DEF roles
<1>9. (\E p \in inv : p.gid = preferred /\ IsRole(p)) => preferred \in GidsOf(roles)
  BY <1>4 DEF GidsOf
<1>10. \E p \in inv : p.gid = PickRole(inv, preferred) /\ IsRole(p)
  BY <1>4, <1>7, <1>8 DEF GidsOf
<1>. QED
  BY <1>3, <1>9, <1>10

-----------------------------------------------------------------------------
(* Normalisation                                                           *)

\* The rows that Normalize keeps, the starters it puts right, the inventory it
\* comes to.
Rows(inv) == {TheProp(inv, g) : g \in GidsOf(inv) \ {0}}
Broken(rows) ==
  {g \in StarterGids : ~HasGid(rows, g) \/ TheProp(rows, g).item # Starter(g).item}
Mended(rows) == {p \in rows : p.gid \notin Broken(rows)} \cup {Starter(g) : g \in Broken(rows)}

Role(s) == \E p \in s.inv : p.gid = s.role /\ IsRole(p)
Balanced(s) == \A cur \in Currencies : Worth(s, cur) = s.books[cur]
Good(s) == s \in State /\ Fine(s.inv) /\ Role(s) /\ Balanced(s)

LEMMA ClampRange ==
  ASSUME NEW n \in Int
  PROVE  Clamp(n) \in 0 .. WalletCap /\ (n \in 0 .. WalletCap => Clamp(n) = n)
  BY PlayerStateAssumption DEF Clamp

LEMMA FineKeeps ==
  ASSUME NEW inv, Fine(inv)
  PROVE  Mended(Rows(inv)) = inv
<1>1. \A p \in inv : p.gid \in GidsOf(inv) /\ p.gid # 0
  BY PropFields DEF Fine, GidsOf, Gids
<1>2. \A p \in inv : TheProp(inv, p.gid) = p
  BY <1>1, ThePropIs DEF Fine, Distinct
<1>3. Rows(inv) = inv
  <2>1. \A p \in inv : p \in Rows(inv)
    BY <1>1, <1>2 DEF Rows
  <2>2. \A p \in Rows(inv) : p \in inv
    BY ThePropIs DEF Rows
  <2>. QED
    BY <2>1, <2>2
<1>4. Broken(inv) = {}
  <2>. SUFFICES ASSUME NEW g \in StarterGids PROVE HasGid(inv, g) /\ TheProp(inv, g).item = Starter(g).item
    BY DEF Broken
  <2>1. PICK p \in inv : p.gid = g /\ p.item = Starter(g).item
    BY DEF Fine, Starters
  <2>. QED
    BY <1>1, <1>2, <2>1 DEF HasGid
<1>. QED
  BY <1>3, <1>4 DEF Mended

LEMMA NormalForm ==
  ASSUME NEW B,
         NEW s \in [wallet : [Currencies -> Int], role : 0 .. GidSpace - 1, next : 0 .. GidSpace - 1,
                    inv : SUBSET [gid : 0 .. GidSpace - 1, item : Items,
                                  owner : 0 .. GidSpace - 1, loc : Locations], books : B],
         Fine(Mended(Rows(s.inv)))
  PROVE  /\ Normalize(s) \in [wallet : [Currencies -> 0 .. WalletCap], inv : SUBSET Prop, role : Gids,
                               next : 0 .. GidSpace - 1, books : B]
         /\ \A cur \in Currencies : Normalize(s).wallet[cur] = Clamp(s.wallet[cur])
         /\ Normalize(s).inv = Mended(Rows(s.inv))
         /\ Normalize(s).role = PickRole(Mended(Rows(s.inv)), s.role)
         /\ Normalize(s).books = s.books
<1>. DEFINE inv  == Mended(Rows(s.inv))
            used == GidsOf(inv)
            top  == Max(used)
            next == IF s.next \in {0} \cup used \/ s.next <= top THEN (top + 1) % GidSpace ELSE s.next
            wallet == [cur \in Currencies |-> Clamp(s.wallet[cur])]
<1>1. /\ s.wallet \in [Currencies -> Int] /\ s.next \in 0 .. GidSpace - 1 /\ s.books \in B
      /\ s = [wallet |-> s.wallet, role |-> s.role, next |-> s.next, inv |-> s.inv, books |-> s.books]
  OBVIOUS
<1>2. GidSpace \in Nat \ {0}
  BY PlayerStateAssumption DEF FirstGid
<1>3. used \in SUBSET Gids /\ used # {}
  <2>1. inv # {}
    BY DEF Fine, Starters, StarterGids
  <2>. QED
    BY <2>1, PropFields DEF Fine, GidsOf
<1>. HIDE DEF inv
<1>4. top \in Nat
  <2>1. used \in SUBSET Nat /\ \A g \in used : g <= GidSpace
    BY <1>2, <1>3 DEF Gids
  <2>2. top \in used
    BY <1>2, <1>3, <2>1, MaxIn
  <2>. QED
    BY <2>1, <2>2
<1>. HIDE DEF used, top
<1>5. next \in Int
  BY <1>1, <1>2, <1>4
<1>. HIDE DEF next
<1>6. NextFree(next, used) \in Gids
  BY <1>5, FreeOf DEF inv, used
<1>7. PickRole(inv, s.role) \in Gids
  <2>1. inv \subseteq Prop /\ Starters(inv)
    BY DEF Fine, inv
  <2>2. PICK p \in inv : p.gid = PickRole(inv, s.role)
    BY <2>1, RolePicked
  <2>. QED
    BY <2>1, <2>2, PropFields
<1>8. wallet \in [Currencies -> 0 .. WalletCap]
  <2>1. \A cur \in Currencies : Clamp(s.wallet[cur]) \in 0 .. WalletCap
    BY <1>1, ClampRange
  <2>. QED
    BY <2>1
<1>9. Normalize(s) = [wallet |-> wallet, role |-> PickRole(inv, s.role), next |-> NextFree(next, used),
                      inv |-> inv, books |-> s.books]
  <2>1. Normalize(s) = [s EXCEPT !.wallet = wallet, !.inv = inv, !.role = PickRole(inv, s.role),
                                 !.next = NextFree(next, used)]
    BY Zenon DEF Normalize, inv, used, top, next, Mended, Rows, Broken
  <2>. HIDE DEF wallet
  <2>. QED
    BY <1>1, <2>1
<1>10. inv \subseteq Prop
  BY DEF Fine, inv
<1>11. NextFree(next, used) \in 0 .. GidSpace - 1
  BY <1>2, <1>6 DEF Gids
<1>12. \A cur \in Currencies : wallet[cur] = Clamp(s.wallet[cur])
  OBVIOUS
<1>. HIDE DEF wallet
<1>13. /\ Normalize(s) \in [wallet : [Currencies -> 0 .. WalletCap], inv : SUBSET Prop, role : Gids,
                               next : 0 .. GidSpace - 1, books : B]
      /\ Normalize(s).wallet = wallet /\ Normalize(s).inv = inv
      /\ Normalize(s).role = PickRole(inv, s.role) /\ Normalize(s).books = s.books
  BY <1>1, <1>7, <1>8, <1>9, <1>10, <1>11
<1>. QED
  BY <1>12, <1>13 DEF inv

LEMMA GoodFields ==
  ASSUME NEW s, Good(s)
  PROVE  /\ s.wallet \in [Currencies -> 0 .. WalletCap] /\ s.inv \in SUBSET Prop
         /\ s.role \in Gids /\ s.next \in 0 .. GidSpace - 1 /\ s.books \in [Currencies -> Nat]
         /\ s = [wallet |-> s.wallet, inv |-> s.inv, role |-> s.role, next |-> s.next,
                 books |-> s.books]
         /\ Fine(s.inv) /\ Role(s) /\ Balanced(s) /\ s # None
  BY EditedAssumption DEF Good, State

\* What makes a record a good state.
LEMMA GoodMade ==
  ASSUME NEW wallet \in [Currencies -> 0 .. WalletCap], NEW inv, Fine(inv),
         NEW role, \E p \in inv : p.gid = role /\ IsRole(p),
         NEW next \in 0 .. GidSpace - 1, NEW books \in [Currencies -> Nat],
         \A cur \in Currencies : wallet[cur] + Value(inv, cur) = books[cur]
  PROVE  Good([wallet |-> wallet, inv |-> inv, role |-> role, next |-> next, books |-> books])
<1>. DEFINE s == [wallet |-> wallet, inv |-> inv, role |-> role, next |-> next, books |-> books]
<1>1. role \in Gids
  BY PropFields DEF Fine
<1>2. s \in State
  BY <1>1 DEF State, Fine
<1>3. Role(s)
  BY DEF Role
<1>4. Balanced(s)
  BY DEF Balanced, Worth
<1>. QED
  BY <1>2, <1>3, <1>4 DEF Good

\* Writing a good state and reading it again changes at most the next gid.
LEMMA GoodKept ==
  ASSUME NEW s, Good(s)
  PROVE  /\ Good(Normalize(s))
         /\ Normalize(s).wallet = s.wallet /\ Normalize(s).inv = s.inv
         /\ Normalize(s).role = s.role /\ Normalize(s).books = s.books
<1>. DEFINE n == Normalize(s)
<1>0. GidSpace \in Nat \ {0} /\ WalletCap \in Nat
  BY PlayerStateAssumption DEF FirstGid
<1>1. s \in [wallet : [Currencies -> Int], role : 0 .. GidSpace - 1, next : 0 .. GidSpace - 1,
              inv : SUBSET [gid : 0 .. GidSpace - 1, item : Items,
                            owner : 0 .. GidSpace - 1, loc : Locations],
              books : [Currencies -> Nat]]
  <2>1. Gids \subseteq 0 .. GidSpace - 1 /\ 0 .. WalletCap \subseteq Int
    BY <1>0 DEF Gids
  <2>2. Prop \subseteq [gid : 0 .. GidSpace - 1, item : Items, owner : 0 .. GidSpace - 1, loc : Locations]
    BY <2>1 DEF Prop
  <2>3. s.wallet \in [Currencies -> Int]
    BY <2>1, GoodFields
  <2>. QED
    BY <2>1, <2>2, <2>3, GoodFields
<1>2. Mended(Rows(s.inv)) = s.inv /\ Fine(s.inv)
  BY FineKeeps, GoodFields
<1>3. /\ n \in [wallet : [Currencies -> 0 .. WalletCap], inv : SUBSET Prop, role : Gids,
                 next : 0 .. GidSpace - 1, books : [Currencies -> Nat]]
      /\ \A cur \in Currencies : n.wallet[cur] = Clamp(s.wallet[cur])
      /\ n.inv = s.inv /\ n.role = PickRole(s.inv, s.role) /\ n.books = s.books
  <2>1. Fine(Mended(Rows(s.inv)))
    BY <1>2
  <2>2. /\ n \in [wallet : [Currencies -> 0 .. WalletCap], inv : SUBSET Prop, role : Gids,
                   next : 0 .. GidSpace - 1, books : [Currencies -> Nat]]
        /\ \A cur \in Currencies : n.wallet[cur] = Clamp(s.wallet[cur])
        /\ n.inv = Mended(Rows(s.inv)) /\ n.role = PickRole(Mended(Rows(s.inv)), s.role)
        /\ n.books = s.books
    BY <1>1, <2>1, NormalForm, ZenonT(60)
  <2>. HIDE DEF n
  <2>. QED
    BY <1>2, <2>2
<1>4. n.role = s.role
  BY <1>2, <1>3, RolePicked, GoodFields DEF Fine, Role
<1>. HIDE DEF n
<1>5. n.wallet = s.wallet
  <2>1. \A cur \in Currencies : Clamp(s.wallet[cur]) = s.wallet[cur]
    BY GoodFields, ClampRange
  <2>2. n.wallet \in [Currencies -> 0 .. WalletCap] /\ s.wallet \in [Currencies -> 0 .. WalletCap]
    BY <1>3, GoodFields
  <2>. QED
    BY <1>3, <2>1, <2>2
<1>6. Good(n)
  <2>1. Role(n) /\ Balanced(n)
    BY <1>3, <1>4, <1>5, GoodFields DEF Role, Balanced, Worth
  <2>. QED
    BY <1>2, <1>3, <2>1 DEF Good, State
<1>. QED
  BY <1>3, <1>4, <1>5, <1>6 DEF n

\* Whatever the user left behind, what comes out of it is in order.
LEMMA EditedMends ==
  ASSUME NEW s \in Edited \ {None}
  PROVE  Fine(Mended(Rows(s.inv)))
<1>. DEFINE rows == Rows(s.inv)
            inv  == Mended(rows)
            all  == s.inv \cup {Starter(g) : g \in StarterGids}
<1>1. /\ s.inv \in SUBSET [gid : 0 .. GidSpace - 1, item : Items,
                            owner : 0 .. GidSpace - 1, loc : Locations]
      /\ IsFiniteSet(s.inv) /\ Cardinality(GidsOf(s.inv) \cup StarterGids) <= MaxProps
      /\ \A p, q \in all : p.gid # q.gid /\ p.owner = q.owner /\ p.loc = q.loc => p.loc = "BAG"
  BY EditedAssumption DEF SaveFile
<1>2. \A g \in GidsOf(s.inv) \ {0} : TheProp(s.inv, g) \in s.inv /\ TheProp(s.inv, g).gid = g
  BY ThePropIs
<1>3. \A p \in rows : p \in s.inv /\ p \in Prop /\ p = TheProp(s.inv, p.gid)
  <2>. SUFFICES ASSUME NEW p \in rows PROVE p \in s.inv /\ p \in Prop /\ p = TheProp(s.inv, p.gid)
    OBVIOUS
  <2>1. PICK g \in GidsOf(s.inv) \ {0} : p = TheProp(s.inv, g)
    BY DEF Rows
  <2>2. p \in s.inv /\ p.gid = g /\ p.gid # 0
    BY <1>2, <2>1
  <2>3. \A n \in 0 .. GidSpace - 1 : n # 0 => n \in Gids
    BY PlayerStateAssumption DEF Gids
  <2>4. p \in Prop
    BY <1>1, <2>2, <2>3 DEF Prop
  <2>. QED
    BY <2>1, <2>2, <2>4
<1>4. Distinct(rows)
  BY <1>3 DEF Distinct
<1>. HIDE DEF rows
<1>5. \A p \in inv : \/ p \in rows /\ p.gid \notin Broken(rows)
                     \/ p = Starter(p.gid) /\ p.gid \in Broken(rows) /\ p.gid \in StarterGids
  BY StarterFields DEF Mended, Broken
<1>6. inv \subseteq Prop /\ inv \subseteq all
  BY <1>3, <1>5, StarterFields
<1>7. Distinct(inv)
  BY <1>4, <1>5 DEF Distinct
<1>8. Sockets(inv)
  BY <1>1, <1>6, <1>7 DEF Distinct, Sockets
<1>9. Starters(inv)
  <2>. SUFFICES ASSUME NEW g \in StarterGids
       PROVE \E p \in inv : p.gid = g /\ p.item = Starter(g).item
    BY DEF Starters
  <2>1. CASE g \in Broken(rows)
    BY <2>1, StarterFields DEF Mended
  <2>2. CASE g \notin Broken(rows)
    <3>1. g \in GidsOf(rows) /\ TheProp(rows, g).item = Starter(g).item
      BY <2>2 DEF Broken, HasGid
    <3>2. TheProp(rows, g) \in rows /\ TheProp(rows, g).gid = g
      BY <3>1, ThePropIs
    <3>3. TheProp(rows, g) \in inv
      BY <2>2, <3>2 DEF Mended
    <3>. QED
      BY <3>1, <3>2, <3>3
  <2>. QED
    BY <2>1, <2>2
<1>10. IsFiniteSet(inv) /\ Cardinality(inv) <= MaxProps
  <2>. DEFINE G == GidsOf(s.inv) \cup StarterGids
              f == [p \in inv |-> p.gid]
  <2>1. IsFiniteSet(StarterGids)
    <3>1. StarterGids = ({RoleGid} \cup {Bag1Gid}) \cup {Bag2Gid}
      BY DEF StarterGids
    <3>2. IsFiniteSet({RoleGid}) /\ IsFiniteSet({RoleGid} \cup {Bag1Gid})
      BY FS_Singleton, FS_AddElement
    <3>. QED
      BY <3>1, <3>2, FS_AddElement
  <2>2. IsFiniteSet(G)
    BY <1>1, <2>1, GidCount, FS_Union
  <2>3. \A p \in inv : p.gid \in G
    BY <1>3, <1>5 DEF GidsOf
  <2>4. f \in Injection(inv, G)
    <3>1. f \in [inv -> G] /\ \A p \in inv : f[p] = p.gid
      BY <2>3
    <3>. HIDE DEF f, G, inv
    <3>. QED
      BY <3>1, <1>7 DEF Injection, IsInjective, Distinct
  <2>5. Cardinality(G) <= MaxProps
    BY <1>1
  <2>. HIDE DEF f, G, inv
  <2>6. IsFiniteSet(inv) /\ Cardinality(inv) <= Cardinality(G)
    BY <2>2, <2>4, FS_Injection
  <2>. QED
    BY <2>2, <2>5, <2>6, FS_CardinalityType, PlayerStateAssumption
<1>. QED
  BY <1>6, <1>7, <1>8, <1>9, <1>10 DEF Fine, rows

LEMMA EditedOpens ==
  ASSUME NEW s \in Edited \ {None}
  PROVE  /\ Good(Opened(s)) /\ s.books = None
         /\ \A cur \in Currencies : Opened(s).wallet[cur] = Clamp(s.wallet[cur])
<1>. DEFINE t == Normalize(s)
            books == [cur \in Currencies |-> Worth(t, cur)]
<1>1. s \in [wallet : [Currencies -> Int], role : 0 .. GidSpace - 1, next : 0 .. GidSpace - 1,
              inv : SUBSET [gid : 0 .. GidSpace - 1, item : Items,
                            owner : 0 .. GidSpace - 1, loc : Locations],
              books : {None}]
  BY EditedAssumption DEF SaveFile
<1>2. Fine(Mended(Rows(s.inv)))
  BY EditedMends
<1>3. /\ t \in [wallet : [Currencies -> 0 .. WalletCap], inv : SUBSET Prop, role : Gids,
                 next : 0 .. GidSpace - 1, books : {None}]
      /\ \A cur \in Currencies : t.wallet[cur] = Clamp(s.wallet[cur])
      /\ t.inv = Mended(Rows(s.inv)) /\ t.role = PickRole(Mended(Rows(s.inv)), s.role)
  BY <1>1, <1>2, NormalForm
<1>4. \E p \in t.inv : p.gid = t.role /\ IsRole(p)
  BY <1>2, <1>3, RolePicked DEF Fine
<1>. HIDE DEF t
<1>5. books \in [Currencies -> Nat] /\ \A cur \in Currencies : books[cur] = t.wallet[cur] + Value(t.inv, cur)
  <2>1. \A cur \in Currencies : Value(t.inv, cur) \in Nat /\ t.wallet[cur] \in 0 .. WalletCap
    BY <1>2, <1>3, ValueNat DEF Fine
  <2>2. \A cur \in Currencies : t.wallet[cur] + Value(t.inv, cur) \in Nat
    BY <2>1, PlayerStateAssumption
  <2>. QED
    BY <2>2 DEF Worth
<1>6. Opened(s) = [t EXCEPT !.books = books]
  BY Zenon DEF Opened, t
<1>. HIDE DEF books
<1>7. Opened(s) = [wallet |-> t.wallet, inv |-> t.inv, role |-> t.role, next |-> t.next, books |-> books]
  BY <1>3, <1>6
<1>8. Good([wallet |-> t.wallet, inv |-> t.inv, role |-> t.role, next |-> t.next, books |-> books])
  BY <1>2, <1>3, <1>4, <1>5, GoodMade
<1>. QED
  BY <1>1, <1>3, <1>7, <1>8

-----------------------------------------------------------------------------
(* Carts                                                                   *)

\* f is the table that FoldLeft builds for the sets of lines of a cart: what has
\* been granted, what has to be paid.
Grants(f, T, base, cart) ==
  f = [s \in T |-> IF s = {} THEN base ELSE Grant(f[s \ {Max(s)}], cart[Max(s)])]
Costs(f, T, pay, cart) ==
  f = [s \in T |-> IF s = {} THEN 0 ELSE f[s \ {Max(s)}] + Price(cart[Max(s)], pay)]
GrantsTable(base, cart) == CHOOSE f : Grants(f, SUBSET DOMAIN cart, base, cart)
CostsTable(pay, cart) == CHOOSE f : Costs(f, SUBSET DOMAIN cart, pay, cart)

LEMMA GrantsFold ==
  ASSUME NEW base, NEW cart
  PROVE  FoldLeft(Grant, base, cart) = GrantsTable(base, cart)[DOMAIN cart]
  BY DEF FoldLeft, MapThenFoldSet, Grants, GrantsTable

LEMMA CostsFold ==
  ASSUME NEW pay, NEW cart
  PROVE  FoldLeft(LAMBDA sum, i : sum + Price(i, pay), 0, cart) = CostsTable(pay, cart)[DOMAIN cart]
  BY DEF FoldLeft, MapThenFoldSet, Costs, CostsTable

LEMMA LastOne ==
  ASSUME NEW k \in Nat, NEW s \in SUBSET (1 .. k + 1), s # {}
  PROVE  Max(s) \in s /\ s \ {Max(s)} \in SUBSET (1 .. k)
<1>1. s \in SUBSET Nat /\ k + 1 \in Nat /\ \A n \in s : n \in 1 .. k + 1 /\ n <= k + 1
  OBVIOUS
<1>2. Max(s) \in s /\ \A n \in s : n <= Max(s)
  BY <1>1, MaxIn
<1>3. ASSUME NEW n \in s \ {Max(s)} PROVE n \in 1 .. k
  <2>1. n \in 1 .. k + 1 /\ Max(s) \in 1 .. k + 1 /\ n <= Max(s) /\ n # Max(s)
    BY <1>1, <1>2
  <2>. QED
    BY <2>1
<1>. QED
  BY <1>2, <1>3

LEMMA GrantsExist ==
  ASSUME NEW base, NEW cart, NEW n \in Nat
  PROVE  \E f : Grants(f, SUBSET (1 .. n), base, cart)
<1>. DEFINE N == {k \in Nat : \E f : Grants(f, SUBSET (1 .. k), base, cart)}
<1>1. 0 \in N
  <2>1. SUBSET (1 .. 0) = {{}}
    OBVIOUS
  <2>2. Grants([s \in SUBSET (1 .. 0) |-> base], SUBSET (1 .. 0), base, cart)
    BY <2>1 DEF Grants
  <2>. QED
    BY <2>2
<1>2. ASSUME NEW k \in N PROVE k + 1 \in N
  <2>1. PICK f : Grants(f, SUBSET (1 .. k), base, cart)
    OBVIOUS
  <2>. DEFINE g == [s \in SUBSET (1 .. k + 1) |->
                      IF s = {} THEN base ELSE Grant(f[s \ {Max(s)}], cart[Max(s)])]
  <2>2. ASSUME NEW s \in SUBSET (1 .. k + 1), s # {}
        PROVE  s \ {Max(s)} \in SUBSET (1 .. k)
    BY <2>2, LastOne
  <2>3. \A s \in SUBSET (1 .. k) : s \in SUBSET (1 .. k + 1)
    OBVIOUS
  <2>4. \A s \in SUBSET (1 .. k) : g[s] = f[s]
    BY <2>1, <2>3 DEF Grants
  <2>5. \A s \in SUBSET (1 .. k + 1) : s # {} => g[s \ {Max(s)}] = f[s \ {Max(s)}]
    BY <2>2, <2>4
  <2>6. \A s \in SUBSET (1 .. k + 1) :
          g[s] = IF s = {} THEN base ELSE Grant(g[s \ {Max(s)}], cart[Max(s)])
    BY <2>5
  <2>7. Grants(g, SUBSET (1 .. k + 1), base, cart)
    BY <2>6, Zenon DEF Grants
  <2>. HIDE DEF g
  <2>. QED
    BY <2>7
<1>. HIDE DEF N
<1>3. N \in SUBSET Nat
  BY DEF N
<1>4. N = Nat
  BY <1>1, <1>2, <1>3, NatInd
<1>. QED
  BY <1>4 DEF N

LEMMA CostsExist ==
  ASSUME NEW pay, NEW cart, NEW n \in Nat
  PROVE  \E f : Costs(f, SUBSET (1 .. n), pay, cart)
<1>. DEFINE N == {k \in Nat : \E f : Costs(f, SUBSET (1 .. k), pay, cart)}
<1>1. 0 \in N
  <2>1. SUBSET (1 .. 0) = {{}}
    OBVIOUS
  <2>2. Costs([s \in SUBSET (1 .. 0) |-> 0], SUBSET (1 .. 0), pay, cart)
    BY <2>1 DEF Costs
  <2>. QED
    BY <2>2
<1>2. ASSUME NEW k \in N PROVE k + 1 \in N
  <2>1. PICK f : Costs(f, SUBSET (1 .. k), pay, cart)
    OBVIOUS
  <2>. DEFINE g == [s \in SUBSET (1 .. k + 1) |->
                      IF s = {} THEN 0 ELSE f[s \ {Max(s)}] + Price(cart[Max(s)], pay)]
  <2>2. ASSUME NEW s \in SUBSET (1 .. k + 1), s # {}
        PROVE  s \ {Max(s)} \in SUBSET (1 .. k)
    BY <2>2, LastOne
  <2>3. \A s \in SUBSET (1 .. k) : s \in SUBSET (1 .. k + 1)
    OBVIOUS
  <2>4. \A s \in SUBSET (1 .. k) : g[s] = f[s]
    BY <2>1, <2>3 DEF Costs
  <2>5. \A s \in SUBSET (1 .. k + 1) : s # {} => g[s \ {Max(s)}] = f[s \ {Max(s)}]
    BY <2>2, <2>4
  <2>6. \A s \in SUBSET (1 .. k + 1) :
          g[s] = IF s = {} THEN 0 ELSE g[s \ {Max(s)}] + Price(cart[Max(s)], pay)
    BY <2>5
  <2>7. Costs(g, SUBSET (1 .. k + 1), pay, cart)
    BY <2>6, Zenon DEF Costs
  <2>. HIDE DEF g
  <2>. QED
    BY <2>7
<1>. HIDE DEF N
<1>3. N \in SUBSET Nat
  BY DEF N
<1>4. N = Nat
  BY <1>1, <1>2, <1>3, NatInd
<1>. QED
  BY <1>4 DEF N

LEMMA GrantsSteps ==
  ASSUME NEW base, NEW n \in Nat, NEW cart, DOMAIN cart = 1 .. n
  PROVE  /\ GrantsTable(base, cart)[1 .. 0] = base
         /\ \A k \in 0 .. n - 1 : GrantsTable(base, cart)[1 .. k + 1] = Grant(GrantsTable(base, cart)[1 .. k], cart[k + 1])
<1>. DEFINE f == GrantsTable(base, cart)
<1>1. Grants(f, SUBSET (1 .. n), base, cart)
  BY GrantsExist DEF GrantsTable
<1>. HIDE DEF f
<1>2. f[1 .. 0] = base
  BY <1>1 DEF Grants
<1>3. ASSUME NEW k \in 0 .. n - 1 PROVE f[1 .. k + 1] = Grant(f[1 .. k], cart[k + 1])
  <2>. DEFINE s == 1 .. k + 1
  <2>1. s # {} /\ s \in SUBSET (1 .. n) /\ Max(s) = k + 1 /\ s \ {Max(s)} = 1 .. k
    <3>1. /\ s \in SUBSET Nat /\ s \in SUBSET (1 .. n) /\ k + 1 \in s /\ k + 1 \in Nat
          /\ (\A m \in s : m <= k + 1) /\ s \ {k + 1} = 1 .. k
      OBVIOUS
    <3>. HIDE DEF s
    <3>2. Max(s) \in s /\ \A m \in s : m <= Max(s)
      BY <3>1, MaxIn
    <3>3. Max(s) = k + 1
      BY <3>1, <3>2
    <3>. QED
      BY <3>1, <3>3
  <2>. HIDE DEF s
  <2>2. f[s] = Grant(f[s \ {Max(s)}], cart[Max(s)])
    BY <1>1, <2>1 DEF Grants
  <2>. QED
    BY <2>1, <2>2 DEF s
<1>. QED
  BY <1>2, <1>3 DEF f

LEMMA CostsSteps ==
  ASSUME NEW pay, NEW n \in Nat, NEW cart, DOMAIN cart = 1 .. n
  PROVE  /\ CostsTable(pay, cart)[1 .. 0] = 0
         /\ \A k \in 0 .. n - 1 : CostsTable(pay, cart)[1 .. k + 1] = CostsTable(pay, cart)[1 .. k] + Price(cart[k + 1], pay)
<1>. DEFINE f == CostsTable(pay, cart)
<1>1. Costs(f, SUBSET (1 .. n), pay, cart)
  BY CostsExist DEF CostsTable
<1>. HIDE DEF f
<1>2. f[1 .. 0] = 0
  BY <1>1 DEF Costs
<1>3. ASSUME NEW k \in 0 .. n - 1 PROVE f[1 .. k + 1] = f[1 .. k] + Price(cart[k + 1], pay)
  <2>. DEFINE s == 1 .. k + 1
  <2>1. s # {} /\ s \in SUBSET (1 .. n) /\ Max(s) = k + 1 /\ s \ {Max(s)} = 1 .. k
    <3>1. /\ s \in SUBSET Nat /\ s \in SUBSET (1 .. n) /\ k + 1 \in s /\ k + 1 \in Nat
          /\ (\A m \in s : m <= k + 1) /\ s \ {k + 1} = 1 .. k
      OBVIOUS
    <3>. HIDE DEF s
    <3>2. Max(s) \in s /\ \A m \in s : m <= Max(s)
      BY <3>1, MaxIn
    <3>3. Max(s) = k + 1
      BY <3>1, <3>2
    <3>. QED
      BY <3>1, <3>3
  <2>. HIDE DEF s
  <2>2. f[s] = f[s \ {Max(s)}] + Price(cart[Max(s)], pay)
    BY <1>1, <2>1 DEF Costs
  <2>. QED
    BY <2>1, <2>2 DEF s
<1>. QED
  BY <1>2, <1>3 DEF f

\* A purchase turns money into props of the same value, line by line.
LEMMA Purchase ==
  ASSUME NEW s, Good(s), NEW req \in Requests, Accepts(s, req),
         Cardinality(s.inv) + Len(req.cart) <= MaxProps
  PROVE  /\ Good(Bought(s, req))
         /\ \A cur \in Currencies : Bought(s, req).wallet[cur] <= s.wallet[cur]
<1>. DEFINE cart == req.cart
            n    == Len(cart)
            pay  == req.pay
            base == [inv |-> s.inv, next |-> s.next]
            got  == GrantsTable(base, cart)
            due  == CostsTable(pay, cart)
            Line(k) == /\ got[1 .. k] = [inv |-> got[1 .. k].inv, next |-> got[1 .. k].next]
                       /\ Fine(got[1 .. k].inv) /\ got[1 .. k].next \in 0 .. GidSpace - 1
                       /\ Cardinality(got[1 .. k].inv) = Cardinality(s.inv) + k
                       /\ s.inv \subseteq got[1 .. k].inv
                       /\ due[1 .. k] \in Nat
                       /\ \A cur \in Currencies : Value(got[1 .. k].inv, cur) =
                            Value(s.inv, cur) + IF cur = pay THEN due[1 .. k] ELSE 0
            N == {k \in Nat : k <= n => Line(k)}
<1>1. /\ cart \in Seq(Items) /\ pay \in Currencies /\ n \in Nat /\ DOMAIN cart = 1 .. n
      /\ \A k \in 1 .. n : cart[k] \in Items
  BY PlayerStateAssumption
<1>2. \A k \in 1 .. n : cart[k] \in DOMAIN Catalog /\ Catalog[cart[k]].cur = pay
  BY <1>1 DEF Accepts, Range
<1>3. due[1 .. n] <= s.wallet[pay]
  BY <1>1, CostsFold DEF Accepts
<1>4. /\ got[1 .. 0] = base /\ \A k \in 0 .. n - 1 : got[1 .. k + 1] = Grant(got[1 .. k], cart[k + 1])
      /\ due[1 .. 0] = 0 /\ \A k \in 0 .. n - 1 : due[1 .. k + 1] = due[1 .. k] + Price(cart[k + 1], pay)
  <2>1. n \in Nat /\ DOMAIN cart = 1 .. n
    BY <1>1
  <2>. HIDE DEF cart, n, pay, base
  <2>2. got[1 .. 0] = base /\ \A k \in 0 .. n - 1 : got[1 .. k + 1] = Grant(got[1 .. k], cart[k + 1])
    BY <2>1, GrantsSteps
  <2>3. due[1 .. 0] = 0 /\ \A k \in 0 .. n - 1 : due[1 .. k + 1] = due[1 .. k] + Price(cart[k + 1], pay)
    BY <2>1, CostsSteps
  <2>. QED
    BY <2>2, <2>3
<1>5. FoldLeft(Grant, base, cart) = got[1 .. n] /\ Cost(req) = due[1 .. n]
  BY <1>1, GrantsFold, CostsFold DEF Cost
<1>6. GidSpace \in Nat \ {0} /\ FirstGid \in 0 .. GidSpace - 1
  BY PlayerStateAssumption DEF FirstGid
<1>7. /\ IsFiniteSet(s.inv) /\ Cardinality(s.inv) \in Nat /\ Fine(s.inv)
      /\ s.next \in 0 .. GidSpace - 1 /\ \A cur \in Currencies : Value(s.inv, cur) \in Nat
  BY GoodFields, FS_CardinalityType, ValueNat DEF Fine
<1>8. Cardinality(s.inv) + n <= MaxProps
  OBVIOUS
<1>. HIDE DEF cart, n, pay, got, due
<1>9. Line(0)
  <2>1. got[1 .. 0] = [inv |-> s.inv, next |-> s.next]
    BY <1>4
  <2>2. got[1 .. 0].inv = s.inv /\ got[1 .. 0].next = s.next
    BY <2>1
  <2>. QED
    BY <1>4, <1>7, <2>1, <2>2
<1>10. ASSUME NEW k \in Nat, k + 1 <= n, Line(k) PROVE Line(k + 1)
  <2>. DEFINE a == got[1 .. k]
              i == cart[k + 1]
              g == NextFree(a.next, GidsOf(a.inv))
              next == (g + 1) % GidSpace
  <2>1. k \in 0 .. n - 1 /\ k + 1 \in 1 .. n /\ i \in Items
    BY <1>1, <1>10
  <2>2. got[1 .. k + 1] = Grant(a, i) /\ due[1 .. k + 1] = due[1 .. k] + Price(i, pay)
    BY <1>4, <2>1
  <2>3. /\ Fine(a.inv) /\ a.next \in Int /\ Cardinality(a.inv) = Cardinality(s.inv) + k
        /\ s.inv \subseteq a.inv /\ due[1 .. k] \in Nat
    BY <1>6, <1>10
  <2>4. \A cur \in Currencies : Value(a.inv, cur) =
          Value(s.inv, cur) + IF cur = pay THEN due[1 .. k] ELSE 0
    BY <1>10
  <2>5. \A cur \in Currencies : cur # pay => Price(i, cur) = 0
    BY <1>2, <2>1 DEF Price
  <2>. HIDE DEF a, i
  <2>6. g \in Gids \ GidsOf(a.inv)
    BY <2>3, FreeOf
  <2>7. Grant(a, i) = [inv |-> a.inv \cup {NewProp(g, i)},
                       next |-> IF next = 0 THEN FirstGid ELSE next]
    BY DEF Grant
  <2>. HIDE DEF g
  <2>8. (IF next = 0 THEN FirstGid ELSE next) \in 0 .. GidSpace - 1
    <3>1. g \in Int
      BY <1>6, <2>6 DEF Gids
    <3>. QED
      BY <1>6, <3>1
  <2>9. Cardinality(a.inv) + 1 <= MaxProps
    BY <1>1, <1>7, <1>8, <1>10, <2>3, PlayerStateAssumption
  <2>10. /\ Fine(a.inv \cup {NewProp(g, i)})
         /\ Cardinality(a.inv \cup {NewProp(g, i)}) = Cardinality(a.inv) + 1
         /\ \A cur : Value(a.inv \cup {NewProp(g, i)}, cur) = Value(a.inv, cur) + Price(i, cur)
    BY <2>1, <2>3, <2>6, <2>9, Added
  <2>. HIDE DEF next
  <2>11. /\ got[1 .. k + 1].inv = a.inv \cup {NewProp(g, i)}
         /\ got[1 .. k + 1].next \in 0 .. GidSpace - 1
         /\ got[1 .. k + 1] = [inv |-> got[1 .. k + 1].inv, next |-> got[1 .. k + 1].next]
    BY <2>2, <2>7, <2>8
  <2>12. \A cur \in Currencies : Price(i, cur) \in Nat
    BY PriceNat
  <2>13. \A cur \in Currencies : Value(got[1 .. k + 1].inv, cur) =
           Value(s.inv, cur) + IF cur = pay THEN due[1 .. k + 1] ELSE 0
    <3>. SUFFICES ASSUME NEW cur \in Currencies
         PROVE Value(got[1 .. k + 1].inv, cur) =
                 Value(s.inv, cur) + IF cur = pay THEN due[1 .. k + 1] ELSE 0
      OBVIOUS
    <3>1. Value(got[1 .. k + 1].inv, cur) = Value(a.inv, cur) + Price(i, cur)
      BY <2>10, <2>11
    <3>2. Value(s.inv, cur) \in Nat /\ Price(i, cur) \in Nat /\ due[1 .. k] \in Nat
      BY <1>7, <2>3, <2>12
    <3>3. CASE cur = pay
      BY <2>2, <2>4, <3>1, <3>2, <3>3
    <3>4. CASE cur # pay
      BY <2>4, <2>5, <3>1, <3>2, <3>4
    <3>. QED
      BY <3>3, <3>4
  <2>14. Cardinality(got[1 .. k + 1].inv) = Cardinality(s.inv) + (k + 1)
    BY <1>7, <2>3, <2>10, <2>11
  <2>15. due[1 .. k + 1] \in Nat
    BY <1>1, <2>2, <2>3, <2>12
  <2>. QED
    BY <2>3, <2>10, <2>11, <2>13, <2>14, <2>15
<1>11. Line(n)
  <2>. HIDE DEF Line
  <2>1. N \in SUBSET Nat /\ 0 \in N
    BY <1>9
  <2>2. \A k \in N : k + 1 \in N
    BY <1>1, <1>10
  <2>. HIDE DEF N
  <2>3. N = Nat
    BY <2>1, <2>2, NatInd
  <2>. QED
    BY <1>1, <2>3 DEF N
<1>. DEFINE t == got[1 .. n]
            wallet == [s.wallet EXCEPT ![pay] = @ - Cost(req)]
<1>12. wallet \in [Currencies -> 0 .. WalletCap]
       /\ \A cur \in Currencies : wallet[cur] = s.wallet[cur] - IF cur = pay THEN Cost(req) ELSE 0
  <2>1. s.wallet \in [Currencies -> 0 .. WalletCap] /\ Cost(req) \in Nat /\ Cost(req) <= s.wallet[pay]
    BY <1>3, <1>5, <1>11, GoodFields
  <2>2. WalletCap \in Nat /\ s.wallet[pay] \in 0 .. WalletCap
    BY <1>1, <2>1, PlayerStateAssumption
  <2>3. s.wallet[pay] - Cost(req) \in 0 .. WalletCap
    BY <2>1, <2>2
  <2>4. \A cur \in Currencies : s.wallet[cur] - 0 = s.wallet[cur]
    BY <2>1, <2>2
  <2>. QED
    BY <1>1, <2>1, <2>3, <2>4
<1>13. Bought(s, req) = [wallet |-> wallet, inv |-> t.inv, role |-> s.role, next |-> t.next, books |-> s.books]
  <2>1. Bought(s, req) = [s EXCEPT !.wallet[pay] = @ - Cost(req), !.inv = t.inv, !.next = t.next]
    BY <1>5 DEF Bought, cart, pay
  <2>. HIDE DEF t
  <2>. QED
    BY <2>1, GoodFields
<1>. HIDE DEF wallet
<1>14. /\ Fine(t.inv) /\ t.next \in 0 .. GidSpace - 1 /\ s.inv \subseteq t.inv
       /\ \A cur \in Currencies : Value(t.inv, cur) =
                 Value(s.inv, cur) + IF cur = pay THEN Cost(req) ELSE 0
       /\ Cost(req) \in Nat
  BY <1>5, <1>11
<1>. HIDE DEF t
<1>15. \E p \in t.inv : p.gid = s.role /\ IsRole(p)
  BY <1>14, GoodFields DEF Role
<1>16. \A cur \in Currencies : wallet[cur] + Value(t.inv, cur) = s.books[cur] /\ wallet[cur] <= s.wallet[cur]
  <2>. SUFFICES ASSUME NEW cur \in Currencies
       PROVE wallet[cur] + Value(t.inv, cur) = s.books[cur] /\ wallet[cur] <= s.wallet[cur]
    OBVIOUS
  <2>1. /\ s.wallet[cur] \in Int /\ Value(s.inv, cur) \in Nat
        /\ s.wallet[cur] + Value(s.inv, cur) = s.books[cur]
    BY <1>7, GoodFields DEF Balanced, Worth
  <2>2. CASE cur = pay
    BY <1>12, <1>14, <2>1, <2>2
  <2>3. CASE cur # pay
    BY <1>12, <1>14, <2>1, <2>3
  <2>. QED
    BY <2>2, <2>3
<1>17. Good([wallet |-> wallet, inv |-> t.inv, role |-> s.role, next |-> t.next, books |-> s.books])
  BY <1>12, <1>14, <1>15, <1>16, GoodMade, GoodFields
<1>. QED
  BY <1>13, <1>16, <1>17

-----------------------------------------------------------------------------
(* Prop operations                                                         *)

\* A good state but for the role, which every operation picks anew.
Roleless(s) ==
  /\ s = [wallet |-> s.wallet, inv |-> s.inv, role |-> s.role, next |-> s.next, books |-> s.books]
  /\ s.wallet \in [Currencies -> 0 .. WalletCap] /\ Fine(s.inv)
  /\ s.next \in 0 .. GidSpace - 1 /\ s.books \in [Currencies -> Nat] /\ Balanced(s)

LEMMA Dropping ==
  ASSUME NEW s, Good(s), NEW op
  PROVE  Roleless(Dropped(s, op)) /\ Dropped(s, op).wallet = s.wallet
<1>0. Roleless(s)
  BY GoodFields DEF Roleless
<1>1. CASE op.gid \in StarterGids \/ ~HasGid(s.inv, op.gid)
  BY <1>0, <1>1 DEF Dropped
<1>2. CASE ~(op.gid \in StarterGids \/ ~HasGid(s.inv, op.gid))
  <2>. DEFINE gone == {p \in s.inv : p.gid = op.gid}
              books == [cur \in Currencies |-> s.books[cur] - Value(gone, cur)]
  <2>1. PICK x \in s.inv : x.gid = op.gid
    BY <1>2 DEF HasGid, GidsOf
  <2>2. gone = {x} /\ s.inv \ gone = s.inv \ {x}
    BY <2>1, GoodFields DEF Fine, Distinct
  <2>3. Dropped(s, op) = [s EXCEPT !.inv = @ \ gone, !.books = [cur \in Currencies |-> @[cur] - Value(gone, cur)]]
    BY <1>2 DEF Dropped
  <2>. HIDE DEF gone
  <2>4. Dropped(s, op) = [wallet |-> s.wallet, inv |-> s.inv \ {x}, role |-> s.role, next |-> s.next, books |-> books]
    BY <2>2, <2>3, GoodFields
  <2>5. /\ Fine(s.inv \ {x})
        /\ \A cur : Value(s.inv, cur) = Value(s.inv \ {x}, cur) + Price(x.item, cur)
    BY <1>2, <2>1, Removed, GoodFields
  <2>6. \A cur : Value(gone, cur) = Price(x.item, cur)
    BY <2>2, ValueSingle
  <2>7. \A cur \in Currencies : /\ books[cur] = s.wallet[cur] + Value(s.inv \ {x}, cur)
                               /\ books[cur] \in Nat
    <3>. SUFFICES ASSUME NEW cur \in Currencies
         PROVE books[cur] = s.wallet[cur] + Value(s.inv \ {x}, cur) /\ books[cur] \in Nat
      OBVIOUS
    <3>1. s.wallet[cur] \in Nat /\ s.wallet[cur] + Value(s.inv, cur) = s.books[cur]
      BY GoodFields, PlayerStateAssumption DEF Balanced, Worth
    <3>2. Value(s.inv \ {x}, cur) \in Nat /\ Price(x.item, cur) \in Nat
      BY <2>5, ValueNat, PriceNat DEF Fine
    <3>3. books[cur] = s.books[cur] - Price(x.item, cur)
      BY <2>6
    <3>4. Value(s.inv, cur) = Value(s.inv \ {x}, cur) + Price(x.item, cur)
      BY <2>5
    <3>. HIDE DEF books
    <3>. QED
      BY <3>1, <3>2, <3>3, <3>4
  <2>8. books \in [Currencies -> Nat]
    BY <2>7
  <2>. DEFINE t == Dropped(s, op)
  <2>. HIDE DEF books, t
  <2>9. /\ t.wallet = s.wallet /\ t.inv = s.inv \ {x} /\ t.next = s.next /\ t.books = books
        /\ t = [wallet |-> t.wallet, inv |-> t.inv, role |-> t.role, next |-> t.next, books |-> t.books]
    BY <2>4 DEF t
  <2>10. Balanced(t)
    BY <2>7, <2>9 DEF Balanced, Worth
  <2>11. Roleless(t)
    BY <2>5, <2>8, <2>9, <2>10, GoodFields DEF Roleless
  <2>. QED
    BY <2>9, <2>11 DEF t
<1>. QED
  BY <1>1, <1>2

\* Equipping and taking off change the inventory's places and nothing else.
LEMMA Rearranged ==
  ASSUME NEW s, Good(s), NEW inv, Fine(inv), \A cur : Value(inv, cur) = Value(s.inv, cur),
         NEW role, NEW t,
         t = [wallet |-> s.wallet, inv |-> inv, role |-> role, next |-> s.next, books |-> s.books]
  PROVE  Roleless(t) /\ t.wallet = s.wallet
<1>1. t.wallet = s.wallet /\ t.inv = inv /\ t.role = role /\ t.next = s.next /\ t.books = s.books
  OBVIOUS
<1>2. Balanced(t)
  BY <1>1, GoodFields DEF Balanced, Worth
<1>3. t = [wallet |-> t.wallet, inv |-> t.inv, role |-> t.role, next |-> t.next, books |-> t.books]
  BY <1>1
<1>. QED
  BY <1>1, <1>2, <1>3, GoodFields DEF Roleless

LEMMA Benched ==
  ASSUME NEW p \in Prop
  PROVE  LET b == [p EXCEPT !.owner = 0, !.loc = "BAG"]
         IN b \in Prop /\ b.gid = p.gid /\ b.item = p.item /\ b.loc = "BAG"
<1>1. 0 \in 0 .. GidSpace - 1 /\ "BAG" \in Locations
  BY PlayerStateAssumption DEF FirstGid, Locations
<1>. QED
  BY <1>1 DEF Prop

LEMMA TakingOff ==
  ASSUME NEW s, Good(s), NEW op
  PROVE  Roleless(TakenOff(s, op)) /\ TakenOff(s, op).wallet = s.wallet
<1>1. CASE ~HasGid(s.inv, op.gid)
  BY <1>1, GoodFields DEF TakenOff, Roleless
<1>2. CASE HasGid(s.inv, op.gid)
  <2>. DEFINE p == TheProp(s.inv, op.gid)
              b == [p EXCEPT !.owner = 0, !.loc = "BAG"]
              inv == (s.inv \ {p}) \cup {b}
  <2>1. p \in s.inv /\ p \in Prop
    BY <1>2, ThePropIs, GoodFields DEF HasGid
  <2>2. b \in Prop /\ b.gid = p.gid /\ b.item = p.item /\ b.loc = "BAG"
    BY <2>1, Benched
  <2>. HIDE DEF b
  <2>3. Fine(inv) /\ \A cur : Value(inv, cur) = Value(s.inv, cur)
    BY <2>1, <2>2, Moved, GoodFields
  <2>4. TakenOff(s, op) = [s EXCEPT !.inv = inv]
    BY <1>2 DEF TakenOff, b
  <2>. HIDE DEF inv
  <2>5. TakenOff(s, op) = [wallet |-> s.wallet, inv |-> inv, role |-> s.role, next |-> s.next,
                           books |-> s.books]
    BY <2>4, GoodFields
  <2>. QED
    BY <2>3, <2>5, Rearranged
<1>. QED
  BY <1>1, <1>2

\* Whoever sits in the socket goes to the bag first, then the prop goes in.
LEMMA Equipping ==
  ASSUME NEW s, Good(s), NEW op \in Operations
  PROVE  Roleless(Equipped(s, op)) /\ Equipped(s, op).wallet = s.wallet
<1>1. CASE ~HasGid(s.inv, op.gid)
  BY <1>1, GoodFields DEF Equipped, Roleless
<1>2. CASE HasGid(s.inv, op.gid)
  <2>. DEFINE p     == TheProp(s.inv, op.gid)
              owner == EquipOwner(s, p, op)
              loc   == EquipLoc(s, p, op)
              out   == Displaced(s, p, owner, loc)
              worn  == [p EXCEPT !.owner = owner, !.loc = loc]
              role  == IF IsRole(worn) THEN op.gid ELSE s.role
              inv   == (s.inv \ (out \cup {p})) \cup {worn}
                         \cup {[q EXCEPT !.owner = 0, !.loc = "BAG"] : q \in out}
  <2>1. p \in s.inv /\ p \in Prop /\ Fine(s.inv)
    BY <1>2, ThePropIs, GoodFields DEF HasGid
  <2>2. owner \in 0 .. GidSpace - 1
    <3>1. op.target \in 0 .. GidSpace - 1 /\ Bag1Gid \in 0 .. GidSpace - 1
      BY PlayerStateAssumption DEF FirstGid, Bag1Gid
    <3>. QED
      BY <3>1 DEF EquipOwner
  <2>3. loc \in Locations
    <3>1. op.loc \in Locations /\ Canon[p.item] \in Locations
      BY <2>1, PropFields, PlayerStateAssumption
    <3>. QED
      BY <3>1 DEF EquipLoc
  <2>4. Equipped(s, op) = [s EXCEPT !.inv = inv, !.role = role]
    BY <1>2, Zenon DEF Equipped
  <2>5. Equipped(s, op) = [wallet |-> s.wallet, inv |-> inv, role |-> role, next |-> s.next,
                            books |-> s.books]
    <3>. HIDE DEF inv, role
    <3>. QED
      BY <2>4, GoodFields
  <2>. HIDE DEF p, owner, loc
  <2>6. worn \in Prop /\ worn.gid = p.gid /\ worn.item = p.item /\ worn.owner = owner /\ worn.loc = loc
    BY <2>1, <2>2, <2>3 DEF Prop
  <2>. HIDE DEF worn, role
  <2>7. out = {q \in s.inv : q.gid # p.gid /\ loc # "BAG" /\ q.owner = owner /\ q.loc = loc}
    BY DEF Displaced
  <2>8. \A q \in s.inv \ {p} : q.gid # p.gid
    BY <2>1 DEF Fine, Distinct
  <2>. HIDE DEF out
  <2>9. CASE out = {}
    <3>1. inv = (s.inv \ {p}) \cup {worn}
      BY <2>9
    <3>2. worn.loc = "BAG" \/ \A q \in s.inv \ {p} : ~(q.owner = worn.owner /\ q.loc = worn.loc)
      BY <2>6, <2>7, <2>8, <2>9
    <3>. HIDE DEF inv
    <3>3. Fine(inv) /\ \A cur : Value(inv, cur) = Value(s.inv, cur)
      BY <2>1, <2>6, <3>1, <3>2, Moved
    <3>. QED
      BY <2>5, <3>3, Rearranged
  <2>10. CASE out # {}
    <3>1. PICK r \in out : TRUE
      BY <2>10
    <3>2. r \in s.inv /\ r.gid # p.gid /\ loc # "BAG" /\ r.owner = owner /\ r.loc = loc
      BY <2>7
    <3>3. out = {r}
      BY <2>1, <2>7, <3>2 DEF Fine, Sockets
    <3>. DEFINE b == [r EXCEPT !.owner = 0, !.loc = "BAG"]
                half == (s.inv \ {r}) \cup {b}
    <3>4. b \in Prop /\ b.gid = r.gid /\ b.item = r.item /\ b.loc = "BAG"
      BY <2>1, <3>2, Benched DEF Fine
    <3>5. inv = (s.inv \ {r, p}) \cup {worn} \cup {b}
      BY <3>3
    <3>. HIDE DEF b, inv
    <3>6. Fine(half) /\ \A cur : Value(half, cur) = Value(s.inv, cur)
      BY <2>1, <3>2, <3>4, Moved
    <3>7. p \in half /\ inv = (half \ {p}) \cup {worn}
      BY <2>1, <3>2, <3>4, <3>5
    <3>8. \A q \in half \ {p} : ~(q.owner = worn.owner /\ q.loc = worn.loc)
      BY <2>6, <2>7, <2>8, <3>2, <3>3, <3>4
    <3>. HIDE DEF half
    <3>9. Fine(inv) /\ \A cur : Value(inv, cur) = Value(half, cur)
      BY <2>6, <3>6, <3>7, <3>8, Moved
    <3>. QED
      BY <2>5, <3>6, <3>9, Rearranged
  <2>. QED
    BY <2>9, <2>10
<1>. QED
  BY <1>1, <1>2

LEMMA Operation ==
  ASSUME NEW s, Good(s), NEW op \in Operations
  PROVE  Good(Operated(s, op)) /\ Operated(s, op).wallet = s.wallet
<1>. DEFINE t == CASE op.kind = "DROP"    -> Dropped(s, op)
                   [] op.kind = "EQUIP"   -> Equipped(s, op)
                   [] op.kind = "TAKEOFF" -> TakenOff(s, op)
                   [] OTHER               -> s
<1>1. t \in {Dropped(s, op), Equipped(s, op), TakenOff(s, op), s}
  <2>. HIDE DEF t
  <2>1. CASE op.kind = "DROP"
    BY <2>1 DEF t
  <2>2. CASE op.kind = "EQUIP"
    BY <2>2 DEF t
  <2>3. CASE op.kind = "TAKEOFF"
    BY <2>3 DEF t
  <2>4. CASE op.kind \notin {"DROP", "EQUIP", "TAKEOFF"}
    BY <2>4 DEF t
  <2>. QED
    BY <2>1, <2>2, <2>3, <2>4
<1>2. Roleless(s)
  BY GoodFields DEF Roleless
<1>3. Operated(s, op) = [t EXCEPT !.role = PickRole(t.inv, t.role)]
  BY DEF Operated
<1>. HIDE DEF t
<1>4. Roleless(t) /\ t.wallet = s.wallet
  BY <1>1, <1>2, Dropping, Equipping, TakingOff
<1>5. Operated(s, op) = [wallet |-> t.wallet, inv |-> t.inv, role |-> PickRole(t.inv, t.role),
                         next |-> t.next, books |-> t.books]
  BY <1>3, <1>4 DEF Roleless
<1>6. \E p \in t.inv : p.gid = PickRole(t.inv, t.role) /\ IsRole(p)
  BY <1>4, RolePicked DEF Roleless, Fine
<1>. DEFINE role == PickRole(t.inv, t.role)
<1>. HIDE DEF role
<1>7. Good([wallet |-> t.wallet, inv |-> t.inv, role |-> role, next |-> t.next, books |-> t.books])
  BY <1>4, <1>6, GoodMade DEF Roleless, Balanced, Worth, role
<1>. QED
  BY <1>4, <1>5, <1>7 DEF role

-----------------------------------------------------------------------------
\* A player who starts anew.
LEMMA DefaultGood == Good(Default)
<1>. DEFINE inv == {Starter(g) : g \in StarterGids}
            books == [cur \in Currencies |-> Opening + Value(inv, cur)]
<1>1. inv \subseteq Prop
  BY StarterFields
<1>2. IsFiniteSet(inv) /\ Cardinality(inv) <= MaxProps
  <2>. DEFINE one == {Starter(RoleGid)}
              two == one \cup {Starter(Bag1Gid)}
  <2>1. inv = two \cup {Starter(Bag2Gid)}
    BY DEF StarterGids
  <2>2. IsFiniteSet(one) /\ Cardinality(one) = 1
    BY FS_Singleton
  <2>. HIDE DEF one, inv
  <2>3. IsFiniteSet(two) /\ Cardinality(two) \in 1 .. 2
    BY <2>2, FS_AddElement
  <2>. HIDE DEF two
  <2>4. IsFiniteSet(inv) /\ Cardinality(inv) \in 1 .. 3
    BY <2>1, <2>3, FS_AddElement
  <2>. QED
    BY <2>4, PlayerStateAssumption
<1>3. Distinct(inv) /\ Sockets(inv) /\ Starters(inv)
  BY StarterFields DEF Distinct, Sockets, Starters
<1>4. Fine(inv)
  BY <1>1, <1>2, <1>3 DEF Fine
<1>5. Starter(RoleGid) \in inv /\ Starter(RoleGid).gid = RoleGid /\ IsRole(Starter(RoleGid))
  <2>1. RoleGid \in StarterGids
    BY DEF StarterGids
  <2>. QED
    BY <2>1, StarterFields DEF IsRole, RoleLocs
<1>. HIDE DEF inv
<1>6. \A cur \in Currencies : Opening + Value(inv, cur) \in Nat
  BY <1>2, ValueNat, PlayerStateAssumption
<1>7. books \in [Currencies -> Nat] /\ Balances(Opening) \in [Currencies -> 0 .. WalletCap]
  BY <1>6, PlayerStateAssumption DEF Balances
<1>8. \A cur \in Currencies : Balances(Opening)[cur] + Value(inv, cur) = books[cur]
  BY DEF Balances
<1>9. FirstGid \in 0 .. GidSpace - 1
  BY PlayerStateAssumption DEF FirstGid
<1>10. Default = [wallet |-> Balances(Opening), inv |-> inv, role |-> RoleGid, next |-> FirstGid, books |-> books]
  BY DEF Default, inv
<1>. HIDE DEF books
<1>11. Good([wallet |-> Balances(Opening), inv |-> inv, role |-> RoleGid, next |-> FirstGid, books |-> books])
  BY <1>4, <1>5, <1>7, <1>8, <1>9, GoodMade
<1>. QED
  BY <1>10, <1>11

-----------------------------------------------------------------------------
(* The invariant                                                           *)

Stored ==
  /\ mem \in [Conns -> State]
  /\ \A c \in Conns : Good(mem[c])
  /\ disk \in Edited \cup {None} \/ Good(disk)
Sessions ==
  /\ counter \in 0 .. MaxSessions /\ active = counter
  /\ pc \in [Conns -> {"closed", "begun", "init", "open", "answer", "ending"}]
  /\ sid \in [Conns -> 0 .. counter]
  /\ \A c \in Conns : pc[c] = "closed" <=> sid[c] = 0
  /\ \A c, d \in Conns : sid[c] = sid[d] /\ sid[c] # 0 => c = d
Talk ==
  /\ cache \in [Conns -> Seq([seq : Seqs, req : Requests])]
  /\ \A c \in Conns : Len(cache[c]) <= CacheSize
  /\ doing \in [Conns -> {None} \cup [seq : Seqs, req : Requests]]
IInv == Stored /\ Sessions /\ Talk

\* The last session knows what is in the file: it holds no more money than that,
\* and after a save the same things.
Shown(c) == /\ disk # None
            /\ disk.wallet = mem[c].wallet /\ disk.inv = mem[c].inv /\ disk.role = mem[c].role
Unspent(c) == \A cur \in Currencies : mem[c].wallet[cur] <= Clamp(disk.wallet[cur])
Fresh ==
  \A c \in Conns : sid[c] = active =>
    /\ pc[c] = "init" => disk = None
    /\ pc[c] \in {"open", "answer", "ending"} /\ disk # None => Unspent(c)
    /\ pc[c] = "answer" => Shown(c)

-----------------------------------------------------------------------------
(* Every state is a good one                                               *)

LEMMA Written1 ==
  ASSUME Stored
  PROVE  /\ \A s \in States : Good(s)
         /\ disk # None => (disk.books = None <=> disk \in Edited)
<1>1. ASSUME Good(disk) PROVE disk # None /\ disk.books # None
  BY <1>1, GoodFields, EditedAssumption
<1>2. ASSUME disk \in Edited, disk # None PROVE disk.books = None
  BY <1>2, EditedOpens
<1>. QED
  BY <1>1, <1>2 DEF Stored, States, Written

LEMMA Saved ==
  ASSUME Stored, NEW c \in Conns, NEW s, Good(s), Save(c, s)
  PROVE  /\ disk' \in Edited \cup {None} \/ Good(disk')
         /\ IF MaySave(c)
            THEN /\ disk' # None /\ disk'.wallet = s.wallet
                 /\ disk'.inv = s.inv /\ disk'.role = s.role
            ELSE disk' = disk
<1>1. Good(Normalize(s)) /\ Normalize(s).wallet = s.wallet
      /\ Normalize(s).inv = s.inv /\ Normalize(s).role = s.role /\ Normalize(s) # None
  BY GoodKept, GoodFields
<1>2. disk' = IF MaySave(c) THEN Normalize(s) ELSE disk
  BY DEF Save
<1>. QED
  BY <1>1, <1>2 DEF Stored

LEMMA MemSet ==
  ASSUME Stored, NEW c \in Conns, NEW s, Good(s), SetMem(c, s)
  PROVE  /\ mem' \in [Conns -> State] /\ \A d \in Conns : Good(mem'[d])
         /\ mem'[c] = s /\ \A d \in Conns \ {c} : mem'[d] = mem[d]
<1>1. mem' = [mem EXCEPT ![c] = s] /\ s \in State
  BY DEF SetMem, Good
<1>2. mem'[c] = s /\ \A d \in Conns \ {c} : mem'[d] = mem[d]
  BY <1>1 DEF Stored
<1>. QED
  BY <1>1, <1>2 DEF Stored

\* What a connection reads.
LEMMA Reading ==
  ASSUME Stored, disk # None
  PROVE  LET s == IF disk.books = None THEN Opened(disk) ELSE Normalize(disk)
         IN Good(s) /\ \A cur \in Currencies : s.wallet[cur] = Clamp(disk.wallet[cur])
<1>1. CASE disk.books = None
  BY <1>1, Written1, EditedOpens
<1>2. CASE disk.books # None
  <2>1. Good(disk)
    BY <1>2, Written1 DEF Stored
  <2>2. \A cur \in Currencies : Clamp(disk.wallet[cur]) = disk.wallet[cur]
    <3>. SUFFICES ASSUME NEW cur \in Currencies PROVE Clamp(disk.wallet[cur]) = disk.wallet[cur]
      OBVIOUS
    <3>1. disk.wallet[cur] \in 0 .. WalletCap /\ disk.wallet[cur] \in Int
      BY <2>1, GoodFields, PlayerStateAssumption
    <3>. QED
      BY <3>1, ClampRange
  <2>. QED
    BY <1>2, <2>1, <2>2, GoodKept
<1>. QED
  BY <1>1, <1>2

\* At the end of a connection the role is picked again, which changes nothing.
LEMMA LastState ==
  ASSUME Stored, NEW c \in Conns
  PROVE  /\ Good([mem[c] EXCEPT !.role = PickRole(mem[c].inv, @)])
         /\ [mem[c] EXCEPT !.role = PickRole(mem[c].inv, @)].wallet = mem[c].wallet
<1>1. Good(mem[c]) /\ mem[c] \in State
  BY DEF Stored, Good
<1>2. PickRole(mem[c].inv, mem[c].role) = mem[c].role
  BY <1>1, RolePicked, GoodFields DEF Fine, Role
<1>3. [mem[c] EXCEPT !.role = PickRole(mem[c].inv, @)] = mem[c]
  BY <1>1, <1>2 DEF State
<1>. QED
  BY <1>1, <1>3

LEMMA InitInv == Init => IInv
<1>. SUFFICES ASSUME Init PROVE IInv
  OBVIOUS
<1>. USE DEF Init
<1>1. Stored
  BY DefaultGood DEF Stored, Good
<1>2. Sessions
  BY PlayerStateAssumption DEF Sessions
<1>3. Talk
  BY PlayerStateAssumption DEF Talk
<1>. QED
  BY <1>1, <1>2, <1>3 DEF IInv

LEMMA StoredStep == IInv /\ [Next]_vars => Stored'
<1>. SUFFICES ASSUME IInv, [Next]_vars PROVE Stored'
  OBVIOUS
<1>. USE DEF IInv
<1>0. ASSUME UNCHANGED <<disk, mem>> PROVE Stored'
  BY <1>0 DEF Stored
<1>s. ASSUME NEW c \in Conns, NEW s, Good(s), Save(c, s) \/ SaveRaises(c), UNCHANGED mem \/ SetMem(c, s)
      PROVE Stored'
  <2>1. disk' \in Edited \cup {None} \/ Good(disk')
    BY <1>s, Saved DEF SaveRaises, Stored
  <2>2. mem' \in [Conns -> State] /\ \A d \in Conns : Good(mem'[d])
    BY <1>s, MemSet DEF Stored
  <2>. QED
    BY <2>1, <2>2 DEF Stored
<1>1. ASSUME NEW c \in Conns, BeginSession(c) PROVE Stored'
  BY <1>0, <1>1 DEF BeginSession
<1>2. ASSUME NEW c \in Conns, Load(c) PROVE Stored'
  <2>1. PICK s : Good(s) /\ SetMem(c, s)
    BY <1>2, Reading, DefaultGood DEF Load
  <2>2. mem' \in [Conns -> State] /\ \A d \in Conns : Good(mem'[d])
    BY <2>1, MemSet
  <2>3. disk' \in {disk, None}
    BY <1>2 DEF Load
  <2>. QED
    BY <2>2, <2>3 DEF Stored
<1>3. ASSUME NEW c \in Conns, InitialSave(c) PROVE Stored'
  <2>1. Good(mem[c])
    BY DEF Stored
  <2>. QED
    BY <1>s, <1>3, <2>1 DEF InitialSave
<1>4. ASSUME NEW c \in Conns, NEW q \in Seqs, NEW req \in Requests, Buy(c, q, req) PROVE Stored'
  <2>. DEFINE s == Bought(mem[c], req)
  <2>1. Good(mem[c]) /\ Accepts(mem[c], req) /\ Cardinality(mem[c].inv) + Len(req.cart) <= MaxProps
    BY <1>4 DEF Stored, Buy
  <2>2. Good(s)
    BY <2>1, Purchase
  <2>3. SetMem(c, s) /\ (Save(c, s) \/ SaveRaises(c))
    BY <1>4 DEF Buy
  <2>. HIDE DEF s
  <2>. QED
    BY <1>s, <2>2, <2>3
<1>5. ASSUME NEW c \in Conns, NEW q \in Seqs, NEW req \in Requests, RejectBuy(c, q, req) PROVE Stored'
  BY <1>0, <1>5 DEF RejectBuy, file
<1>6. ASSUME NEW c \in Conns, NEW op \in Operations, Operate(c, op) PROVE Stored'
  <2>. DEFINE s == Operated(mem[c], op)
  <2>1. Good(s)
    BY Operation DEF Stored
  <2>2. SetMem(c, s) /\ (Save(c, s) \/ SaveRaises(c))
    BY <1>6 DEF Operate
  <2>. HIDE DEF s
  <2>. QED
    BY <1>s, <2>1, <2>2
<1>7. ASSUME NEW c \in Conns, Answer(c) PROVE Stored'
  BY <1>0, <1>7 DEF Answer, file
<1>8. ASSUME NEW c \in Conns, SaveAgain(c) PROVE Stored'
  <2>1. Good(mem[c])
    BY DEF Stored
  <2>. QED
    BY <1>s, <1>8, <2>1 DEF SaveAgain
<1>9. ASSUME NEW c \in Conns, Leave(c) PROVE Stored'
  BY <1>0, <1>9 DEF Leave, file
<1>10. ASSUME NEW c \in Conns, Close(c) PROVE Stored'
  <2>1. disk' \in Edited \cup {None} \/ Good(disk')
    BY <1>10, LastState, Saved DEF Close, SaveRaises, Stored
  <2>2. mem' \in [Conns -> State] /\ \A d \in Conns : Good(mem'[d])
    BY <1>10, DefaultGood, MemSet DEF Close
  <2>. QED
    BY <2>1, <2>2 DEF Stored
<1>11. ASSUME Restart PROVE Stored'
  BY <1>11, DefaultGood DEF Restart, Stored, Good
<1>12. ASSUME UNCHANGED vars PROVE Stored'
  BY <1>0, <1>12 DEF vars, file
<1>. QED
  BY <1>1, <1>2, <1>3, <1>4, <1>5, <1>6, <1>7, <1>8, <1>9, <1>10, <1>11, <1>12 DEF Next

LEMMA SessionsStep == IInv /\ [Next]_vars => Sessions'
<1>. SUFFICES ASSUME IInv, [Next]_vars PROVE Sessions'
  OBVIOUS
<1>. USE DEF IInv
<1>0. ASSUME NEW c \in Conns, NEW from \in {"begun", "init", "open", "answer", "ending"},
             NEW to \in {"begun", "init", "open", "answer", "ending"},
             pc[c] = from, Goto(c, to) \/ UNCHANGED pc, UNCHANGED <<counter, active, sid>>
      PROVE Sessions'
  BY <1>0 DEF Sessions, Goto
<1>1. ASSUME NEW c \in Conns, BeginSession(c) PROVE Sessions'
  <2>1. /\ pc' = [pc EXCEPT ![c] = "begun"] /\ sid' = [sid EXCEPT ![c] = counter + 1]
        /\ counter' = counter + 1 /\ active' = counter + 1 /\ counter < MaxSessions
    BY <1>1 DEF BeginSession, Goto
  <2>2. counter \in Nat /\ MaxSessions \in Nat
    BY PlayerStateAssumption DEF Sessions
  <2>3. \A d \in Conns : sid[d] \in 0 .. counter /\ sid[d] # counter + 1
    BY <2>2 DEF Sessions
  <2>4. \A d \in Conns : sid'[d] \in 0 .. counter' /\ sid'[d] = IF d = c THEN counter + 1 ELSE sid[d]
    BY <2>1, <2>2, <2>3 DEF Sessions
  <2>5. \A d, e \in Conns : sid'[d] = sid'[e] /\ sid'[d] # 0 => d = e
    BY <2>3, <2>4 DEF Sessions
  <2>6. sid' \in [Conns -> 0 .. counter']
    BY <2>1, <2>4 DEF Sessions
  <2>7. \A d \in Conns : pc'[d] = "closed" <=> sid'[d] = 0
    BY <2>1, <2>2, <2>4 DEF Sessions
  <2>8. pc' \in [Conns -> {"closed", "begun", "init", "open", "answer", "ending"}]
    BY <2>1 DEF Sessions
  <2>9. counter' \in 0 .. MaxSessions /\ active' = counter'
    BY <2>1, <2>2
  <2>. QED
    BY <2>5, <2>6, <2>7, <2>8, <2>9 DEF Sessions
<1>2. ASSUME NEW c \in Conns, Load(c) PROVE Sessions'
  BY <1>0, <1>2 DEF Load
<1>3. ASSUME NEW c \in Conns, InitialSave(c) PROVE Sessions'
  BY <1>0, <1>3 DEF InitialSave
<1>4. ASSUME NEW c \in Conns, NEW q \in Seqs, NEW req \in Requests, Buy(c, q, req) PROVE Sessions'
  BY <1>0, <1>4 DEF Buy
<1>5. ASSUME NEW c \in Conns, NEW q \in Seqs, NEW req \in Requests, RejectBuy(c, q, req) PROVE Sessions'
  BY <1>5 DEF RejectBuy, file, Sessions
<1>6. ASSUME NEW c \in Conns, NEW op \in Operations, Operate(c, op) PROVE Sessions'
  BY <1>0, <1>6 DEF Operate
<1>7. ASSUME NEW c \in Conns, Answer(c) PROVE Sessions'
  BY <1>0, <1>7 DEF Answer, file
<1>8. ASSUME NEW c \in Conns, SaveAgain(c) PROVE Sessions'
  BY <1>8 DEF SaveAgain, Sessions
<1>9. ASSUME NEW c \in Conns, Leave(c) PROVE Sessions'
  BY <1>0, <1>9 DEF Leave, file
<1>10. ASSUME NEW c \in Conns, Close(c) PROVE Sessions'
  <2>1. /\ pc' = [pc EXCEPT ![c] = "closed"] /\ sid' = [sid EXCEPT ![c] = 0]
        /\ UNCHANGED <<counter, active>>
    BY <1>10 DEF Close, Goto
  <2>2. 0 \in 0 .. counter
    BY DEF Sessions
  <2>. QED
    BY <2>1, <2>2 DEF Sessions
<1>11. ASSUME Restart PROVE Sessions'
  BY <1>11, PlayerStateAssumption DEF Restart, Sessions
<1>12. ASSUME UNCHANGED vars PROVE Sessions'
  BY <1>12 DEF vars, file, Sessions
<1>. QED
  BY <1>1, <1>2, <1>3, <1>4, <1>5, <1>6, <1>7, <1>8, <1>9, <1>10, <1>11, <1>12 DEF Next

LEMMA Remembered ==
  ASSUME Talk, NEW c \in Conns, NEW q \in Seqs, NEW req \in Requests, Remember(c, q, req)
  PROVE  /\ cache' \in [Conns -> Seq([seq : Seqs, req : Requests])]
         /\ \A d \in Conns : Len(cache'[d]) <= CacheSize
<1>. DEFINE Entry == [seq : Seqs, req : Requests]
            e     == [seq |-> q, req |-> req]
            grown == Append(cache[c], e)
            kept  == IF Len(grown) > CacheSize THEN Tail(grown) ELSE grown
<1>1. cache \in [Conns -> Seq(Entry)] /\ Len(cache[c]) <= CacheSize /\ e \in Entry
  BY DEF Talk
<1>2. cache' = [cache EXCEPT ![c] = kept]
  BY DEF Remember
<1>. HIDE DEF Entry, e
<1>3. grown \in Seq(Entry) /\ Len(grown) = Len(cache[c]) + 1 /\ Len(cache[c]) \in Nat /\ grown # <<>>
  <2>. DEFINE old == cache[c]
  <2>1. old \in Seq(Entry)
    BY <1>1
  <2>. HIDE DEF old
  <2>2. Append(old, e) \in Seq(Entry) /\ Len(Append(old, e)) = Len(old) + 1 /\ Len(old) \in Nat
    BY <1>1, <2>1
  <2>3. Append(old, e) # <<>>
    BY <2>2
  <2>. QED
    BY <2>2, <2>3 DEF old
<1>. HIDE DEF grown
<1>4. kept \in Seq(Entry) /\ Len(kept) <= CacheSize
  <2>1. Tail(grown) \in Seq(Entry) /\ Len(Tail(grown)) = Len(grown) - 1
    BY <1>3
  <2>. QED
    BY <1>1, <1>3, <2>1, PlayerStateAssumption
<1>. HIDE DEF kept
<1>. QED
  BY <1>1, <1>2, <1>4 DEF Talk, Entry

LEMMA TalkStep == IInv /\ [Next]_vars => Talk'
<1>. SUFFICES ASSUME IInv, [Next]_vars PROVE Talk'
  OBVIOUS
<1>. USE DEF IInv
<1>0. ASSUME UNCHANGED <<cache, doing>> PROVE Talk'
  BY <1>0 DEF Talk
<1>1. ASSUME NEW c \in Conns, BeginSession(c) \/ Load(c) \/ InitialSave(c) PROVE Talk'
  BY <1>0, <1>1 DEF BeginSession, Load, InitialSave
<1>4. ASSUME NEW c \in Conns, NEW q \in Seqs, NEW req \in Requests, Buy(c, q, req) PROVE Talk'
  <2>1. doing' = [doing EXCEPT ![c] = [seq |-> q, req |-> req]] \/ UNCHANGED doing
    BY <1>4 DEF Buy
  <2>2. doing' \in [Conns -> {None} \cup [seq : Seqs, req : Requests]]
    BY <2>1 DEF Talk
  <2>3. UNCHANGED cache
    BY <1>4 DEF Buy
  <2>. QED
    BY <2>2, <2>3 DEF Talk
<1>5. ASSUME NEW c \in Conns, NEW q \in Seqs, NEW req \in Requests, RejectBuy(c, q, req) PROVE Talk'
  <2>1. Remember(c, q, req) /\ UNCHANGED doing
    BY <1>5 DEF RejectBuy
  <2>. QED
    BY <2>1, Remembered DEF Talk
<1>6. ASSUME NEW c \in Conns, NEW op \in Operations, Operate(c, op) PROVE Talk'
  BY <1>0, <1>6 DEF Operate
<1>7. ASSUME NEW c \in Conns, Answer(c) PROVE Talk'
  <2>1. /\ doing' = [doing EXCEPT ![c] = None]
        /\ \/ doing[c] # None /\ Remember(c, doing[c].seq, doing[c].req)
           \/ UNCHANGED cache
    BY <1>7 DEF Answer
  <2>2. doing[c] # None => doing[c].seq \in Seqs /\ doing[c].req \in Requests
    BY DEF Talk
  <2>3. /\ cache' \in [Conns -> Seq([seq : Seqs, req : Requests])]
        /\ \A d \in Conns : Len(cache'[d]) <= CacheSize
    BY <2>1, <2>2, Remembered DEF Talk
  <2>. QED
    BY <2>1, <2>3 DEF Talk
<1>8. ASSUME NEW c \in Conns, SaveAgain(c) \/ Leave(c) PROVE Talk'
  BY <1>0, <1>8 DEF SaveAgain, Leave
<1>10. ASSUME NEW c \in Conns, Close(c) PROVE Talk'
  <2>1. cache' = [cache EXCEPT ![c] = <<>>] /\ UNCHANGED doing
    BY <1>10 DEF Close
  <2>. DEFINE Entry == [seq : Seqs, req : Requests]
  <2>2. <<>> \in Seq(Entry) /\ Len(<<>>) <= CacheSize
    BY PlayerStateAssumption
  <2>3. cache \in [Conns -> Seq(Entry)] /\ \A d \in Conns : Len(cache[d]) <= CacheSize
    BY DEF Talk
  <2>. HIDE DEF Entry
  <2>4. cache' \in [Conns -> Seq(Entry)] /\ \A d \in Conns : Len(cache'[d]) <= CacheSize
    BY <2>1, <2>2, <2>3
  <2>. QED
    BY <2>1, <2>4 DEF Talk, Entry
<1>11. ASSUME Restart PROVE Talk'
  BY <1>11, PlayerStateAssumption DEF Restart, Talk
<1>12. ASSUME UNCHANGED vars PROVE Talk'
  BY <1>0, <1>12 DEF vars
<1>. QED
  BY <1>1, <1>4, <1>5, <1>6, <1>7, <1>8, <1>10, <1>11, <1>12 DEF Next

LEMMA IInvAlways == Spec => []IInv
<1>1. IInv /\ [Next]_vars => IInv'
  BY StoredStep, SessionsStep, TalkStep DEF IInv
<1>. QED
  BY <1>1, InitInv, PTL DEF Spec

-----------------------------------------------------------------------------
(* What follows from it                                                    *)

\* Everything the server holds or has written has its type: above all no
\* balance leaves the range of the protocol's i32, whatever the user's file
\* said (_v89_wallet).
THEOREM TypeCorrect == Spec => []TypeOK
<1>1. IInv => TypeOK
  BY Written1 DEF IInv, TypeOK, Good, Sessions, Talk
<1>. QED
  BY <1>1, IInvAlways, PTL

\* No two props share a gid, in memory or in the save, so that an operation
\* that names a prop by its gid names one (_v89_next_free_gid).
THEOREM UniqueGids == Spec => []GidsUnique
<1>1. IInv => GidsUnique
  <2>. SUFFICES ASSUME IInv, NEW s \in States PROVE Cardinality(GidsOf(s.inv)) = Cardinality(s.inv)
    BY DEF GidsUnique
  <2>1. IsFiniteSet(s.inv) /\ Distinct(s.inv)
    BY Written1, GoodFields DEF IInv, Fine
  <2>. QED
    BY <2>1, GidCount
<1>. QED
  BY <1>1, IInvAlways, PTL

\* An equipment socket holds one prop at most, in memory and in the save
\* (_v80_apply_prop_operation puts out whoever is in it).
THEOREM ExclusiveSockets == Spec => []SocketsExclusive
<1>1. IInv => SocketsExclusive
  BY Written1, GoodFields DEF IInv, SocketsExclusive, Fine, Sockets
<1>. QED
  BY <1>1, IInvAlways, PTL

\* The current role is a role the player has (_v87_pick_current_role_gid).
THEOREM OwnedRole == Spec => []RoleOwned
<1>1. IInv => RoleOwned
  BY Written1, GoodFields DEF IInv, RoleOwned, Role
<1>. QED
  BY <1>1, IInvAlways, PTL

\* Money and props are worth what they were worth at the start, less what was
\* dropped: for carts of any length, any prices, and whatever fails.
THEOREM BooksKept == Spec => []Accounted
<1>1. IInv => Accounted
  BY Written1, GoodFields DEF IInv, Accounted, Balanced
<1>. QED
  BY <1>1, IInvAlways, PTL

-----------------------------------------------------------------------------
(* The last session and the file, as long as the file can be read          *)

Knows(c) ==
  /\ pc[c] = "init" => disk = None
  /\ pc[c] \in {"open", "answer", "ending"} /\ disk # None => Unspent(c)
  /\ pc[c] = "answer" => Shown(c)

\* Only the last session writes.
LEMMA OneWriter ==
  ASSUME IInv, NEW c \in Conns, pc[c] # "closed", MaySave(c), NEW d \in Conns, sid[d] = active
  PROVE  d = c
  BY DEF IInv, Sessions, MaySave

LEMMA Bound ==
  ASSUME NEW w, NEW cur \in Currencies, w \in [Currencies -> 0 .. WalletCap]
  PROVE  w[cur] \in Int /\ Clamp(w[cur]) = w[cur] /\ w[cur] <= Clamp(w[cur])
<1>1. w[cur] \in 0 .. WalletCap /\ w[cur] \in Int
  BY PlayerStateAssumption
<1>. QED
  BY <1>1, ClampRange

LEMMA WalletKnown ==
  ASSUME Stored, disk # None, NEW cur \in Currencies
  PROVE  Clamp(disk.wallet[cur]) \in Int
<1>1. disk.wallet[cur] \in Int
  <2>1. CASE disk \in Edited
    <3>1. disk \in SaveFile
      BY <2>1, EditedAssumption
    <3>2. disk.wallet \in [Currencies -> Int]
      BY <3>1 DEF SaveFile
    <3>. QED
      BY <3>2
  <2>2. CASE Good(disk)
    BY <2>2, GoodFields, Bound
  <2>. QED
    BY <2>1, <2>2 DEF Stored
<1>. QED
  BY <1>1, ClampRange

\* Nothing that another connection does without saving disturbs what one knows.
LEMMA Undisturbed ==
  ASSUME IInv, Fresh, NEW d \in Conns,
         UNCHANGED <<disk, active>>, pc'[d] = pc[d], sid'[d] = sid[d], mem'[d] = mem[d],
         sid'[d] = active'
  PROVE  Knows(d)'
  BY DEF Fresh, Knows, Unspent, Shown

\* A request that changes the state, and the save that follows it.
LEMMA Request ==
  ASSUME IInv, Fresh, NEW c \in Conns, pc[c] = "open", UNCHANGED <<active, sid>>,
         NEW s, Good(s), \A cur \in Currencies : s.wallet[cur] <= mem[c].wallet[cur],
         SetMem(c, s),
         \/ Save(c, s) /\ (Goto(c, "answer") \/ (UNCHANGED pc /\ s = mem[c]))
         \/ SaveRaises(c) /\ UNCHANGED pc
  PROVE  Fresh'
<1>. USE DEF IInv
<1>1. /\ mem'[c] = s /\ \A d \in Conns \ {c} : mem'[d] = mem[d]
      /\ \A d \in Conns : Good(mem[d])
  BY MemSet DEF Stored
<1>2. \A d \in Conns \ {c} : pc'[d] = pc[d]
  BY DEF Sessions, Goto
<1>3. pc'[c] \in {"open", "answer"} /\ (pc'[c] = "answer" => Save(c, s))
  BY DEF Sessions, Goto
<1>. SUFFICES ASSUME NEW d \in Conns, sid[d] = active PROVE Knows(d)'
  BY DEF Fresh, Knows
<1>4. CASE d # c
  <2>1. UNCHANGED disk
    <3>1. ~MaySave(c)
      BY <1>4, OneWriter
    <3>. QED
      BY <3>1 DEF Save, SaveRaises
  <2>. QED
    BY <1>1, <1>2, <1>4, <2>1, Undisturbed
<1>5. CASE d = c /\ Save(c, s)
  <2>1. disk' # None /\ disk'.wallet = s.wallet /\ disk'.inv = s.inv /\ disk'.role = s.role
    BY <1>5, Saved DEF MaySave
  <2>2. \A cur \in Currencies : s.wallet[cur] <= Clamp(s.wallet[cur])
    BY GoodFields, Bound
  <2>. QED
    BY <1>1, <1>3, <1>5, <2>1, <2>2 DEF Knows, Unspent, Shown
<1>6. CASE d = c /\ ~Save(c, s)
  <2>1. UNCHANGED <<disk, pc>>
    BY <1>6 DEF SaveRaises
  <2>2. disk # None => Unspent(c)'
    <3>. SUFFICES ASSUME disk # None, NEW cur \in Currencies
         PROVE s.wallet[cur] <= Clamp(disk.wallet[cur])
      BY <1>1, <2>1 DEF Unspent
    <3>1. mem[c].wallet[cur] <= Clamp(disk.wallet[cur])
      BY <1>6 DEF Fresh, Unspent
    <3>2. s.wallet[cur] \in Int /\ mem[c].wallet[cur] \in Int
      BY <1>1, GoodFields, Bound
    <3>3. Clamp(disk.wallet[cur]) \in Int
      BY WalletKnown
    <3>. QED
      BY <3>1, <3>2, <3>3
  <2>. QED
    BY <1>3, <1>6, <2>1, <2>2 DEF Knows
<1>. QED
  BY <1>4, <1>5, <1>6

LEMMA FreshStep ==
  ASSUME "read" \notin Faults
  PROVE  IInv /\ Fresh /\ [Next]_vars => Fresh'
<1>. SUFFICES ASSUME IInv, Fresh, [Next]_vars PROVE Fresh'
  OBVIOUS
<1>. USE DEF IInv
<1>0. ASSUME UNCHANGED <<disk, active, pc, sid, mem>> PROVE Fresh'
  BY <1>0 DEF Fresh, Unspent, Shown
<1>g. \A c \in Conns : Good(mem[c])
  BY DEF Stored
<1>1. ASSUME NEW c \in Conns, BeginSession(c) PROVE Fresh'
  <2>1. \A d \in Conns : sid'[d] = active' => d = c
    BY <1>1, PlayerStateAssumption DEF BeginSession, Sessions
  <2>2. pc'[c] = "begun"
    BY <1>1 DEF BeginSession, Goto, Sessions
  <2>. QED
    BY <2>1, <2>2 DEF Fresh
<1>2. ASSUME NEW c \in Conns, Load(c) PROVE Fresh'
  <2>0. UNCHANGED <<disk, active, sid>> /\ pc[c] = "begun"
    BY <1>2 DEF Load
  <2>. SUFFICES ASSUME NEW d \in Conns, sid[d] = active PROVE Knows(d)'
    BY <2>0 DEF Fresh, Knows
  <2>1. CASE d # c
    BY <1>2, <2>0, <2>1, Undisturbed DEF Load, Goto, SetMem, Sessions, Stored
  <2>2. CASE d = c /\ disk # None
    <3>. DEFINE s == IF disk.books = None THEN Opened(disk) ELSE Normalize(disk)
    <3>1. Good(s) /\ \A cur \in Currencies : s.wallet[cur] = Clamp(disk.wallet[cur])
      BY <2>2, Reading
    <3>2. SetMem(c, s) /\ Goto(c, "open")
      BY <1>2, <2>2 DEF Load
    <3>. HIDE DEF s
    <3>3. mem'[c] = s /\ pc'[c] = "open"
      BY <3>1, <3>2, MemSet DEF Goto, Sessions
    <3>4. \A cur \in Currencies : s.wallet[cur] <= Clamp(disk.wallet[cur])
      BY <3>1, GoodFields, Bound
    <3>. QED
      BY <2>0, <2>2, <3>3, <3>4 DEF Knows, Unspent
  <2>3. CASE d = c /\ disk = None
    <3>1. pc'[c] = "init"
      BY <1>2, <2>3 DEF Load, Goto, Sessions
    <3>. QED
      BY <2>0, <2>3, <3>1 DEF Knows
  <2>. QED
    BY <2>1, <2>2, <2>3
<1>3. ASSUME NEW c \in Conns, InitialSave(c) PROVE Fresh'
  <2>0. UNCHANGED <<active, sid, mem>> /\ pc[c] = "init"
    BY <1>3 DEF InitialSave
  <2>. SUFFICES ASSUME NEW d \in Conns, sid[d] = active PROVE Knows(d)'
    BY <2>0 DEF Fresh, Knows
  <2>1. CASE d # c
    <3>1. UNCHANGED disk
      <4>1. ~MaySave(c)
        BY <2>0, <2>1, OneWriter
      <4>. QED
        BY <1>3, <4>1 DEF InitialSave, Save, SaveRaises
    <3>2. pc'[d] = pc[d]
      BY <1>3, <2>1 DEF InitialSave, Goto, Sessions
    <3>. QED
      BY <2>0, <3>1, <3>2, Undisturbed
  <2>2. CASE d = c /\ Save(c, mem[c]) /\ Goto(c, "open")
    <3>1. disk' # None /\ disk'.wallet = mem[c].wallet
      BY <1>g, <2>2, Saved DEF MaySave
    <3>2. \A cur \in Currencies : mem[c].wallet[cur] <= Clamp(mem[c].wallet[cur])
      BY <1>g, GoodFields, Bound
    <3>3. pc'[c] = "open"
      BY <2>2 DEF Goto, Sessions
    <3>. QED
      BY <2>0, <2>2, <3>1, <3>2, <3>3 DEF Knows, Unspent
  <2>3. CASE d = c /\ SaveRaises(c) /\ Goto(c, "ending")
    <3>1. disk = None /\ UNCHANGED disk
      BY <2>0, <2>3 DEF Fresh, SaveRaises
    <3>2. pc'[c] = "ending"
      BY <2>3 DEF Goto, Sessions
    <3>. QED
      BY <2>3, <3>1, <3>2 DEF Knows
  <2>. QED
    BY <1>3, <2>1, <2>2, <2>3 DEF InitialSave
<1>4. ASSUME NEW c \in Conns, NEW q \in Seqs, NEW req \in Requests, Buy(c, q, req) PROVE Fresh'
  <2>. DEFINE s == Bought(mem[c], req)
  <2>1. Good(s) /\ \A cur \in Currencies : s.wallet[cur] <= mem[c].wallet[cur]
    BY <1>4, <1>g, Purchase DEF Buy
  <2>2. /\ SetMem(c, s) /\ pc[c] = "open" /\ UNCHANGED <<active, sid>>
        /\ \/ Save(c, s) /\ Goto(c, "answer")
           \/ SaveRaises(c) /\ UNCHANGED pc
    BY <1>4 DEF Buy
  <2>. HIDE DEF s
  <2>. QED
    BY <2>1, <2>2, Request
<1>5. ASSUME NEW c \in Conns, NEW q \in Seqs, NEW req \in Requests, RejectBuy(c, q, req) PROVE Fresh'
  BY <1>0, <1>5 DEF RejectBuy, file
<1>6. ASSUME NEW c \in Conns, NEW op \in Operations, Operate(c, op) PROVE Fresh'
  <2>. DEFINE s == Operated(mem[c], op)
  <2>1. Good(s) /\ s.wallet = mem[c].wallet
    BY <1>g, Operation
  <2>2. /\ SetMem(c, s) /\ pc[c] = "open" /\ UNCHANGED <<active, sid>>
        /\ \/ Save(c, s) /\ Goto(c, "answer")
           \/ SaveRaises(c) /\ UNCHANGED pc
    BY <1>6 DEF Operate
  <2>. HIDE DEF s
  <2>3. \A cur \in Currencies : s.wallet[cur] <= mem[c].wallet[cur]
    BY <1>g, <2>1, GoodFields, Bound
  <2>. QED
    BY <2>1, <2>2, <2>3, Request
<1>7. ASSUME NEW c \in Conns, Answer(c) PROVE Fresh'
  <2>0. UNCHANGED <<disk, active, sid, mem>> /\ pc[c] = "answer" /\ pc' = [pc EXCEPT ![c] = "open"]
    BY <1>7 DEF Answer, file, Goto
  <2>1. pc'[c] = "open" /\ \A d \in Conns \ {c} : pc'[d] = pc[d]
    BY <2>0 DEF Sessions
  <2>. QED
    BY <2>0, <2>1 DEF Fresh, Unspent, Shown
<1>8. ASSUME NEW c \in Conns, SaveAgain(c) PROVE Fresh'
  <2>1. pc[c] = "open" /\ Save(c, mem[c]) /\ UNCHANGED <<active, pc, sid, mem>>
    BY <1>8 DEF SaveAgain
  <2>2. SetMem(c, mem[c])
    BY <2>1 DEF SetMem, Stored
  <2>3. \A cur \in Currencies : mem[c].wallet[cur] <= mem[c].wallet[cur]
    BY <1>g, GoodFields, Bound
  <2>. DEFINE s == mem[c]
  <2>4. Good(s) /\ s = mem[c] /\ Save(c, s) /\ SetMem(c, s)
    BY <1>g, <2>1, <2>2
  <2>. QED
    BY <2>1, <2>3, <2>4, Request
<1>9. ASSUME NEW c \in Conns, Leave(c) PROVE Fresh'
  <2>0. UNCHANGED <<disk, active, sid, mem>> /\ pc[c] = "open" /\ pc' = [pc EXCEPT ![c] = "ending"]
    BY <1>9 DEF Leave, file, Goto
  <2>1. pc'[c] = "ending" /\ \A d \in Conns \ {c} : pc'[d] = pc[d]
    BY <2>0 DEF Sessions
  <2>. QED
    BY <2>0, <2>1 DEF Fresh, Unspent, Shown
<1>10. ASSUME NEW c \in Conns, Close(c) PROVE Fresh'
  <2>0. /\ UNCHANGED active /\ pc[c] = "ending" /\ pc' = [pc EXCEPT ![c] = "closed"]
        /\ sid' = [sid EXCEPT ![c] = 0] /\ mem' = [mem EXCEPT ![c] = Default]
    BY <1>10 DEF Close, Goto, SetMem
  <2>. SUFFICES ASSUME NEW d \in Conns, sid'[d] = active' PROVE Knows(d)'
    BY DEF Fresh, Knows
  <2>1. CASE d = c
    BY <2>0, <2>1 DEF Sessions, Knows
  <2>2. CASE d # c
    <3>1. sid[d] = active /\ sid'[d] = sid[d] /\ pc'[d] = pc[d] /\ mem'[d] = mem[d]
      BY <2>0, <2>2 DEF Sessions, Stored
    <3>2. ~MaySave(c)
      BY <2>0, <2>2, <3>1, OneWriter
    <3>3. UNCHANGED disk
      BY <1>10, <3>2 DEF Close, Save, SaveRaises
    <3>. QED
      BY <2>0, <3>1, <3>3, Undisturbed
  <2>. QED
    BY <2>1, <2>2
<1>11. ASSUME Restart PROVE Fresh'
  BY <1>11 DEF Restart, Fresh
<1>12. ASSUME UNCHANGED vars PROVE Fresh'
  BY <1>0, <1>12 DEF vars, file
<1>. QED
  BY <1>1, <1>2, <1>3, <1>4, <1>5, <1>6, <1>7, <1>8, <1>9, <1>10, <1>11, <1>12 DEF Next

LEMMA FreshAlways == ASSUME "read" \notin Faults PROVE Spec => []Fresh
<1>1. Init => Fresh
  BY DEF Init, Fresh
<1>2. IInv /\ Fresh /\ [Next]_vars => Fresh'
  BY FreshStep
<1>. QED
  BY <1>1, <1>2, IInvAlways, PTL DEF Spec

\* What the last session is about to tell the client is what a restart would
\* load, whatever saves fail and however many connections overlap.
THEOREM ShownSaved == ASSUME "read" \notin Faults PROVE Spec => []ShownIsSaved
<1>1. IInv /\ Fresh => ShownIsSaved
  BY DEF IInv, Sessions, Fresh, Shown, ShownIsSaved
<1>. QED
  BY <1>1, IInvAlways, FreshAlways, PTL

\* No save takes a purchase back: an older connection's copy of the wallet never
\* replaces a newer one, and the last one's is never above the file's.
THEOREM NeverUnspent == ASSUME "read" \notin Faults PROVE Spec => NothingUnspent
<1>. DEFINE Kept == \A cur \in Currencies : disk'.wallet[cur] <= Clamp(disk.wallet[cur])
<1>1. IInv /\ Fresh /\ [Next]_vars => [disk # None /\ disk' \notin {None, disk} => Kept]_vars
  <2>. SUFFICES ASSUME IInv, Fresh, Next, disk # None, disk' \notin {None, disk} PROVE Kept
    BY DEF vars, file
  <2>. USE DEF IInv
  <2>g. \A c \in Conns : Good(mem[c])
    BY DEF Stored
  <2>1. ASSUME NEW c \in Conns, pc[c] \in {"open", "ending"}, NEW s, Good(s), Save(c, s),
               \A cur \in Currencies : s.wallet[cur] <= mem[c].wallet[cur]
        PROVE  Kept
    <3>1. MaySave(c) /\ disk'.wallet = s.wallet
      BY <2>1, Saved
    <3>2. Unspent(c)
      BY <2>1, <3>1 DEF Fresh, MaySave
    <3>3. \A cur \in Currencies : s.wallet[cur] \in Int /\ mem[c].wallet[cur] \in Int
      BY <2>g, <2>1, GoodFields, Bound
    <3>4. \A cur \in Currencies : Clamp(disk.wallet[cur]) \in Int
      BY WalletKnown
    <3>. QED
      BY <2>1, <3>1, <3>2, <3>3, <3>4 DEF Unspent
  <2>2. \A c \in Conns, cur \in Currencies : mem[c].wallet[cur] <= mem[c].wallet[cur]
    BY <2>g, GoodFields, Bound
  <2>3. ASSUME NEW c \in Conns, InitialSave(c) PROVE Kept
    <3>1. MaySave(c) /\ pc[c] = "init"
      BY <2>3 DEF InitialSave, Save, SaveRaises
    <3>. QED
      BY <3>1 DEF Fresh, MaySave
  <2>4. ASSUME NEW c \in Conns, NEW q \in Seqs, NEW req \in Requests, Buy(c, q, req) PROVE Kept
    <3>. DEFINE s == Bought(mem[c], req)
    <3>1. Good(s) /\ \A cur \in Currencies : s.wallet[cur] <= mem[c].wallet[cur]
      BY <2>4, <2>g, Purchase DEF Buy
    <3>2. pc[c] = "open" /\ Save(c, s)
      BY <2>4 DEF Buy, SaveRaises
    <3>. HIDE DEF s
    <3>. QED
      BY <2>1, <3>1, <3>2
  <2>5. ASSUME NEW c \in Conns, NEW op \in Operations, Operate(c, op) PROVE Kept
    <3>. DEFINE s == Operated(mem[c], op)
    <3>1. Good(s) /\ s.wallet = mem[c].wallet
      BY <2>g, Operation
    <3>2. pc[c] = "open" /\ Save(c, s)
      BY <2>5 DEF Operate, SaveRaises
    <3>. HIDE DEF s
    <3>. QED
      BY <2>1, <2>2, <3>1, <3>2
  <2>6. ASSUME NEW c \in Conns, SaveAgain(c) PROVE Kept
    <3>1. pc[c] = "open" /\ Save(c, mem[c])
      BY <2>6 DEF SaveAgain
    <3>. QED
      BY <2>1, <2>2, <2>g, <3>1
  <2>7. ASSUME NEW c \in Conns, Close(c) PROVE Kept
    <3>. DEFINE s == [mem[c] EXCEPT !.role = PickRole(mem[c].inv, @)]
    <3>1. Good(s) /\ s.wallet = mem[c].wallet
      BY LastState
    <3>2. pc[c] = "ending" /\ Save(c, s)
      BY <2>7 DEF Close, SaveRaises
    <3>. HIDE DEF s
    <3>. QED
      BY <2>1, <2>2, <3>1, <3>2
  <2>8. ASSUME NEW c \in Conns, BeginSession(c) \/ Load(c) \/ Answer(c) \/ Leave(c) PROVE FALSE
    BY <2>8 DEF BeginSession, Load, Answer, Leave, file
  <2>9. ASSUME NEW c \in Conns, NEW q \in Seqs, NEW req \in Requests, RejectBuy(c, q, req) PROVE FALSE
    BY <2>9 DEF RejectBuy, file
  <2>10. ASSUME Restart PROVE FALSE
    BY <2>10 DEF Restart
  <2>. HIDE DEF Kept
  <2>. QED
    BY <2>3, <2>4, <2>5, <2>6, <2>7, <2>8, <2>9, <2>10 DEF Next
<1>. QED
  BY <1>1, IInvAlways, FreshAlways, PTL DEF Spec, NothingUnspent
=============================================================================
