---------------------------- MODULE FeastProofs ----------------------------
(***************************************************************************)
(* feast.c implements the least-frequently-used table of module Lfu, for any   *)
(* table space and any dishes.  The code scans an array of platters, some of   *)
(* them empty; the table has neither positions nor empty places.  What makes   *)
(* the two agree is that no dish is ever on two platters and that an empty     *)
(* platter, with -1 uses, is taken before any other.                           *)
(***************************************************************************)
EXTENDS Feast, Induction, FiniteSetTheorems, FunctionTheorems, TLAPS

\* Arrays of platters the program can have: a platter is empty in both fields
\* or in neither, and no dish is on two of them.
Platter(p, i) ==
  \/ p[i].dish = None /\ p[i].uses = -1
  \/ p[i].dish \in Dishes /\ p[i].uses \in Nat

Sound(p) ==
  /\ p \in [Platters -> [dish : Dishes \union {None}, uses : Int]]
  /\ \A i \in Platters : Platter(p, i)
  /\ \A i, k \in Platters : p[i].dish = p[k].dish /\ p[i].dish # None => i = k

\* The table that an array of platters stands for, as Table for platters.
Served(p) == {p[i].dish : i \in Platters} \ {None}
TableOf(p) == [d \in Served(p) |-> p[CHOOSE i \in {k \in Platters : p[k].dish = d} : TRUE].uses]

IInv == Sound(platters) /\ fetches \in Nat

-----------------------------------------------------------------------------

\* The scan finds a platter that is used least.
LEMMA LeastIsLeast ==
  ASSUME FeastAssumption, Sound(platters)
  PROVE  Least \in Platters /\ \A k \in Platters : platters[Least].uses <= platters[k].uses
<1> DEFINE counts == {platters[i].uses + 1 : i \in Platters}
<1>1. \A i \in Platters : platters[i].uses \in Int /\ platters[i].uses + 1 \in Nat
  BY DEF Sound, Platter
<1>2. 1 \in Platters /\ Platters \subseteq Nat
  BY DEF FeastAssumption, Platters
<1>3. PICK u \in counts : \A v \in counts : u <= v
  <2>1. counts \subseteq Nat /\ counts # {}
    BY <1>1, <1>2
  <2> QED
    BY <2>1, LeastNatural
<1> DEFINE firsts == {i \in Platters : platters[i].uses + 1 = u}
<1>4. PICK f \in firsts : \A i \in firsts : f <= i
  <2>1. firsts \subseteq Nat /\ firsts # {}
    BY <1>2
  <2> QED
    BY <2>1, LeastNatural
<1>5. \A k \in Platters : platters[f].uses <= platters[k].uses
  <2>1. f \in Platters /\ platters[f].uses + 1 = u
    OBVIOUS
  <2>2. \A k \in Platters : u <= platters[k].uses + 1
    BY <1>3
  <2> QED
    BY <1>1, <2>1, <2>2
<1>6. \A k \in 1..f - 1 : platters[f].uses < platters[k].uses
  <2> SUFFICES ASSUME NEW k \in 1..f - 1, ~ (platters[f].uses < platters[k].uses)
               PROVE  FALSE
    OBVIOUS
  <2>1. k \in Platters /\ k < f
    BY <1>2 DEF FeastAssumption, Platters
  <2>2. platters[k].uses = platters[f].uses
    BY <2>1, <1>1, <1>5
  <2>3. k \in firsts
    BY <2>1, <2>2
  <2> QED
    BY <2>1, <2>3, <1>2, <1>4
<1> QED
  BY <1>5, <1>6 DEF Least

\* A dish on a platter is on the table, with the uses of that platter.
LEMMA TableShows ==
  ASSUME NEW p, Sound(p), NEW i \in Platters, p[i].dish # None
  PROVE  p[i].dish \in DOMAIN TableOf(p) /\ TableOf(p)[p[i].dish] = p[i].uses
<1>1. {k \in Platters : p[k].dish = p[i].dish} = {i}
  BY DEF Sound
<1>2. p[i].dish \in Served(p)
  BY DEF Served
<1>3. (CHOOSE k \in {i} : TRUE) = i
  OBVIOUS
<1> QED
  BY <1>1, <1>2, <1>3 DEF TableOf

\* A dish that is on the table is on a platter.
LEMMA TableHolds ==
  ASSUME NEW p, NEW d \in DOMAIN TableOf(p)
  PROVE  d # None /\ \E i \in Platters : p[i].dish = d
BY DEF TableOf, Served

\* The instance of Lfu counts as this module does.
LEMMA SameCardinality == ASSUME NEW S PROVE LFU!Cardinality(S) = Cardinality(S)
BY DEF LFU!Cardinality, Cardinality

\* A table without an empty platter is full.
LEMMA FullTable ==
  ASSUME FeastAssumption, NEW p, Sound(p), \A i \in Platters : p[i].dish # None
  PROVE  Cardinality(Served(p)) = TABLE_SPACE
<1> DEFINE dishes == [i \in Platters |-> p[i].dish]
<1>1. dishes \in Bijection(Platters, Served(p))
  <2>1. dishes \in [Platters -> Served(p)]
    BY DEF Served
  <2>2. \A i, k \in Platters : dishes[i] = dishes[k] => i = k
    BY DEF Sound
  <2>3. \A x \in Served(p) : \E i \in Platters : dishes[i] = x
    BY DEF Served
  <2> QED
    BY <2>1, <2>2, <2>3, Fun_IsBij
<1>2. IsFiniteSet(Platters) /\ Cardinality(Platters) = TABLE_SPACE
  BY FS_Interval DEF Platters, FeastAssumption
<1> QED
  BY <1>1, <1>2, FS_Bijection DEF ExistsBijection

\* A table with an empty platter is not.
LEMMA RoomOnTable ==
  ASSUME FeastAssumption, NEW p, Sound(p), NEW l \in Platters, p[l].dish = None
  PROVE  Cardinality(Served(p)) < TABLE_SPACE
<1> DEFINE where == [x \in Served(p) |-> CHOOSE i \in Platters : p[i].dish = x]
<1>1. \A x \in Served(p) : where[x] \in Platters \ {l} /\ p[where[x]].dish = x
  BY DEF Served
<1>2. where \in Injection(Served(p), Platters \ {l})
  <2>1. where \in [Served(p) -> Platters \ {l}]
    BY <1>1
  <2>2. \A x, y \in Served(p) : where[x] = where[y] => x = y
    BY <1>1
  <2> QED
    BY <2>1, <2>2, Fun_IsInj
<1>3. IsFiniteSet(Platters) /\ Cardinality(Platters) = TABLE_SPACE
  BY FS_Interval DEF Platters, FeastAssumption
<1>4. IsFiniteSet(Platters \ {l}) /\ Cardinality(Platters \ {l}) = TABLE_SPACE - 1
  BY <1>3, FS_RemoveElement
<1>5. IsFiniteSet(Served(p)) /\ Cardinality(Served(p)) <= TABLE_SPACE - 1
  BY <1>2, <1>4, FS_Injection
<1> QED
  BY <1>5, FS_CardinalityType DEF FeastAssumption

-----------------------------------------------------------------------------
(* The three kinds of steps *)

\* An order for dish d that is on platter i: ++exists->uses.
LEMMA UsePreserves ==
  ASSUME IInv, NEW d \in Dishes, NEW i \in Holding(d), FeastAssumption,
         platters' = [platters EXCEPT ![i].uses = @ + 1], fetches' = fetches
  PROVE  IInv' /\ LFU!Use(d)
<1>1. i \in Platters /\ platters[i].dish = d /\ d # None /\ platters[i].uses \in Nat
  BY DEF Holding, IInv, Sound, Platter, FeastAssumption
<1>2. platters' \in [Platters -> [dish : Dishes \union {None}, uses : Int]]
  BY <1>1 DEF IInv, Sound
<1>3. \A k \in Platters : /\ platters'[k].dish = platters[k].dish
                          /\ platters'[k].uses = IF k = i THEN platters[k].uses + 1
                                                         ELSE platters[k].uses
  BY <1>1 DEF IInv, Sound
<1>4. Sound(platters')
  BY <1>1, <1>2, <1>3 DEF IInv, Sound, Platter
<1>5. IInv'
  BY <1>4 DEF IInv
<1>6. Served(platters') = Served(platters)
  BY <1>3 DEF Served
<1>7. Table = TableOf(platters) /\ Table' = TableOf(platters')
  BY DEF Table, TableOf, Served, Holding
<1>8. d \in DOMAIN Table
  BY <1>1, <1>7, TableShows DEF IInv
<1>9. Table' = [Table EXCEPT ![d] = @ + 1]
  <2>1. /\ DOMAIN TableOf(platters') = Served(platters)
        /\ DOMAIN TableOf(platters) = Served(platters)
    BY <1>6 DEF TableOf
  <2>2. ASSUME NEW x \in Served(platters)
        PROVE  TableOf(platters')[x] = IF x = d THEN TableOf(platters)[x] + 1
                                                ELSE TableOf(platters)[x]
    <3>1. PICK k \in Platters : platters[k].dish = x /\ x # None
      BY <2>1, TableHolds
    <3>2. TableOf(platters)[x] = platters[k].uses
      BY <3>1, TableShows DEF IInv
    <3>3. TableOf(platters')[x] = platters'[k].uses
      BY <3>1, <1>3, <1>4, TableShows
    <3>4. k = i <=> x = d
      BY <3>1, <1>1 DEF IInv, Sound
    <3> QED
      BY <3>2, <3>3, <3>4, <1>3
  <2>3. TableOf(platters') = [x \in Served(platters) |-> TableOf(platters')[x]]
    BY <1>6 DEF TableOf
  <2> QED
    BY <2>1, <2>2, <2>3, <1>7
<1> QED
  BY <1>5, <1>8, <1>9 DEF LFU!Use, LFU!OnTable

\* An order for a dish that is not on the table: it is fetched onto the least
\* used platter, an empty one if there is one.
LEMMA FetchPreserves ==
  ASSUME IInv, NEW d \in Dishes, Holding(d) = {}, FeastAssumption, Fetch(d)
  PROVE  IInv' /\ (LFU!Add(d) \/ LFU!Replace(d))
<1> DEFINE l == Least
           old == platters[l].dish
           gone == {old} \ {None}
<1>1. l \in Platters /\ \A k \in Platters : platters[l].uses <= platters[k].uses
  BY LeastIsLeast DEF IInv
<1> HIDE DEF l
<1>2. d # None /\ \A k \in Platters : platters[k].dish # d
  BY DEF Holding, FeastAssumption
<1>3. /\ platters' \in [Platters -> [dish : Dishes \union {None}, uses : Int]]
      /\ platters'[l].dish = d /\ platters'[l].uses = 0
      /\ \A k \in Platters \ {l} : platters'[k] = platters[k]
  <2>1. platters' = [platters EXCEPT ![l] = [dish |-> d, uses |-> 0]]
    BY DEF Fetch, l
  <2>2. [dish |-> d, uses |-> 0] \in [dish : Dishes \union {None}, uses : Int]
    OBVIOUS
  <2> QED
    BY <2>1, <2>2, <1>1 DEF IInv, Sound
<1>4. Sound(platters')
  <2>1. \A k \in Platters : Platter(platters', k)
    BY <1>1, <1>3 DEF IInv, Sound, Platter
  <2>2. ASSUME NEW i \in Platters, NEW k \in Platters,
               platters'[i].dish = platters'[k].dish, platters'[i].dish # None
        PROVE  i = k
    BY <2>2, <1>1, <1>2, <1>3 DEF IInv, Sound
  <2> QED
    BY <1>3, <2>1, <2>2 DEF Sound
<1>5. fetches' = fetches + 1 /\ IInv'
  BY <1>4 DEF Fetch, IInv
<1>6. Table = TableOf(platters) /\ Table' = TableOf(platters')
  BY DEF Table, TableOf, Served, Holding
<1>7. d \notin Served(platters)
  BY <1>2 DEF Served
<1>8. Served(platters') = (Served(platters) \ gone) \union {d}
  <2>1. ASSUME NEW x \in Served(platters')
        PROVE  x \in (Served(platters) \ gone) \union {d}
    <3>1. PICK k \in Platters : platters'[k].dish = x /\ x # None
      BY DEF Served
    <3>2. CASE k = l
      BY <3>1, <3>2, <1>3
    <3>3. CASE k # l
      <4>1. platters[k].dish = x
        BY <3>1, <3>3, <1>3
      <4>2. x # old
        BY <3>1, <3>3, <4>1, <1>1 DEF IInv, Sound
      <4> QED
        BY <3>1, <4>1, <4>2 DEF Served
    <3> QED
      BY <3>2, <3>3
  <2>2. ASSUME NEW x \in Served(platters) \ gone
        PROVE  x \in Served(platters')
    <3>1. PICK k \in Platters : platters[k].dish = x /\ x # None
      BY DEF Served
    <3>2. k # l
      BY <3>1
    <3>3. platters'[k].dish = x
      BY <3>1, <3>2, <1>3
    <3> QED
      BY <3>1, <3>3 DEF Served
  <2>3. d \in Served(platters')
    BY <1>1, <1>2, <1>3 DEF Served
  <2> QED
    BY <2>1, <2>2, <2>3
<1>9. Table' = LFU!Fetched(d, gone)
  <2>1. DOMAIN Table = Served(platters)
    BY <1>6 DEF TableOf
  <2>2. ASSUME NEW x \in Served(platters')
        PROVE  TableOf(platters')[x] = IF x = d THEN 0 ELSE TableOf(platters)[x]
    <3>1. PICK k \in Platters : platters'[k].dish = x /\ x # None
      BY DEF Served
    <3>2. TableOf(platters')[x] = platters'[k].uses
      BY <3>1, <1>4, TableShows
    <3>3. CASE k = l
      BY <3>1, <3>2, <3>3, <1>3
    <3>4. CASE k # l
      <4>1. platters'[k] = platters[k] /\ x # d
        BY <3>1, <3>4, <1>2, <1>3
      <4>2. TableOf(platters)[x] = platters[k].uses
        BY <3>1, <4>1, TableShows DEF IInv
      <4> QED
        BY <3>2, <4>1, <4>2
    <3> QED
      BY <3>3, <3>4
  <2>3. TableOf(platters') = [x \in Served(platters') |-> TableOf(platters')[x]]
    BY DEF TableOf
  <2>4. TableOf(platters') =
          [x \in Served(platters') |-> IF x = d THEN 0 ELSE TableOf(platters)[x]]
    BY <2>2, <2>3
  <2> QED
    BY <1>6, <1>8, <2>1, <2>4 DEF LFU!Fetched, LFU!OnTable
<1>10. DOMAIN Table = Served(platters) /\ d \notin DOMAIN Table
  BY <1>6, <1>7 DEF TableOf
<1>11. CASE old = None
  <2>1. Cardinality(Served(platters)) < TABLE_SPACE
    BY <1>1, <1>11, RoomOnTable DEF IInv
  <2>2. gone = {}
    BY <1>11
  <2>3. LFU!Add(d)
    BY <1>5, <1>9, <1>10, <2>1, <2>2, SameCardinality DEF LFU!Add, LFU!OnTable
  <2> QED
    BY <1>5, <2>3
<1>12. CASE old # None
  <2>1. \A k \in Platters : platters[k].dish # None
    <3>1. platters[l].uses >= 0
      BY <1>1, <1>12 DEF IInv, Sound, Platter
    <3>2. ASSUME NEW k \in Platters, platters[k].dish = None
          PROVE  platters[k].uses = -1
      BY <3>2 DEF IInv, Sound, Platter, FeastAssumption
    <3>3. \A k \in Platters : platters[k].uses \in Int
      BY DEF IInv, Sound
    <3> QED
      BY <3>1, <3>2, <3>3, <1>1
  <2>2. Cardinality(Served(platters)) = TABLE_SPACE
    BY <2>1, FullTable DEF IInv
  <2>3. gone = {old} /\ old \in Served(platters)
    BY <1>1, <1>12 DEF Served
  <2>4. ASSUME NEW u \in Served(platters)
        PROVE  Table[old] <= Table[u]
    <3>1. PICK k \in Platters : platters[k].dish = u /\ u # None
      BY DEF Served
    <3>2. Table[u] = platters[k].uses /\ Table[old] = platters[l].uses
      BY <3>1, <1>1, <1>6, <1>12, TableShows DEF IInv
    <3> QED
      BY <3>1, <3>2, <1>1
  <2>5. LFU!Replace(d)
    BY <1>5, <1>9, <1>10, <2>2, <2>3, <2>4, SameCardinality DEF LFU!Replace, LFU!OnTable
  <2> QED
    BY <1>5, <2>5
<1> QED
  BY <1>11, <1>12

-----------------------------------------------------------------------------
(* The theorems *)

\* Every step keeps the platters sound and is a step of the table or none.
LEMMA EveryStep ==
  ASSUME IInv, FeastAssumption, [Next]_vars
  PROVE  IInv' /\ [LFU!Next]_LFU!vars
<1>1. ASSUME NEW d \in Dishes, Serve(d)
      PROVE  IInv' /\ LFU!Next
  <2>1. ASSUME NEW i \in Holding(d),
               platters' = [platters EXCEPT ![i].uses = @ + 1] /\ UNCHANGED fetches
        PROVE  IInv' /\ LFU!Next
    BY <2>1, UsePreserves DEF LFU!Next
  <2>2. ASSUME Holding(d) = {}, Fetch(d)
        PROVE  IInv' /\ LFU!Next
    BY <2>2, FetchPreserves DEF LFU!Next
  <2> QED
    BY <1>1, <2>1, <2>2 DEF Serve
<1>2. ASSUME UNCHANGED <<platters, fetches>>
      PROVE  IInv' /\ UNCHANGED LFU!vars
  <2>1. Table' = Table
    BY <1>2 DEF Table, Holding
  <2> QED
    BY <1>2, <2>1 DEF IInv, LFU!vars
<1>3. CASE \E d \in Dishes : Order(d)
  BY <1>1, <1>3 DEF Order
<1>4. CASE Stop \/ Done \/ UNCHANGED vars
  BY <1>2, <1>4 DEF Stop, Done, vars
<1> QED
  BY <1>3, <1>4 DEF Next

\* Empty platters are an empty table.
LEMMA Initially == ASSUME FeastAssumption, Init PROVE IInv /\ LFU!Init
<1>1. IInv
  BY DEF Init, IInv, Sound, Platter, FeastAssumption
<1>2. {platters[i].dish : i \in Platters} \ {None} = {}
  BY DEF Init
<1>3. Table = [d \in {} |-> 0]
  BY <1>2 DEF Table
<1> QED
  BY <1>1, <1>3 DEF Init, LFU!Init

\* No dish is ever on two platters, and a platter is empty in both fields or in
\* neither, so the scan of serve_dishes finds the one platter there is.
THEOREM PlattersSound == ASSUME FeastAssumption PROVE Spec => []IInv
<1>1. IInv /\ [Next]_vars => IInv'
  BY EveryStep
<1> QED
  BY <1>1, Initially, PTL DEF Spec

\* "The replacement strategy is LEAST FREQUENTLY USED": serve_dishes implements
\* the abstract table, whatever TABLE_SPACE and the orders are.
THEOREM Refinement == ASSUME FeastAssumption PROVE Spec => ImplementsLfu
<1>1. Init => LFU!Init
  BY Initially
<1>2. IInv /\ [Next]_vars => [LFU!Next]_LFU!vars
  BY EveryStep
<1> QED
  BY <1>1, <1>2, PlattersSound, PTL DEF Spec, ImplementsLfu, LFU!Spec

=============================================================================
