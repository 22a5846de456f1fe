------------------------ MODULE InventorySearchProofs ------------------------
(***************************************************************************)
(* Theorems of InventorySearch, for every inventory, every set of filters  *)
(* and page sizes, and however often stones leave the stock and come back  *)
(* during a walk:                                                          *)
(*                                                                         *)
(*   WalkTypes         TypeOK                                              *)
(*   WalksAreExact     UndisturbedWalksAreExact                            *)
(*   FewAreSkipped     SkipsAtMostWhatWasTaken                             *)
(*   FewAreRepeated    RepeatsAtMostWhatReturned                           *)
(*                                                                         *)
(* all from the inductive invariant WalkInv (WalkSafety).  The argument is *)
(* about places in the sorted list: after page p the customer has walked   *)
(* the first p * limit places.  A stone that leaves lets at most one stone *)
(* nobody has seen slip into them, and one that comes back pushes at most  *)
(* one stone that was seen out of them, where a later page shows it again  *)
(* (OneMore); a page adds to what was seen exactly the next limit places   *)
(* (PageOfList).  What is skipped and what is repeated are therefore       *)
(* counted by how often stones have moved, at every step and not only at   *)
(* the end.                                                                *)
(*                                                                         *)
(* That the indexes on the grade scales filter what the filter means is a  *)
(* lemma of its own, PassesWhatMatches.                                    *)
(***************************************************************************)
EXTENDS InventorySearch, FiniteSetTheorems, SequenceTheorems, TLAPS

(* Every diamond has its place in the inventory.                           *)
LEMMA Positions ==
  /\ IsFiniteSet(Diamond) /\ Cardinality(Diamond) <= Len(Inventory)
  /\ \A d \in Diamond : Position(d) \in Nat /\ Inventory[Position(d)] = d
<1>1. Len(Inventory) \in Nat /\ DOMAIN Inventory = 1 .. Len(Inventory)
  BY InventoryAssumption
<1>2. Inventory \in Surjection(1 .. Len(Inventory), Diamond)
  <2>1. Inventory \in [1 .. Len(Inventory) -> Diamond]
    BY InventoryAssumption, <1>1
  <2>2. \A d \in Diamond : \E i \in 1 .. Len(Inventory) : Inventory[i] = d
    BY <1>1 DEF Diamond, ToSet
  <2> QED
    BY <2>1, <2>2 DEF Surjection
<1>3. IsFiniteSet(1 .. Len(Inventory)) /\ Cardinality(1 .. Len(Inventory)) = Len(Inventory)
  <2>1. \A n \in Nat : IsFiniteSet(1 .. n) /\ Cardinality(1 .. n) = n
    BY FS_Interval
  <2> QED
    BY <1>1, <2>1
<1>4. IsFiniteSet(Diamond) /\ Cardinality(Diamond) <= Len(Inventory)
  BY <1>2, <1>3, FS_Surjection
<1>5. ASSUME NEW d \in Diamond
      PROVE  Position(d) \in DOMAIN Inventory /\ Inventory[Position(d)] = d
  <2>1. \E i \in DOMAIN Inventory : Inventory[i] = d
    BY DEF Diamond, ToSet
  <2> QED
    BY <2>1 DEF Position
<1> QED
  BY <1>1, <1>4, <1>5

(* The list is in a strict total order, by price first.                    *)
LEMMA BeforeIsAnOrder ==
  ASSUME NEW d \in Diamond, NEW e \in Diamond
  PROVE  /\ ~(Before(d, e) /\ Before(e, d)) /\ ~Before(d, d)
         /\ d # e => Before(d, e) \/ Before(e, d)
         /\ Before(d, e) => Price[d] <= Price[e]
         /\ \A g \in Diamond : Before(d, e) /\ Before(e, g) => Before(d, g)
<1>1. \A g \in Diamond : Price[g] \in Int /\ Position(g) \in Nat /\ Inventory[Position(g)] = g
  BY Positions, PriceAssumption
<1>2. Position(d) = Position(e) => d = e
  BY <1>1
<1> QED
  BY <1>1, <1>2 DEF Before

-----------------------------------------------------------------------------
(* What of F is before d in the list.                                      *)
Ahead(F, d) == {e \in F : Before(e, d)}

(* The first n of F, in the order of the list.                             *)
FirstOf(F, n) == {d \in F : Cardinality(Ahead(F, d)) < n}

(* What is before a diamond of F is less than all of F.                    *)
LEMMA AheadIsCounted ==
  ASSUME NEW F \in SUBSET Diamond, NEW d \in Diamond
  PROVE  /\ IsFiniteSet(F) /\ Cardinality(F) \in Nat
         /\ IsFiniteSet(Ahead(F, d)) /\ Cardinality(Ahead(F, d)) \in Nat
         /\ d \in F => Cardinality(Ahead(F, d)) < Cardinality(F)
<1>1. IsFiniteSet(F) /\ Cardinality(F) \in Nat
  BY Positions, FS_Subset, FS_CardinalityType
<1>2. Ahead(F, d) \in SUBSET F
  BY DEF Ahead
<1>3. /\ IsFiniteSet(Ahead(F, d))
      /\ Cardinality(Ahead(F, d)) <= Cardinality(F)
      /\ Cardinality(F) = Cardinality(Ahead(F, d)) => F = Ahead(F, d)
  BY <1>1, <1>2, FS_Subset
<1>4. Cardinality(Ahead(F, d)) \in Nat
  BY <1>3, FS_CardinalityType
<1>5. d \notin Ahead(F, d)
  BY BeforeIsAnOrder DEF Ahead
<1> QED
  BY <1>1, <1>3, <1>4, <1>5

(* More is before what comes later.                                        *)
LEMMA AheadGrows ==
  ASSUME NEW F \in SUBSET Diamond, NEW d \in F, NEW e \in F
  PROVE  /\ Before(d, e) <=> Cardinality(Ahead(F, d)) < Cardinality(Ahead(F, e))
         /\ Cardinality(Ahead(F, d)) = Cardinality(Ahead(F, e)) => d = e
<1>1. ASSUME NEW x \in F, NEW y \in F, Before(x, y)
      PROVE  Cardinality(Ahead(F, x)) < Cardinality(Ahead(F, y))
  <2>1. Ahead(F, x) \cup {x} \in SUBSET Ahead(F, y)
    BY <1>1, BeforeIsAnOrder DEF Ahead
  <2>2. x \notin Ahead(F, x)
    BY BeforeIsAnOrder DEF Ahead
  <2>3. IsFiniteSet(Ahead(F, x)) /\ Cardinality(Ahead(F, x)) \in Nat
    BY AheadIsCounted
  <2>4. IsFiniteSet(Ahead(F, y)) /\ Cardinality(Ahead(F, y)) \in Nat
    BY AheadIsCounted
  <2>5. Cardinality(Ahead(F, x) \cup {x}) = Cardinality(Ahead(F, x)) + 1
    BY <2>2, <2>3, FS_AddElement
  <2>6. Cardinality(Ahead(F, x) \cup {x}) <= Cardinality(Ahead(F, y))
    BY <2>1, <2>4, FS_Subset
  <2> QED
    BY <2>3, <2>4, <2>5, <2>6
<1>2. Cardinality(Ahead(F, d)) \in Nat /\ Cardinality(Ahead(F, e)) \in Nat
  BY AheadIsCounted
<1>3. d = e \/ Before(d, e) \/ Before(e, d)
  BY BeforeIsAnOrder
<1>4. ~(Before(d, e) /\ Before(e, d)) /\ ~Before(d, d)
  BY BeforeIsAnOrder
<1>5. Before(d, e) => Cardinality(Ahead(F, d)) < Cardinality(Ahead(F, e))
  BY <1>1
<1>6. Before(e, d) => Cardinality(Ahead(F, e)) < Cardinality(Ahead(F, d))
  BY <1>1
<1> QED
  BY <1>2, <1>3, <1>4, <1>5, <1>6

(* Every place of the list has its diamond.                                *)
LEMMA PlacesAreTaken ==
  ASSUME NEW F \in SUBSET Diamond, NEW n \in Nat, n < Cardinality(F)
  PROVE  \E d \in F : Cardinality(Ahead(F, d)) = n
<1> DEFINE N == Cardinality(F)
           place == [d \in F |-> Cardinality(Ahead(F, d)) + 1]
<1>1. IsFiniteSet(F) /\ N \in Nat
  BY Positions, FS_Subset, FS_CardinalityType
<1>2. place \in Injection(F, 1 .. N)
  <2>1. \A d \in F : Cardinality(Ahead(F, d)) \in Nat /\ Cardinality(Ahead(F, d)) < N
    BY AheadIsCounted
  <2>2. place \in [F -> 1 .. N]
    BY <1>1, <2>1
  <2>3. ASSUME NEW d \in F, NEW e \in F, place[d] = place[e]
        PROVE  d = e
    <3>1. Cardinality(Ahead(F, d)) = Cardinality(Ahead(F, e))
      BY <2>1, <2>3
    <3> QED
      BY <3>1, AheadGrows
  <2> HIDE DEF place
  <2> QED
    BY <2>2, <2>3 DEF Injection, IsInjective
<1>3. IsFiniteSet(1 .. N) /\ Cardinality(1 .. N) = N
  <2>1. \A m \in Nat : IsFiniteSet(1 .. m) /\ Cardinality(1 .. m) = m
    BY FS_Interval
  <2> QED
    BY <1>1, <2>1
<1>4. place \in Surjection(F, 1 .. N)
  <2> HIDE DEF place
  <2> QED
    BY <1>2, <1>3, FS_Injection
<1>5. n + 1 \in 1 .. N
  BY <1>1
<1>6. PICK d \in F : place[d] = n + 1
  <2> HIDE DEF place
  <2> QED
    BY <1>4, <1>5 DEF Surjection
<1>7. Cardinality(Ahead(F, d)) \in Nat
  BY AheadIsCounted
<1> QED
  BY <1>6, <1>7

(* FirstOf with all of F is F, and with none of it is nothing.             *)
LEMMA FirstAndAll ==
  ASSUME NEW F \in SUBSET Diamond
  PROVE  /\ \A n \in Nat : Cardinality(F) <= n => FirstOf(F, n) = F
         /\ FirstOf(F, 0) = {}
<1>1. \A d \in F : Cardinality(Ahead(F, d)) \in Nat /\ Cardinality(Ahead(F, d)) < Cardinality(F)
  BY AheadIsCounted
<1>2. Cardinality(F) \in Nat
  BY Positions, FS_Subset, FS_CardinalityType
<1> QED
  BY <1>1, <1>2 DEF FirstOf

(* One diamond more in the list: at most one of the first n falls out, and *)
(* only if the new one is among them.                                      *)
LEMMA OneMore ==
  ASSUME NEW F \in SUBSET Diamond, NEW d \in Diamond \ F, NEW n \in Nat
  PROVE  /\ FirstOf(F \cup {d}, n) \subseteq FirstOf(F, n) \cup {d}
         /\ d \notin FirstOf(F \cup {d}, n) => FirstOf(F, n) \subseteq FirstOf(F \cup {d}, n)
         /\ \E z : FirstOf(F, n) \subseteq FirstOf(F \cup {d}, n) \cup {z}
<1> DEFINE G == F \cup {d}
<1>1. G \in SUBSET Diamond
  OBVIOUS
<1>2. ASSUME NEW x \in G
      PROVE  /\ Cardinality(Ahead(F, x)) \in Nat
             /\ ~Before(d, x) => Cardinality(Ahead(G, x)) = Cardinality(Ahead(F, x))
             /\ Before(d, x) => Cardinality(Ahead(G, x)) = Cardinality(Ahead(F, x)) + 1
  <2>1. x \in Diamond
    OBVIOUS
  <2>2. IsFiniteSet(Ahead(F, x)) /\ Cardinality(Ahead(F, x)) \in Nat
    BY <2>1, AheadIsCounted
  <2>3. d \notin Ahead(F, x)
    BY DEF Ahead
  <2>4. Cardinality(Ahead(F, x) \cup {d}) = Cardinality(Ahead(F, x)) + 1
    BY <2>2, <2>3, FS_AddElement
  <2>5. Before(d, x) => Ahead(G, x) = Ahead(F, x) \cup {d}
    BY DEF Ahead
  <2>6. ~Before(d, x) => Ahead(G, x) = Ahead(F, x)
    BY DEF Ahead
  <2> QED
    BY <2>2, <2>4, <2>5, <2>6
<1>3. FirstOf(G, n) \subseteq FirstOf(F, n) \cup {d}
  BY <1>2 DEF FirstOf
<1>4. ASSUME NEW x \in FirstOf(F, n), x \notin FirstOf(G, n)
      PROVE  /\ Before(d, x) /\ Cardinality(Ahead(F, x)) = n - 1
             /\ d \in FirstOf(G, n)
  <2>1. x \in F /\ x \in G /\ x \in Diamond /\ d \in G
    BY DEF FirstOf
  <2>2. Cardinality(Ahead(F, x)) < n /\ ~(Cardinality(Ahead(G, x)) < n)
    BY <1>4, <2>1 DEF FirstOf
  <2>3. Before(d, x) /\ Cardinality(Ahead(F, x)) = n - 1
    BY <1>2, <2>1, <2>2
  <2>4. ~Before(d, d)
    BY BeforeIsAnOrder
  <2>5. Ahead(F, d) \in SUBSET Ahead(F, x)
    BY <2>1, <2>3, BeforeIsAnOrder DEF Ahead
  <2>6. IsFiniteSet(Ahead(F, x)) /\ Cardinality(Ahead(F, x)) \in Nat
    BY <2>1, AheadIsCounted
  <2>7. Cardinality(Ahead(F, d)) <= Cardinality(Ahead(F, x))
    BY <2>5, <2>6, FS_Subset
  <2>8. Cardinality(Ahead(G, d)) = Cardinality(Ahead(F, d)) /\ Cardinality(Ahead(F, d)) \in Nat
    BY <1>2, <2>1, <2>4
  <2>9. Cardinality(Ahead(G, d)) < n
    BY <2>2, <2>6, <2>7, <2>8
  <2> QED
    BY <2>1, <2>3, <2>9 DEF FirstOf
<1>5. d \notin FirstOf(G, n) => FirstOf(F, n) \subseteq FirstOf(G, n)
  BY <1>4
<1>6. \E z : FirstOf(F, n) \subseteq FirstOf(G, n) \cup {z}
  <2>1. CASE \E x \in FirstOf(F, n) : x \notin FirstOf(G, n)
    <3>1. PICK z \in FirstOf(F, n) : z \notin FirstOf(G, n)
      BY <2>1
    <3>2. ASSUME NEW x \in FirstOf(F, n), x \notin FirstOf(G, n)
          PROVE  x = z
      <4>1. Cardinality(Ahead(F, x)) = Cardinality(Ahead(F, z))
        BY <1>4, <3>1, <3>2
      <4>2. x \in F /\ z \in F
        BY DEF FirstOf
      <4> QED
        BY <4>1, <4>2, AheadGrows
    <3>3. FirstOf(F, n) \subseteq FirstOf(G, n) \cup {z}
      BY <3>2
    <3> QED
      BY <3>3
  <2>2. CASE FirstOf(F, n) \subseteq FirstOf(G, n)
    <3>1. FirstOf(F, n) \subseteq FirstOf(G, n) \cup {d}
      BY <2>2
    <3> QED
      BY <3>1
  <2> QED
    BY <2>1, <2>2
<1> QED
  BY <1>3, <1>5, <1>6

-----------------------------------------------------------------------------
(***************************************************************************)
(* The list of results, and a page of it.                                  *)
(***************************************************************************)

(* list is F, sorted.                                                      *)
IsListOf(list, F) ==
  /\ list \in Seq(Diamond) /\ Len(list) = Cardinality(F)
  /\ \A i \in 1 .. Cardinality(F) :
       list[i] \in F /\ Cardinality(Ahead(F, list[i])) = i - 1

(* The list of results is what passes the filter, sorted.                  *)
LEMMA ResultsAreSorted ==
  ASSUME NEW f
  PROVE  IsListOf(Results(f), {d \in InStock : Passes(d, f)})
<1> DEFINE F == {d \in InStock : Passes(d, f)}
           list == Results(f)
<1>1. F \in SUBSET Diamond
  BY DEF InStock
<1>2. Cardinality(F) \in Nat /\ \A d \in F : Cardinality(Ahead(F, d)) \in Nat
  <2>1. Cardinality(F) \in Nat
    BY <1>1, Positions, FS_Subset, FS_CardinalityType
  <2>2. \A d \in F : d \in Diamond
    BY <1>1
  <2> HIDE DEF F
  <2> QED
    BY <1>1, <2>1, <2>2, AheadIsCounted
<1>3. list = [i \in 1 .. Cardinality(F) |->
                CHOOSE d \in F : Cardinality({e \in F : Before(e, d)}) + 1 = i]
  BY DEF Results
<1> HIDE DEF list, F
<1>4. ASSUME NEW i \in 1 .. Cardinality(F)
      PROVE  list[i] \in F /\ Cardinality(Ahead(F, list[i])) = i - 1
  <2>1. i - 1 \in Nat /\ i - 1 < Cardinality(F)
    BY <1>2
  <2>2. PICK d \in F : Cardinality(Ahead(F, d)) = i - 1
    <3>1. \A n \in Nat : n < Cardinality(F) => \E d \in F : Cardinality(Ahead(F, d)) = n
      BY <1>1, PlacesAreTaken
    <3> QED
      BY <2>1, <3>1
  <2>3. Cardinality({e \in F : Before(e, d)}) + 1 = i
    BY <2>1, <2>2 DEF Ahead
  <2>4. list[i] \in F /\ Cardinality({e \in F : Before(e, list[i])}) + 1 = i
    <3> DEFINE Q(c) == Cardinality({e \in F : Before(e, c)}) + 1 = i
    <3>1. Q(d)
      BY <2>3
    <3>2. list[i] = CHOOSE c \in F : Q(c)
      BY <1>3
    <3> HIDE DEF Q
    <3>3. list[i] \in F /\ Q(list[i])
      BY <3>1, <3>2
    <3> QED
      BY <3>3 DEF Q
  <2> QED
    BY <1>2, <2>4 DEF Ahead
<1>5. list \in Seq(Diamond) /\ Len(list) = Cardinality(F)
  <2>1. \A i \in 1 .. Cardinality(F) : list[i] \in Diamond
    BY <1>1, <1>4
  <2>2. PICK n \in Nat : n = Cardinality(F)
    BY <1>2
  <2>3. DOMAIN list = 1 .. n /\ \A i \in 1 .. n : list[i] \in Diamond
    BY <1>3, <2>1, <2>2
  <2>4. list = [i \in 1 .. n |-> list[i]]
    <3> DEFINE choice(i) == CHOOSE d \in F : Cardinality({e \in F : Before(e, d)}) + 1 = i
    <3>1. list = [i \in 1 .. n |-> choice(i)]
      BY <1>3, <2>2
    <3> HIDE DEF choice
    <3> QED
      BY <3>1
  <2>5. list \in Seq(Diamond) /\ Len(list) = n
    BY <2>3, <2>4
  <2> QED
    BY <2>2, <2>5
<1> QED
  BY <1>4, <1>5 DEF IsListOf, list, F

(* piece is what is behind the first b of the list, up to l of it.         *)
IsPiece(piece, list, b, l) ==
  /\ piece \in Seq(Diamond) /\ Len(piece) <= l
  /\ Len(piece) = l \/ b + Len(piece) >= Len(list)
  /\ \A i \in 1 .. Len(piece) : b + i <= Len(list) /\ piece[i] = list[b + i]

(* A slice of the list is such a piece.                                    *)
LEMMA SlicesArePieces ==
  ASSUME NEW list \in Seq(Diamond), NEW b \in Nat, NEW l \in Nat
  PROVE  IsPiece(SubSeq(list, b + 1, IF b + l > Len(list) THEN Len(list) ELSE b + l), list, b, l)
<1> DEFINE last == IF b + l > Len(list) THEN Len(list) ELSE b + l
           piece == SubSeq(list, b + 1, last)
<1>1. PICK n \in Nat : n = Len(list)
  OBVIOUS
<1>2. last \in Nat /\ last <= n /\ last <= b + l /\ (last = n \/ last = b + l)
  BY <1>1
<1> HIDE DEF last
<1>3. \A i \in b + 1 .. last : list[i] \in Diamond
  BY <1>1, <1>2
<1>4. b + 1 \in Int /\ last \in Int
  BY <1>2
<1>5. /\ piece \in Seq(Diamond)
      /\ Len(piece) = IF b + 1 <= last THEN last - (b + 1) + 1 ELSE 0
      /\ \A i \in 1 .. last - (b + 1) + 1 : piece[i] = list[b + 1 + i - 1]
  BY <1>3, <1>4, SubSeqProperties
<1> HIDE DEF piece
<1>6. PICK k \in Nat : k = Len(piece)
  BY <1>5
<1>7. k = IF b + 1 <= last THEN last - b ELSE 0
  BY <1>2, <1>5, <1>6
<1>8. k <= l /\ (k = l \/ b + k >= n)
  BY <1>2, <1>7
<1>9. \A i \in 1 .. k : i \in 1 .. last - (b + 1) + 1 /\ b + 1 + i - 1 = b + i /\ b + i <= n
  BY <1>2, <1>7
<1>10. \A i \in 1 .. k : piece[i] = list[b + i]
  BY <1>5, <1>9
<1> QED
  BY <1>1, <1>5, <1>6, <1>8, <1>9, <1>10 DEF IsPiece, piece, last

(* Every diamond of the piece has its place in F.                          *)
HasPlacesFrom(piece, F, b) ==
  \A i \in 1 .. Len(piece) :
    piece[i] \in F /\ Cardinality(Ahead(F, piece[i])) = b + i - 1

(* A page has its places of the list ...                                   *)
LEMMA PlacesOfPage ==
  ASSUME NEW F \in SUBSET Diamond, NEW list, IsListOf(list, F),
         NEW b \in Nat, NEW l \in Nat, NEW piece, IsPiece(piece, list, b, l)
  PROVE  HasPlacesFrom(piece, F, b)
<1> SUFFICES ASSUME NEW i \in 1 .. Len(piece)
             PROVE  piece[i] \in F /\ Cardinality(Ahead(F, piece[i])) = b + i - 1
  BY DEF HasPlacesFrom
<1>1. Len(list) = Cardinality(F) /\ Cardinality(F) \in Nat
  BY Positions, FS_Subset, FS_CardinalityType DEF IsListOf
<1>2. b + i <= Len(list) /\ piece[i] = list[b + i] /\ piece \in Seq(Diamond)
  BY DEF IsPiece
<1>3. b + i \in 1 .. Cardinality(F)
  BY <1>1, <1>2
<1> QED
  BY <1>2, <1>3 DEF IsListOf

(* ... and each diamond of them once.                                      *)
LEMMA PageOfList ==
  ASSUME NEW F \in SUBSET Diamond, NEW list, IsListOf(list, F),
         NEW b \in Nat, NEW l \in Nat, NEW piece, IsPiece(piece, list, b, l)
  PROVE  /\ ToSet(piece) = FirstOf(F, b + l) \ FirstOf(F, b)
         /\ Cardinality(ToSet(piece)) = Len(piece)
<1> DEFINE N == Cardinality(F)
<1>1. N \in Nat /\ Len(list) = N /\ list \in Seq(Diamond)
  BY Positions, FS_Subset, FS_CardinalityType DEF IsListOf
<1>2. /\ piece \in Seq(Diamond) /\ Len(piece) <= l
      /\ Len(piece) = l \/ b + Len(piece) >= N
      /\ \A i \in 1 .. Len(piece) : b + i <= N /\ piece[i] = list[b + i]
  BY <1>1 DEF IsPiece
<1>3. PICK n \in Nat : n = Len(piece)
  BY <1>2
<1>4. ASSUME NEW i \in 1 .. n
      PROVE  piece[i] \in F /\ Cardinality(Ahead(F, piece[i])) = b + i - 1
  <2>1. HasPlacesFrom(piece, F, b)
    BY PlacesOfPage
  <2> QED
    BY <1>3, <2>1 DEF HasPlacesFrom
<1>5. DOMAIN piece = 1 .. n
  BY <1>2, <1>3
<1>6. ToSet(piece) = FirstOf(F, b + l) \ FirstOf(F, b)
  <2>1. ASSUME NEW x \in ToSet(piece) PROVE x \in FirstOf(F, b + l) \ FirstOf(F, b)
    <3>1. PICK i \in 1 .. n : x = piece[i]
      BY <1>5 DEF ToSet
    <3>2. x \in F /\ Cardinality(Ahead(F, x)) = b + i - 1
      BY <1>4, <3>1
    <3>3. b + i - 1 < b + l /\ ~(b + i - 1 < b)
      BY <1>2, <1>3, <3>1
    <3> QED
      BY <3>2, <3>3 DEF FirstOf
  <2>2. ASSUME NEW x \in FirstOf(F, b + l) \ FirstOf(F, b) PROVE x \in ToSet(piece)
    <3>1. x \in F /\ Cardinality(Ahead(F, x)) < b + l /\ ~(Cardinality(Ahead(F, x)) < b)
      BY DEF FirstOf
    <3>2. PICK r \in Nat : r = Cardinality(Ahead(F, x)) /\ r < N
      BY <3>1, AheadIsCounted
    <3>3. r + 1 - b \in 1 .. n
      <4>1. r < b + l /\ b <= r /\ r < N
        BY <3>1, <3>2
      <4>2. n = l \/ b + n >= N
        BY <1>2, <1>3
      <4>3. N \in Nat
        BY <1>1
      <4> HIDE DEF N
      <4> QED
        BY <4>1, <4>2, <4>3
    <3>4. piece[r + 1 - b] \in F /\ Cardinality(Ahead(F, piece[r + 1 - b])) = r
      BY <1>4, <3>2, <3>3
    <3>5. piece[r + 1 - b] = x
      BY <3>1, <3>2, <3>4, AheadGrows
    <3> QED
      BY <1>5, <3>3, <3>5 DEF ToSet
  <2> QED
    BY <2>1, <2>2
<1>7. Cardinality(ToSet(piece)) = Len(piece)
  <2>2. IsFiniteSet(1 .. n) /\ Cardinality(1 .. n) = n
    <3>1. \A m \in Nat : IsFiniteSet(1 .. m) /\ Cardinality(1 .. m) = m
      BY FS_Interval
    <3> QED
      BY <3>1
  <2>3. piece \in [1 .. n -> ToSet(piece)]
    BY <1>2, <1>5 DEF ToSet
  <2>4. \A i, j \in 1 .. n : piece[i] = piece[j] => i = j
    BY <1>4
  <2>5. \A x \in ToSet(piece) : \E i \in 1 .. n : piece[i] = x
    BY <1>5 DEF ToSet
  <2>6. piece \in Surjection(1 .. n, ToSet(piece)) /\ piece \in Injection(1 .. n, ToSet(piece))
    BY <2>3, <2>4, <2>5 DEF Surjection, Injection, IsInjective
  <2> QED
    BY <1>3, <2>2, <2>6, FS_Surjection
<1> QED
  BY <1>6, <1>7

-----------------------------------------------------------------------------
(***************************************************************************)
(* What a filter means.                                                    *)
(***************************************************************************)

(* Indexes on the scale compare grades.                                    *)
ComparesGrades(scale) ==
  \A grade, bound :
    /\ IndexOf(scale, bound) >= 0 <=> bound \in ToSet(scale)
    /\ bound \in ToSet(scale) =>
         /\ IndexOf(scale, grade) >= IndexOf(scale, bound) <=>
              grade = bound \/ Worse(scale, grade, bound)
         /\ IndexOf(scale, grade) <= IndexOf(scale, bound) <=>
              ~Worse(scale, grade, bound)
    /\ Worse(scale, grade, bound) => bound \in ToSet(scale)

(* They do on a scale that has every grade once.                           *)
LEMMA IndexesCompare ==
  ASSUME NEW n \in Nat, NEW scale, DOMAIN scale = 1 .. n,
         \A i, j \in 1 .. n : scale[i] = scale[j] => i = j
  PROVE  ComparesGrades(scale)
<1> SUFFICES ASSUME NEW grade, NEW bound
             PROVE  /\ IndexOf(scale, bound) >= 0 <=> bound \in ToSet(scale)
                    /\ bound \in ToSet(scale) =>
                         /\ IndexOf(scale, grade) >= IndexOf(scale, bound) <=>
                              grade = bound \/ Worse(scale, grade, bound)
                         /\ IndexOf(scale, grade) <= IndexOf(scale, bound) <=>
                              ~Worse(scale, grade, bound)
                    /\ Worse(scale, grade, bound) => bound \in ToSet(scale)
  BY DEF ComparesGrades
<1>1. DOMAIN scale = 1 .. n
  OBVIOUS
<1>2. \A i, j \in 1 .. n : scale[i] = scale[j] => i = j
  OBVIOUS
<1>3. \A g : g \in ToSet(scale) <=> \E i \in 1 .. n : scale[i] = g
  BY <1>1 DEF ToSet
<1>4. ASSUME NEW g, NEW i \in 1 .. n, scale[i] = g
      PROVE  IndexOf(scale, g) = i - 1
  <2>1. g \in ToSet(scale)
    BY <1>3, <1>4
  <2>2. (CHOOSE k \in 1 .. n : scale[k] = g) = i
    BY <1>2, <1>4
  <2> QED
    BY <1>1, <2>1, <2>2 DEF IndexOf
<1>5. ASSUME NEW g, g \notin ToSet(scale)
      PROVE  IndexOf(scale, g) = -1
  BY <1>5 DEF IndexOf
<1>6. Worse(scale, grade, bound) <=>
        \E i, j \in 1 .. n : i < j /\ scale[i] = bound /\ scale[j] = grade
  BY <1>1 DEF Worse
<1>7. CASE bound \notin ToSet(scale)
  BY <1>3, <1>5, <1>6, <1>7
<1>8. CASE bound \in ToSet(scale)
  <2>1. PICK b \in 1 .. n : scale[b] = bound
    BY <1>3, <1>8
  <2>2. IndexOf(scale, bound) = b - 1
    BY <1>4, <2>1
  <2>3. CASE grade \notin ToSet(scale)
    <3>1. IndexOf(scale, grade) = -1
      BY <1>5, <2>3
    <3>2. ~Worse(scale, grade, bound) /\ grade # bound
      BY <1>3, <1>6, <1>8, <2>3
    <3> QED
      BY <1>8, <2>2, <3>1, <3>2
  <2>4. CASE grade \in ToSet(scale)
    <3>1. PICK g \in 1 .. n : scale[g] = grade
      BY <1>3, <2>4
    <3>2. IndexOf(scale, grade) = g - 1
      BY <1>4, <3>1
    <3>3. Worse(scale, grade, bound) <=> b < g
      BY <1>2, <1>6, <2>1, <3>1
    <3>4. grade = bound <=> b = g
      BY <1>2, <2>1, <3>1
    <3> QED
      BY <1>8, <2>2, <3>2, <3>3, <3>4
  <2> QED
    BY <2>3, <2>4
<1> QED
  BY <1>7, <1>8

(* The two scales have every grade once.                                   *)
LEMMA ScalesAreScales ==
  /\ DOMAIN COLOR_SCALE = 1 .. 10
  /\ \A i, j \in 1 .. 10 : COLOR_SCALE[i] = COLOR_SCALE[j] => i = j
  /\ DOMAIN CLARITY_SCALE = 1 .. 11
  /\ \A i, j \in 1 .. 11 : CLARITY_SCALE[i] = CLARITY_SCALE[j] => i = j
<1>1. DOMAIN COLOR_SCALE = 1 .. 10
  BY DEF COLOR_SCALE
<1>2. \A i, j \in 1 .. 10 : COLOR_SCALE[i] = COLOR_SCALE[j] => i = j
  <2>1. /\ COLOR_SCALE[1] = "D" /\ COLOR_SCALE[2] = "E" /\ COLOR_SCALE[3] = "F"
        /\ COLOR_SCALE[4] = "G" /\ COLOR_SCALE[5] = "H" /\ COLOR_SCALE[6] = "I"
        /\ COLOR_SCALE[7] = "J" /\ COLOR_SCALE[8] = "K" /\ COLOR_SCALE[9] = "L"
        /\ COLOR_SCALE[10] = "M"
    BY DEF COLOR_SCALE
  <2>2. \A i \in 1 .. 10 :
      i = 1 \/ i = 2 \/ i = 3 \/ i = 4 \/ i = 5 \/ i = 6 \/ i = 7 \/ i = 8 \/ i = 9 \/
      i = 10
    OBVIOUS
  <2> QED
    BY <2>1, <2>2
<1>3. DOMAIN CLARITY_SCALE = 1 .. 11
  BY DEF CLARITY_SCALE
<1>4. \A i, j \in 1 .. 11 : CLARITY_SCALE[i] = CLARITY_SCALE[j] => i = j
  <2>1. /\ CLARITY_SCALE[1] = "FL" /\ CLARITY_SCALE[2] = "IF" /\ CLARITY_SCALE[3] = "VVS1"
        /\ CLARITY_SCALE[4] = "VVS2" /\ CLARITY_SCALE[5] = "VS1" /\ CLARITY_SCALE[6] = "VS2"
        /\ CLARITY_SCALE[7] = "SI1" /\ CLARITY_SCALE[8] = "SI2" /\ CLARITY_SCALE[9] = "I1"
        /\ CLARITY_SCALE[10] = "I2" /\ CLARITY_SCALE[11] = "I3"
    BY DEF CLARITY_SCALE
  <2>2. \A i \in 1 .. 11 :
      i = 1 \/ i = 2 \/ i = 3 \/ i = 4 \/ i = 5 \/ i = 6 \/ i = 7 \/ i = 8 \/ i = 9 \/
      i = 10 \/ i = 11
    OBVIOUS
  <2> QED
    BY <2>1, <2>2
<1> QED
  BY <1>1, <1>2, <1>3, <1>4

(* The chain of filters lets through what the filter means.                *)
LEMMA PassesWhatMatches ==
  ASSUME NEW f \in Filter, NEW d \in Diamond
  PROVE  Passes(d, f) <=> Matches(d, f)
<1>1. Price[d] \in Int /\ f.price_min \in Int /\ f.price_max \in Int
  BY PriceAssumption
<1>2. 10 \in Nat /\ 11 \in Nat
  OBVIOUS
<1>3. ComparesGrades(COLOR_SCALE)
  BY <1>2, ScalesAreScales, IndexesCompare
<1>4. ComparesGrades(CLARITY_SCALE)
  BY <1>2, ScalesAreScales, IndexesCompare
<1>5. ASSUME NEW scale, NEW bound, NotGiven \notin ToSet(scale), ComparesGrades(scale)
      PROVE  /\ GradeIndex(scale, bound) >= 0 <=> bound \in ToSet(scale)
             /\ bound \in ToSet(scale) => GradeIndex(scale, bound) = IndexOf(scale, bound)
  <2>1. CASE bound = NotGiven
    BY <1>5, <2>1 DEF GradeIndex, ComparesGrades
  <2>2. CASE bound # NotGiven
    BY <1>5, <2>2 DEF GradeIndex, ComparesGrades
  <2> QED
    BY <2>1, <2>2
<1>6. NotGiven \notin ToSet(COLOR_SCALE) /\ NotGiven \notin ToSet(CLARITY_SCALE)
  BY NotGivenAssumption
<1>7. (GradeIndex(COLOR_SCALE, f.color_min) >= 0 =>
         IndexOf(COLOR_SCALE, Color[d]) >= GradeIndex(COLOR_SCALE, f.color_min))
      <=> (f.color_min \in ToSet(COLOR_SCALE) =>
             Color[d] = f.color_min \/ Worse(COLOR_SCALE, Color[d], f.color_min))
  BY <1>3, <1>5, <1>6 DEF ComparesGrades
<1>8. (GradeIndex(COLOR_SCALE, f.color_max) >= 0 =>
         IndexOf(COLOR_SCALE, Color[d]) <= GradeIndex(COLOR_SCALE, f.color_max))
      <=> ~Worse(COLOR_SCALE, Color[d], f.color_max)
  BY <1>3, <1>5, <1>6 DEF ComparesGrades
<1>9. (GradeIndex(CLARITY_SCALE, f.clarity_min) >= 0 =>
         IndexOf(CLARITY_SCALE, Clarity[d]) <= GradeIndex(CLARITY_SCALE, f.clarity_min))
      <=> ~Worse(CLARITY_SCALE, Clarity[d], f.clarity_min)
  BY <1>4, <1>5, <1>6 DEF ComparesGrades
<1>10. Price[d] \in f.price_min .. f.price_max <=>
        f.price_min <= Price[d] /\ Price[d] <= f.price_max
  BY <1>1
<1>11. f.kind \in {NotGiven, Kind[d]} <=> (f.kind # NotGiven => Kind[d] = f.kind)
  OBVIOUS
<1> QED
  BY <1>7, <1>8, <1>9, <1>10, <1>11 DEF Passes, Matches

-----------------------------------------------------------------------------
(***************************************************************************)
(* Counting.                                                               *)
(***************************************************************************)

(* Part of a set of diamonds, and part of one with something more.         *)
LEMMA Counts ==
  ASSUME NEW S \in SUBSET Diamond
  PROVE  /\ IsFiniteSet(S) /\ Cardinality(S) \in Nat
         /\ \A T \in SUBSET S : Cardinality(T) <= Cardinality(S)
         /\ \A z, T : T \subseteq S \cup {z} => Cardinality(T) <= Cardinality(S) + 1
<1>1. IsFiniteSet(S) /\ Cardinality(S) \in Nat
  BY Positions, FS_Subset, FS_CardinalityType
<1>2. \A T \in SUBSET S : Cardinality(T) <= Cardinality(S)
  BY <1>1, FS_Subset
<1>3. ASSUME NEW z, NEW T, T \subseteq S \cup {z}
      PROVE  Cardinality(T) <= Cardinality(S) + 1
  <2>1. IsFiniteSet(S \cup {z}) /\ Cardinality(S \cup {z}) <= Cardinality(S) + 1
    <3>1. /\ IsFiniteSet(S \cup {z})
          /\ Cardinality(S \cup {z}) = IF z \in S THEN Cardinality(S) ELSE Cardinality(S) + 1
      BY <1>1, FS_AddElement
    <3> QED
      BY <1>1, <3>1
  <2>2. Cardinality(S \cup {z}) \in Nat /\ T \in SUBSET (S \cup {z})
    BY <1>3, <2>1, FS_CardinalityType
  <2>3. IsFiniteSet(T) /\ Cardinality(T) <= Cardinality(S \cup {z})
    BY <2>1, <2>2, FS_Subset
  <2>4. Cardinality(T) \in Nat
    BY <2>3, FS_CardinalityType
  <2> QED
    BY <1>1, <2>1, <2>2, <2>3, <2>4
<1> QED
  BY <1>1, <1>2, <1>3

(* A sequence has no more elements than places.                            *)
LEMMA ElementsArePlaced ==
  ASSUME NEW s \in Seq(Diamond)
  PROVE  /\ ToSet(s) \in SUBSET Diamond
         /\ Len(s) \in Nat /\ Cardinality(ToSet(s)) <= Len(s)
<1>1. PICK n \in Nat : n = Len(s) /\ DOMAIN s = 1 .. n
  OBVIOUS
<1>2. \A i \in 1 .. n : s[i] \in Diamond
  BY <1>1
<1>3. ToSet(s) \in SUBSET Diamond
  BY <1>1, <1>2 DEF ToSet
<1>4. s \in Surjection(1 .. n, ToSet(s))
  <2>1. s \in [1 .. n -> ToSet(s)]
    BY <1>1 DEF ToSet
  <2>2. \A x \in ToSet(s) : \E i \in 1 .. n : s[i] = x
    BY <1>1 DEF ToSet
  <2> QED
    BY <2>1, <2>2 DEF Surjection
<1>5. IsFiniteSet(1 .. n) /\ Cardinality(1 .. n) = n
  BY FS_Interval
<1> QED
  BY <1>1, <1>3, <1>4, <1>5, FS_Surjection

(* A page adds as much to the repetitions as it takes from what was seen   *)
(* and is still to come.                                                   *)
Balanced(F, seen, before, after, new) ==
  Cardinality(new) + Cardinality(((seen \cup new) \cap F) \ after)
    = (Cardinality(seen \cup new) - Cardinality(seen)) + Cardinality((seen \cap F) \ before)

(* It does: what a page shows again was seen and was still to come.        *)
LEMMA SeenAgain ==
  ASSUME NEW F \in SUBSET Diamond, NEW seen \in SUBSET Diamond,
         NEW before \in SUBSET F, NEW after \in SUBSET F, NEW new,
         before \subseteq after, new = after \ before
  PROVE  Balanced(F, seen, before, after, new)
<1> DEFINE late == (seen \cap F) \ before
<1>1. ((seen \cup new) \cap F) \ after = late \ new
  OBVIOUS
<1>2. IsFiniteSet(seen) /\ Cardinality(seen) \in Nat
  BY Counts
<1>3. IsFiniteSet(new) /\ Cardinality(new) \in Nat
  <2>1. new \in SUBSET Diamond
    OBVIOUS
  <2> QED
    BY <2>1, Counts
<1>4. IsFiniteSet(late) /\ Cardinality(late) \in Nat
  <2>1. late \in SUBSET Diamond
    OBVIOUS
  <2> QED
    BY <2>1, Counts
<1>5. Cardinality(seen \cup new) = Cardinality(seen) + Cardinality(new) - Cardinality(seen \cap new)
  BY <1>2, <1>3, FS_Union
<1>6. /\ IsFiniteSet(late \ new)
      /\ Cardinality(late \ new) = Cardinality(late) - Cardinality(late \cap new)
  BY <1>4, FS_Difference
<1>7. late \cap new = seen \cap new
  OBVIOUS
<1>8. Cardinality(late \ new) \in Nat
  BY <1>6, FS_CardinalityType
<1>9. Cardinality(seen \cap new) \in Nat
  <2>1. seen \cap new \in SUBSET Diamond
    OBVIOUS
  <2> QED
    BY <2>1, Counts
<1> HIDE DEF late
<1>10. Cardinality(new) + Cardinality(late \ new)
         = (Cardinality(seen \cup new) - Cardinality(seen)) + Cardinality(late)
  <2>1. PICK a \in Nat : a = Cardinality(seen)
    BY <1>2
  <2>2. PICK b \in Nat : b = Cardinality(new)
    BY <1>3
  <2>3. PICK c \in Nat : c = Cardinality(late)
    BY <1>4
  <2>4. PICK k \in Nat : k = Cardinality(seen \cap new)
    BY <1>9
  <2>5. Cardinality(seen \cup new) = a + b - k
    BY <1>5, <2>1, <2>2, <2>4
  <2>6. Cardinality(late \ new) = c - k
    BY <1>6, <1>7, <2>3, <2>4
  <2> QED
    BY <2>1, <2>2, <2>3, <2>5, <2>6
<1> QED
  BY <1>1, <1>10 DEF late, Balanced

(* One page further in the list.                                           *)
LEMMA PagesFollow ==
  ASSUME NEW p \in Nat, NEW l \in Nat
  PROVE  /\ p * l \in Nat /\ (p + 1) * l = p * l + l
         /\ p + 1 \in Nat /\ 0 * l = 0
  OBVIOUS

-----------------------------------------------------------------------------
(***************************************************************************)
(* A walk.                                                                 *)
(***************************************************************************)

(* What matches, and what of it is on the pages up to the last one shown.  *)
Found == {d \in InStock : Passes(d, filter)}
Walked == FirstOf(Found, page * limit)

(* Nothing moves after the end, so the last total is the number that match.*)
EndsAtTheEnd == Ended => total = Cardinality(Found)

(* What stayed put, is on the pages shown and was not shown is no more     *)
(* than stones were taken.                                                 *)
FewSkipped == Cardinality(Walked \ (Seen \cup moved)) <= takes

(* What was shown twice, or is still to come although it was shown, is no  *)
(* more than stones were put back.                                         *)
FewRepeated ==
  (Len(shown) - Cardinality(Seen)) + Cardinality((Seen \cap Found) \ Walked)
    <= returns

(* As long as nothing moves, what was shown is the beginning of the list.  *)
ShownAsListed ==
  takes = 0 /\ returns = 0 =>
    /\ Seen = Walked
    /\ \A i, j \in 1 .. Len(shown) : i < j => Price[shown[i]] <= Price[shown[j]]

WalkInv == TypeOK /\ EndsAtTheEnd /\ FewSkipped /\ FewRepeated /\ ShownAsListed

(* The diamonds found are diamonds, and the pages shown have some of them. *)
LEMMA FoundAndWalked ==
  /\ Found \in SUBSET Diamond /\ Walked \in SUBSET Found
  /\ Cardinality(Found) \in 0 .. Len(Inventory)
<1>1. Found \in SUBSET Diamond
  BY DEF Found, InStock
<1>2. Cardinality(Found) \in Nat /\ Cardinality(Diamond) \in Nat
      /\ Cardinality(Found) <= Cardinality(Diamond)
  <2>1. Diamond \in SUBSET Diamond
    OBVIOUS
  <2> HIDE DEF Found
  <2> QED
    BY <1>1, <2>1, Counts
<1>3. Cardinality(Diamond) <= Len(Inventory) /\ Len(Inventory) \in Nat
  BY Positions, InventoryAssumption
<1>4. Walked \in SUBSET Found
  BY DEF Walked, FirstOf
<1> QED
  BY <1>1, <1>2, <1>3, <1>4

(* The next page.                                                          *)
LEMMA NextPageKeeps ==
  ASSUME WalkInv, NextPage
  PROVE  WalkInv'
<1>1. /\ page \in Nat /\ limit \in Nat /\ limit > 0 /\ shown \in Seq(Diamond)
      /\ page' = page + 1 /\ UNCHANGED <<status, filter, limit, moved, takes, returns>>
      /\ moved \in SUBSET Diamond /\ takes \in Nat /\ returns \in Nat
  <2>1. page' = page + 1 /\ UNCHANGED <<status, filter, limit, moved, takes, returns>>
    BY DEF NextPage
  <2>2. /\ page \in Nat /\ limit \in PageSize /\ shown \in Seq(Diamond)
        /\ moved \in SUBSET Diamond /\ takes \in Nat /\ returns \in Nat
    BY DEF WalkInv, TypeOK
  <2>3. limit \in Nat /\ limit > 0
    BY <2>2, PageAssumption
  <2> QED
    BY <2>1, <2>2, <2>3
<1>2. PICK b \in Nat : b = page * limit
  BY <1>1, PagesFollow
<1>3. page' * limit' = b + limit /\ b + limit \in Nat
  BY <1>1, <1>2, PagesFollow
<1>4. PICK list : list = Results(filter)
  OBVIOUS
<1>5. PICK piece : piece = Slice(list, page + 1)
  OBVIOUS
<1>6. shown' = shown \o piece /\ total' = Len(list)
  BY <1>4, <1>5 DEF NextPage
<1>7. IsListOf(list, Found) /\ list \in Seq(Diamond) /\ Len(list) = Cardinality(Found)
  <2>1. IsListOf(list, Found)
    BY <1>4, ResultsAreSorted DEF Found
  <2> QED
    BY <2>1 DEF IsListOf
<1>8. IsPiece(piece, list, b, limit)
  <2>1. piece = SubSeq(list, b + 1, IF b + limit > Len(list) THEN Len(list) ELSE b + limit)
    <3>1. PICK p \in Nat : p = page + 1
      BY <1>1
    <3>2. p - 1 = page
      BY <1>1, <3>1
    <3>3. (p - 1) * limit = b
      BY <1>2, <3>2
    <3>4. piece = Slice(list, p)
      BY <1>5, <3>1
    <3> QED
      BY <3>3, <3>4 DEF Slice
  <2> QED
    BY <1>1, <1>2, <1>7, <2>1, SlicesArePieces
<1>9. Found' = Found
  BY <1>1 DEF Found, InStock
<1>10. Walked = FirstOf(Found, b) /\ Walked' = FirstOf(Found, b + limit)
  BY <1>2, <1>3, <1>9 DEF Walked
<1>11. Found \in SUBSET Diamond /\ Cardinality(Found) \in 0 .. Len(Inventory)
  BY FoundAndWalked
<1>12. /\ ToSet(piece) = Walked' \ Walked
       /\ Cardinality(ToSet(piece)) = Len(piece)
       /\ \A i \in 1 .. Len(piece) :
            piece[i] \in Found /\ Cardinality(Ahead(Found, piece[i])) = b + i - 1
  <2>1. PICK F \in SUBSET Diamond : F = Found
    BY <1>11
  <2>2. PICK l \in Nat : l = limit
    BY <1>1
  <2>3. IsListOf(list, F) /\ IsPiece(piece, list, b, l)
    BY <1>7, <1>8, <2>1, <2>2
  <2>4. /\ ToSet(piece) = FirstOf(F, b + l) \ FirstOf(F, b)
        /\ Cardinality(ToSet(piece)) = Len(piece)
    BY <2>3, PageOfList
  <2>5. HasPlacesFrom(piece, F, b)
    BY <2>3, PlacesOfPage
  <2> QED
    BY <1>10, <2>1, <2>2, <2>4, <2>5 DEF HasPlacesFrom
<1>13. PICK n \in Nat, m \in Nat :
         /\ n = Len(shown) /\ m = Len(piece) /\ Len(shown') = n + m
         /\ shown' \in Seq(Diamond)
         /\ \A i \in 1 .. n : shown'[i] = shown[i]
         /\ \A i \in 1 .. m : shown'[n + i] = piece[i]
  <2>1. piece \in Seq(Diamond)
    BY <1>8 DEF IsPiece
  <2> QED
    BY <1>1, <1>6, <2>1
<1>14. Seen' = Seen \cup ToSet(piece)
  <2>1. DOMAIN shown = 1 .. n /\ DOMAIN piece = 1 .. m /\ DOMAIN shown' = 1 .. n + m
    BY <1>1, <1>8, <1>13 DEF IsPiece
  <2>2. ASSUME NEW x \in Seen' PROVE x \in Seen \cup ToSet(piece)
    <3>1. PICK i \in 1 .. n + m : x = shown'[i]
      BY <2>1 DEF Seen, ToSet
    <3>2. CASE i \in 1 .. n
      BY <1>13, <2>1, <3>1, <3>2 DEF Seen, ToSet
    <3>3. CASE i \notin 1 .. n
      <4>1. i - n \in 1 .. m /\ n + (i - n) = i
        BY <3>3
      <4>2. x = piece[i - n]
        BY <1>13, <3>1, <4>1
      <4> QED
        BY <2>1, <4>1, <4>2 DEF ToSet
    <3> QED
      BY <3>2, <3>3
  <2>3. ASSUME NEW x \in Seen PROVE x \in Seen'
    <3>1. PICK i \in 1 .. n : x = shown[i]
      BY <2>1 DEF Seen, ToSet
    <3>2. i \in 1 .. n + m /\ shown'[i] = x
      BY <1>13, <3>1
    <3> QED
      BY <2>1, <3>2 DEF Seen, ToSet
  <2>4. ASSUME NEW x \in ToSet(piece) PROVE x \in Seen'
    <3>1. PICK i \in 1 .. m : x = piece[i]
      BY <2>1 DEF ToSet
    <3>2. n + i \in 1 .. n + m /\ shown'[n + i] = x
      BY <1>13, <3>1
    <3> QED
      BY <2>1, <3>2 DEF Seen, ToSet
  <2> QED
    BY <2>2, <2>3, <2>4
<1>15. Walked \subseteq Walked'
  <2>1. \A d \in Found : Cardinality(Ahead(Found, d)) \in Nat
    BY <1>11, AheadIsCounted
  <2> QED
    BY <1>1, <1>10, <2>1 DEF FirstOf
<1>16. Walked \in SUBSET Found /\ Walked' \in SUBSET Found /\ Seen \in SUBSET Diamond
  <2>1. Seen \in SUBSET Diamond
    BY <1>1, ElementsArePlaced DEF Seen
  <2> QED
    BY <1>10, <2>1 DEF FirstOf
<1>17. TypeOK'
  <2>1. /\ status \in [Diamond -> {"In Stock", "Reserved"}]
        /\ filter \in Filter /\ limit \in PageSize
    BY DEF WalkInv, TypeOK
  <2>2. total' \in 0 .. Len(Inventory) /\ page' \in Nat
    BY <1>1, <1>6, <1>7, <1>11
  <2> QED
    BY <1>1, <1>13, <2>1, <2>2 DEF TypeOK
<1>18. EndsAtTheEnd'
  BY <1>6, <1>7, <1>9 DEF EndsAtTheEnd
<1>19. FewSkipped'
  <2> DEFINE old == Walked \ (Seen \cup moved)
  <2>1. Walked' \ (Seen' \cup moved') \in SUBSET old
    BY <1>1, <1>12, <1>14
  <2>2. old \in SUBSET Diamond
    BY <1>11, <1>16
  <2>3. Cardinality(Walked' \ (Seen' \cup moved')) <= Cardinality(old)
        /\ Cardinality(old) \in Nat
    <3> HIDE DEF old
    <3> QED
      BY <2>1, <2>2, Counts
  <2>4. Cardinality(Walked' \ (Seen' \cup moved')) \in Nat
    <3>1. Walked' \ (Seen' \cup moved') \in SUBSET Diamond
      BY <2>1, <2>2
    <3> QED
      BY <3>1, Counts
  <2>5. Cardinality(old) <= takes /\ takes \in Nat
    BY <1>1 DEF WalkInv, FewSkipped
  <2> HIDE DEF old
  <2>6. Cardinality(Walked' \ (Seen' \cup moved')) <= takes
    BY <2>3, <2>4, <2>5
  <2> QED
    BY <1>1, <2>6 DEF FewSkipped
<1>20. FewRepeated'
  <2> DEFINE late == (Seen \cap Found) \ Walked
             later == (Seen' \cap Found') \ Walked'
  <2>1. m + Cardinality(later) = (Cardinality(Seen') - Cardinality(Seen)) + Cardinality(late)
    <3>1. PICK new : new = ToSet(piece)
      OBVIOUS
    <3>2. Cardinality(new) + Cardinality(((Seen \cup new) \cap Found) \ Walked')
            = (Cardinality(Seen \cup new) - Cardinality(Seen))
                + Cardinality((Seen \cap Found) \ Walked)
      <4>1. PICK F \in SUBSET Diamond : F = Found
        BY <1>11
      <4>2. PICK seen \in SUBSET Diamond : seen = Seen
        BY <1>16
      <4>3. PICK before \in SUBSET F : before = Walked
        BY <1>16, <4>1
      <4>4. PICK after \in SUBSET F : after = Walked'
        BY <1>16, <4>1
      <4>5. before \subseteq after /\ new = after \ before
        BY <1>12, <1>15, <3>1, <4>3, <4>4
      <4>6. Balanced(F, seen, before, after, new)
        BY <4>5, SeenAgain
      <4> QED
        BY <4>1, <4>2, <4>3, <4>4, <4>6 DEF Balanced
    <3> QED
      BY <1>9, <1>12, <1>13, <1>14, <3>1, <3>2
  <2>2. /\ Cardinality(Seen) \in Nat /\ Cardinality(late) \in Nat
        /\ Cardinality(Seen') \in Nat /\ returns \in Nat
        /\ Cardinality(later) \in Nat
    <3>1. /\ late \in SUBSET Diamond /\ later \in SUBSET Diamond
          /\ Seen' \in SUBSET Diamond
      BY <1>9, <1>11, <1>12, <1>14, <1>16
    <3> HIDE DEF late, later
    <3> QED
      BY <1>1, <1>16, <3>1, Counts
  <2>3. (n - Cardinality(Seen)) + Cardinality(late) <= returns
    BY <1>13 DEF WalkInv, FewRepeated
  <2> HIDE DEF late, later
  <2>4. (n + m - Cardinality(Seen')) + Cardinality(later) <= returns
    BY <2>1, <2>2, <2>3
  <2>5. Len(shown') = n + m /\ returns' = returns
    BY <1>1, <1>13
  <2>6. (Len(shown') - Cardinality(Seen')) + Cardinality(later) <= returns'
    <3>1. returns' = returns
      BY <2>5
    <3>2. PICK x \in Nat : x = Cardinality(Seen')
      BY <2>2
    <3>3. PICK y \in Nat : y = Cardinality(later)
      BY <2>2
    <3>4. PICK z \in Nat : z = returns
      BY <2>2
    <3>5. (n + m - x) + y <= z
      BY <2>4, <3>2, <3>3, <3>4
    <3>6. (Len(shown') - x) + y <= z
      BY <2>5, <3>5
    <3> QED
      BY <3>1, <3>2, <3>3, <3>4, <3>6
  <2> QED
    BY <2>6 DEF FewRepeated, later
<1>21. ShownAsListed'
  <2> SUFFICES ASSUME takes = 0, returns = 0
               PROVE  /\ Seen' = Walked'
                      /\ \A i, j \in 1 .. n + m : i < j => Price[shown'[i]] <= Price[shown'[j]]
    BY <1>1, <1>13 DEF ShownAsListed
  <2>1. /\ Seen = Walked
        /\ \A i, j \in 1 .. n : i < j => Price[shown[i]] <= Price[shown[j]]
    BY <1>13 DEF WalkInv, ShownAsListed
  <2>2. Seen' = Walked'
    BY <1>12, <1>14, <1>15, <2>1
  <2>3. \A i \in 1 .. n : shown[i] \in Found /\ Cardinality(Ahead(Found, shown[i])) < b
    <3>1. \A i \in 1 .. n : shown[i] \in Seen
      BY <1>1, <1>13 DEF Seen, ToSet
    <3> QED
      BY <1>10, <2>1, <3>1 DEF FirstOf
  <2>4. \A x, y \in Found :
          Cardinality(Ahead(Found, x)) < Cardinality(Ahead(Found, y)) => Price[x] <= Price[y]
    BY <1>11, AheadGrows, BeforeIsAnOrder
  <2>5. ASSUME NEW i \in 1 .. n + m, NEW j \in 1 .. n + m, i < j
        PROVE  Price[shown'[i]] <= Price[shown'[j]]
    <3>1. CASE j \in 1 .. n
      <4>1. i \in 1 .. n
        BY <2>5, <3>1
      <4> QED
        BY <1>13, <2>1, <2>5, <3>1, <4>1
    <3>2. CASE j \notin 1 .. n
      <4>1. PICK k \in 1 .. m : j = n + k
        <5>1. j - n \in 1 .. m /\ j = n + (j - n)
          BY <3>2
        <5> QED
          BY <5>1
      <4>2. shown'[j] \in Found /\ Cardinality(Ahead(Found, shown'[j])) = b + k - 1
        BY <1>12, <1>13, <4>1
      <4>3. CASE i \in 1 .. n
        <5>1. shown'[i] \in Found /\ Cardinality(Ahead(Found, shown'[i])) < b
          BY <1>13, <2>3, <4>3
        <5>2. Cardinality(Ahead(Found, shown'[i])) < Cardinality(Ahead(Found, shown'[j]))
          <6>1. Cardinality(Ahead(Found, shown'[i])) \in Nat
            BY <1>11, <5>1, AheadIsCounted
          <6> QED
            BY <4>2, <5>1, <6>1
        <5> QED
          BY <2>4, <4>2, <5>1, <5>2
      <4>4. CASE i \notin 1 .. n
        <5>1. PICK h \in 1 .. m : i = n + h
          <6>1. i - n \in 1 .. m /\ i = n + (i - n)
            BY <4>4
          <6> QED
            BY <6>1
        <5>2. shown'[i] \in Found /\ Cardinality(Ahead(Found, shown'[i])) = b + h - 1
          BY <1>12, <1>13, <5>1
        <5>3. b + h - 1 < b + k - 1
          BY <2>5, <4>1, <5>1
        <5> QED
          BY <2>4, <4>2, <5>2, <5>3
      <4> QED
        BY <4>3, <4>4
    <3> QED
      BY <3>1, <3>2
  <2> QED
    BY <2>2, <2>5
<1> QED
  BY <1>17, <1>18, <1>19, <1>20, <1>21 DEF WalkInv

(* A stone is taken: its place in the list is free, and the stone behind   *)
(* the pages shown, which nobody has seen, is now on them.                 *)
LEMMA TakeKeeps ==
  ASSUME WalkInv, NEW d \in Diamond, Take(d)
  PROVE  WalkInv'
<1>0. /\ takes \in Nat /\ returns \in Nat
      /\ takes' = takes + 1 /\ returns' = returns
  BY DEF Take, WalkInv, TypeOK
<1>1. /\ UNCHANGED <<filter, limit, page, shown, total, returns>>
      /\ status' = [status EXCEPT ![d] = "Reserved"] /\ status[d] = "In Stock"
      /\ moved' = moved \cup {d} /\ takes' = takes + 1 /\ ~Ended
  BY DEF Take
<1>2. /\ status \in [Diamond -> {"In Stock", "Reserved"}]
      /\ page \in Nat /\ limit \in PageSize /\ shown \in Seq(Diamond)
      /\ moved \in SUBSET Diamond /\ takes \in Nat /\ returns \in Nat
  BY DEF WalkInv, TypeOK
<1>3. Found' = Found \ {d}
  <2>1. \A e \in Diamond : status'[e] = IF e = d THEN "Reserved" ELSE status[e]
    BY <1>1, <1>2
  <2>2. InStock' = InStock \ {d}
    BY <2>1 DEF InStock
  <2> QED
    BY <1>1, <2>2 DEF Found
<1>4. Found \in SUBSET Diamond /\ Walked \in SUBSET Found
  BY FoundAndWalked
<1>5. PICK b \in Nat : b = page * limit /\ b = page' * limit'
  <2>1. limit \in Nat
    BY <1>2, PageAssumption
  <2> QED
    BY <1>1, <1>2, <2>1, PagesFollow
<1>6. Walked = FirstOf(Found, b) /\ Walked' = FirstOf(Found \ {d}, b)
  BY <1>3, <1>5 DEF Walked
<1>7. /\ Walked \subseteq Walked' \cup {d}
      /\ \E z : Walked' \subseteq Walked \cup {z}
  <2>1. CASE d \notin Found
    <3>1. Found \ {d} = Found
      BY <2>1
    <3>2. Walked' = Walked
      BY <1>6, <3>1
    <3> QED
      BY <3>2
  <2>2. CASE d \in Found
    <3>1. PICK F \in SUBSET Diamond : F = Found \ {d}
      BY <1>4
    <3>2. d \in Diamond \ F /\ F \cup {d} = Found
      BY <2>2, <3>1
    <3>3. /\ FirstOf(F \cup {d}, b) \subseteq FirstOf(F, b) \cup {d}
          /\ \E z : FirstOf(F, b) \subseteq FirstOf(F \cup {d}, b) \cup {z}
      BY <3>2, OneMore
    <3> QED
      BY <1>6, <3>1, <3>2, <3>3
  <2> QED
    BY <2>1, <2>2
<1>8. Seen' = Seen /\ Seen \in SUBSET Diamond
  BY <1>1, <1>2, ElementsArePlaced DEF Seen
<1>9. Walked' \in SUBSET Found'
  BY <1>3, <1>6 DEF FirstOf
<1>10. TypeOK'
  <2>1. status' \in [Diamond -> {"In Stock", "Reserved"}] /\ moved' \subseteq Diamond
    BY <1>1, <1>2
  <2>2. takes' \in Nat /\ returns' \in Nat
    BY <1>0
  <2>3. filter \in Filter /\ total \in 0 .. Len(Inventory)
    BY DEF WalkInv, TypeOK
  <2> QED
    BY <1>1, <1>2, <2>1, <2>2, <2>3 DEF TypeOK
<1>11. EndsAtTheEnd'
  BY <1>1 DEF EndsAtTheEnd, Ended
<1>12. FewSkipped'
  <2> DEFINE old == Walked \ (Seen \cup moved)
             now == Walked' \ (Seen' \cup moved')
  <2>1. PICK z : Walked' \subseteq Walked \cup {z}
    BY <1>7
  <2>2. now \subseteq old \cup {z} /\ old \in SUBSET Diamond /\ now \in SUBSET Diamond
    BY <1>1, <1>3, <1>4, <1>8, <1>9, <2>1
  <2>3. Cardinality(old) <= takes
    BY DEF WalkInv, FewSkipped
  <2> HIDE DEF old, now
  <2>4. Cardinality(now) <= Cardinality(old) + 1
    BY <2>2, Counts
  <2>5. Cardinality(now) \in Nat /\ Cardinality(old) \in Nat
    BY <2>2, Counts
  <2>6. takes' = takes + 1 /\ takes \in Nat
    BY <1>1, <1>2
  <2>7. Cardinality(now) <= takes'
    BY <2>3, <2>4, <2>5, <2>6
  <2> QED
    BY <2>7 DEF FewSkipped, now
<1>13. FewRepeated'
  <2> DEFINE late == (Seen \cap Found) \ Walked
             later == (Seen' \cap Found') \ Walked'
  <2>1. later \in SUBSET late /\ late \in SUBSET Diamond
    BY <1>3, <1>4, <1>7, <1>8
  <2>2. (Len(shown) - Cardinality(Seen)) + Cardinality(late) <= returns
    BY DEF WalkInv, FewRepeated
  <2> HIDE DEF late, later
  <2>3. Cardinality(later) <= Cardinality(late)
    BY <2>1, Counts
  <2>4. PICK s \in Nat : s = Cardinality(Seen)
    BY <1>8, Counts
  <2>5. PICK x \in Nat : x = Cardinality(late)
    BY <2>1, Counts
  <2>6. PICK y \in Nat : y = Cardinality(later)
    <3>1. later \in SUBSET Diamond
      BY <2>1
    <3> QED
      BY <3>1, Counts
  <2>7. PICK r \in Nat : r = returns
    BY <1>2
  <2>8. PICK n \in Nat : n = Len(shown)
    BY <1>2, ElementsArePlaced
  <2>9. (n - s) + y <= r
    BY <2>2, <2>3, <2>4, <2>5, <2>6, <2>7, <2>8
  <2>10. Len(shown') = n /\ Cardinality(Seen') = s /\ returns' = r
    BY <1>1, <1>8, <2>4, <2>7, <2>8
  <2> QED
    BY <2>6, <2>9, <2>10 DEF FewRepeated, later
<1>14. ShownAsListed'
  <2>1. ~(takes' = 0 /\ returns' = 0)
    BY <1>0
  <2> QED
    BY <2>1 DEF ShownAsListed
<1> QED
  BY <1>10, <1>11, <1>12, <1>13, <1>14 DEF WalkInv

(* A stone comes back: what is behind it moves on, and one that was shown  *)
(* may move behind the pages shown.                                        *)
LEMMA ReturnKeeps ==
  ASSUME WalkInv, NEW d \in Diamond, Return(d)
  PROVE  WalkInv'
<1>0. /\ takes \in Nat /\ returns \in Nat
      /\ returns' = returns + 1 /\ takes' = takes
  BY DEF Return, WalkInv, TypeOK
<1>1. /\ UNCHANGED <<filter, limit, page, shown, total, takes>>
      /\ status' = [status EXCEPT ![d] = "In Stock"] /\ status[d] = "Reserved"
      /\ moved' = moved \cup {d} /\ returns' = returns + 1 /\ ~Ended
  BY DEF Return
<1>2. /\ status \in [Diamond -> {"In Stock", "Reserved"}]
      /\ page \in Nat /\ limit \in PageSize /\ shown \in Seq(Diamond)
      /\ moved \in SUBSET Diamond /\ takes \in Nat /\ returns \in Nat
  BY DEF WalkInv, TypeOK
<1>3. d \notin Found /\ (Found' = Found \/ Found' = Found \cup {d})
  <2>1. \A e \in Diamond : status'[e] = IF e = d THEN "In Stock" ELSE status[e]
    BY <1>1, <1>2
  <2> QED
    BY <1>1, <2>1 DEF Found, InStock
<1>4. Found \in SUBSET Diamond /\ Walked \in SUBSET Found
  BY FoundAndWalked
<1>5. PICK b \in Nat : b = page * limit /\ b = page' * limit'
  <2>1. limit \in Nat
    BY <1>2, PageAssumption
  <2> QED
    BY <1>1, <1>2, <2>1, PagesFollow
<1>6. Walked = FirstOf(Found, b) /\ Walked' = FirstOf(Found', b)
  BY <1>5 DEF Walked
<1>7. /\ Walked' \subseteq Walked \cup {d}
      /\ d \notin Walked' => Walked \subseteq Walked'
      /\ \E z : Walked \subseteq Walked' \cup {z}
  <2>1. CASE Found' = Found
    <3>1. Walked' = Walked
      BY <1>6, <2>1
    <3> QED
      BY <3>1
  <2>2. CASE Found' = Found \cup {d}
    <3>1. PICK F \in SUBSET Diamond : F = Found
      BY <1>4
    <3>2. d \in Diamond \ F /\ F \cup {d} = Found'
      BY <1>3, <2>2, <3>1
    <3>3. /\ FirstOf(F \cup {d}, b) \subseteq FirstOf(F, b) \cup {d}
          /\ d \notin FirstOf(F \cup {d}, b) => FirstOf(F, b) \subseteq FirstOf(F \cup {d}, b)
          /\ \E z : FirstOf(F, b) \subseteq FirstOf(F \cup {d}, b) \cup {z}
      BY <3>2, OneMore
    <3> QED
      BY <1>6, <3>1, <3>2, <3>3
  <2> QED
    BY <1>3, <2>1, <2>2
<1>8. Seen' = Seen /\ Seen \in SUBSET Diamond
  BY <1>1, <1>2, ElementsArePlaced DEF Seen
<1>9. Walked' \in SUBSET Found' /\ Found' \in SUBSET Diamond
  BY <1>3, <1>4, <1>6 DEF FirstOf
<1>10. TypeOK'
  <2>1. status' \in [Diamond -> {"In Stock", "Reserved"}] /\ moved' \subseteq Diamond
    BY <1>1, <1>2
  <2>2. takes' \in Nat /\ returns' \in Nat
    BY <1>0
  <2>3. filter \in Filter /\ total \in 0 .. Len(Inventory)
    BY DEF WalkInv, TypeOK
  <2> QED
    BY <1>1, <1>2, <2>1, <2>2, <2>3 DEF TypeOK
<1>11. EndsAtTheEnd'
  BY <1>1 DEF EndsAtTheEnd, Ended
<1>12. FewSkipped'
  <2> DEFINE old == Walked \ (Seen \cup moved)
             now == Walked' \ (Seen' \cup moved')
  <2>1. now \in SUBSET old /\ old \in SUBSET Diamond
    BY <1>1, <1>4, <1>7, <1>8
  <2>2. Cardinality(old) <= takes
    BY DEF WalkInv, FewSkipped
  <2> HIDE DEF old, now
  <2>3. Cardinality(now) <= Cardinality(old) /\ Cardinality(old) \in Nat
    BY <2>1, Counts
  <2>4. Cardinality(now) \in Nat
    <3>1. now \in SUBSET Diamond
      BY <2>1
    <3> QED
      BY <3>1, Counts
  <2>5. takes' = takes /\ takes \in Nat
    BY <1>1, <1>2
  <2>6. Cardinality(now) <= takes'
    BY <2>2, <2>3, <2>4, <2>5
  <2> QED
    BY <2>6 DEF FewSkipped, now
<1>13. FewRepeated'
  <2> DEFINE late == (Seen \cap Found) \ Walked
             later == (Seen' \cap Found') \ Walked'
  <2>1. \E z : later \subseteq late \cup {z}
    <3>1. CASE d \in Walked'
      <4>1. PICK z : Walked \subseteq Walked' \cup {z}
        BY <1>7
      <4>2. later \subseteq late \cup {z}
        BY <1>3, <1>8, <3>1, <4>1
      <4> QED
        BY <4>2
    <3>2. CASE d \notin Walked'
      <4>1. later \subseteq late \cup {d}
        BY <1>3, <1>7, <1>8, <3>2
      <4> QED
        BY <4>1
    <3> QED
      BY <3>1, <3>2
  <2>2. late \in SUBSET Diamond /\ later \in SUBSET Diamond
    BY <1>4, <1>9
  <2>3. (Len(shown) - Cardinality(Seen)) + Cardinality(late) <= returns
    BY DEF WalkInv, FewRepeated
  <2> HIDE DEF late, later
  <2>4. Cardinality(later) <= Cardinality(late) + 1
    BY <2>1, <2>2, Counts
  <2>5. PICK s \in Nat : s = Cardinality(Seen)
    BY <1>8, Counts
  <2>6. PICK x \in Nat : x = Cardinality(late)
    BY <2>2, Counts
  <2>7. PICK y \in Nat : y = Cardinality(later)
    BY <2>2, Counts
  <2>8. PICK r \in Nat : r = returns
    BY <1>2
  <2>9. PICK n \in Nat : n = Len(shown)
    BY <1>2, ElementsArePlaced
  <2>10. returns' = r + 1
    BY <1>1, <2>8
  <2>11. (n - s) + y <= r + 1
    <3>1. (n - s) + x <= r
      BY <2>3, <2>5, <2>6, <2>8, <2>9
    <3>2. y <= x + 1
      BY <2>4, <2>6, <2>7
    <3> QED
      BY <3>1, <3>2
  <2>12. Len(shown') = n /\ Cardinality(Seen') = s
    BY <1>1, <1>8, <2>5, <2>9
  <2> QED
    BY <2>7, <2>10, <2>11, <2>12 DEF FewRepeated, later
<1>14. ShownAsListed'
  <2>1. ~(takes' = 0 /\ returns' = 0)
    BY <1>0
  <2> QED
    BY <2>1 DEF ShownAsListed
<1> QED
  BY <1>10, <1>11, <1>12, <1>13, <1>14 DEF WalkInv

(* A walk, the first or another one, that has shown nothing.               *)
Begins ==
  /\ status \in [Diamond -> {"In Stock", "Reserved"}] /\ filter \in Filter /\ limit \in PageSize
  /\ page = 0 /\ shown = <<>> /\ total = 0
  /\ moved = {} /\ takes = 0 /\ returns = 0

(* The invariant holds when a walk begins.                                 *)
LEMMA WalksBegin == Begins => WalkInv
<1> SUFFICES ASSUME Begins PROVE WalkInv
  OBVIOUS
<1>1. limit \in Nat /\ page * limit = 0
  BY PageAssumption, PagesFollow DEF Begins
<1>2. Found \in SUBSET Diamond /\ Cardinality(Found) \in 0 .. Len(Inventory)
  BY FoundAndWalked
<1>3. Walked = {}
  BY <1>1, <1>2, FirstAndAll DEF Walked
<1>4. Seen = {} /\ Len(shown) = 0 /\ shown \in Seq(Diamond)
  <2>1. shown = <<>>
    BY Zenon DEF Begins
  <2>2. Len(<<>>) = 0 /\ <<>> \in Seq(Diamond) /\ DOMAIN <<>> = {}
    OBVIOUS
  <2>3. ToSet(<<>>) = {}
    BY <2>2 DEF ToSet
  <2> QED
    BY <2>1, <2>2, <2>3 DEF Seen
<1>5. TypeOK
  <2>1. 0 \in 0 .. Len(Inventory)
    BY InventoryAssumption
  <2>2. page \in Nat /\ total \in 0 .. Len(Inventory)
    <3>1. page = 0 /\ total = 0
      BY Zenon DEF Begins
    <3> QED
      BY <2>1, <3>1
  <2> QED
    BY <1>4, <2>2 DEF Begins, TypeOK
<1>6. EndsAtTheEnd
  <2>1. page = 0
    BY Zenon DEF Begins
  <2>2. ~(page > 0)
    BY <2>1
  <2> QED
    BY <2>2 DEF EndsAtTheEnd, Ended
<1>7. Cardinality({}) = 0
  BY FS_EmptySet
<1>8. takes = 0 /\ returns = 0
  BY DEF Begins
<1>9. FewSkipped
  <2>1. Walked \ (Seen \cup moved) = {}
    BY <1>3
  <2>2. Cardinality(Walked \ (Seen \cup moved)) <= takes
    BY <1>7, <1>8, <2>1
  <2> QED
    BY <2>2 DEF FewSkipped
<1>10. FewRepeated
  <2>1. (Seen \cap Found) \ Walked = {}
    BY <1>4
  <2>2. (Len(shown) - Cardinality(Seen)) + Cardinality((Seen \cap Found) \ Walked)
          <= returns
    BY <1>4, <1>7, <1>8, <2>1
  <2> QED
    BY <2>2 DEF FewRepeated
<1>11. ShownAsListed
  BY <1>3, <1>4 DEF ShownAsListed
<1> QED
  BY <1>5, <1>6, <1>9, <1>10, <1>11 DEF WalkInv

(* ... so asking for something else keeps it.                              *)
LEMMA SearchAgainKeeps ==
  ASSUME WalkInv, SearchAgain
  PROVE  WalkInv'
<1>1. Begins'
  BY DEF SearchAgain, WalkInv, TypeOK, Begins
<1>2. Begins' => WalkInv'
  BY WalksBegin, PTL
<1> QED
  BY <1>1, <1>2

(* Every step keeps the invariant.                                         *)
LEMMA WalkStep == WalkInv /\ [Next]_vars => WalkInv'
<1>1. WalkInv /\ UNCHANGED vars => WalkInv'
  BY DEF vars, WalkInv, TypeOK, EndsAtTheEnd, Ended, FewSkipped, FewRepeated, ShownAsListed,
     Found, InStock, Walked, Seen
<1> QED
  BY <1>1, NextPageKeeps, SearchAgainKeeps, TakeKeeps, ReturnKeeps DEF Next

(* WalkInv holds.                                                          *)
THEOREM WalkSafety == Spec => []WalkInv
<1>1. Init => WalkInv
  BY WalksBegin DEF Init, Begins
<1> QED
  BY <1>1, WalkStep, PTL DEF Spec

-----------------------------------------------------------------------------
(* Types: what is shown are diamonds, and no total exceeds the inventory.  *)
THEOREM WalkTypes == Spec => []TypeOK
<1>1. WalkInv => TypeOK
  BY DEF WalkInv
<1> QED
  BY <1>1, WalkSafety, PTL

(* What matches is what the filters let through.                           *)
LEMMA MatchingIsFound == TypeOK => Matching = Found
  BY PassesWhatMatches DEF TypeOK, Matching, Found, InStock

(* At the end, everything that matches is on the pages shown.              *)
LEMMA AllIsWalked == WalkInv /\ Ended => Walked = Found
<1> SUFFICES ASSUME WalkInv, Ended PROVE Walked = Found
  OBVIOUS
<1>1. page \in Nat /\ limit \in Nat
  BY PageAssumption DEF WalkInv, TypeOK
<1>2. PICK b \in Nat : b = page * limit
  BY <1>1, PagesFollow
<1>3. Cardinality(Found) = total /\ b >= total /\ total \in Nat
  BY <1>2, FoundAndWalked DEF WalkInv, EndsAtTheEnd, Ended
<1>4. Found \in SUBSET Diamond
  BY FoundAndWalked
<1>5. Cardinality(Found) <= b
  BY <1>3
<1> QED
  BY <1>2, <1>4, <1>5, FirstAndAll DEF Walked

(* However often stones are taken and put back, a walk misses at most one  *)
(* of those that stayed for each time one was taken during it.             *)
THEOREM FewAreSkipped == Spec => []SkipsAtMostWhatWasTaken
<1>1. WalkInv => SkipsAtMostWhatWasTaken
  BY MatchingIsFound, AllIsWalked DEF WalkInv, FewSkipped, SkipsAtMostWhatWasTaken
<1> QED
  BY <1>1, WalkSafety, PTL

(* It shows a stone again at most once for each time one was put back.     *)
THEOREM FewAreRepeated == Spec => []RepeatsAtMostWhatReturned
<1>1. WalkInv => RepeatsAtMostWhatReturned
  <2> SUFFICES ASSUME WalkInv PROVE RepeatsAtMostWhatReturned
    OBVIOUS
  <2>1. shown \in Seq(Diamond) /\ returns \in Nat
    BY DEF WalkInv, TypeOK
  <2>2. Seen \in SUBSET Diamond /\ Len(shown) \in Nat
    BY <2>1, ElementsArePlaced DEF Seen
  <2>3. PICK n \in Nat : n = Len(shown)
    BY <2>2
  <2>4. PICK s \in Nat : s = Cardinality(Seen)
    BY <2>2, Counts
  <2>5. PICK r \in Nat : r = returns
    BY <2>1
  <2>6. PICK x \in Nat : x = Cardinality((Seen \cap Found) \ Walked)
    <3>1. (Seen \cap Found) \ Walked \in SUBSET Diamond
      BY <2>2
    <3> QED
      BY <3>1, Counts
  <2>7. (n - s) + x <= r
    BY <2>3, <2>4, <2>5, <2>6 DEF WalkInv, FewRepeated
  <2>8. n - s <= r
    BY <2>7
  <2> QED
    BY <2>3, <2>4, <2>5, <2>8 DEF RepeatsAtMostWhatReturned
<1> QED
  BY <1>1, WalkSafety, PTL

(* When nothing moves, it shows what matches, each stone once and the      *)
(* cheapest first.                                                         *)
THEOREM WalksAreExact == Spec => []UndisturbedWalksAreExact
<1>1. WalkInv => UndisturbedWalksAreExact
  <2> SUFFICES ASSUME WalkInv, takes = 0, returns = 0
               PROVE  /\ Seen \subseteq Matching /\ Cardinality(Seen) = Len(shown)
                      /\ \A i, j \in DOMAIN shown :
                           i < j => Price[shown[i]] <= Price[shown[j]]
                      /\ \A d \in Seen, e \in Matching \ Seen : Price[d] <= Price[e]
                      /\ Ended => Seen = Matching
    BY DEF UndisturbedWalksAreExact
  <2>1. shown \in Seq(Diamond) /\ Matching = Found
    BY MatchingIsFound DEF WalkInv, TypeOK
  <2>2. Found \in SUBSET Diamond /\ Walked \in SUBSET Found
    BY FoundAndWalked
  <2>3. /\ Seen = Walked
        /\ \A i, j \in 1 .. Len(shown) : i < j => Price[shown[i]] <= Price[shown[j]]
    BY DEF WalkInv, ShownAsListed
  <2>4. Cardinality(Seen) = Len(shown)
    <3>1. Cardinality(Seen) <= Len(shown) /\ Len(shown) \in Nat
      BY <2>1, ElementsArePlaced DEF Seen
    <3>2. Cardinality({}) = 0
      BY FS_EmptySet
    <3>3. (Seen \cap Found) \ Walked = {}
      BY <2>3
    <3>4. (Len(shown) - Cardinality(Seen)) + 0 <= 0
      BY <3>2, <3>3 DEF WalkInv, FewRepeated
    <3>5. Cardinality(Seen) \in Nat
      BY <2>2, <2>3, Counts
    <3> QED
      BY <3>1, <3>4, <3>5
  <2>5. DOMAIN shown = 1 .. Len(shown)
    BY <2>1
  <2>6. ASSUME NEW d \in Seen, NEW e \in Matching \ Seen
        PROVE  Price[d] <= Price[e]
    <3>1. PICK b : b = page * limit
      OBVIOUS
    <3>2. d \in FirstOf(Found, b) /\ e \in Found /\ e \notin FirstOf(Found, b)
      BY <2>1, <2>3, <3>1 DEF Walked
    <3>3. PICK F \in SUBSET Diamond : F = Found
      BY <2>2
    <3>4. d \in F /\ e \in F /\ Cardinality(Ahead(F, d)) < b /\ ~(Cardinality(Ahead(F, e)) < b)
      BY <3>2, <3>3 DEF FirstOf
    <3>5. b \in Nat
      BY <3>1, PageAssumption, PagesFollow DEF WalkInv, TypeOK
    <3>6. Cardinality(Ahead(F, d)) \in Nat /\ Cardinality(Ahead(F, e)) \in Nat
      BY <3>4, AheadIsCounted
    <3>7. Cardinality(Ahead(F, d)) < Cardinality(Ahead(F, e))
      BY <3>4, <3>5, <3>6
    <3> QED
      BY <3>4, <3>7, AheadGrows, BeforeIsAnOrder
  <2>7. Ended => Seen = Matching
    BY <2>1, <2>3, AllIsWalked
  <2> QED
    BY <2>1, <2>2, <2>3, <2>4, <2>5, <2>6, <2>7
<1> QED
  BY <1>1, WalkSafety, PTL
=============================================================================
