--------------------------- MODULE InventorySearch ---------------------------
(***************************************************************************)
(* Browsing: InventoryService.search as the search_diamonds tool calls it, *)
(* and a customer who looks at one page after another while other          *)
(* customers take stones off the list and put them back.                   *)
(*                                                                         *)
(* The exact-match filters (shape, cut, diamond_type) are one, kind, and   *)
(* the two number ranges (carat, price) are one, price.  The customer asks *)
(* the ERP for each page; the cache of pages is CatalogCache's subject.    *)
(***************************************************************************)
EXTENDS Integers, FiniteSets, SequencesExt

CONSTANTS
  Inventory,    \* the diamonds in the order of the fixture
  Kind,         \* of each diamond
  Price,
  Color,
  Clarity,
  Filter,       \* the filters a customer may ask for
  PageSize,     \* the page sizes the tool may ask for
  NotGiven,     \* a filter that is not given
  MaxMoves      \* bound: how often stones are taken, and put back, during a walk

Diamond == ToSet(Inventory)

ASSUME InventoryAssumption ==
  Inventory \in Seq(Diamond) /\ Cardinality(Diamond) = Len(Inventory)
ASSUME PriceAssumption ==
  /\ Price \in [Diamond -> Int]
  /\ \A f \in Filter : f.price_min \in Int /\ f.price_max \in Int
ASSUME PageAssumption == PageSize \subseteq Nat \ {0} /\ MaxMoves \in Nat

VARIABLES
  status,    \* stock_status
  filter,    \* what the customer is looking for
  limit,     \* the page size
  page,      \* the last page shown, 0 before the first
  shown,     \* the diamonds shown so far, page after page
  total,     \* total_results of the last page
  moved,     \* the stones that have left the stock or come back during the walk,
  takes,     \* how often one has left
  returns    \* and how often one has come back

vars == <<status, filter, limit, page, shown, total, moved, takes, returns>>

InStock == {d \in Diamond : status[d] = "In Stock"}

TypeOK ==
  /\ status \in [Diamond -> {"In Stock", "Reserved"}]
  /\ filter \in Filter
  /\ limit \in PageSize
  /\ page \in Nat
  /\ shown \in Seq(Diamond)
  /\ total \in 0 .. Len(Inventory)
  /\ moved \subseteq Diamond
  /\ takes \in Nat /\ returns \in Nat

Init ==
  /\ status \in [Diamond -> {"In Stock", "Reserved"}]
  /\ filter \in Filter
  /\ limit \in PageSize
  /\ page = 0
  /\ shown = <<>>
  /\ total = 0
  /\ moved = {} /\ takes = 0 /\ returns = 0

-----------------------------------------------------------------------------
(* search(...).                                                            *)

COLOR_SCALE == <<"D", "E", "F", "G", "H", "I", "J", "K", "L", "M">>
CLARITY_SCALE ==
  <<"FL", "IF", "VVS1", "VVS2", "VS1", "VS2", "SI1", "SI2", "I1", "I2", "I3">>

ASSUME NotGivenAssumption == NotGiven \notin ToSet(COLOR_SCALE) \cup ToSet(CLARITY_SCALE)

(* indexOf: counted from 0, and -1 for what is not on the scale.           *)
IndexOf(scale, grade) ==
  IF grade \in ToSet(scale) THEN (CHOOSE i \in DOMAIN scale : scale[i] = grade) - 1 ELSE -1

(* A bound that is not given, or is on no scale, does not filter.          *)
GradeIndex(scale, bound) == IF bound = NotGiven THEN -1 ELSE IndexOf(scale, bound)

(* Mutant: the best colour asked for is left out.                          *)
PassesStrictly(d, f) ==
  LET colorMin == GradeIndex(COLOR_SCALE, f.color_min)
      colorMax == GradeIndex(COLOR_SCALE, f.color_max)
      clarityMin == GradeIndex(CLARITY_SCALE, f.clarity_min)
  IN  /\ f.kind # NotGiven => Kind[d] = f.kind
      /\ f.price_min <= Price[d] /\ Price[d] <= f.price_max
      /\ colorMin >= 0 => IndexOf(COLOR_SCALE, Color[d]) > colorMin
      /\ colorMax >= 0 => IndexOf(COLOR_SCALE, Color[d]) <= colorMax
      /\ clarityMin >= 0 => IndexOf(CLARITY_SCALE, Clarity[d]) <= clarityMin

(* The chain of filters.                                                   *)
Passes(d, f) ==
  LET colorMin == GradeIndex(COLOR_SCALE, f.color_min)
      colorMax == GradeIndex(COLOR_SCALE, f.color_max)
      clarityMin == GradeIndex(CLARITY_SCALE, f.clarity_min)
  IN  /\ f.kind # NotGiven => Kind[d] = f.kind
      /\ f.price_min <= Price[d] /\ Price[d] <= f.price_max
      /\ colorMin >= 0 => IndexOf(COLOR_SCALE, Color[d]) >= colorMin
      /\ colorMax >= 0 => IndexOf(COLOR_SCALE, Color[d]) <= colorMax
      /\ clarityMin >= 0 => IndexOf(CLARITY_SCALE, Clarity[d]) <= clarityMin

(* sort() is stable: equal prices stay in the order of the inventory.      *)
Position(d) == CHOOSE i \in DOMAIN Inventory : Inventory[i] = d
Before(d, e) ==
  \/ Price[d] < Price[e]
  \/ Price[d] = Price[e] /\ Position(d) < Position(e)

(* What passes, sorted: the i-th has i - 1 others before it.               *)
Results(f) ==
  LET found == {d \in InStock : Passes(d, f)}
      Place(d) == Cardinality({e \in found : Before(e, d)}) + 1
  IN  [i \in 1 .. Cardinality(found) |-> CHOOSE d \in found : Place(d) = i]

(* Mutant: a page ends one diamond early.                                  *)
SliceShort(results, p) ==
  LET start == (p - 1) * limit
  IN  SubSeq(results, start + 1, IF p * limit > Len(results) THEN Len(results)
                                                           ELSE start + limit - 1)

(* Mutant: a page ends one diamond late.                                   *)
SliceLong(results, p) ==
  LET start == (p - 1) * limit
  IN  SubSeq(results, start + 1, IF start + limit + 1 > Len(results) THEN Len(results)
                                                                     ELSE start + limit + 1)

(* slice(start, start + limit).                                            *)
Slice(results, p) ==
  LET start == (p - 1) * limit
  IN  SubSeq(results, start + 1, IF start + limit > Len(results) THEN Len(results)
                                                                 ELSE start + limit)

-----------------------------------------------------------------------------
(* The last page shown was the last there is.                              *)
Ended == page > 0 /\ page * limit >= total

NextPage ==
  /\ ~Ended
  /\ LET results == Results(filter)
     IN  /\ shown' = shown \o Slice(results, page + 1)
         /\ total' = Len(results)
  /\ page' = page + 1
  /\ UNCHANGED <<status, filter, limit, moved, takes, returns>>

(* The customer asks for something else, or for the same from the start.   *)
SearchAgain ==
  /\ page > 0
  /\ filter' \in Filter /\ limit' \in PageSize
  /\ page' = 0 /\ shown' = <<>> /\ total' = 0
  /\ moved' = {} /\ takes' = 0 /\ returns' = 0
  /\ UNCHANGED status

(* Mutant: a status outside the agreed set.                                *)
TakeOnHold(d) ==
  /\ page > 0 /\ ~Ended
  /\ takes < MaxMoves
  /\ status[d] = "In Stock"
  /\ status' = [status EXCEPT ![d] = "On Hold"]
  /\ moved' = moved \cup {d} /\ takes' = takes + 1
  /\ UNCHANGED <<filter, limit, page, shown, total, returns>>

(* Another customer holds or buys a stone, which may have been held and    *)
(* released before.                                                        *)
Take(d) ==
  /\ page > 0 /\ ~Ended
  /\ takes < MaxMoves
  /\ status[d] = "In Stock"
  /\ status' = [status EXCEPT ![d] = "Reserved"]
  /\ moved' = moved \cup {d} /\ takes' = takes + 1
  /\ UNCHANGED <<filter, limit, page, shown, total, returns>>

(* A hold is released.                                                     *)
Return(d) ==
  /\ page > 0 /\ ~Ended
  /\ returns < MaxMoves
  /\ status[d] = "Reserved"
  /\ status' = [status EXCEPT ![d] = "In Stock"]
  /\ moved' = moved \cup {d} /\ returns' = returns + 1
  /\ UNCHANGED <<filter, limit, page, shown, total, takes>>

Next ==
  \/ NextPage
  \/ SearchAgain
  \/ \E d \in Diamond : Take(d) \/ Return(d)

Spec == Init /\ [][Next]_vars

-----------------------------------------------------------------------------
(* What a filter means, without indexes.  A grade on no scale is worse     *)
(* than none and better than none: it is under every upper bound and over  *)
(* no lower one.                                                           *)
Worse(scale, grade, bound) ==
  \E i, j \in DOMAIN scale : i < j /\ scale[i] = bound /\ scale[j] = grade

Matches(d, f) ==
  /\ f.kind \in {NotGiven, Kind[d]}
  /\ Price[d] \in f.price_min .. f.price_max
  /\ f.color_min \in ToSet(COLOR_SCALE) =>
       Color[d] = f.color_min \/ Worse(COLOR_SCALE, Color[d], f.color_min)
  /\ ~Worse(COLOR_SCALE, Color[d], f.color_max)
  /\ ~Worse(CLARITY_SCALE, Clarity[d], f.clarity_min)

Matching == {d \in InStock : Matches(d, filter)}
Seen == ToSet(shown)

(* While nobody takes or returns a stone, walking the pages shows exactly  *)
(* the stones in stock that match, each once and cheapest first, and never *)
(* a dearer one before a cheaper one of a later page.                      *)
UndisturbedWalksAreExact ==
  takes = 0 /\ returns = 0 =>
    /\ Seen \subseteq Matching /\ Cardinality(Seen) = Len(shown)
    /\ \A i, j \in DOMAIN shown : i < j => Price[shown[i]] <= Price[shown[j]]
    /\ \A d \in Seen, e \in Matching \ Seen : Price[d] <= Price[e]
    /\ Ended => Seen = Matching

(* Pages are cut from the list of the moment, so a stone that was in stock *)
(* all along can fall between two pages: at most one for each time one is  *)
(* taken, be it the same stone again after it came back.                   *)
SkipsAtMostWhatWasTaken ==
  Ended => Cardinality(Matching \ (Seen \cup moved)) <= takes

(* And a stone is shown again at most once for each time one is put back.  *)
RepeatsAtMostWhatReturned ==
  Len(shown) - Cardinality(Seen) <= returns
=============================================================================
