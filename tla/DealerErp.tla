------------------------------ MODULE DealerErp ------------------------------
(***************************************************************************)
(* The dealer's inventory system, as apps/erp-mock implements it           *)
(* (InventoryService): the stock status of each diamond, the map of open   *)
(* holds, the map of orders, and the one counter all references are drawn  *)
(* from.  Requests are handled one at a time: every method is synchronous, *)
(* so a handler is one atomic step.                                        *)
(*                                                                         *)
(* A hold record keeps its expiry date, but nothing in the service reads   *)
(* it: there is no step that ends a hold by itself.                        *)
(*                                                                         *)
(* Data left out: prices, totals, dates, contact details.  The customer a  *)
(* hold or order is made for is one value of Customer; the diamonds and    *)
(* the customer of an order are kept here although the service keeps only  *)
(* the total (they are what the properties speak of).  What callers pass   *)
(* is not restricted: a release may pair any diamond with any open hold.   *)
(* crossed, which no guard reads, remembers the diamonds so named.         *)
(***************************************************************************)
EXTENDS Naturals

CONSTANTS
  Diamond,       \* the stock numbers in data/diamonds.json
  Customer,      \* the customers holds and orders are made for
  Fixture,       \* the stock status of each diamond in data/diamonds.json
  MaxSequence    \* bound: no reference is drawn at or beyond this value

StockStatus == {"In Stock", "Reserved", "Sold", "On Memo"}

ASSUME FixtureAssumption == Fixture \in [Diamond -> StockStatus]
ASSUME MaxSequenceAssumption == MaxSequence \in Nat

VARIABLES
  stock,         \* diamonds.get(id).stock_status
  holds,         \* the hold map: records [id, diamond, by]
  orders,        \* the order map: records [id, diamonds, by]
  sequence,      \* the next reference number (10000 in the code, 0 here)
  crossed        \* observer: the diamonds released with the hold of another one

erpVars == <<stock, holds, orders, sequence, crossed>>

HoldRecord  == [id: Nat, diamond: Diamond, by: Customer]
OrderRecord == [id: Nat, diamonds: SUBSET Diamond, by: Customer]

ErpTypeOK ==
  /\ stock \in [Diamond -> StockStatus]
  /\ holds \subseteq HoldRecord
  /\ orders \subseteq OrderRecord
  /\ sequence \in Nat
  /\ crossed \subseteq Diamond

ErpInit ==
  /\ stock = Fixture
  /\ holds = {}
  /\ orders = {}
  /\ sequence = 0
  /\ crossed = {}

-----------------------------------------------------------------------------
(* The handlers.  Can...(...) is the condition under which one succeeds;   *)
(* when it does not hold the service throws, the answer is 404 or 409, and *)
(* nothing changes.                                                        *)

(* Mutant: a diamond that is not sold can be held.                         *)
CanHoldUnlessSold(d) == stock[d] # "Sold"

CanHold(d) == stock[d] = "In Stock"

(* Mutant: the hold takes the counter's value without advancing it.        *)
HoldReusesReference(d, c) ==
  /\ CanHold(d)
  /\ stock' = [stock EXCEPT ![d] = "Reserved"]
  /\ holds' = holds \cup {[id |-> sequence, diamond |-> d, by |-> c]}
  /\ UNCHANGED <<orders, sequence, crossed>>

Hold(d, c) ==
  /\ CanHold(d)
  /\ stock' = [stock EXCEPT ![d] = "Reserved"]
  /\ holds' = holds \cup {[id |-> sequence, diamond |-> d, by |-> c]}
  /\ sequence' = sequence + 1
  /\ UNCHANGED <<orders, crossed>>

(* release(diamondId, holdId) looks the hold up by its number alone and    *)
(* puts the named diamond back in stock: nothing compares the two.         *)
CanRelease(n) == \E h \in holds : h.id = n

(* Mutant: what is ended is the hold on the diamond, not the numbered one. *)
ReleaseByDiamond(d, n) ==
  /\ holds' = {h \in holds : h.diamond # d}
  /\ stock' = [stock EXCEPT ![d] = "In Stock"]
  /\ UNCHANGED <<orders, sequence, crossed>>

Release(d, n) ==
  /\ CanRelease(n)
  /\ holds' = {h \in holds : h.id # n}
  /\ stock' = [stock EXCEPT ![d] = "In Stock"]
  /\ crossed' = IF \E h \in holds : h.id = n /\ h.diamond # d THEN crossed \cup {d} ELSE crossed
  /\ UNCHANGED <<orders, sequence>>

(* quote(...) draws a reference and looks at no status at all.             *)
Quote ==
  /\ sequence' = sequence + 1
  /\ UNCHANGED <<stock, holds, orders, crossed>>

(* "heldForThisCustomer": any open hold on the diamond, whoever made it.   *)
Held(d) == \E h \in holds : h.diamond = d

(* Mutant: only sold diamonds are rejected, not those reserved elsewhere.  *)
CanOrderUnsold(ds) == \A d \in ds : stock[d] # "Sold"

CanOrder(ds) ==
  \A d \in ds : /\ stock[d] # "Sold"
                /\ stock[d] = "In Stock" \/ Held(d)

(* Mutant: the order status is written over the stock status.              *)
OrderWritesItsStatus(ds, c) ==
  /\ CanOrder(ds)
  /\ stock' = [d \in Diamond |-> IF d \in ds THEN "Confirmed" ELSE stock[d]]
  /\ holds' = {h \in holds : h.diamond \notin ds}
  /\ orders' = orders \cup {[id |-> sequence, diamonds |-> ds, by |-> c]}
  /\ sequence' = sequence + 2
  /\ UNCHANGED crossed

(* Mutant: the holds on the ordered diamonds are kept.                     *)
OrderKeepsHolds(ds, c) ==
  /\ CanOrder(ds)
  /\ stock' = [d \in Diamond |-> IF d \in ds THEN "Sold" ELSE stock[d]]
  /\ orders' = orders \cup {[id |-> sequence, diamonds |-> ds, by |-> c]}
  /\ sequence' = sequence + 2
  /\ UNCHANGED <<holds, crossed>>

(* order(...) draws two references: the order and the tracking number.     *)
Order(ds, c) ==
  /\ CanOrder(ds)
  /\ stock' = [d \in Diamond |-> IF d \in ds THEN "Sold" ELSE stock[d]]
  /\ holds' = {h \in holds : h.diamond \notin ds}
  /\ orders' = orders \cup {[id |-> sequence, diamonds |-> ds, by |-> c]}
  /\ sequence' = sequence + 2
  /\ UNCHANGED crossed

(* POST /api/_test/reset.                                                  *)
Load ==
  /\ stock' = Fixture
  /\ holds' = {}
  /\ orders' = {}
  /\ crossed' = {}
  /\ UNCHANGED sequence

(* A restart of the process: the in-memory copy and the counter are gone.  *)
Restart ==
  /\ stock' = Fixture
  /\ holds' = {}
  /\ orders' = {}
  /\ sequence' = 0
  /\ crossed' = {}

-----------------------------------------------------------------------------
Baskets == (SUBSET Diamond) \ {{}}    \* @ArrayMinSize(1)

TradeStep ==
  /\ sequence < MaxSequence
  /\ \/ \E d \in Diamond, c \in Customer : Hold(d, c)
     \/ Quote
     \/ \E ds \in Baskets, c \in Customer : Order(ds, c)

ErpNext ==
  \/ TradeStep
  \/ \E d \in Diamond, h \in holds : Release(d, h.id)
  \/ Load
  \/ Restart

ErpSpec == ErpInit /\ [][ErpNext]_erpVars

-----------------------------------------------------------------------------
(* References are drawn once: hold and order numbers are distinct and      *)
(* below the counter.                                                      *)
ReferencesDrawnOnce ==
  /\ \A h \in holds : h.id < sequence
  /\ \A o \in orders : o.id < sequence
  /\ \A g, h \in holds : g.id = h.id => g = h
  /\ \A o, p \in orders : o.id = p.id => o = p
  /\ \A h \in holds, o \in orders : h.id # o.id

(* The hold map and the stock statuses agree: an open hold is on a         *)
(* reserved diamond, and a diamond has at most one open hold.  Releasing a *)
(* hold in the name of another diamond breaks this, and it breaks it for   *)
(* no diamond but the one that was named: not for the one that was held,   *)
(* and not for any that is held or ordered later.                          *)
HoldsReserveTheirDiamond ==
  \A h \in holds : h.diamond \notin crossed =>
    /\ stock[h.diamond] = "Reserved"
    /\ \A g \in holds : g.diamond = h.diamond => g = h

(* A diamond is sold once: it belongs to at most one order, and an ordered *)
(* diamond has status Sold (inventory.service.ts, order: the whole order   *)
(* is rejected if any stone has gone), unless a release has put just that  *)
(* diamond back in stock under another one's hold.                         *)
SoldOnce ==
  /\ \A o \in orders : \A d \in o.diamonds \ crossed : stock[d] = "Sold"
  /\ \A o, p \in orders : o = p \/ o.diamonds \cap p.diamonds \subseteq crossed

ErpInv == ErpTypeOK /\ ReferencesDrawnOnce /\ HoldsReserveTheirDiamond /\ SoldOnce

(* The service implements the ledger: hold map, order map and stock        *)
(* statuses move together as one cell per diamond, until the diamond is    *)
(* released under another one's hold and no longer accounted for.          *)
Refs(d) == {h.id : h \in {g \in holds : g.diamond = d}}
             \cup {o.id : o \in {p \in orders : d \in p.diamonds}}

Cell(d) == IF d \in crossed THEN [status |-> "Unaccounted", refs |-> {}]
                            ELSE [status |-> stock[d], refs |-> Refs(d)]

Ledger == INSTANCE DiamondLedger WITH
            Reference <- 0 .. MaxSequence,
            cell <- [d \in Diamond |-> Cell(d)]

(* Every step of the service is a step of the ledger, whatever callers     *)
(* pass to it.                                                             *)
ImplementsLedger == Ledger!Spec
=============================================================================
