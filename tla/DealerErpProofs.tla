--------------------------- MODULE DealerErpProofs ---------------------------
(***************************************************************************)
(* Theorems of DealerErp, for every inventory, every set of customers and  *)
(* every bound:                                                            *)
(*                                                                         *)
(*   ErpTyping, ErpSafety   ErpInv is an invariant of the service          *)
(*   LedgerRefinement       the service implements DiamondLedger           *)
(*                                                                         *)
(* Nothing is assumed of what callers pass.  ErpInv is inductive as a      *)
(* whole and its parts are not: that a sold diamond stays sold needs every *)
(* hold to be on a reserved diamond, and that a released diamond had no    *)
(* other hold needs one hold per diamond.                                  *)
(***************************************************************************)
EXTENDS DealerErp, TLAPS

-----------------------------------------------------------------------------
(* Lemmas about the handlers, one per handler that changes the stock.      *)

(* A fresh process.                                                        *)
LEMMA InitInv == ErpInit => ErpInv
  BY FixtureAssumption
  DEF ErpInit, ErpInv, ErpTypeOK, ReferencesDrawnOnce, HoldsReserveTheirDiamond,
      SoldOnce

(* A hold keeps the invariant: the diamond it takes is in stock, so no     *)
(* hold and no order has it, and the number it draws is new.               *)
LEMMA HoldKeepsInv ==
  ASSUME ErpInv, NEW d \in Diamond, NEW c \in Customer, Hold(d, c)
  PROVE  ErpInv'
<1> DEFINE new == [id |-> sequence, diamond |-> d, by |-> c]
<1>0. /\ sequence \in Nat
      /\ sequence' = sequence + 1
      /\ orders' = orders /\ crossed' = crossed /\ crossed \subseteq Diamond
  BY DEF Hold, ErpInv, ErpTypeOK
<1>1. /\ stock[d] = "In Stock"
      /\ stock' = [stock EXCEPT ![d] = "Reserved"]
      /\ holds' = holds \cup {new}
  BY DEF Hold, CanHold
<1>2. new \in HoldRecord /\ new.id = sequence /\ new.diamond = d
  BY DEF ErpInv, ErpTypeOK, HoldRecord
<1> HIDE DEF new
<1>3. ErpTypeOK'
  <2>1. stock' \in [Diamond -> StockStatus]
    BY <1>1 DEF ErpInv, ErpTypeOK, StockStatus
  <2>2. holds' \subseteq HoldRecord
    BY <1>1, <1>2 DEF ErpInv, ErpTypeOK
  <2>3. orders' \subseteq OrderRecord
    BY <1>0 DEF ErpInv, ErpTypeOK
  <2>4. sequence' \in Nat
    BY <1>0
  <2> QED BY <1>0, <2>1, <2>2, <2>3, <2>4 DEF ErpTypeOK
<1>4. ReferencesDrawnOnce'
  <2>1. /\ \A h \in holds : h.id \in Nat /\ h.id < sequence
        /\ \A o \in orders : o.id \in Nat /\ o.id < sequence
        /\ sequence \in Nat
    BY DEF ErpInv, ErpTypeOK, ReferencesDrawnOnce, HoldRecord, OrderRecord
  <2>2. \A h \in holds' : h = new \/ h \in holds
    BY <1>1
  <2>3. \A h \in holds' : h.id < sequence'
    BY <1>0, <1>2, <2>1, <2>2
  <2>4. \A o \in orders' : o.id < sequence'
    BY <1>0, <2>1
  <2>5. \A g, h \in holds' : g.id = h.id => g = h
    BY <1>2, <2>1, <2>2 DEF ErpInv, ReferencesDrawnOnce
  <2>6. \A h \in holds', o \in orders' : h.id # o.id
    BY <1>0, <1>2, <2>1, <2>2 DEF ErpInv, ReferencesDrawnOnce
  <2> QED BY <1>0, <2>3, <2>4, <2>5, <2>6 DEF ErpInv, ReferencesDrawnOnce
<1>5. HoldsReserveTheirDiamond'
  BY <1>0, <1>1, <1>2 DEF ErpInv, ErpTypeOK, HoldsReserveTheirDiamond, HoldRecord
<1>6. SoldOnce'
  BY <1>0, <1>1 DEF ErpInv, ErpTypeOK, SoldOnce, OrderRecord
<1> QED BY <1>3, <1>4, <1>5, <1>6 DEF ErpInv

(* Releasing a hold keeps the invariant: nothing else had its diamond, and *)
(* a diamond named with the hold of another one is crossed.                *)
LEMMA ReleaseKeepsInv ==
  ASSUME ErpInv, NEW h \in holds, NEW d \in Diamond, Release(d, h.id)
  PROVE  ErpInv'
<1>1. /\ holds' = {g \in holds : g.id # h.id}
      /\ stock' = [stock EXCEPT ![d] = "In Stock"]
      /\ orders' = orders
      /\ sequence' = sequence
      /\ crossed \subseteq crossed' /\ crossed' \subseteq crossed \cup {d}
      /\ h.diamond # d => d \in crossed'
  BY DEF Release
<1>2. \A e \in Diamond : stock'[e] = IF e = d THEN "In Stock" ELSE stock[e]
  BY <1>1 DEF ErpInv, ErpTypeOK
<1>3. \/ d \in crossed'
      \/ /\ h.diamond = d /\ stock[d] = "Reserved"
         /\ \A g \in holds : g.diamond = d => g = h
  BY <1>1 DEF ErpInv, HoldsReserveTheirDiamond
<1>4. ErpTypeOK'
  BY <1>1 DEF ErpInv, ErpTypeOK, StockStatus
<1>5. ReferencesDrawnOnce'
  BY <1>1 DEF ErpInv, ReferencesDrawnOnce
<1>6. HoldsReserveTheirDiamond'
  <2> SUFFICES ASSUME NEW g \in holds', g.diamond \notin crossed'
               PROVE  stock'[g.diamond] = "Reserved"
                      /\ \A f \in holds' : f.diamond = g.diamond => f = g
    BY DEF HoldsReserveTheirDiamond
  <2>1. g \in holds /\ g # h /\ g.diamond \notin crossed /\ g.diamond \in Diamond
    BY <1>1 DEF ErpInv, ErpTypeOK, HoldRecord
  <2>2. g.diamond # d
    BY <1>3, <2>1
  <2>3. stock[g.diamond] = "Reserved" /\ \A f \in holds : f.diamond = g.diamond => f = g
    BY <2>1 DEF ErpInv, HoldsReserveTheirDiamond
  <2> QED
    BY <1>1, <1>2, <2>1, <2>2, <2>3
<1>7. SoldOnce'
  <2>1. ASSUME NEW o \in orders, NEW e \in o.diamonds \ crossed'
        PROVE  stock'[e] = "Sold"
    <3>1. e \in Diamond /\ e \notin crossed /\ stock[e] = "Sold"
      BY <1>1, <2>1 DEF ErpInv, ErpTypeOK, OrderRecord, SoldOnce
    <3>2. e # d
      BY <1>3, <2>1, <3>1
    <3> QED
      BY <1>2, <3>1, <3>2
  <2> QED
    BY <1>1, <2>1 DEF ErpInv, SoldOnce
<1> QED BY <1>4, <1>5, <1>6, <1>7 DEF ErpInv

(* An order keeps the invariant: none of its diamonds was in an order.     *)
LEMMA OrderKeepsInv ==
  ASSUME ErpInv, NEW ds \in SUBSET Diamond, NEW c \in Customer, Order(ds, c)
  PROVE  ErpInv'
<1> DEFINE new == [id |-> sequence, diamonds |-> ds, by |-> c]
<1>0. /\ sequence \in Nat
      /\ sequence' = sequence + 2
      /\ crossed' = crossed /\ crossed \subseteq Diamond
  BY DEF Order, ErpInv, ErpTypeOK
<1>1. /\ \A d \in ds : stock[d] # "Sold"
      /\ stock' = [d \in Diamond |-> IF d \in ds THEN "Sold" ELSE stock[d]]
      /\ holds' = {h \in holds : h.diamond \notin ds}
      /\ orders' = orders \cup {new}
  BY DEF Order, CanOrder
<1>2. new \in OrderRecord /\ new.id = sequence /\ new.diamonds = ds
  BY DEF ErpInv, ErpTypeOK, OrderRecord
<1> HIDE DEF new
<1>3. \A o \in orders : o.diamonds \cap ds \subseteq crossed
  BY <1>1 DEF ErpInv, SoldOnce
<1>4. ErpTypeOK'
  <2>1. stock' \in [Diamond -> StockStatus]
    BY <1>1 DEF ErpInv, ErpTypeOK, StockStatus
  <2>2. holds' \subseteq HoldRecord
    BY <1>1 DEF ErpInv, ErpTypeOK
  <2>3. orders' \subseteq OrderRecord
    BY <1>1, <1>2 DEF ErpInv, ErpTypeOK
  <2>4. sequence' \in Nat
    BY <1>0
  <2> QED BY <1>0, <2>1, <2>2, <2>3, <2>4 DEF ErpTypeOK
<1>5. ReferencesDrawnOnce'
  <2>1. /\ \A h \in holds : h.id \in Nat /\ h.id < sequence
        /\ \A o \in orders : o.id \in Nat /\ o.id < sequence
        /\ sequence \in Nat
    BY DEF ErpInv, ErpTypeOK, ReferencesDrawnOnce, HoldRecord, OrderRecord
  <2>2. /\ \A h \in holds' : h \in holds
        /\ \A o \in orders' : o = new \/ o \in orders
    BY <1>1
  <2>3. \A h \in holds' : h.id < sequence'
    BY <1>0, <2>1, <2>2
  <2>4. \A o \in orders' : o.id < sequence'
    BY <1>0, <1>2, <2>1, <2>2
  <2>5. \A g, h \in holds' : g.id = h.id => g = h
    BY <2>2 DEF ErpInv, ReferencesDrawnOnce
  <2>6. \A o, p \in orders' : o.id = p.id => o = p
    BY <1>2, <2>1, <2>2 DEF ErpInv, ReferencesDrawnOnce
  <2>7. \A h \in holds', o \in orders' : h.id # o.id
    BY <1>1, <1>2, <2>1, <2>2 DEF ErpInv, ReferencesDrawnOnce
  <2> QED BY <2>3, <2>4, <2>5, <2>6, <2>7 DEF ReferencesDrawnOnce
<1>6. HoldsReserveTheirDiamond'
  BY <1>0, <1>1 DEF ErpInv, ErpTypeOK, HoldsReserveTheirDiamond, HoldRecord
<1>7. SoldOnce'
  <2>1. \A o \in orders' : \A d \in o.diamonds \ crossed' : stock'[d] = "Sold"
    BY <1>0, <1>1, <1>2 DEF ErpInv, ErpTypeOK, SoldOnce, OrderRecord
  <2>2. \A o, p \in orders' : o = p \/ o.diamonds \cap p.diamonds \subseteq crossed'
    BY <1>0, <1>1, <1>2, <1>3 DEF ErpInv, SoldOnce
  <2> QED BY <2>1, <2>2 DEF SoldOnce
<1> QED BY <1>4, <1>5, <1>6, <1>7 DEF ErpInv

(* Reloading the inventory, with or without the counter, keeps it.         *)
LEMMA LoadKeepsInv ==
  ASSUME ErpInv, Load \/ Restart
  PROVE  ErpInv'
<1> USE FixtureAssumption DEF ErpInv
<1>1. ErpTypeOK'
  BY DEF Load, Restart, ErpTypeOK
<1>2. ReferencesDrawnOnce' /\ HoldsReserveTheirDiamond' /\ SoldOnce'
  BY DEF Load, Restart, ReferencesDrawnOnce, HoldsReserveTheirDiamond, SoldOnce
<1> QED BY <1>1, <1>2

(* A quotation draws a number and no more.                                 *)
LEMMA QuoteKeepsInv == ErpInv /\ Quote => ErpInv'
  BY DEF Quote, ErpInv, ErpTypeOK, ReferencesDrawnOnce, HoldsReserveTheirDiamond,
         SoldOnce, HoldRecord, OrderRecord

(* Every step of the service keeps the invariant.                          *)
LEMMA NextKeepsInv == ErpInv /\ [ErpNext]_erpVars => ErpInv'
<1> SUFFICES ASSUME ErpInv, [ErpNext]_erpVars PROVE ErpInv'
  OBVIOUS
<1>1. CASE TradeStep
  BY <1>1, HoldKeepsInv, QuoteKeepsInv, OrderKeepsInv DEF TradeStep, Baskets
<1>2. CASE \E d \in Diamond, h \in holds : Release(d, h.id)
  BY <1>2, ReleaseKeepsInv
<1>3. CASE Load \/ Restart
  BY <1>3, LoadKeepsInv
<1>4. CASE UNCHANGED erpVars
  BY <1>4 DEF erpVars, ErpInv, ErpTypeOK, ReferencesDrawnOnce,
              HoldsReserveTheirDiamond, SoldOnce
<1> QED BY <1>1, <1>2, <1>3, <1>4 DEF ErpNext

-----------------------------------------------------------------------------
(* The dealer's system is always type-correct, its references are drawn    *)
(* once, and, save for diamonds that were released under another one's     *)
(* hold, its open holds are on reserved diamonds, one per diamond, and it  *)
(* sells a diamond once.                                                   *)
THEOREM ErpSafety == ErpSpec => []ErpInv
  BY InitInv, NextKeepsInv, PTL DEF ErpSpec

(* The state of the service keeps its types.                               *)
THEOREM ErpTyping == ErpSpec => []ErpTypeOK
<1>1. ErpInv => ErpTypeOK
  BY DEF ErpInv
<1> QED BY <1>1, ErpSafety, PTL

(* No reference is given out twice (inventory.service.ts, sequence++).     *)
THEOREM DrawsOnce == ErpSpec => []ReferencesDrawnOnce
<1>1. ErpInv => ReferencesDrawnOnce
  BY DEF ErpInv
<1> QED BY <1>1, ErpSafety, PTL

(* Open holds and stock statuses agree (inventory.service.ts, hold,        *)
(* release and order) on every diamond that no release has crossed.        *)
THEOREM HoldsReserve == ErpSpec => []HoldsReserveTheirDiamond
<1>1. ErpInv => HoldsReserveTheirDiamond
  BY DEF ErpInv
<1> QED BY <1>1, ErpSafety, PTL

(* No diamond is ever in two orders (inventory.service.ts, order), unless  *)
(* a release with another one's hold has put it back in stock.             *)
THEOREM SellsOnce == ErpSpec => []SoldOnce
<1>1. ErpInv => SoldOnce
  BY DEF ErpInv
<1> QED BY <1>1, ErpSafety, PTL

-----------------------------------------------------------------------------
(* The refinement: what the handlers do to the cell of each diamond.       *)

(* A diamond in stock carries no reference.                                *)
LEMMA InStockIsFree ==
  ASSUME ErpInv, NEW d \in Diamond \ crossed, stock[d] = "In Stock"
  PROVE  Refs(d) = {}
<1>1. \A h \in holds : h.diamond # d
  BY DEF ErpInv, HoldsReserveTheirDiamond
<1>2. \A o \in orders : d \notin o.diamonds
  BY DEF ErpInv, SoldOnce
<1> QED BY <1>1, <1>2 DEF Refs

(* A held diamond is reserved under its hold's number.                     *)
LEMMA HeldIsReserved ==
  ASSUME ErpInv, NEW h \in holds, h.diamond \notin crossed
  PROVE  stock[h.diamond] = "Reserved" /\ h.id \in Refs(h.diamond)
BY DEF ErpInv, HoldsReserveTheirDiamond, Refs

(* When its hold is gone, it is reserved for nobody.                       *)
LEMMA OnlyItsHold ==
  ASSUME ErpInv, NEW h \in holds, h.diamond \notin crossed, orders' = orders,
         holds' = {g \in holds : g.id # h.id}
  PROVE  Refs(h.diamond)' = {}
BY DEF ErpInv, HoldsReserveTheirDiamond, SoldOnce, Refs

(* And no other diamond loses a reference by it.                           *)
LEMMA OthersKeepRefs ==
  ASSUME ErpInv, NEW h \in holds, orders' = orders,
         holds' = {g \in holds : g.id # h.id}
  PROVE  \A e \in Diamond \ {h.diamond} : Refs(e)' = Refs(e)
<1>1. \A g \in holds : g.diamond # h.diamond => g \in holds'
  BY DEF ErpInv, ReferencesDrawnOnce
<1> QED BY <1>1 DEF Refs

(* The next number is on no diamond.                                       *)
LEMMA NextIsFresh ==
  ASSUME ErpInv, NEW d \in Diamond
  PROVE  sequence \notin Refs(d)
<1>1. sequence \in Nat
  BY DEF ErpInv, ErpTypeOK
<1>2. /\ \A h \in holds : h.id \in Nat /\ h.id < sequence
      /\ \A o \in orders : o.id \in Nat /\ o.id < sequence
  BY DEF ErpInv, ErpTypeOK, ReferencesDrawnOnce, HoldRecord, OrderRecord
<1> QED BY <1>1, <1>2 DEF Refs

(* A fresh process is a fresh ledger.                                      *)
LEMMA LedgerInit == ErpInit => Ledger!Init
  BY FixtureAssumption DEF ErpInit, Ledger!Init, Ledger!Opening, Cell, Refs

(* Reloading opens the ledger again.                                       *)
LEMMA LoadReopens ==
  ASSUME Load \/ Restart
  PROVE  Ledger!Reopen
BY FixtureAssumption DEF Load, Restart, Ledger!Reopen, Ledger!Opening, Cell, Refs

(* A hold is a reservation under the number it draws, unless the diamond   *)
(* is no longer accounted for.                                             *)
LEMMA HoldReserves ==
  ASSUME ErpInv, NEW d \in Diamond, NEW c \in Customer, Hold(d, c),
         NEW r, r = sequence
  PROVE  Ledger!Reserve(d, r) \/ UNCHANGED Ledger!vars
<1> DEFINE new == [id |-> sequence, diamond |-> d, by |-> c]
<1>1. /\ stock[d] = "In Stock"
      /\ stock' = [stock EXCEPT ![d] = "Reserved"]
      /\ holds' = holds \cup {new}
      /\ orders' = orders /\ crossed' = crossed
  BY DEF Hold, CanHold
<1>2. new.id = sequence /\ new.diamond = d
  OBVIOUS
<1> HIDE DEF new
<1>3. \A e \in Diamond \ {d} : Refs(e)' = Refs(e)
  BY <1>1, <1>2 DEF Refs
<1>4. \A e \in Diamond : stock'[e] = IF e = d THEN "Reserved" ELSE stock[e]
  BY <1>1 DEF ErpInv, ErpTypeOK
<1>5. \A e \in Diamond \ {d} : Cell(e)' = Cell(e)
  BY <1>1, <1>3, <1>4 DEF Cell
<1>6. CASE d \in crossed
  <2>1. Cell(d)' = Cell(d)
    BY <1>1, <1>6 DEF Cell
  <2> QED
    BY <1>5, <2>1 DEF Ledger!vars
<1>7. CASE d \notin crossed
  <2>1. Refs(d) = {}
    BY <1>1, <1>7, InStockIsFree
  <2>2. Refs(d)' = {sequence}
    BY <1>1, <1>2, <2>1 DEF Refs
  <2>3. Cell(d) = [status |-> "In Stock", refs |-> {}]
        /\ Cell(d)' = [status |-> "Reserved", refs |-> {r}]
    BY <1>1, <1>4, <1>7, <2>1, <2>2 DEF Cell
  <2>4. Ledger!Fresh(r)
    BY NextIsFresh DEF Ledger!Fresh, Cell
  <2> QED
    BY <1>5, <2>3, <2>4 DEF Ledger!Reserve
<1> QED BY <1>6, <1>7

(* A release returns its diamond, or mislays the two it has muddled up.    *)
LEMMA ReleaseReturns ==
  ASSUME ErpInv, NEW h \in holds, NEW d \in Diamond, Release(d, h.id)
  PROVE  Ledger!Return(d) \/ Ledger!Mislay(d, h.diamond) \/ UNCHANGED Ledger!vars
<1>1. /\ holds' = {g \in holds : g.id # h.id}
      /\ stock' = [stock EXCEPT ![d] = "In Stock"]
      /\ orders' = orders
  BY DEF Release
<1>2. h.diamond \in Diamond
  BY DEF ErpInv, ErpTypeOK, HoldRecord
<1>3. \A g \in holds : g.id = h.id => g = h
  BY DEF ErpInv, ReferencesDrawnOnce
<1>4. crossed' = IF h.diamond # d THEN crossed \cup {d} ELSE crossed
  BY <1>3 DEF Release
<1>5. \A e \in Diamond \ {h.diamond} : Refs(e)' = Refs(e)
  BY <1>1, OthersKeepRefs
<1>6. \A e \in Diamond : stock'[e] = IF e = d THEN "In Stock" ELSE stock[e]
  BY <1>1 DEF ErpInv, ErpTypeOK
<1>7. \A e \in Diamond \ {d, h.diamond} : Cell(e)' = Cell(e)
  BY <1>4, <1>5, <1>6 DEF Cell
<1>8. h.diamond \notin crossed =>
        /\ stock[h.diamond] = "Reserved" /\ Refs(h.diamond) # {}
        /\ Refs(h.diamond)' = {}
  BY <1>1, HeldIsReserved, OnlyItsHold
<1>9. CASE h.diamond = d /\ d \in crossed
  <2>1. Cell(d)' = Cell(d)
    BY <1>4, <1>9 DEF Cell
  <2> QED
    BY <1>7, <1>9, <2>1 DEF Ledger!vars
<1>10. CASE h.diamond = d /\ d \notin crossed
  <2>1. /\ Cell(d).status = "Reserved" /\ Cell(d).refs # {}
        /\ Cell(d)' = [status |-> "In Stock", refs |-> {}]
    BY <1>4, <1>6, <1>8, <1>10 DEF Cell
  <2> QED
    BY <1>7, <1>10, <2>1 DEF Ledger!Return, Ledger!Reserved
<1>11. CASE h.diamond # d
  <2>1. Cell(d)' = [status |-> "Unaccounted", refs |-> {}]
    BY <1>4, <1>11 DEF Cell
  <2>2. Cell(h.diamond)' = [Cell(h.diamond) EXCEPT !.refs = {}]
    <3>1. CASE h.diamond \in crossed
      BY <1>4, <1>11, <3>1 DEF Cell
    <3>2. CASE h.diamond \notin crossed
      <4>1. h.diamond \notin crossed' /\ stock'[h.diamond] = "Reserved"
        BY <1>2, <1>4, <1>6, <1>8, <1>11, <3>2
      <4>2. Cell(h.diamond)' = [status |-> "Reserved", refs |-> {}]
        BY <1>8, <3>2, <4>1 DEF Cell
      <4>3. Cell(h.diamond) = [status |-> "Reserved", refs |-> Refs(h.diamond)]
        BY <1>8, <3>2 DEF Cell
      <4> QED
        BY <4>2, <4>3
    <3> QED
      BY <3>1, <3>2
  <2>3. \/ Cell(h.diamond).status = "Reserved" /\ Cell(h.diamond).refs # {}
        \/ Cell(h.diamond).status = "Unaccounted"
    BY <1>8 DEF Cell
  <2> QED
    BY <1>2, <1>7, <1>11, <2>1, <2>2, <2>3 DEF Ledger!Mislay, Ledger!Reserved
<1> QED BY <1>9, <1>10, <1>11

(* An order sells under its number all of its diamonds that are accounted  *)
(* for.                                                                    *)
LEMMA OrderSells ==
  ASSUME ErpInv, NEW ds \in SUBSET Diamond, NEW c \in Customer, Order(ds, c),
         NEW r, r = sequence
  PROVE  Ledger!Sell(ds \ crossed, r)
<1> DEFINE new == [id |-> sequence, diamonds |-> ds, by |-> c]
<1>1. /\ CanOrder(ds)
      /\ stock' = [d \in Diamond |-> IF d \in ds THEN "Sold" ELSE stock[d]]
      /\ holds' = {h \in holds : h.diamond \notin ds}
      /\ orders' = orders \cup {new}
      /\ crossed' = crossed
  BY DEF Order
<1>2. new.id = sequence /\ new.diamonds = ds
  OBVIOUS
<1> HIDE DEF new
<1>3. \A d \in ds \ crossed : Ledger!Takeable(d)
  <2> SUFFICES ASSUME NEW d \in ds \ crossed PROVE Ledger!Takeable(d)
    OBVIOUS
  <2>1. \/ stock[d] = "In Stock"
        \/ stock[d] = "Reserved" /\ Refs(d) # {}
    BY <1>1, HeldIsReserved DEF CanOrder, Held
  <2>2. d \in Diamond
    OBVIOUS
  <2> QED BY <2>1, <2>2 DEF Ledger!Takeable, Ledger!Reserved, Cell
<1>4. Ledger!Fresh(r)
  BY NextIsFresh DEF Ledger!Fresh, Cell
<1>5. \A d \in ds \ crossed : \A o \in orders : d \notin o.diamonds
  BY <1>1 DEF CanOrder, ErpInv, SoldOnce
<1>6. \A d \in ds \ crossed : Refs(d)' = {sequence}
  BY <1>1, <1>2, <1>5 DEF Refs
<1>7. \A d \in Diamond \ ds : Refs(d)' = Refs(d)
  BY <1>1, <1>2 DEF Refs
<1>8. \A d \in Diamond : Cell(d)' = IF d \in ds \ crossed
                                    THEN [status |-> "Sold", refs |-> {r}] ELSE Cell(d)
  BY <1>1, <1>6, <1>7 DEF Cell
<1> QED BY <1>3, <1>4, <1>8 DEF Ledger!Sell

(* Every step of the service is a step of the ledger, or changes no cell.  *)
LEMMA LedgerNext == ErpInv /\ [ErpNext]_erpVars => [Ledger!Next]_(Ledger!vars)
<1> SUFFICES ASSUME ErpInv, [ErpNext]_erpVars PROVE Ledger!Next \/ UNCHANGED Ledger!vars
  OBVIOUS
<1>1. ASSUME sequence < MaxSequence, NEW d \in Diamond, NEW c \in Customer, Hold(d, c)
      PROVE  Ledger!Next \/ UNCHANGED Ledger!vars
  <2>1. PICK r \in 0 .. MaxSequence : r = sequence
    BY <1>1, MaxSequenceAssumption DEF ErpInv, ErpTypeOK
  <2>2. Ledger!Reserve(d, r) \/ UNCHANGED Ledger!vars
    BY <1>1, <2>1, HoldReserves
  <2> QED BY <2>2 DEF Ledger!Next
<1>2. ASSUME sequence < MaxSequence, NEW ds \in SUBSET Diamond, NEW c \in Customer,
             Order(ds, c)
      PROVE  Ledger!Next
  <2>1. PICK r \in 0 .. MaxSequence : r = sequence
    BY <1>2, MaxSequenceAssumption DEF ErpInv, ErpTypeOK
  <2>2. Ledger!Sell(ds \ crossed, r)
    BY <1>2, <2>1, OrderSells
  <2> QED BY <2>2 DEF Ledger!Next
<1>3. CASE Quote \/ UNCHANGED erpVars
  BY <1>3 DEF Quote, erpVars, Cell, Refs, Ledger!vars
<1>4. CASE TradeStep
  BY <1>1, <1>2, <1>3, <1>4 DEF TradeStep, Baskets
<1>5. CASE \E d \in Diamond, h \in holds : Release(d, h.id)
  <2>1. PICK d \in Diamond, h \in holds : Release(d, h.id)
    BY <1>5
  <2>2. h.diamond \in Diamond
    BY DEF ErpInv, ErpTypeOK, HoldRecord
  <2> QED
    BY <2>1, <2>2, ReleaseReturns DEF Ledger!Next
<1>6. CASE Load \/ Restart
  BY <1>6, LoadReopens DEF Ledger!Next
<1> QED BY <1>3, <1>4, <1>5, <1>6 DEF ErpNext

(* Seen from outside, the service is the ledger, whatever its callers      *)
(* pass: one cell per diamond, reserved, returned and sold in single       *)
(* steps, and mislaid by a release under another diamond's hold alone.     *)
THEOREM LedgerRefinement == ErpSpec => ImplementsLedger
  BY LedgerInit, LedgerNext, ErpSafety, PTL DEF ErpSpec, Ledger!Spec, ImplementsLedger
=============================================================================
