---------------------------- MODULE DiamondLedger ----------------------------
(***************************************************************************)
(* What the dealer's system promises about its stock, seen from outside:   *)
(* every diamond is one cell, holding a stock status and the references    *)
(* (hold or order) under which it was taken.                               *)
(*                                                                         *)
(*   - a diamond is reserved or sold under at most one reference;          *)
(*   - only a diamond in stock can be reserved;                            *)
(*   - a reservation made elsewhere (no reference) cannot be undone or     *)
(*     bought here;                                                        *)
(*   - an order takes all of its diamonds in one step, or none of them;    *)
(*   - a sold diamond stays sold until the inventory is reloaded;          *)
(*   - a reservation given back in the name of another diamond leaves its  *)
(*     own diamond reserved for nobody, and the other one, whatever it     *)
(*     was, unaccounted for; it does nothing to the rest.                  *)
(*                                                                         *)
(* DealerErp implements it (DealerErp!Ledger), where a cell is spread over *)
(* the diamond's stock_status, the hold map and the order map.             *)
(***************************************************************************)
CONSTANTS
  Diamond,      \* the stock numbers
  Fixture,      \* the inventory the system starts from
  Reference     \* hold and order numbers

VARIABLE cell

vars == cell

TypeOK == cell \in [Diamond -> [status: {"In Stock", "Reserved", "Sold", "On Memo", "Unaccounted"},
                                refs: SUBSET Reference]]

Opening == [d \in Diamond |-> [status |-> Fixture[d], refs |-> {}]]

Init == cell = Opening

Fresh(r) == \A d \in Diamond : r \notin cell[d].refs

Reserve(d, r) ==
  /\ cell[d] = [status |-> "In Stock", refs |-> {}]
  /\ Fresh(r)
  /\ cell' = [cell EXCEPT ![d] = [status |-> "Reserved", refs |-> {r}]]

Reserved(d) == cell[d].status = "Reserved" /\ cell[d].refs # {}

Return(d) ==
  /\ Reserved(d)
  /\ cell' = [cell EXCEPT ![d] = [status |-> "In Stock", refs |-> {}]]

(* e's reservation is given back in the name of d.                         *)
Mislay(d, e) ==
  /\ d # e
  /\ Reserved(e) \/ cell[e].status = "Unaccounted"
  /\ cell' = [cell EXCEPT ![d] = [status |-> "Unaccounted", refs |-> {}],
                          ![e].refs = {}]

Takeable(d) == cell[d].status = "In Stock" \/ Reserved(d)

Sell(ds, r) ==
  /\ \A d \in ds : Takeable(d)
  /\ Fresh(r)
  /\ cell' = [d \in Diamond |->
                IF d \in ds THEN [status |-> "Sold", refs |-> {r}] ELSE cell[d]]

Reopen == cell' = Opening

Next ==
  \/ \E d \in Diamond, r \in Reference : Reserve(d, r)
  \/ \E d \in Diamond : Return(d)
  \/ \E d, e \in Diamond : Mislay(d, e)
  \/ \E ds \in SUBSET Diamond, r \in Reference : Sell(ds, r)
  \/ Reopen

Spec == Init /\ [][Next]_vars
=============================================================================
