----------------------------- MODULE MCDealerErp -----------------------------
(* A small inventory with one diamond of each kind that behaves            *)
(* differently: two in stock, one reserved elsewhere, one on memo.         *)
EXTENDS DealerErp

CONSTANTS d1, d2, d3, d4

MCFixture == [d \in Diamond |->
                CASE d = d3 -> "Reserved"
                  [] d = d4 -> "On Memo"
                  [] OTHER  -> "In Stock"]
=============================================================================
