-------------------------- MODULE MCInventorySearch --------------------------
(* Five diamonds with two equal prices, both ends of the scales, a colour  *)
(* and a clarity on no scale, and the filters that tell them apart.        *)
EXTENDS InventorySearch

CONSTANTS d1, d2, d3, d4, d5, round, oval

MCInventory == <<d1, d2, d3, d4, d5>>

MCAttribute(a, b, c, d, e) ==
  (d1 :> a) @@ (d2 :> b) @@ (d3 :> c) @@ (d4 :> d) @@ (d5 :> e)

MCKind == MCAttribute(round, oval, round, round, round)
MCPrice == MCAttribute(3, 1, 2, 2, 1)
MCColor == MCAttribute("D", "G", "F", "M", "Z")
MCClarity == MCAttribute("FL", "VS1", "VS2", "I3", "none")

MCNoFilter == [kind |-> NotGiven, price_min |-> 0, price_max |-> 9,
               color_min |-> NotGiven, color_max |-> NotGiven, clarity_min |-> NotGiven]

MCFilter ==
  { MCNoFilter,
    [MCNoFilter EXCEPT !.kind = round, !.price_min = 2],
    [MCNoFilter EXCEPT !.color_min = "F"],
    [MCNoFilter EXCEPT !.color_min = "D", !.color_max = "G"],
    [MCNoFilter EXCEPT !.color_max = "Q", !.clarity_min = "VS2", !.price_max = 2] }
=============================================================================
