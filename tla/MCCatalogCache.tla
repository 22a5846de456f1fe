--------------------------- MODULE MCCatalogCache ---------------------------
(* Readers are interchangeable, and so are handlers: neither is ever       *)
(* chosen or compared.                                                     *)
EXTENDS CatalogCache, TLC

Symmetry == Permutations(Reader) \cup Permutations(Hook)
=============================================================================
