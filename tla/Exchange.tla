------------------------------ MODULE Exchange ------------------------------
(***************************************************************************)
(* Who trades what: the constants that orders, trades and portfolios have  *)
(* in common.                                                              *)
(***************************************************************************)

CONSTANTS
  Users,
  Symbols,     \* listed symbols
  Prices, Quantities

=============================================================================
