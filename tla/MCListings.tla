----------------------------- MODULE MCListings -----------------------------
(* Instances of Listings for TLC.                                          *)
EXTENDS Listings

SmallLimits == {1, 2, -1, -2}
=============================================================================
