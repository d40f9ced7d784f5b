----------------------------- MODULE MCStartup -----------------------------
(* Startup with a list of two rates. *)
EXTENDS Startup

TwoRates == {<<5, 7>>}
Fewer == {-1, 0, 2}
SomeShares == {-1, 0, 100, 101}
=============================================================================
