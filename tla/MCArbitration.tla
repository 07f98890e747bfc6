--------------------------- MODULE MCArbitration ---------------------------
(* Four claimants, two of the same age, one that claims nothing and one     *)
(* that lists the same path twice.                                          *)
EXTENDS Arbitration

Claimant(created, uid, claims) == [created |-> created, uid |-> uid, claims |-> claims]

MCClaimants ==
  {Claimant(1, 1, <<1, 2>>), Claimant(1, 2, <<3, 2>>), Claimant(0, 3, <<3, 1, 3>>),
   Claimant(2, 4, <<1>>), Claimant(3, 5, <<>>)}
=============================================================================
