--------------------------- MODULE MCHydroScheduler ---------------------------
(* Two subgrids along a periodic axis, with two common faces.              *)
EXTENDS HydroScheduler

PeriodicPair == [n |-> <<2, 1, 1>>, periodic |-> <<TRUE, FALSE, FALSE>>]
PeriodicPairs == {PeriodicPair}

(* The sweeps over both faces with everything between and after them, and  *)
(* an inner sweep with the second lock only: eleven tasks in all.          *)
TwoFaces ==
  {<<1, 0>>} \cup
  {<<i, k>> : i \in Subgrids(PeriodicPair),
              k \in {1, Limiter, Predict, 10, Conserved}}

(* SomeChildren itself: @@ has TLC compute the function once and for all.  *)
OurChildren == SomeChildren @@ <<>>
=============================================================================
