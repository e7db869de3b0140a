------------------------------ MODULE MCTimeLine ------------------------------
(* Time lines of 16 integer units (32 half units). *)
EXTENDS TimeLine

SmallMinima  == {0, 1, 4, 9}
SmallMaxima  == {0, 3, 10, 33}
AllRequests  == 0 .. 33
SomeLimits   == {0, 3}
=============================================================================
