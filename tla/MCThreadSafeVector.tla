------------------------- MODULE MCThreadSafeVector -------------------------
(* Model checking of ThreadSafeVector: three threads, two elements, an     *)
(* index counter that wraps at a value that is no multiple of the size.    *)
EXTENDS ThreadSafeVector

CONSTANTS t1, t2, t3

ThreeThreads == {t1, t2, t3}
=============================================================================
