------------------------- MODULE MCResourceRegistry -------------------------
(***************************************************************************)
(* Instances of ResourceRegistry for TLC.                                  *)
(***************************************************************************)
EXTENDS ResourceRegistry, TLC

CONSTANTS t1, t2, t3, p1, p2, i1, i2, i3, i4, k1

\* Two processes, two threads in the first.  t2 has the holder identity of t1, as
\* an executor does that falls back to `acquire' for a plan its scheduler already
\* holds.
ThreeThreads == {t1, t2, t3}
TwoProcOf == (t1 :> p1 @@ t2 :> p1 @@ t3 :> p2)
SharedHolderOf == (t1 :> "a" @@ t2 :> "a" @@ t3 :> "b")
=============================================================================
