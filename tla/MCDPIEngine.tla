---------------------------- MODULE MCDPIEngine ----------------------------
(* Model values for DPIEngine: the captures, and a hash under which both   *)
(* tuples share a load balancer and go to different fast paths, or not.    *)
EXTENDS DPIEngine

CONSTANTS a, b, ignored

MCTuple == {a, b}

WithIgnored == <<a, ignored, b, a>>
Pair        == <<a, a>>
Longer      == <<a, ignored, b, a, b>>

OneFile      == <<Len(Capture)>>
TwoFiles     == <<4, Len(Capture)>>

SplitHash == [t \in MCTuple |-> IF t = a THEN 2 ELSE 3]

=============================================================================
