------------------------------ MODULE Dispatch ------------------------------
(***************************************************************************)
(* How LBManager and its balancers (src/load_balancer.cpp) deal packets    *)
(* out: the same hash of the five-tuple picks the balancer and then one of *)
(* the balancer's own fast paths.  Workers are numbered, the balancers in  *)
(* the order of lbs_ before the fast paths in the order of fps_.           *)
(***************************************************************************)
EXTENDS Integers

CONSTANTS
  Tuple,      (* five-tuples                                               *)
  Hash,       (* what FiveTupleHash returns for each                       *)
  NumLBs,     (* num_lbs                                                   *)
  FpsPerLb    (* fps_per_lb                                                *)

ASSUME DispatchAssumption ==
  /\ Hash \in [Tuple -> Nat]
  /\ NumLBs \in Nat \ {0}
  /\ FpsPerLb \in Nat \ {0}

NumFPs == NumLBs * FpsPerLb

LBs    == 1..NumLBs
FPs    == NumLBs + 1 .. NumLBs + NumFPs
Worker == 1 .. NumLBs + NumFPs

(* The fast paths that LBManager gives to balancer l.                      *)
FPsOf(l) == NumLBs + 1 + (l - 1) * FpsPerLb .. NumLBs + l * FpsPerLb

(* getLBForPacket and selectFP.                                            *)
LBFor(tuple)       == 1 + (Hash[tuple] % NumLBs)
SelectFP(l, tuple) == NumLBs + 1 + (l - 1) * FpsPerLb + (Hash[tuple] % FpsPerLb)

=============================================================================
