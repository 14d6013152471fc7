---------------------------- MODULE PacketFilter ----------------------------
(***************************************************************************)
(* What the engine promises about the packets of a capture, whatever       *)
(* threads and queues it uses: each packet gets one verdict at most and is *)
(* written once at most, only after it was accepted, and the packets of a  *)
(* flow are judged and written in the order of the capture.  A packet may  *)
(* be lost, and nothing says that every packet is judged: the engine stops *)
(* on a timer.  DPIEngine is the pipeline that implements this.            *)
(***************************************************************************)
EXTENDS Naturals, Sequences

CONSTANTS
  Packet,     (* the packets, by their position in the capture             *)
  Flow        (* Flow[p]: the five-tuple of packet p                       *)

VARIABLES
  fate,       (* fate[p]: what has become of packet p                      *)
  output      (* the packets in the output file, in the order written      *)

vars == <<fate, output>>

Fates == {"pending", "accepted", "dropped", "written", "lost"}

(* The packets of p's flow that follow p.                                  *)
Later(p) == {q \in Packet : q > p /\ Flow[q] = Flow[p]}

Init ==
  /\ fate   = [p \in Packet |-> "pending"]
  /\ output = <<>>

Judge(p) ==
  /\ fate[p] = "pending"
  /\ \A q \in Later(p) : fate[q] \in {"pending", "lost"}
  /\ \E v \in {"accepted", "dropped"} : fate' = [fate EXCEPT ![p] = v]
  /\ UNCHANGED output

Write(p) ==
  /\ fate[p] = "accepted"
  /\ \A q \in Later(p) : fate[q] # "written"
  /\ fate'   = [fate EXCEPT ![p] = "written"]
  /\ output' = Append(output, p)

Lose(p) ==
  /\ fate[p] \in {"pending", "accepted"}
  /\ fate' = [fate EXCEPT ![p] = "lost"]
  /\ UNCHANGED output

(* The next call of processFile truncates the output file.                 *)
NewFile ==
  /\ output' = <<>>
  /\ UNCHANGED fate

Next == NewFile \/ \E p \in Packet : Judge(p) \/ Write(p) \/ Lose(p)

Spec == Init /\ [][Next]_vars

=============================================================================
