-------------------------- MODULE DissectionProof --------------------------
(* The walk through a frame stays inside it, whatever its length fields    *)
(* say, for files and frames of any size.                                  *)
EXTENDS Dissection, TLAPS

(* The steps that read a header, or a line.                                *)
Walks == DOMAIN HeaderSize \cup {"line"}

(* The steps in a payload.                                                 *)
Payloads == Walks \ {"ethernet", "ipv4", "tcp", "udp"}

(* While a structure is walked through, what has been read is behind.      *)
Inside ==
  step \in Walks =>
    /\ read <= at
    /\ at + left <= outer /\ outer <= length

(* A transport header is what is left of the frame.                        *)
Transport == step \in {"ethernet", "ipv4", "tcp", "udp"} => at + left = length

(* The payload is the rest of the frame once it has been found, and what   *)
(* is walked through then is a part of it.                                 *)
InPayload ==
  /\ step \in {"job", "inspect"} => payload.offset + payload.length = length
  /\ step \in {"job", "inspect"} => read <= payload.offset
  /\ step \in Payloads =>
       /\ payload.offset <= at /\ payload.offset + payload.length = length
       /\ outer <= payload.offset + payload.length

(* A host is found last.                                                   *)
NoHostYet == step \notin {"file", "stopped"} => host = NoSpan

(* The inductive invariant.                                                *)
IInv ==
  /\ TypeOK /\ NoOverread /\ WalkEnds
  /\ Inside /\ Transport /\ InPayload /\ HostInside /\ NoHostYet

----------------------------------------------------------------------------
USE DEF HeaderSize

(* The invariant holds before the first record is read.                    *)
LEMMA InitInside == Init => IInv
BY DissectionAssumption DEF Init, IInv, TypeOK, NoOverread, WalkEnds, Inside, Walks,
   Transport, InPayload, Payloads, HostInside, NoHostYet, NoSpan, Span

(* Every step keeps it, whatever the lengths say.                          *)
LEMMA StepInside == IInv /\ [Next]_vars => IInv'
<1> SUFFICES ASSUME IInv, [Next]_vars PROVE IInv'
  OBVIOUS
<1> USE DissectionAssumption
<1> USE DEF IInv, TypeOK, NoOverread, WalkEnds, Inside, Walks, Transport, InPayload,
            Payloads, HostInside, NoHostYet, NoSpan, Span, Header, Fits, Enter, Pass, Finish
<1>1. CASE ReadRecord
  <2>1. PICK n \in Number :
          /\ RECORD_HEADER + n <= unread
          /\ unread' = unread - (RECORD_HEADER + n)
          /\ length' = n /\ at' = 0 /\ left' = n /\ outer' = n
    BY <1>1 DEF ReadRecord
  <2>2. /\ step' = "ethernet" /\ read' = 0 /\ headers' = 0
        /\ payload' = [offset |-> 0, length |-> 0] /\ host' = [offset |-> 0, length |-> 0]
    BY <1>1 DEF ReadRecord
  <2>3. n \in Nat /\ unread' \in Nat
    BY <2>1 DEF RECORD_HEADER
  <2> QED
    BY <2>1, <2>2, <2>3
<1>2. CASE StopReading
  BY <1>2 DEF StopReading, RECORD_HEADER
<1>3. CASE TooShort
  BY <1>3 DEF TooShort
<1>4. CASE ParseEthernet
  BY <1>4 DEF ParseEthernet
<1>5. CASE ParseIPv4
  BY <1>5 DEF ParseIPv4
<1>6. CASE ParseTCP
  BY <1>6 DEF ParseTCP, FoundPayload
<1>7. CASE ParseUDP
  BY <1>7 DEF ParseUDP, FoundPayload
<1>8. CASE CreatePacketJob
  BY <1>8 DEF CreatePacketJob
<1>9. CASE Inspect
  BY <1>9 DEF Inspect, PayloadIsThere, IsTLS, IsHTTP
<1>10. CASE TLSRecord
  BY <1>10 DEF TLSRecord, EnterBody
<1>11. CASE Handshake
  BY <1>11 DEF Handshake, EnterBody
<1>12. CASE Hello
  BY <1>12 DEF Hello
<1>13. CASE SessionId
  BY <1>13 DEF SessionId, SkipField
<1>14. CASE CipherSuites
  BY <1>14 DEF CipherSuites, SkipField
<1>15. CASE Compression
  BY <1>15 DEF Compression, SkipField
<1>16. CASE Extensions
  BY <1>16 DEF Extensions, EnterList
<1>17. CASE Extension
  BY <1>17 DEF Extension
<1>18. CASE ServerNames
  BY <1>18 DEF ServerNames, EnterList
<1>19. CASE Name
  BY <1>19 DEF Name
<1>20. CASE Line
  <2>1. PICK n \in Number :
          /\ n + 2 <= left
          /\ read' = at + n + 2 /\ headers' = headers + 1
          /\ \/ /\ step' = "line"
                /\ at' = at + n + 2 /\ left' = left - (n + 2)
                /\ UNCHANGED <<outer, host>>
             \/ n >= 5 /\ NormalizedHost(n) /\ Finish
    BY <1>20 DEF Line
  <2>2. step = "line" /\ n \in Nat /\ UNCHANGED <<unread, length, payload>>
    BY <1>20 DEF Line
  <2>3. CASE step' = "line" /\ at' = at + n + 2 /\ left' = left - (n + 2)
              /\ UNCHANGED <<outer, host>>
    BY <2>1, <2>2, <2>3
  <2>4. CASE NormalizedHost(n) /\ Finish
    <3>1. PICK start \in Number, size \in Number :
            /\ 5 <= start /\ start + size <= n
            /\ host' = IF size = 0 THEN NoSpan
                       ELSE [offset |-> at + start, length |-> size]
      BY <2>4 DEF NormalizedHost
    <3>2. start \in Nat /\ size \in Nat
      OBVIOUS
    <3>3. CASE size = 0
      BY <2>1, <2>2, <2>4, <3>1, <3>3
    <3>4. CASE size # 0
      <4>1. /\ host' = [offset |-> at + start, length |-> size]
            /\ host' \in Span /\ host'.offset = at + start /\ host'.length = size
        BY <3>1, <3>2, <3>4
      <4>2. HostInside'
        BY <2>1, <2>2, <2>4, <3>1, <3>2, <4>1
      <4> QED
        BY <2>1, <2>2, <2>4, <3>1, <4>1, <4>2
    <3> QED
      BY <3>3, <3>4
  <2> QED
    BY <2>1, <2>3, <2>4
<1>21. CASE NoLine
  BY <1>21 DEF NoLine
<1>22. CASE UNCHANGED vars
  BY <1>22 DEF vars
<1> QED
  BY <1>1, <1>2, <1>3, <1>4, <1>5, <1>6, <1>7, <1>8, <1>9, <1>10, <1>11, <1>12, <1>13, <1>14, <1>15, <1>16, <1>17, <1>18, <1>19, <1>20, <1>21, <1>22 DEF Next

(* The walk stays inside the frame.                                        *)
THEOREM WalkInside == Spec => []IInv
<1>1. Init => IInv
  BY InitInside
<1>2. IInv /\ [Next]_vars => IInv'
  BY StepInside
<1> QED
  BY <1>1, <1>2, PTL DEF Spec

----------------------------------------------------------------------------
(* What follows from it.                                                   *)

(* Types: the unsigned lengths of the walks never wrap around.             *)
THEOREM TypeCorrect == Spec => []TypeOK
<1>1. IInv => TypeOK
  BY DEF IInv
<1> QED
  BY <1>1, WalkInside, PTL

(* parse, extractTLS_SNI and extractHTTP_Host read no byte past the frame.  *)
THEOREM NeverOverreads == Spec => []NoOverread
<1>1. IInv => NoOverread
  BY DEF IInv
<1> QED
  BY <1>1, WalkInside, PTL

(* The nested structures of a ClientHello stay inside each other.          *)
THEOREM StructuresNest == Spec => []Nested
<1>1. IInv => Nested
  BY DEF IInv, Inside, Walks, Nested
<1> QED
  BY <1>1, WalkInside, PTL

(* The host that inspectApplication finds is a part of the payload.        *)
THEOREM HostsAreInside == Spec => []HostInside
<1>1. IInv => HostInside
  BY DEF IInv
<1> QED
  BY <1>1, WalkInside, PTL

(* The parser, createPacketJob and inspectApplication agree on payloads.   *)
THEOREM PayloadsAgree == Spec => []PayloadAgreed
<1>1. IInv => PayloadAgreed
  BY DEF IInv, TypeOK, Span, InPayload, PayloadAgreed, PayloadIsThere
<1> QED
  BY <1>1, WalkInside, PTL

(* No walk through a frame goes round for ever.                            *)
THEOREM WalksEnd == Spec => []WalkEnds
<1>1. IInv => WalkEnds
  BY DEF IInv
<1> QED
  BY <1>1, WalkInside, PTL

=============================================================================
