----------------------------- MODULE Dissection -----------------------------
(***************************************************************************)
(* How the engine finds the host in a captured packet: the records of the  *)
(* file (src/pcap_reader.cpp), the headers of a frame                      *)
(* (src/packet_parser.cpp), the job made of it (src/dpi_engine.cpp,        *)
(* createPacketJob), what inspectApplication checks again                  *)
(* (src/fast_path.cpp), and the walk through a TLS ClientHello or the      *)
(* lines of an HTTP request (src/sni_extractor.cpp).                       *)
(*                                                                         *)
(* All of it is one chain of reads, each of a header of fixed size that    *)
(* may tell how long what follows is.  Bytes are not represented: what a   *)
(* header says is chosen when it is read, and no header is read twice.     *)
(* The chain runs on two threads; the functions share nothing but the job, *)
(* so it is one sequential program here.                                   *)
(***************************************************************************)
EXTENDS Naturals

CONSTANTS
  FileSize,         (* the bytes of the file behind its global header      *)
  MaxRecord,        (* the lesser of snaplen and 65535                     *)
  Number,           (* what a length field may say                         *)
  Nibble            (* what ihl and data_offset may say                    *)

ASSUME DissectionAssumption ==
  /\ FileSize \in Nat /\ MaxRecord \in Nat
  /\ Number \subseteq Nat /\ Nibble \subseteq Nat

(* sizeof(PcapPacketHeader).                                               *)
RECORD_HEADER == 16

(* The header that each step of the chain reads.  One of "hello" is the    *)
(* legacy version and the random bytes.                                    *)
HeaderSize ==
  [ethernet |-> 14, ipv4 |-> 20, tcp |-> 20, udp |-> 8,
   record |-> 5, handshake |-> 4, hello |-> 2 + 32,
   session |-> 1, ciphers |-> 2, compression |-> 1,
   extensions |-> 2, extension |-> 4, names |-> 2, name |-> 3]

VARIABLES
  step,      (* the header to be read next                                 *)
  unread,    (* the bytes left in the file                                 *)
  length,    (* the size of the frame                                      *)
  at,        (* the offset in the frame of what is read next               *)
  left,      (* the bytes left in the structure that is walked through     *)
  outer,     (* history: where the structure around that one ends          *)
  read,      (* history: the offset behind the last header that was read   *)
  headers,   (* history: how many headers of the frame have been read      *)
  payload,   (* payload_offset and payload_length                          *)
  host       (* where the host was found                                   *)

vars == <<step, unread, length, at, left, outer, read, headers, payload, host>>

NoSpan == [offset |-> 0, length |-> 0]

----------------------------------------------------------------------------
(* Reading.                                                                *)

(* A header is there and is read.                                          *)
Header(s) ==
  /\ step = s
  /\ HeaderSize[s] <= left
  /\ read' = at + HeaderSize[s] /\ headers' = headers + 1

(* What follows the header of s goes no further than what is left.         *)
Fits(s, n) == HeaderSize[s] + n <= left

(* Walk through the n bytes behind the header of s.                        *)
Enter(s, n, next) ==
  /\ step' = next
  /\ at' = at + HeaderSize[s] /\ left' = n
  /\ outer' = at + left

(* Go on behind the n bytes that follow the header of s.                   *)
Pass(s, n, next) ==
  /\ step' = next
  /\ at' = at + HeaderSize[s] + n /\ left' = left - (HeaderSize[s] + n)
  /\ UNCHANGED outer

(* The frame has been dealt with: readerThreadFunc reads the next.         *)
Finish == step' = "file" /\ UNCHANGED <<at, left, outer>>

----------------------------------------------------------------------------
(* The file.                                                               *)

Init ==
  /\ step = "file" /\ unread = FileSize
  /\ length = 0 /\ at = 0 /\ left = 0 /\ outer = 0
  /\ read = 0 /\ headers = 0
  /\ payload = NoSpan /\ host = NoSpan

(* readNextPacket.                                                         *)
ReadRecord ==
  /\ step = "file" /\ RECORD_HEADER <= unread
  /\ \E n \in Number :
       /\ n <= MaxRecord /\ RECORD_HEADER + n <= unread
       /\ unread' = unread - (RECORD_HEADER + n)
       /\ length' = n /\ at' = 0 /\ left' = n /\ outer' = n
  /\ step' = "ethernet"
  /\ read' = 0 /\ headers' = 0 /\ payload' = NoSpan /\ host' = NoSpan

(* It fails at the end of the file, and at a record that is too long: the  *)
(* reader stops there.                                                     *)
StopReading ==
  /\ step = "file"
  /\ \/ unread < RECORD_HEADER
     \/ \E n \in Number : n > MaxRecord \/ RECORD_HEADER + n > unread
  /\ step' = "stopped"
  /\ UNCHANGED <<unread, length, at, left, outer, read, headers, payload, host>>

----------------------------------------------------------------------------
(* PacketParser::parse and createPacketJob.                                *)

(* Every step of the chain gives up if its header is not there.            *)
TooShort ==
  /\ step \in DOMAIN HeaderSize
  /\ left < HeaderSize[step]
  /\ Finish
  /\ UNCHANGED <<unread, length, read, headers, payload, host>>

ParseEthernet ==
  /\ Header("ethernet")
  /\ Pass("ethernet", 0, "ipv4") \/ Finish        (* another ether type    *)
  /\ UNCHANGED <<unread, length, payload, host>>

(* Wrong: believes what ihl says.                                          *)
ParseIPv4Unchecked ==
  /\ Header("ipv4")
  /\ \E ihl \in Nibble :
       \/ /\ ihl >= 5
          /\ at' = at + ihl * 4 /\ left' = left - ihl * 4
          /\ step' \in {"tcp", "udp"} /\ UNCHANGED outer
       \/ Finish
  /\ UNCHANGED <<unread, length, payload, host>>

(* Another version, a wrong ihl or another protocol end it.                *)
ParseIPv4 ==
  /\ Header("ipv4")
  /\ \E ihl \in Nibble :
       \/ /\ ihl >= 5 /\ ihl * 4 <= left
          /\ at' = at + ihl * 4 /\ left' = left - ihl * 4
          /\ step' \in {"tcp", "udp"} /\ UNCHANGED outer
       \/ Finish
  /\ UNCHANGED <<unread, length, payload, host>>

(* The parser has found the payload behind a transport header of n bytes.  *)
FoundPayload(n) ==
  /\ payload' = [offset |-> at + n, length |-> length - (at + n)]
  /\ step' = "job"
  /\ UNCHANGED <<at, left, outer>>

(* Wrong: believes what data_offset says.                                  *)
ParseTCPUnchecked ==
  /\ Header("tcp")
  /\ \E words \in Nibble :
       \/ words >= 5 /\ FoundPayload(words * 4)
       \/ Finish /\ UNCHANGED payload
  /\ UNCHANGED <<unread, length, host>>

ParseTCP ==
  /\ Header("tcp")
  /\ \E words \in Nibble :
       \/ words >= 5 /\ words * 4 <= left /\ FoundPayload(words * 4)
       \/ /\ words < 5 \/ words * 4 > left
          /\ Finish /\ UNCHANGED payload
  /\ UNCHANGED <<unread, length, host>>

ParseUDP ==
  /\ Header("udp")
  /\ FoundPayload(HeaderSize["udp"])
  /\ UNCHANGED <<unread, length, host>>

(* createPacketJob computes the length of the payload once more.           *)
CreatePacketJob ==
  /\ step = "job"
  /\ payload' = [payload EXCEPT !.length =
                   IF payload.offset < length THEN length - payload.offset ELSE 0]
  /\ step' = "inspect"
  /\ UNCHANGED <<unread, length, at, left, outer, read, headers, host>>

----------------------------------------------------------------------------
(* inspectApplication.                                                     *)

(* What inspectApplication asks of a job before it looks at its payload.   *)
PayloadIsThere ==
  /\ payload.length # 0
  /\ payload.offset < length
  /\ payload.length <= length - payload.offset

(* isTLS looks at 5 bytes, isHTTP for a method of 4 bytes at least.        *)
IsTLS  == payload.length >= 5
IsHTTP == payload.length >= 4

(* A connection that is classified already, or blocked, is not inspected.  *)
Inspect ==
  /\ step = "inspect"
  /\ \/ /\ PayloadIsThere
        /\ \/ IsTLS /\ step' = "record"
           \/ IsHTTP /\ step' = "line"
        /\ at' = payload.offset /\ left' = payload.length
        /\ outer' = payload.offset + payload.length
     \/ Finish
  /\ UNCHANGED <<unread, length, read, headers, payload, host>>

----------------------------------------------------------------------------
(* extractTLS_SNI.  It gives up wherever a length does not fit.            *)

(* The record is a handshake, and the handshake a ClientHello, or the walk *)
(* ends.                                                                   *)
EnterBody(s, next) ==
  /\ Header(s)
  /\ \/ \E n \in Number : Fits(s, n) /\ Enter(s, n, next)
     \/ Finish
  /\ UNCHANGED <<unread, length, payload, host>>

(* Wrong: believes the length of the record.                               *)
TLSRecordUnchecked ==
  /\ Header("record")
  /\ \E n \in Number : Enter("record", n, "handshake")
  /\ UNCHANGED <<unread, length, payload, host>>

TLSRecord == EnterBody("record", "handshake")
Handshake == EnterBody("handshake", "hello")

(* One byte more must be there for the length of the session id.           *)
Hello ==
  /\ Header("hello")
  /\ IF Fits("hello", 1) THEN Pass("hello", 0, "session") ELSE Finish
  /\ UNCHANGED <<unread, length, payload, host>>

SkipField(s, next) ==
  /\ Header(s)
  /\ \E n \in Number : IF Fits(s, n) THEN Pass(s, n, next) ELSE Finish
  /\ UNCHANGED <<unread, length, payload, host>>

SessionId    == SkipField("session", "ciphers")
CipherSuites == SkipField("ciphers", "compression")
Compression  == SkipField("compression", "extensions")

EnterList(s, next) ==
  /\ Header(s)
  /\ \E n \in Number : IF Fits(s, n) THEN Enter(s, n, next) ELSE Finish
  /\ UNCHANGED <<unread, length, payload, host>>

Extensions == EnterList("extensions", "extension")

(* Wrong: forgets that an extension has a header.                          *)
ExtensionNoHeader ==
  /\ Header("extension")
  /\ \E n \in Number :
       \/ Fits("extension", n) /\ Enter("extension", n, "names")
       \/ /\ n <= left
          /\ step' = "extension" /\ at' = at + n /\ left' = left - n
          /\ UNCHANGED outer
       \/ ~Fits("extension", n) /\ Finish
  /\ UNCHANGED <<unread, length, payload, host>>

(* One extension: enter server_name, pass any other.                       *)
Extension ==
  /\ Header("extension")
  /\ \E n \in Number :
       \/ Fits("extension", n) /\ Enter("extension", n, "names")
       \/ Fits("extension", n) /\ Pass("extension", n, "extension")
       \/ ~Fits("extension", n) /\ Finish
  /\ UNCHANGED <<unread, length, payload, host>>

ServerNames == EnterList("names", "name")

(* Wrong: believes the length of the name.                                 *)
NameUnchecked ==
  /\ Header("name")
  /\ \E n \in Number :
       host' = [offset |-> at + HeaderSize["name"], length |-> n] /\ Finish
  /\ UNCHANGED <<unread, length, payload>>

(* One server name: the first host_name is the result, others are passed.  *)
(* An empty name is as good as none.                                       *)
Name ==
  /\ Header("name")
  /\ \E n \in Number :
       \/ /\ Fits("name", n)
          /\ host' = IF n = 0 THEN NoSpan
                     ELSE [offset |-> at + HeaderSize["name"], length |-> n]
          /\ Finish
       \/ Fits("name", n) /\ Pass("name", n, "name") /\ UNCHANGED host
       \/ ~Fits("name", n) /\ Finish /\ UNCHANGED host
  /\ UNCHANGED <<unread, length, payload>>

----------------------------------------------------------------------------
(* extractHTTP_Host.                                                       *)

(* The host in a line of n bytes that begins with "Host:": what follows,   *)
(* without blanks and port.                                                *)
NormalizedHost(n) ==
  \E start, size \in Number :
    /\ 5 <= start /\ start + size <= n
    /\ host' = IF size = 0 THEN NoSpan
               ELSE [offset |-> at + start, length |-> size]

(* One line of n bytes and its line break: the first that begins with      *)
(* "Host:" gives the result, others are passed.                            *)
Line ==
  /\ step = "line"
  /\ \E n \in Number :
       /\ n + 2 <= left
       /\ read' = at + n + 2 /\ headers' = headers + 1
       /\ \/ /\ step' = "line"
             /\ at' = at + n + 2 /\ left' = left - (n + 2)
             /\ UNCHANGED <<outer, host>>
          \/ /\ n >= 5
             /\ NormalizedHost(n)
             /\ Finish
  /\ UNCHANGED <<unread, length, payload>>

(* No line break is left.                                                  *)
NoLine ==
  /\ step = "line"
  /\ Finish
  /\ UNCHANGED <<unread, length, read, headers, payload, host>>

----------------------------------------------------------------------------
Next ==
  \/ ReadRecord \/ StopReading
  \/ TooShort \/ ParseEthernet \/ ParseIPv4 \/ ParseTCP \/ ParseUDP
  \/ CreatePacketJob \/ Inspect
  \/ TLSRecord \/ Handshake \/ Hello \/ SessionId \/ CipherSuites \/ Compression
  \/ Extensions \/ Extension \/ ServerNames \/ Name
  \/ Line \/ NoLine
  \/ step = "stopped" /\ UNCHANGED vars

Spec == Init /\ [][Next]_vars

----------------------------------------------------------------------------
(* Properties.                                                             *)

Span == [offset : Nat, length : Nat]

(* Types: in particular no length ever wraps around below zero.            *)
TypeOK ==
  /\ step \in DOMAIN HeaderSize \cup {"file", "job", "inspect", "line", "stopped"}
  /\ unread \in Nat /\ length \in Nat /\ at \in Nat /\ left \in Nat
  /\ outer \in Nat /\ read \in Nat /\ headers \in Nat
  /\ payload \in Span /\ host \in Span

(* No header is read beyond the frame, whatever the lengths in it say.     *)
NoOverread == read <= length

(* What is walked through lies inside the structure around it, and that    *)
(* inside the frame.                                                       *)
Nested ==
  step \in DOMAIN HeaderSize \cup {"line"} => at + left <= outer /\ outer <= length

(* The host is part of the list of names, or of the lines, it was found    *)
(* in, this of the extension or of the payload around it, and that of the  *)
(* payload.                                                                *)
HostInside ==
  host # NoSpan =>
    /\ payload.offset <= host.offset
    /\ host.offset + host.length <= at + left
    /\ at + left <= outer
    /\ outer <= payload.offset + payload.length

(* The parser, createPacketJob and inspectApplication agree on the         *)
(* payload: what one computes neither of the others corrects or refuses.   *)
PayloadAgreed ==
  step \in {"job", "inspect"} =>
    /\ payload.offset + payload.length = length
    /\ payload.length # 0 => PayloadIsThere

(* No walk goes round for ever, whatever the lengths say: there are no     *)
(* more headers, or lines, than bytes.                                     *)
WalkEnds == headers <= read

=============================================================================
