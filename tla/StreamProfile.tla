--------------------------- MODULE StreamProfile ----------------------------
(***************************************************************************)
(* The stateless stream profile STLSimpleStateless of                      *)
(* src/interactive/profiles/stl/simple.py.  The client calls get_streams   *)
(* once per port with the profile's tunables; each call builds one         *)
(* continuous UDP stream whose field engine rewrites, per packet, the last *)
(* byte of both IP addresses from one random byte and the UDP source port. *)
(* Addresses are kept as the four numbers the f-strings of line 48 write, *)
(* so an octet outside 0..255 is visible as such.                         *)
(***************************************************************************)
EXTENDS Integers

CONSTANTS
  PortIds,    \* the port ids get_streams is called with
  Sizes,      \* values of --size tried
  Offsets,    \* values of --offset tried
  SPorts,     \* a sample of the values the 'port' variable may take
  IpBytes,    \* a sample of the values the 1-byte 'ip' variable may take
  NoStream    \* get_streams has not been called, or raised, for a port

ASSUME StreamAssumption ==
  /\ PortIds \subseteq Nat
  /\ Sizes \subseteq Int /\ Offsets \subseteq Int
  /\ IpBytes \subseteq 0..255

(* Lines 10-11.                                                            *)
PortRange == [min |-> 1234, max |-> 65500]
SizeRange == [min |-> 64, max |-> 9216]

(* The 'port' variable of line 51 ranges over port_range.                  *)
ASSUME SPortAssumption == SPorts \subseteq PortRange.min..PortRange.max

(* Ether()/IP()/UDP() without options: 14 + 20 + 8 bytes; the NIC adds a  *)
(* 4-byte FCS.                                                             *)
BaseLen == 14 + 20 + 8
FcsLen == 4

ClampZero(n) == IF n < 0 THEN 0 ELSE n

(* Mutant of Pad: the FCS is not subtracted.                               *)
PadNoFcs(size) == ClampZero(size - BaseLen)

(* The padding of create_stream (line 16).                                 *)
Pad(size) == ClampZero(size - BaseLen - FcsLen)

(* create_stream (lines 13-23) for the addresses of line 48.               *)
CreateStream(size, src, dst) ==
  [frame |-> BaseLen + Pad(size) + FcsLen, size |-> size,
   src |-> src, dst |-> dst, sport |-> PortRange.min]

(* The field engine (lines 50-58): ip is one random byte, written into    *)
(* byte 3 of IP.src as it is and of IP.dst plus 128 in one byte.          *)
WriteIp(s, ip) ==
  [s EXCEPT !.src[4] = ip, !.dst[4] = (ip + 128) % 256]

VARIABLES
  streams,    \* streams[p]: the stream get_streams returned for port p
  pkt         \* the last packet a loaded stream sent, or NoStream

vars == <<streams, pkt>>

Init ==
  /\ streams = [p \in PortIds |-> NoStream]
  /\ pkt = NoStream

(* Mutant of GetStreams: the upper size check of lines 45-46 is missing.  *)
GetStreamsNoMax(p, size, offset) ==
  /\ streams' = [streams EXCEPT ![p] =
       IF size < SizeRange.min THEN NoStream
       ELSE LET o == p \div 2 + offset
            IN  CreateStream(size, <<16, 0, o, 1>>, <<48, 0, o, 1>>)]
  /\ UNCHANGED pkt

(* get_streams (lines 25-60): the size checks raise ArgumentTypeError     *)
(* (43-46); otherwise both addresses take int(port_id/2)+offset as their  *)
(* third octet.                                                            *)
GetStreams(p, size, offset) ==
  /\ streams' = [streams EXCEPT ![p] =
       IF size < SizeRange.min \/ size > SizeRange.max THEN NoStream
       ELSE LET o == p \div 2 + offset
            IN  CreateStream(size, <<16, 0, o, 1>>, <<48, 0, o, 1>>)]
  /\ UNCHANGED pkt

(* A loaded stream sends one packet: the engine draws ip and port.        *)
Send(p) ==
  /\ streams[p] # NoStream
  /\ \E ip \in IpBytes, sp \in SPorts :
       pkt' = [WriteIp(streams[p], ip) EXCEPT !.sport = sp]
  /\ UNCHANGED streams

Next ==
  \/ \E p \in PortIds, size \in Sizes, offset \in Offsets :
       GetStreams(p, size, offset)
  \/ \E p \in PortIds : Send(p)

Spec == Init /\ [][Next]_vars

-----------------------------------------------------------------------------
Octets(a) == {a[k] : k \in 1..4}

(* A stream or packet: four-number addresses (the f-string of line 48    *)
(* accepts any int), a size get_streams accepted, a source port the field *)
(* engine can write.                                                       *)
Streams ==
  [frame: Nat, size: SizeRange.min..SizeRange.max,
   src: [1..4 -> Int], dst: [1..4 -> Int],
   sport: PortRange.min..PortRange.max]

(* Every loaded stream, and every packet sent, has a size inside the      *)
(* limits of lines 43-46.                                                  *)
TypeOK ==
  /\ streams \in [PortIds -> Streams \cup {NoStream}]
  /\ pkt \in Streams \cup {NoStream}

(* Every packet on the wire, FCS included, is exactly the --size the      *)
(* profile accepted, and its host bytes are bytes: the destination host  *)
(* byte is the source's plus 128 modulo 256, so the two never coincide.   *)
PacketsAsConfigured ==
  pkt # NoStream =>
    /\ pkt.frame = pkt.size
    /\ pkt.src[4] \in 0..255 /\ pkt.dst[4] \in 0..255
    /\ pkt.src[4] # pkt.dst[4]

(* Every address the profile writes is a dotted-quad IPv4 address.         *)
AddressesValid ==
  \A p \in PortIds : streams[p] # NoStream =>
    Octets(streams[p].src) \cup Octets(streams[p].dst) \subseteq 0..255
=============================================================================
