------------------------ MODULE StreamProfile_proofs ------------------------
(***************************************************************************)
(* Proofs about the stream profile of simple.py: every loaded stream and  *)
(* every packet is well typed with an accepted size, and every packet is  *)
(* exactly that size with two distinct host bytes, for every set of       *)
(* ports, sizes, offsets and field-engine draws.                          *)
(***************************************************************************)
EXTENDS StreamProfile, TLAPS

(* get_streams already builds the frame at its final size.                  *)
FrameInv ==
  \A p \in PortIds : streams[p] # NoStream => streams[p].frame = streams[p].size

IInv == TypeOK /\ FrameInv /\ PacketsAsConfigured

(* create_stream pads an accepted size exactly: 42 header bytes, the      *)
(* padding and the 4-byte FCS add up to --size.                           *)
LEMMA CreateStreamOK ==
  ASSUME NEW size \in SizeRange.min..SizeRange.max,
         NEW src \in [1..4 -> Int], NEW dst \in [1..4 -> Int]
  PROVE  /\ CreateStream(size, src, dst) \in Streams
         /\ CreateStream(size, src, dst).frame = size
         /\ CreateStream(size, src, dst).size = size
<1>1. Pad(size) = size - BaseLen - FcsLen
  BY DEF Pad, ClampZero, SizeRange, BaseLen, FcsLen
<1>2. QED
  BY <1>1 DEF CreateStream, Streams, SizeRange, PortRange, BaseLen, FcsLen

(* Rewriting the host bytes and the source port of a stream leaves it a  *)
(* stream.                                                                 *)
LEMMA HostBytesKeepType ==
  ASSUME NEW s \in Streams, NEW x \in Int, NEW y \in Int
  PROVE  [s EXCEPT !.src[4] = x, !.dst[4] = y] \in Streams
BY DEF Streams

LEMMA SportKeepsType ==
  ASSUME NEW s \in Streams, NEW sp \in PortRange.min..PortRange.max
  PROVE  [s EXCEPT !.sport = sp] \in Streams
BY DEF Streams

(* The field engine writes a byte into the source and that byte plus 128  *)
(* modulo 256 into the destination: two different bytes.                  *)
LEMMA WriteIpOK ==
  ASSUME NEW tmpl \in Streams, NEW b \in 0..255
  PROVE  /\ WriteIp(tmpl, b) \in Streams
         /\ WriteIp(tmpl, b).frame = tmpl.frame /\ WriteIp(tmpl, b).size = tmpl.size
         /\ WriteIp(tmpl, b).src[4] = b
         /\ WriteIp(tmpl, b).dst[4] = (b + 128) % 256
         /\ (b + 128) % 256 \in 0..255 /\ (b + 128) % 256 # b
<1>1. (b + 128) % 256 \in 0..255 /\ (b + 128) % 256 # b
  OBVIOUS
<1>2. WriteIp(tmpl, b) \in Streams
  <2>1. b \in Int /\ (b + 128) % 256 \in Int
    BY <1>1
  <2>2. [tmpl EXCEPT !.src[4] = b, !.dst[4] = (b + 128) % 256] \in Streams
    BY <2>1, HostBytesKeepType, Zenon
  <2>3. QED
    BY <2>2 DEF WriteIp
<1>3. /\ WriteIp(tmpl, b).frame = tmpl.frame /\ WriteIp(tmpl, b).size = tmpl.size
      /\ WriteIp(tmpl, b).src[4] = b
      /\ WriteIp(tmpl, b).dst[4] = (b + 128) % 256
  BY DEF WriteIp, Streams
<1>4. QED
  BY <1>1, <1>2, <1>3

THEOREM InitIInv == Init => IInv
BY DEF Init, IInv, TypeOK, FrameInv, PacketsAsConfigured

(* get_streams either raises (NoStream) or builds an accepted stream      *)
(* whose addresses are four ints.                                          *)
LEMMA GetStreamsStep ==
  ASSUME IInv, NEW p \in PortIds, NEW size \in Sizes, NEW offset \in Offsets,
         GetStreams(p, size, offset)
  PROVE  IInv'
<1> USE StreamAssumption
<1>1. CASE size < SizeRange.min \/ size > SizeRange.max
  <2>1. streams' = [streams EXCEPT ![p] = NoStream]
    BY <1>1 DEF GetStreams
  <2>2. QED
    BY <2>1 DEF GetStreams, IInv, TypeOK, FrameInv, PacketsAsConfigured
<1>2. CASE ~(size < SizeRange.min \/ size > SizeRange.max)
  <2> DEFINE o == p \div 2 + offset
             st == CreateStream(size, <<16, 0, o, 1>>, <<48, 0, o, 1>>)
  <2>1. size \in SizeRange.min..SizeRange.max
    BY <1>2 DEF SizeRange
  <2>2. o \in Int
    BY DEF o
  <2>3. <<16, 0, o, 1>> \in [1..4 -> Int] /\ <<48, 0, o, 1>> \in [1..4 -> Int]
    BY <2>2
  <2>4. st \in Streams /\ st.frame = size /\ st.size = size
    BY <2>1, <2>3, CreateStreamOK DEF st
  <2>5. streams' = [streams EXCEPT ![p] = st]
    BY <1>2 DEF GetStreams, st, o
  <2>6. pkt' = pkt
    BY DEF GetStreams
  <2>7. TypeOK'
    BY <2>4, <2>5, <2>6 DEF IInv, TypeOK
  <2>8. FrameInv'
    BY <2>4, <2>5 DEF IInv, TypeOK, FrameInv
  <2>9. PacketsAsConfigured'
    BY <2>6 DEF IInv, PacketsAsConfigured
  <2>10. QED
    BY <2>7, <2>8, <2>9 DEF IInv
<1>3. QED
  BY <1>1, <1>2

(* A packet is the stream's template with both host bytes and the source  *)
(* port rewritten: its frame is the stream's accepted size.               *)
LEMMA SendStep ==
  ASSUME IInv, NEW p \in PortIds, Send(p)
  PROVE  IInv'
<1> USE StreamAssumption
<1>1. PICK cur \in Streams : cur = streams[p] /\ cur.frame = cur.size
  BY DEF Send, IInv, TypeOK, FrameInv
<1>2. PICK ip \in IpBytes, sp \in SPorts : pkt' = [WriteIp(cur, ip) EXCEPT !.sport = sp]
  BY <1>1 DEF Send
<1>3. ip \in 0..255 /\ sp \in PortRange.min..PortRange.max
  BY SPortAssumption
<1>4. /\ WriteIp(cur, ip) \in Streams
      /\ WriteIp(cur, ip).frame = cur.frame /\ WriteIp(cur, ip).size = cur.size
      /\ WriteIp(cur, ip).src[4] = ip /\ WriteIp(cur, ip).dst[4] = (ip + 128) % 256
      /\ (ip + 128) % 256 \in 0..255 /\ (ip + 128) % 256 # ip
  <2>1. WriteIp(cur, ip) \in Streams
    BY <1>1, <1>3, WriteIpOK
  <2>2. /\ WriteIp(cur, ip).frame = cur.frame /\ WriteIp(cur, ip).size = cur.size
        /\ WriteIp(cur, ip).src[4] = ip /\ WriteIp(cur, ip).dst[4] = (ip + 128) % 256
    BY <1>1 DEF WriteIp, Streams
  <2>3. (ip + 128) % 256 \in 0..255 /\ (ip + 128) % 256 # ip
    BY <1>3
  <2>4. QED
    BY <2>1, <2>2, <2>3
<1>5. pkt' \in Streams
  <2>1. [WriteIp(cur, ip) EXCEPT !.sport = sp] \in Streams
    BY <1>3, <1>4, SportKeepsType, Zenon
  <2>2. QED
    BY <1>2, <2>1
<1>6. /\ pkt'.frame = WriteIp(cur, ip).frame /\ pkt'.size = WriteIp(cur, ip).size
      /\ pkt'.src = WriteIp(cur, ip).src /\ pkt'.dst = WriteIp(cur, ip).dst
  BY <1>2, <1>4 DEF Streams
<1>7. streams' = streams
  BY DEF Send
<1>8. TypeOK'
  BY <1>5, <1>7 DEF IInv, TypeOK
<1>9. FrameInv'
  BY <1>7 DEF IInv, FrameInv
<1>10. PacketsAsConfigured'
  <2>1. pkt'.frame = pkt'.size
    BY <1>1, <1>4, <1>6
  <2>2. pkt'.src[4] = ip /\ pkt'.dst[4] = (ip + 128) % 256
    BY <1>4, <1>6
  <2>3. QED
    BY <2>1, <2>2, <1>4 DEF PacketsAsConfigured
<1>11. QED
  BY <1>8, <1>9, <1>10 DEF IInv

THEOREM NextIInv == IInv /\ [Next]_vars => IInv'
<1> SUFFICES ASSUME IInv, [Next]_vars PROVE IInv'
  OBVIOUS
<1>1. CASE \E p \in PortIds, size \in Sizes, offset \in Offsets :
             GetStreams(p, size, offset)
  BY <1>1, GetStreamsStep
<1>2. CASE \E p \in PortIds : Send(p)
  BY <1>2, SendStep
<1>3. CASE UNCHANGED vars
  BY <1>3 DEF vars, IInv, TypeOK, FrameInv, PacketsAsConfigured
<1>4. QED
  BY <1>1, <1>2, <1>3 DEF Next

(* Every loaded stream and every packet is well typed, and every packet   *)
(* the field engine sends is exactly the accepted --size with distinct    *)
(* host bytes, whatever the ports, sizes, offsets and random draws.       *)
THEOREM StreamSafety == Spec => [](TypeOK /\ PacketsAsConfigured)
<1>1. IInv => TypeOK /\ PacketsAsConfigured
  BY DEF IInv
<1>2. QED
  BY <1>1, InitIInv, NextIInv, PTL DEF Spec

(* For every value of the constants, every stream get_streams returns   *)
(* and every packet has an accepted size and a port of port_range.       *)
COROLLARY StreamTypeCorrect == Spec => []TypeOK
  BY StreamSafety, PTL
=============================================================================
