-------------------------- MODULE MC_StreamProfile --------------------------
EXTENDS StreamProfile

(* Sizes at and beyond both bounds of lines 43-46.                          *)
MCSizes == {63, 64, 9216, 9217}
(* One port of each of two pairs.                                          *)
MCPortIds == {0, 3}
(* argparse accepts any int for --offset, negative ones included.         *)
MCOffsets == {-1, 7}

MCSPorts == {1234, 65500}
(* The ends of the byte and the two values around the +128 wrap.            *)
MCIpBytes == {0, 1, 127, 128, 255}
=============================================================================
