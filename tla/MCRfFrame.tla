------------------------------- MODULE MCRfFrame -------------------------------
(* Frames for TLC with the CRC of the code: lengths around every boundary of   *)
(* the layout, packets that end inside the header or the payload, and devices  *)
(* that send more than 25 bytes.                                               *)
EXTENDS RfFrame, RfCrc

Data(src, ctr, cmd, len, fill) ==
  [c \in Cells |-> CASE c < I_SRC        -> 17
                     [] c < I_CTRL       -> src
                     [] c = I_CTRL       -> 0
                     [] c = I_CTR        -> ctr
                     [] c = I_RND        -> 90
                     [] c = I_LEN - 1    -> cmd
                     [] c = I_LEN        -> len
                     [] OTHER            -> fill]

MCStack == {[c \in Cells |-> (c * 7) % 256]}

MCDatagrams ==
  {[data |-> Data(240, 1, 2, l, 165), len |-> 256] :
     l \in {0, 4, 10, 11, 241, 242, 246, 247, 255}} \cup
  {[data |-> Data(240, 2, 3, 4, 60), len |-> n] : n \in {0, 5, 12, 15, 17}}

MCForeign ==
  {[data |-> Data(1, 3, 4, l, 165), len |-> CrcAt(l) + 2] : l \in {0, 10, 12, 40, 241}}

MCCuts == {3, 10, 14, 18, 256}

\* Every bit of the length, and a bit of some other bytes; the CRC of a payload of
\* 40 bytes is at 53 and 54.
MCFlips == {[at |-> I_LEN, weight |-> w] : w \in Weights}
             \cup {[at |-> n, weight |-> 2^(n % 8)] :
                     n \in (0 .. (SentLen - 1)) \cup {40, 52, 53, 54, 255}}

\* crc16 detects a changed bit, in what frames of several lengths cover.
ASSUME CrcDetectsABit ==
  \A len \in {0, 1, 9, 22, 49, 100}, fill \in {0, 165, 255} :
    DetectsABit([n \in 1 .. len |-> (fill + n * n) % 256])

\* The shifts of crc16 compute the CRC-CCITT of what a frame covers, whatever
\* the length byte makes of that, also when it wraps.
CrcIsCcitt == onAir > 0 => Crc(Covered(txbuf)) = Ccitt(Covered(txbuf))
===============================================================================
