--------------------------------- MODULE RfCrc ---------------------------------
(* crc16 of rf.c in its integer widths, and the checksum it is meant to be.    *)
EXTENDS Integers, Sequences, Bitwise

\* Mutant of Spread: the shift by five is one by four.
SpreadFour(x) ==
  LET y == x ^^ (x \div 16) IN (((y * 4096) % 65536) ^^ (y * 16)) ^^ y

\* What a byte x, combined with the high byte so far, adds to the CRC.  x is a
\* uint8_t, the shifted values are uint16_t.
Spread(x) ==
  LET y == x ^^ (x \div 16) IN (((y * 4096) % 65536) ^^ (y * 32)) ^^ y

\* The same for CRC-CCITT: eight steps of division by x^16 + x^12 + x^5 + 1.
Divided(x) ==
  LET rest[n \in 0 .. 8] ==
        IF n = 0 THEN x * 256
        ELSE LET r == rest[n - 1] IN
             IF r >= 32768 THEN ((2 * r) % 65536) ^^ 4129 ELSE 2 * r
  IN  rest[8]

Contribution == [x \in 0 .. 255 |-> Spread(x)]
Remainder    == [x \in 0 .. 255 |-> Divided(x)]

ByteXor == [x \in 0 .. 255 |-> [y \in 0 .. 255 |-> x ^^ y]]

\* crc << 8 combined with what byte b contributes; only the high bytes meet.
Next8(table, crc, b) ==
  LET t == table[ByteXor[crc \div 256][b]]
  IN  256 * ByteXor[crc % 256][t \div 256] + (t % 256)

\* The CRC so far, taken over data[lo .. hi]: over the first half, then over the
\* second.  (Comparing the first result makes TLC compute it first, which keeps
\* the recursion shallow.)
RECURSIVE Taken(_, _, _, _, _)
Taken(table, crc, data, lo, hi) ==
  IF lo > hi THEN crc
  ELSE IF lo = hi
  THEN Next8(table, crc, data[lo])
  ELSE LET mid  == (lo + hi) \div 2
           half == Taken(table, crc, data, lo, mid)
       IN  IF half >= 0 THEN Taken(table, half, data, mid + 1, hi) ELSE half

crc16(data) == Taken(Contribution, 65535, data, 1, Len(data))
Ccitt(data) == Taken(Remainder, 65535, data, 1, Len(data))
===============================================================================
