--------------------------------- MODULE Bits ---------------------------------
(***************************************************************************)
(* The operators &, | and ^ of C++ on numbers of up to 16 bits, bit by     *)
(* bit: the community module Bitwise has them too, but by recursion, which *)
(* is out of the provers' reach.                                           *)
(***************************************************************************)
EXTENDS Integers

(* The bit of x at the power p of two *)
Bit(x, p) == (x \div p) % 2

Combined(op, a, b) ==
  CASE op = "and" -> IF a = 1 /\ b = 1 THEN 1 ELSE 0
    [] op = "or"  -> IF a = 1 \/ b = 1 THEN 1 ELSE 0
    [] OTHER      -> IF a = b THEN 0 ELSE 1

Bits8(op, x, y) ==
  LET B(p) == Combined(op, Bit(x, p), Bit(y, p))
  IN  B(1) + 2 * B(2) + 4 * B(4) + 8 * B(8)
        + 16 * B(16) + 32 * B(32) + 64 * B(64) + 128 * B(128)

Bits16(op, x, y) ==
  256 * Bits8(op, x \div 256, y \div 256) + Bits8(op, x % 256, y % 256)

x & y  == Bits16("and", x, y)
x | y  == Bits16("or", x, y)
x ^^ y == Bits16("xor", x, y)
==============================================================================
