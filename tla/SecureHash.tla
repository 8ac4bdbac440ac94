------------------------------ MODULE SecureHash ------------------------------
(***************************************************************************)
(* SHA-1 as its standard (FIPS 180-4) defines it, for the messages of less *)
(* than 2^13 bytes: what crypto::sha1 promises.  A word is a number below  *)
(* 2^32.  The standard's recurrences are stated as a relation between a    *)
(* padded message and all that is computed from it; they determine the one *)
(* from the other.                                                         *)
(***************************************************************************)
EXTENDS Integers, Sequences, Bits

Plus(x, y) == (x + y) % 4294967296

ROTL1(x)  == ((2 * x) % 4294967296) + (x \div 2147483648)
ROTL5(x)  == ((32 * x) % 4294967296) + (x \div 134217728)
ROTL30(x) == ((1073741824 * x) % 4294967296) + (x \div 4)

Complement(x) == 4294967295 - x

Bits32(op, x, y) ==
  65536 * Bits16(op, x \div 65536, y \div 65536)
    + Bits16(op, x % 65536, y % 65536)

Ch(x, y, z) == Bits32("xor", Bits32("and", x, y), Bits32("and", Complement(x), z))

Parity(x, y, z) == Bits32("xor", Bits32("xor", x, y), z)

Maj(x, y, z) ==
  Bits32("xor", Bits32("xor", Bits32("and", x, y), Bits32("and", x, z)),
                Bits32("and", y, z))

FunctionOf(t, x, y, z) ==
  CASE t \in 0..19  -> Ch(x, y, z)
    [] t \in 40..59 -> Maj(x, y, z)
    [] OTHER        -> Parity(x, y, z)

ConstantOf(t) == CASE t \in 0..19  -> 1518500249
                   [] t \in 20..39 -> 1859775393
                   [] t \in 40..59 -> 2400959708
                   [] OTHER        -> 3395469782

------------------------------------------------------------------------------
Octet == {n \in Nat : n < 256}

(* A message, a bit 1, bits 0, and the message's length in bits: as few    *)
(* blocks of 512 bits as there is room in.                                 *)
IsPadded(M, message) ==
  LET n == Len(message)
      L == Len(M)
  IN  /\ M \in Seq(Octet)
      /\ L % 64 = 0 /\ n + 9 <= L /\ L < n + 9 + 64
      /\ \A p \in 1..n : M[p] = message[p]
      /\ M[n + 1] = 128
      /\ \A p \in (n + 2)..(L - 2) : M[p] = 0
      /\ 256 * M[L - 1] + M[L] = 8 * n

MessageWord(M, p) ==  \* the word of the bytes from p + 1 on
  65536 * (256 * M[p + 1] + M[p + 2]) + (256 * M[p + 3] + M[p + 4])

(* W[b] is the message schedule of block b, S[b][t] the working variables  *)
(* before round t, and H[b] the hash value before block b.                 *)
IsSchedule(M, b, W) ==
  /\ \A t \in 0..15 : W[b][t] = MessageWord(M, 64 * b + 4 * t)
  /\ \A t \in 16..79 :
       W[b][t] = ROTL1(Bits32("xor", Bits32("xor", W[b][t - 3], W[b][t - 8]),
                                     Bits32("xor", W[b][t - 14], W[b][t - 16])))

IsRound(t, x, y, word) ==  \* from the working variables x to y
  /\ y[1] = Plus(Plus(Plus(Plus(ROTL5(x[1]), FunctionOf(t, x[2], x[3], x[4])),
                           x[5]), ConstantOf(t)), word)
  /\ y[2] = x[1] /\ y[3] = ROTL30(x[2]) /\ y[4] = x[3] /\ y[5] = x[4]

InitialValue == << 1732584193, 4023233417, 2562383102, 271733878, 3285377520 >>

IsHash(M, W, S, H) ==
  /\ \A n \in 1..5 : H[0][n] = InitialValue[n]
  /\ \A b \in 0..((Len(M) \div 64) - 1) :
       /\ IsSchedule(M, b, W)
       /\ \A n \in 1..5 : S[b][0][n] = H[b][n]
       /\ \A t \in 0..79 : IsRound(t, S[b][t], S[b][t + 1], W[b][t])
       /\ \A n \in 1..5 : H[b + 1][n] = Plus(H[b][n], S[b][80][n])

(* The bytes of a hash value *)
ByteOf(word, n) == CASE n = 1 -> word \div 16777216
                     [] n = 2 -> (word \div 65536) % 256
                     [] n = 3 -> (word \div 256) % 256
                     [] n = 4 -> word % 256

Digest(words) ==
  [n \in 1..20 |-> ByteOf(words[(n + 3) \div 4], 1 + ((n - 1) % 4))]
==============================================================================
