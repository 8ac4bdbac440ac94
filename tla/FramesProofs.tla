----------------------------- MODULE FramesProofs -----------------------------
(***************************************************************************)
(* Proofs about Frames.tla.                                                *)
(***************************************************************************)
EXTENDS Frames, SecureHash, SequenceTheorems, FiniteSetTheorems, TLAPS

------------------------------------------------------------------------------
(* Bits *)

(* A bit is 0 or 1, and what two bits are combined to is one. *)
LEMMA BitIsBit ==
  ASSUME NEW x \in Int, NEW p \in {1, 2, 4, 8, 16, 32, 64, 128}
  PROVE  Bit(x, p) \in 0..1
BY DEF Bit

LEMMA CombinedIsBit ==
  ASSUME NEW op, NEW a, NEW b
  PROVE  Combined(op, a, b) \in 0..1
BY DEF Combined

(* What the operators make of bytes and halves is one again. *)
LEMMA ByteRange ==
  ASSUME NEW op, NEW x, NEW y
  PROVE  Bits8(op, x, y) \in Byte
<1> DEFINE B(p) == Combined(op, Bit(x, p), Bit(y, p))
<1>1. \A p : B(p) \in 0..1
  BY CombinedIsBit
<1>2. Bits8(op, x, y) = B(1) + 2 * B(2) + 4 * B(4) + 8 * B(8)
        + 16 * B(16) + 32 * B(32) + 64 * B(64) + 128 * B(128)
  BY DEF Bits8
<1> HIDE DEF B
<1>3. /\ B(1) \in 0..1 /\ B(2) \in 0..1 /\ B(4) \in 0..1 /\ B(8) \in 0..1
      /\ B(16) \in 0..1 /\ B(32) \in 0..1 /\ B(64) \in 0..1 /\ B(128) \in 0..1
  BY <1>1
<1> QED BY <1>2, <1>3 DEF Byte

LEMMA HalfRange ==
  ASSUME NEW op, NEW x, NEW y
  PROVE  Bits16(op, x, y) \in Half
<1>2. PICK hi \in Byte : hi = Bits8(op, x \div 256, y \div 256)
  BY ByteRange
<1>3. PICK lo \in Byte : lo = Bits8(op, x % 256, y % 256)
  BY ByteRange
<1>4. Bits16(op, x, y) = 256 * hi + lo
  BY <1>2, <1>3 DEF Bits16
<1>5. 256 * hi + lo \in Half
  BY DEF Byte, Half
<1> QED BY <1>4, <1>5

LEMMA ByteXor ==
  ASSUME NEW x \in Byte, NEW y \in Byte
  PROVE  x ^^ y = Bits8("xor", x, y)
<1>1. x \div 256 = 0 /\ y \div 256 = 0 /\ x % 256 = x /\ y % 256 = y
  BY DEF Byte
<1>2. Bits8("xor", 0, 0) = 0
  BY DEF Bits8, Combined
<1>3. Bits8("xor", x, y) \in Byte
  BY ByteRange
<1>4. x ^^ y = 256 * Bits8("xor", 0, 0) + Bits8("xor", x, y)
  BY <1>1 DEF ^^, Bits16
<1> QED BY <1>4, <1>2, <1>3 DEF Byte

(* A byte is the sum of its bits, and a sum of bits has them. *)
LEMMA Decompose ==
  ASSUME NEW x \in Byte
  PROVE  x = Bit(x, 1) + 2 * Bit(x, 2) + 4 * Bit(x, 4) + 8 * Bit(x, 8)
               + 16 * Bit(x, 16) + 32 * Bit(x, 32) + 64 * Bit(x, 64) + 128 * Bit(x, 128)
BY DEF Byte, Bit

LEMMA Compose ==
  ASSUME NEW b0 \in 0..1, NEW b1 \in 0..1, NEW b2 \in 0..1, NEW b3 \in 0..1,
         NEW b4 \in 0..1, NEW b5 \in 0..1, NEW b6 \in 0..1, NEW b7 \in 0..1,
         NEW z, z = b0 + 2 * b1 + 4 * b2 + 8 * b3 + 16 * b4 + 32 * b5 + 64 * b6 + 128 * b7
  PROVE  /\ Bit(z, 1) = b0 /\ Bit(z, 2) = b1 /\ Bit(z, 4) = b2 /\ Bit(z, 8) = b3
         /\ Bit(z, 16) = b4 /\ Bit(z, 32) = b5 /\ Bit(z, 64) = b6 /\ Bit(z, 128) = b7
<1>1. (z \div 1) % 2 = b0 OBVIOUS
<1>2. (z \div 2) % 2 = b1 OBVIOUS
<1>3. (z \div 4) % 2 = b2 OBVIOUS
<1>4. (z \div 8) % 2 = b3 OBVIOUS
<1>5. (z \div 16) % 2 = b4 OBVIOUS
<1>6. (z \div 32) % 2 = b5 OBVIOUS
<1>7. (z \div 64) % 2 = b6 OBVIOUS
<1>8. (z \div 128) % 2 = b7 OBVIOUS
<1> QED BY <1>1, <1>2, <1>3, <1>4, <1>5, <1>6, <1>7, <1>8 DEF Bit

LEMMA BitsOfBits8 ==
  ASSUME NEW op, NEW x, NEW y, NEW p \in {1, 2, 4, 8, 16, 32, 64, 128}
  PROVE  Bit(Bits8(op, x, y), p) = Combined(op, Bit(x, p), Bit(y, p))
<1> DEFINE B(q) == Combined(op, Bit(x, q), Bit(y, q))
<1>1. \A q : B(q) \in 0..1
  BY CombinedIsBit
<1>2. Bits8(op, x, y) = B(1) + 2 * B(2) + 4 * B(4) + 8 * B(8)
        + 16 * B(16) + 32 * B(32) + 64 * B(64) + 128 * B(128)
  BY DEF Bits8
<1> HIDE DEF B
<1>3. /\ B(1) \in 0..1 /\ B(2) \in 0..1 /\ B(4) \in 0..1 /\ B(8) \in 0..1
      /\ B(16) \in 0..1 /\ B(32) \in 0..1 /\ B(64) \in 0..1 /\ B(128) \in 0..1
  BY <1>1
<1>4. Bit(Bits8(op, x, y), p) = B(p)
  BY <1>2, <1>3, Compose
<1> QED BY <1>4 DEF B

(* Bytes with the same bits are the same. *)
LEMMA SameBits ==
  ASSUME NEW x \in Byte, NEW y \in Byte,
         \A p \in {1, 2, 4, 8, 16, 32, 64, 128} : Bit(x, p) = Bit(y, p)
  PROVE  x = y
BY Decompose

(* Unmasking with the mask gives back what was masked. *)
LEMMA XorTwice ==
  ASSUME NEW x \in Byte, NEW y \in Byte
  PROVE  /\ x ^^ y \in Byte
         /\ (x ^^ y) ^^ y = x
<1> DEFINE z == Bits8("xor", x, y)
<1>1. z \in Byte /\ x ^^ y = z
  BY ByteRange, ByteXor
<1>2. Bits8("xor", z, y) \in Byte /\ z ^^ y = Bits8("xor", z, y)
  BY <1>1, ByteRange, ByteXor
<1>3. ASSUME NEW p \in {1, 2, 4, 8, 16, 32, 64, 128}
      PROVE  Bit(Bits8("xor", z, y), p) = Bit(x, p)
  <2>1. Bit(x, p) \in 0..1 /\ Bit(y, p) \in 0..1
    BY BitIsBit DEF Byte
  <2>2. Bit(z, p) = Combined("xor", Bit(x, p), Bit(y, p))
    BY BitsOfBits8
  <2>3. Bit(Bits8("xor", z, y), p) = Combined("xor", Bit(z, p), Bit(y, p))
    BY BitsOfBits8
  <2> QED BY <2>1, <2>2, <2>3 DEF Combined
<1>4. Bits8("xor", z, y) = x
  BY <1>2, <1>3, SameBits
<1> QED BY <1>1, <1>2, <1>4

(* 0 masks nothing, and only what equals its mask becomes 0. *)
LEMMA XorZero ==
  ASSUME NEW x \in Byte
  PROVE  /\ 0 ^^ x = x
         /\ x ^^ 0 = x
<1>1. ASSUME NEW p \in {1, 2, 4, 8, 16, 32, 64, 128}
      PROVE  /\ Bit(Bits8("xor", 0, x), p) = Bit(x, p)
             /\ Bit(Bits8("xor", x, 0), p) = Bit(x, p)
  <2>1. Bit(x, p) \in 0..1 /\ Bit(0, p) = 0
    BY BitIsBit DEF Byte, Bit
  <2> QED BY <2>1, BitsOfBits8 DEF Combined
<1>2. Bits8("xor", 0, x) = x /\ Bits8("xor", x, 0) = x
  BY <1>1, ByteRange, SameBits
<1>3. 0 \in Byte
  BY DEF Byte
<1>4. 0 ^^ x = Bits8("xor", 0, x) /\ x ^^ 0 = Bits8("xor", x, 0)
  BY <1>3, ByteXor
<1> QED BY <1>2, <1>4

LEMMA XorSame ==
  ASSUME NEW x \in Byte, NEW y \in Byte
  PROVE  (x ^^ y = 0) <=> (x = y)
<1>1. 0 ^^ y = y /\ (x ^^ y) ^^ y = x
  BY XorZero, XorTwice
<1>2. y ^^ y = 0
  <2>1. ASSUME NEW p \in {1, 2, 4, 8, 16, 32, 64, 128}
        PROVE  Bit(Bits8("xor", y, y), p) = Bit(0, p)
    <3>1. Bit(0, p) = 0
      BY DEF Bit
    <3> QED BY <3>1, BitsOfBits8 DEF Combined
  <2>2. 0 \in Byte /\ Bits8("xor", y, y) \in Byte
    BY ByteRange DEF Byte
  <2>3. Bits8("xor", y, y) = 0
    BY <2>1, <2>2, SameBits
  <2> QED BY <2>3, ByteXor
<1> QED BY <1>1, <1>2
------------------------------------------------------------------------------
(* Words of 32 bits *)

Word == Half \X Half

(* The operators of sha1 make words of words. *)
LEMMA HalfOperators ==
  ASSUME NEW x, NEW y
  PROVE  x ^^ y \in Half /\ (x & y) \in Half /\ (x | y) \in Half
BY HalfRange DEF ^^, &, |

LEMMA WordOperators ==
  ASSUME NEW x \in Word, NEW y \in Word
  PROVE  /\ Xor2(x, y) \in Word
         /\ And2(x, y) \in Word
         /\ Or2(x, y) \in Word
         /\ Not2(x) \in Word
<1>1. Xor2(x, y) \in Word
  BY HalfOperators DEF Xor2, Word
<1>2. And2(x, y) \in Word
  BY HalfOperators DEF And2, Word
<1>3. Or2(x, y) \in Word
  BY HalfOperators DEF Or2, Word
<1>4. Not2(x) \in Word
  <2>1. x[1] \in Half /\ x[2] \in Half
    BY DEF Word
  <2>2. 65535 - x[1] \in Half /\ 65535 - x[2] \in Half
    BY <2>1 DEF Half
  <2> QED BY <2>2 DEF Not2, Word
<1> QED BY <1>1, <1>2, <1>3, <1>4

LEMMA AddIsWord ==
  ASSUME NEW x \in Word, NEW y \in Word
  PROVE  Add(x, y) \in Word
<1>1. x[1] \in Half /\ x[2] \in Half /\ y[1] \in Half /\ y[2] \in Half
  BY DEF Word
<1>2. (x[2] + y[2]) % 65536 \in Half
  BY <1>1 DEF Half
<1>3. (x[1] + y[1] + ((x[2] + y[2]) \div 65536)) % 65536 \in Half
  BY <1>1 DEF Half
<1> QED BY <1>2, <1>3 DEF Add, Word

LEMMA RotateIsWord ==
  ASSUME NEW x \in Word, NEW p \in {2, 32, 16384}
  PROVE  left_rotate(x, p) \in Word
<1>1. ASSUME NEW a \in Half, NEW b \in Half
      PROVE  (a % (65536 \div p)) * p + b \div (65536 \div p) \in Half
  <2>1. CASE p = 2
    BY <2>1 DEF Half
  <2>2. CASE p = 32
    BY <2>2 DEF Half
  <2>3. CASE p = 16384
    BY <2>3 DEF Half
  <2> QED BY <2>1, <2>2, <2>3
<1>2. x[1] \in Half /\ x[2] \in Half
  BY DEF Word
<1>3. /\ (x[1] % (65536 \div p)) * p + x[2] \div (65536 \div p) \in Half
      /\ (x[2] % (65536 \div p)) * p + x[1] \div (65536 \div p) \in Half
  BY <1>1, <1>2
<1> QED BY <1>3 DEF left_rotate, Word

LEMMA Rotate30IsWord ==
  ASSUME NEW x \in Word
  PROVE  left_rotate_30(x) \in Word
<1>1. <<x[2], x[1]>> \in Word
  BY DEF Word
<1> QED BY <1>1, RotateIsWord DEF left_rotate_30

LEMMA ConstantsAreWords ==
  /\ H0 \in Seq(Word) /\ Len(H0) = 5
  /\ \A j \in Int : k32(j) \in Word
BY DEF H0, k32, Word, Half

LEMMA FunctionIsWord ==
  ASSUME NEW j \in Int, NEW b \in Word, NEW c \in Word, NEW d \in Word
  PROVE  f(j, b, c, d) \in Word
<1>1. Or2(And2(b, c), And2(Not2(b), d)) \in Word
  BY WordOperators
<1>2. Or2(And2(b, c), Or2(And2(b, d), And2(c, d))) \in Word
  BY WordOperators
<1>3. Xor2(b, Xor2(c, d)) \in Word
  BY WordOperators
<1> QED BY <1>1, <1>2, <1>3 DEF f

------------------------------------------------------------------------------
(* The 32 bits of a word as one number *)
Value(x) == 65536 * x[1] + x[2]

LEMMA ValueOfHalves ==
  ASSUME NEW x \in Word
  PROVE  \E a, b \in Half : x = <<a, b>> /\ x[1] = a /\ x[2] = b
                            /\ Value(x) = 65536 * a + b
BY DEF Word, Value

LEMMA ValueOfAdd ==
  ASSUME NEW x \in Word, NEW y \in Word
  PROVE  Value(Add(x, y)) = (Value(x) + Value(y)) % 4294967296
<1>1. PICK a \in Half, b \in Half : x[1] = a /\ x[2] = b /\ Value(x) = 65536 * a + b
  BY ValueOfHalves
<1>2. PICK c \in Half, d \in Half : y[1] = c /\ y[2] = d /\ Value(y) = 65536 * c + d
  BY ValueOfHalves
<1>3. PICK q, r \in Nat : /\ (b + d) \div 65536 = q /\ (b + d) % 65536 = r
                          /\ b + d = 65536 * q + r /\ r < 65536
  BY DEF Half
<1>4. PICK s, t \in Nat : /\ (a + c + q) % 65536 = t
                          /\ a + c + q = 65536 * s + t /\ t < 65536
  BY DEF Half
<1>5. Value(Add(x, y)) = 65536 * t + r
  <2>1. Add(x, y) = <<(a + c + ((b + d) \div 65536)) % 65536, (b + d) % 65536>>
    BY <1>1, <1>2 DEF Add
  <2>2. Add(x, y) = <<t, r>>
    BY <2>1, <1>3, <1>4
  <2> QED BY <2>2 DEF Value
<1>6. /\ Value(x) + Value(y) = 4294967296 * s + (65536 * t + r)
      /\ 65536 * t + r \in Nat /\ 65536 * t + r < 4294967296
  BY <1>1, <1>2, <1>3, <1>4 DEF Half
<1>7. \A m, n \in Nat : n < 4294967296 => (4294967296 * m + n) % 4294967296 = n
  OBVIOUS
<1> QED BY <1>5, <1>6, <1>7

LEMMA ValueOfRotation1 ==
  ASSUME NEW x \in Word
  PROVE  Value(left_rotate(x, 2))
              = ((2 * Value(x)) % 4294967296) + (Value(x) \div 2147483648)
<1>1. PICK a \in Half, b \in Half : x[1] = a /\ x[2] = b /\ Value(x) = 65536 * a + b
  BY ValueOfHalves
<1>2. PICK q, r \in Nat : a \div 32768 = q /\ a % 32768 = r /\ a = 32768 * q + r /\ r < 32768
  BY DEF Half
<1>3. PICK s, t \in Nat : b \div 32768 = s /\ b % 32768 = t /\ b = 32768 * s + t /\ t < 32768 /\ s < 2
  BY DEF Half
<1>4. Value(left_rotate(x, 2)) = 65536 * (2 * r + s) + (2 * t + q)
  <2>1. 65536 \div 2 = 32768
    OBVIOUS
  <2> QED BY <1>1, <1>2, <1>3, <2>1 DEF left_rotate, Value
<1>5. /\ 2 * Value(x) = 4294967296 * q + (65536 * (2 * r + s) + 2 * t)
      /\ Value(x) = 2147483648 * q + (65536 * r + b)
      /\ 65536 * (2 * r + s) + 2 * t \in Nat /\ 65536 * r + b \in Nat
      /\ 65536 * (2 * r + s) + 2 * t < 4294967296
      /\ 65536 * r + b < 2147483648
  BY <1>1, <1>2, <1>3 DEF Half
<1>6. \A m, n \in Nat : n < 4294967296 => (4294967296 * m + n) % 4294967296 = n
  OBVIOUS
<1>7. \A m, n \in Nat : n < 2147483648 => (2147483648 * m + n) \div 2147483648 = m
  OBVIOUS
<1>8. (2 * Value(x)) % 4294967296 = 65536 * (2 * r + s) + 2 * t
  <2> DEFINE rest == 65536 * (2 * r + s) + 2 * t
  <2>1. 2 * Value(x) = 4294967296 * q + rest /\ rest \in Nat /\ rest < 4294967296
    BY <1>5
  <2> HIDE DEF rest
  <2>2. (4294967296 * q + rest) % 4294967296 = rest
    BY <2>1, <1>6
  <2>3. (2 * Value(x)) % 4294967296 = rest
    BY <2>1, <2>2
  <2> QED BY <2>3 DEF rest
<1>9. Value(x) \div 2147483648 = q
  BY <1>5, <1>7
<1> QED BY <1>4, <1>8, <1>9

LEMMA ValueOfRotation5 ==
  ASSUME NEW x \in Word
  PROVE  Value(left_rotate(x, 32))
              = ((32 * Value(x)) % 4294967296) + (Value(x) \div 134217728)
<1>1. PICK a \in Half, b \in Half : x[1] = a /\ x[2] = b /\ Value(x) = 65536 * a + b
  BY ValueOfHalves
<1>2. PICK q, r \in Nat : a \div 2048 = q /\ a % 2048 = r /\ a = 2048 * q + r /\ r < 2048
  BY DEF Half
<1>3. PICK s, t \in Nat : b \div 2048 = s /\ b % 2048 = t /\ b = 2048 * s + t /\ t < 2048 /\ s < 32
  BY DEF Half
<1>4. Value(left_rotate(x, 32)) = 65536 * (32 * r + s) + (32 * t + q)
  <2>1. 65536 \div 32 = 2048
    OBVIOUS
  <2> QED BY <1>1, <1>2, <1>3, <2>1 DEF left_rotate, Value
<1>5. /\ 32 * Value(x) = 4294967296 * q + (65536 * (32 * r + s) + 32 * t)
      /\ Value(x) = 134217728 * q + (65536 * r + b)
      /\ 65536 * (32 * r + s) + 32 * t \in Nat /\ 65536 * r + b \in Nat
      /\ 65536 * (32 * r + s) + 32 * t < 4294967296
      /\ 65536 * r + b < 134217728
  BY <1>1, <1>2, <1>3 DEF Half
<1>6. \A m, n \in Nat : n < 4294967296 => (4294967296 * m + n) % 4294967296 = n
  OBVIOUS
<1>7. \A m, n \in Nat : n < 134217728 => (134217728 * m + n) \div 134217728 = m
  OBVIOUS
<1>8. (32 * Value(x)) % 4294967296 = 65536 * (32 * r + s) + 32 * t
  <2> DEFINE rest == 65536 * (32 * r + s) + 32 * t
  <2>1. 32 * Value(x) = 4294967296 * q + rest /\ rest \in Nat /\ rest < 4294967296
    BY <1>5
  <2> HIDE DEF rest
  <2>2. (4294967296 * q + rest) % 4294967296 = rest
    BY <2>1, <1>6
  <2>3. (32 * Value(x)) % 4294967296 = rest
    BY <2>1, <2>2
  <2> QED BY <2>3 DEF rest
<1>9. Value(x) \div 134217728 = q
  BY <1>5, <1>7
<1> QED BY <1>4, <1>8, <1>9

LEMMA ValueOfRotation30 ==
  ASSUME NEW x \in Word
  PROVE  Value(left_rotate_30(x))
           = ((1073741824 * Value(x)) % 4294967296) + (Value(x) \div 4)
<1>1. PICK a \in Half, b \in Half : x[1] = a /\ x[2] = b /\ Value(x) = 65536 * a + b
  BY ValueOfHalves
<1>2. PICK q, r \in Nat : a \div 4 = q /\ a % 4 = r /\ a = 4 * q + r /\ r < 4
  BY DEF Half
<1>3. PICK s, t \in Nat : b \div 4 = s /\ b % 4 = t /\ b = 4 * s + t /\ t < 4
  BY DEF Half
<1>4. Value(left_rotate_30(x)) = 65536 * (t * 16384 + q) + (r * 16384 + s)
  <2>1. 65536 \div 16384 = 4
    OBVIOUS
  <2> QED BY <1>1, <1>2, <1>3, <2>1 DEF left_rotate_30, left_rotate, Value
<1> DEFINE m == 65536 * q + (16384 * r + s)
<1>5. /\ 1073741824 * Value(x) = 4294967296 * m + 1073741824 * t
      /\ Value(x) = 4 * m + t
      /\ m \in Nat
      /\ 1073741824 * t \in Nat /\ 1073741824 * t < 4294967296
      /\ 65536 * (t * 16384 + q) + (r * 16384 + s) = 1073741824 * t + m
  BY <1>1, <1>2, <1>3 DEF Half
<1> HIDE DEF m
<1>6. \A k, n \in Nat : n < 4294967296 => (4294967296 * k + n) % 4294967296 = n
  OBVIOUS
<1>7. \A k, n \in Nat : n < 4 => (4 * k + n) \div 4 = k
  OBVIOUS
<1>8. (1073741824 * Value(x)) % 4294967296 = 1073741824 * t
  BY <1>5, <1>6
<1>9. Value(x) \div 4 = m
  BY <1>2, <1>3, <1>5, <1>7
<1> QED BY <1>4, <1>5, <1>8, <1>9

(***************************************************************************)
(* The pairs of halves are the uint32_t of sha1: their sum wraps at 2^32,  *)
(* ~x is 2^32 - 1 - x, and left_rotate by 1, 5 and 30 is                   *)
(* (value << count) | (value >> (32 - count)).                             *)
(***************************************************************************)
THEOREM HalvesAreUint32 ==
  \A x, y \in Word :
    /\ Value(Add(x, y)) = (Value(x) + Value(y)) % 4294967296
    /\ Value(Not2(x)) = 4294967295 - Value(x)
    /\ Value(left_rotate(x, 2))
         = ((2 * Value(x)) % 4294967296) + (Value(x) \div 2147483648)
    /\ Value(left_rotate(x, 32))
         = ((32 * Value(x)) % 4294967296) + (Value(x) \div 134217728)
    /\ Value(left_rotate_30(x))
         = ((1073741824 * Value(x)) % 4294967296) + (Value(x) \div 4)
<1>1. ASSUME NEW x \in Word
      PROVE  Value(Not2(x)) = 4294967295 - Value(x)
  <2>1. PICK a \in Half, b \in Half : x[1] = a /\ x[2] = b /\ Value(x) = 65536 * a + b
    BY ValueOfHalves
  <2>2. Value(Not2(x)) = 65536 * (65535 - a) + (65535 - b)
    BY <2>1 DEF Not2, Value
  <2> QED BY <2>1, <2>2 DEF Half
<1> QED BY <1>1, ValueOfAdd, ValueOfRotation1, ValueOfRotation5, ValueOfRotation30

------------------------------------------------------------------------------
(* The padding of sha1 *)

(* The padded input of sha1 is one block or two. *)
LEMMA PaddingLength ==
  ASSUME NEW n \in 36..60
  PROVE  /\ PaddedLength(n) \in {56, 120}
         /\ n < PaddedLength(n)
BY DEF PaddedLength

LEMMA LengthByteIsByte ==
  ASSUME NEW n \in 36..60, NEW k \in Int
  PROVE  LengthByte(n, k) \in Byte
<1>1. (8 * n) % 256 \in Byte /\ (8 * n) \div 256 \in Byte /\ 0 \in Byte
  BY DEF Byte
<1> QED BY <1>1 DEF LengthByte

(* A function on 1..n is a sequence of length n. *)
LEMMA FunctionIsSeq ==
  ASSUME NEW S, NEW n \in Nat, NEW g \in [1..n -> S]
  PROVE  g \in Seq(S) /\ Len(g) = n
OBVIOUS

LEMMA PaddedIsBlocks ==
  ASSUME NEW input \in Bytes, Len(input) \in 36..60
  PROVE  Padded(input) \in Bytes /\ Len(Padded(input)) \in {64, 128}
<1>1. PICK n \in 36..60 : n = Len(input)
  OBVIOUS
<1>2. PICK L \in {64, 128} : L = PaddedLength(n) + 8
  BY PaddingLength
<1>3. ASSUME NEW p \in 1..L
      PROVE  PaddedByte(input, p) \in Byte
  <2>1. p <= n => input[p] \in Byte
    BY <1>1 DEF Bytes
  <2>2. \A k \in Int : LengthByte(n, k) \in Byte
    BY LengthByteIsByte
  <2>3. PICK k \in Int : k = PaddedLength(n) + 8 - p
    BY PaddingLength
  <2>4. PICK r \in Byte : r = LengthByte(n, k)
    BY <2>2
  <2>5. 128 \in Byte /\ 0 \in Byte
    BY DEF Byte
  <2>6. PaddedByte(input, p) \in {input[p], 128, r, 0}
    BY <1>1, <2>3, <2>4 DEF PaddedByte
  <2>7. ~(p <= n) => PaddedByte(input, p) \in {128, r, 0}
    BY <1>1, <2>3, <2>4 DEF PaddedByte
  <2> QED BY <2>1, <2>5, <2>6, <2>7
<1>4. Padded(input) \in [1..L -> Byte]
  BY <1>1, <1>2, <1>3 DEF Padded
<1>5. L \in Nat
  OBVIOUS
<1> QED BY <1>4, <1>5, FunctionIsSeq DEF Bytes

LEMMA InputLength ==
  ASSUME NEW k \in Bytes, Len(k) <= 24
  PROVE  k \o Guid \in Bytes /\ Len(k \o Guid) \in 36..60
<1>1. Guid \in Seq(Byte) /\ Len(Guid) = 36
  BY DEF Guid, Byte
<1>2. PICK n \in Nat : n = Len(k) /\ n <= 24
  BY LenProperties DEF Bytes
<1>3. k \o Guid \in Seq(Byte) /\ Len(k \o Guid) = Len(k) + Len(Guid)
  BY <1>1, ConcatProperties, Zenon DEF Bytes
<1>4. Len(k \o Guid) = n + 36
  <2>1. Len(Guid) = 36
    BY <1>1
  <2>2. Len(k \o Guid) = Len(k) + Len(Guid)
    BY <1>3
  <2> QED BY <1>2, <2>1, <2>2
<1>5. n + 36 \in 36..60
  <2>1. n \in Nat /\ n <= 24
    BY <1>2, Zenon
  <2> QED BY <2>1
<1>6. k \o Guid \in Bytes
  BY <1>3, Zenon DEF Bytes
<1> QED BY <1>4, <1>5, <1>6, Zenon

LEMMA RequestIsPadded ==
  ASSUME NEW k \in Bytes, Len(k) <= 24
  PROVE  /\ Padded(k \o Guid) \in Bytes
         /\ Len(Padded(k \o Guid)) \in {64, 128}
BY InputLength, PaddedIsBlocks

------------------------------------------------------------------------------
(* The answer *)

(* The hash is bytes, and base64 makes its 64 characters or = of them. *)
LEMMA HashIsBytes ==
  ASSUME h \in Seq(Word), Len(h) = 5
  PROVE  hash \in Bytes
<1>1. ASSUME NEW n \in 1..20
      PROVE  HashByte(n) \in Byte
  <2>1. PICK j \in 1..5 : j = (n + 3) \div 4
    OBVIOUS
  <2>2. PICK x \in Word : x = h[j]
    BY ElementOfSeq
  <2>3. x[1] \in Half /\ x[2] \in Half
    BY DEF Word
  <2>4. \A y \in Half : y \div 256 \in Byte /\ y % 256 \in Byte
    BY DEF Half, Byte
  <2>5. /\ x[1] \div 256 \in Byte /\ x[1] % 256 \in Byte
        /\ x[2] \div 256 \in Byte /\ x[2] % 256 \in Byte
    BY <2>3, <2>4
  <2>6. HashByte(n) \in {x[1] \div 256, x[1] % 256, x[2] \div 256, x[2] % 256}
    BY <2>1, <2>2 DEF HashByte
  <2> QED BY <2>5, <2>6
<1>2. hash \in [1..20 -> Byte]
  BY <1>1 DEF hash
<1> QED BY <1>2, FunctionIsSeq DEF Bytes

LEMMA Base64Characters ==
  ASSUME NEW buf \in Bytes
  PROVE  base64_encode(buf) \in Seq(0..64)
<1>1. PICK N \in Nat : N = 4 * ((Len(buf) + 2) \div 3)
  BY DEF Bytes
<1>2. ASSUME NEW n \in 1..N
      PROVE  Character(buf, n) \in 0..64
  <2> DEFINE At(p) == IF p <= Len(buf) THEN buf[p] ELSE 0
  <2>1. \A p \in Nat \ {0} : At(p) \in Byte
    BY DEF Bytes, Byte
  <2>2. PICK g \in Nat : g = 3 * ((n - 1) \div 4)
    OBVIOUS
  <2>3. PICK a \in Byte, b \in Byte, c \in Byte :
          a = At(g + 1) /\ b = At(g + 2) /\ c = At(g + 3)
    BY <2>1
  <2>4. Character(buf, n) \in {a \div 4, (a % 4) * 16 + (b \div 16), 64,
                              (b % 16) * 4 + (c \div 64), c % 64}
    BY <2>2, <2>3 DEF Character
  <2>5. /\ a \div 4 \in 0..64
        /\ (a % 4) * 16 + (b \div 16) \in 0..64
        /\ (b % 16) * 4 + (c \div 64) \in 0..64
        /\ c % 64 \in 0..64
    BY DEF Byte
  <2> QED BY <2>4, <2>5
<1>3. base64_encode(buf) \in [1..N -> 0..64]
  BY <1>1, <1>2 DEF base64_encode
<1> QED BY <1>3, FunctionIsSeq

------------------------------------------------------------------------------
(* base64 can be decoded *)

(* What a decoder of base64 makes of four characters *)
DecodedByte(c, n) ==
  LET g == 4 * ((n - 1) \div 3)
  IN  CASE n % 3 = 1 -> c[g + 1] * 4 + (c[g + 2] \div 16)
        [] n % 3 = 2 -> (c[g + 2] % 16) * 16 + (c[g + 3] \div 4)
        [] OTHER     -> (c[g + 3] % 4) * 64 + c[g + 4]

ByteAt(buf, p) == IF p <= Len(buf) THEN buf[p] ELSE 0

LEMMA ByteAtIsByte ==
  ASSUME NEW buf \in Bytes, NEW p \in Nat, p > 0
  PROVE  ByteAt(buf, p) \in Byte
BY DEF Bytes, Byte, ByteAt

(* The four characters of a group of three bytes *)
LEMMA CharactersOfGroup ==
  ASSUME NEW buf, NEW L \in Nat, L = Len(buf), NEW m \in Nat
  PROVE  /\ Character(buf, 4 * m + 1) = ByteAt(buf, 3 * m + 1) \div 4
         /\ Character(buf, 4 * m + 2) = (ByteAt(buf, 3 * m + 1) % 4) * 16
                                          + (ByteAt(buf, 3 * m + 2) \div 16)
         /\ Character(buf, 4 * m + 3)
              = IF 3 * m + 2 > L THEN 64
                ELSE (ByteAt(buf, 3 * m + 2) % 16) * 4 + (ByteAt(buf, 3 * m + 3) \div 64)
         /\ Character(buf, 4 * m + 4)
              = IF 3 * m + 3 > L THEN 64 ELSE ByteAt(buf, 3 * m + 3) % 64
<1>1. ASSUME NEW k \in {1, 2, 3, 4}
      PROVE  (4 * m + k) % 4 = k % 4 /\ 3 * ((4 * m + k - 1) \div 4) = 3 * m
  OBVIOUS
<1>2. Character(buf, 4 * m + 1) = ByteAt(buf, 3 * m + 1) \div 4
  <2>1. PICK n : n = 4 * m + 1 /\ n % 4 = 1 /\ 3 * ((n - 1) \div 4) = 3 * m
                 /\ n % 4 # 2 /\ n % 4 # 3
    BY <1>1
  <2> QED BY <2>1, Zenon DEF Character, ByteAt
<1>3. Character(buf, 4 * m + 2) = (ByteAt(buf, 3 * m + 1) % 4) * 16
                                     + (ByteAt(buf, 3 * m + 2) \div 16)
  <2>1. PICK n : n = 4 * m + 2 /\ n % 4 = 2 /\ 3 * ((n - 1) \div 4) = 3 * m
                 /\ n % 4 # 1 /\ n % 4 # 3
    BY <1>1
  <2> QED BY <2>1, Zenon DEF Character, ByteAt
<1>4. Character(buf, 4 * m + 3)
        = IF 3 * m + 2 > L THEN 64
          ELSE (ByteAt(buf, 3 * m + 2) % 16) * 4 + (ByteAt(buf, 3 * m + 3) \div 64)
  <2>1. PICK n : n = 4 * m + 3 /\ n % 4 = 3 /\ 3 * ((n - 1) \div 4) = 3 * m
                 /\ n % 4 # 1 /\ n % 4 # 2
    BY <1>1
  <2> QED BY <2>1, Zenon DEF Character, ByteAt
<1>5. Character(buf, 4 * m + 4)
        = IF 3 * m + 3 > L THEN 64 ELSE ByteAt(buf, 3 * m + 3) % 64
  <2>1. PICK n : n = 4 * m + 4 /\ 3 * ((n - 1) \div 4) = 3 * m
                 /\ n % 4 # 1 /\ n % 4 # 2 /\ n % 4 # 3
    BY <1>1
  <2> QED BY <2>1, Zenon DEF Character, ByteAt
<1> QED BY <1>2, <1>3, <1>4, <1>5

LEMMA GroupIsDecoded ==
  ASSUME NEW x \in Byte, NEW y \in Byte, NEW z \in Byte
  PROVE  /\ (x \div 4) * 4 + (((x % 4) * 16 + (y \div 16)) \div 16) = x
         /\ (((x % 4) * 16 + (y \div 16)) % 16) * 16 + (((y % 16) * 4 + (z \div 64)) \div 4) = y
         /\ (((y % 16) * 4 + (z \div 64)) % 4) * 64 + (z % 64) = z
<1>1. PICK a, b \in Nat : x \div 4 = a /\ x % 4 = b /\ x = 4 * a + b /\ b < 4
  BY DEF Byte
<1>2. PICK c, d \in Nat : y \div 16 = c /\ y % 16 = d /\ y = 16 * c + d /\ d < 16 /\ c < 16
  BY DEF Byte
<1>3. PICK e, g \in Nat : z \div 64 = e /\ z % 64 = g /\ z = 64 * e + g /\ g < 64 /\ e < 4
  BY DEF Byte
<1>4. (b * 16 + c) \div 16 = b /\ (b * 16 + c) % 16 = c
  BY <1>1, <1>2
<1>5. (d * 4 + e) \div 4 = d /\ (d * 4 + e) % 4 = e
  BY <1>2, <1>3
<1> QED BY <1>1, <1>2, <1>3, <1>4, <1>5

(* The length of the text, and which of its characters are '=' *)
Filled(L) == (3 - (L % 3)) % 3

(***************************************************************************)
(* base64_encode loses nothing: whatever the bytes, a decoder gets them    *)
(* back, and the text ends with as many '=' as the last group is short of  *)
(* bytes, and has no '=' before.                                           *)
(***************************************************************************)
THEOREM Base64IsDecoded ==
  \A buf \in Bytes :
    LET c == base64_encode(buf)
    IN  /\ Len(c) = 4 * ((Len(buf) + 2) \div 3)
        /\ \A n \in 1..Len(buf) : DecodedByte(c, n) = buf[n]
        /\ \A n \in 1..Len(c) : c[n] = 64 <=> n > Len(c) - Filled(Len(buf))
<1> SUFFICES ASSUME NEW buf \in Bytes, NEW c, c = base64_encode(buf),
                    NEW L \in Nat, L = Len(buf)
             PROVE  /\ Len(c) = 4 * ((L + 2) \div 3)
                    /\ \A n \in 1..L : DecodedByte(c, n) = buf[n]
                    /\ \A n \in 1..Len(c) : c[n] = 64 <=> n > Len(c) - Filled(L)
  BY DEF Bytes
<1>1. PICK G \in Nat : G = (L + 2) \div 3 /\ L <= 3 * G /\ 3 * G <= L + 2
  OBVIOUS
<1>2. Len(c) = 4 * G /\ \A n \in 1..(4 * G) : c[n] = Character(buf, n)
  BY <1>1 DEF base64_encode
<1>3. ASSUME NEW m \in Nat, m < G
      PROVE  \E x, y, z \in Byte :
               /\ x = ByteAt(buf, 3 * m + 1) /\ y = ByteAt(buf, 3 * m + 2)
               /\ z = ByteAt(buf, 3 * m + 3)
               /\ c[4 * m + 1] = x \div 4
               /\ c[4 * m + 2] = (x % 4) * 16 + (y \div 16)
               /\ c[4 * m + 3] = IF 3 * m + 2 > L THEN 64
                                 ELSE (y % 16) * 4 + (z \div 64)
               /\ c[4 * m + 4] = IF 3 * m + 3 > L THEN 64 ELSE z % 64
  <2>1. /\ 4 * m + 1 \in 1..(4 * G) /\ 4 * m + 2 \in 1..(4 * G)
        /\ 4 * m + 3 \in 1..(4 * G) /\ 4 * m + 4 \in 1..(4 * G)
    BY <1>3
  <2>2. /\ ByteAt(buf, 3 * m + 1) \in Byte /\ ByteAt(buf, 3 * m + 2) \in Byte
        /\ ByteAt(buf, 3 * m + 3) \in Byte
    BY ByteAtIsByte
  <2> QED BY <1>2, <2>1, <2>2, CharactersOfGroup
<1>4. ASSUME NEW n \in 1..L
      PROVE  DecodedByte(c, n) = buf[n]
  <2>1. PICK m \in Nat : m = (n - 1) \div 3 /\ m < G
                         /\ n \in {3 * m + 1, 3 * m + 2, 3 * m + 3}
    BY <1>1
  <2>2. PICK x \in Byte, y \in Byte, z \in Byte :
          /\ x = ByteAt(buf, 3 * m + 1) /\ y = ByteAt(buf, 3 * m + 2)
          /\ z = ByteAt(buf, 3 * m + 3)
          /\ c[4 * m + 1] = x \div 4
          /\ c[4 * m + 2] = (x % 4) * 16 + (y \div 16)
          /\ c[4 * m + 3] = IF 3 * m + 2 > L THEN 64
                            ELSE (y % 16) * 4 + (z \div 64)
          /\ c[4 * m + 4] = IF 3 * m + 3 > L THEN 64 ELSE z % 64
    BY <1>3, <2>1
  <2>3. CASE n = 3 * m + 1
    <3>1. n % 3 = 1
      BY <2>3
    <3>2. DecodedByte(c, n) = c[4 * m + 1] * 4 + (c[4 * m + 2] \div 16)
      BY <2>1, <3>1 DEF DecodedByte
    <3>3. buf[n] = x
      BY <2>2, <2>3 DEF ByteAt
    <3> QED BY <2>2, <3>2, <3>3, GroupIsDecoded
  <2>4. CASE n = 3 * m + 2
    <3>1. n % 3 = 2
      BY <2>4
    <3>2. DecodedByte(c, n) = (c[4 * m + 2] % 16) * 16 + (c[4 * m + 3] \div 4)
      BY <2>1, <3>1 DEF DecodedByte
    <3>3. buf[n] = y /\ ~(3 * m + 2 > L)
      BY <2>2, <2>4 DEF ByteAt
    <3> QED BY <2>2, <3>2, <3>3, GroupIsDecoded
  <2>5. CASE n = 3 * m + 3
    <3>1. n % 3 # 1 /\ n % 3 # 2 /\ 4 * ((n - 1) \div 3) = 4 * m
      BY <2>5
    <3>2. DecodedByte(c, n) = (c[4 * m + 3] % 4) * 64 + c[4 * m + 4]
      BY <3>1, Zenon DEF DecodedByte
    <3>3. buf[n] = z /\ ~(3 * m + 2 > L) /\ ~(3 * m + 3 > L)
      BY <2>2, <2>5 DEF ByteAt
    <3> QED BY <2>2, <3>2, <3>3, GroupIsDecoded
  <2> QED BY <2>1, <2>3, <2>4, <2>5
<1>5. ASSUME NEW n \in 1..(4 * G)
      PROVE  c[n] = 64 <=> n > 4 * G - Filled(L)
  <2>1. PICK m \in Nat : /\ m < G
                         /\ n \in {4 * m + 1, 4 * m + 2, 4 * m + 3, 4 * m + 4}
    <3>1. (n - 1) \div 4 \in Nat /\ (n - 1) \div 4 < G
          /\ n \in {4 * ((n - 1) \div 4) + 1, 4 * ((n - 1) \div 4) + 2,
                    4 * ((n - 1) \div 4) + 3, 4 * ((n - 1) \div 4) + 4}
      OBVIOUS
    <3> QED BY <3>1
  <2>2. PICK x \in Byte, y \in Byte, z \in Byte :
          /\ c[4 * m + 1] = x \div 4
          /\ c[4 * m + 2] = (x % 4) * 16 + (y \div 16)
          /\ c[4 * m + 3] = IF 3 * m + 2 > L THEN 64
                            ELSE (y % 16) * 4 + (z \div 64)
          /\ c[4 * m + 4] = IF 3 * m + 3 > L THEN 64 ELSE z % 64
    BY <1>3, <2>1
  <2>3. /\ x \div 4 < 64 /\ (x % 4) * 16 + (y \div 16) < 64
        /\ (y % 16) * 4 + (z \div 64) < 64 /\ z % 64 < 64
    BY DEF Byte
  <2>4. /\ c[4 * m + 1] # 64 /\ c[4 * m + 2] # 64
        /\ c[4 * m + 3] = 64 <=> 3 * m + 2 > L
        /\ c[4 * m + 4] = 64 <=> 3 * m + 3 > L
    BY <2>2, <2>3 DEF Byte
  <2>5. PICK k \in Nat : k = Filled(L) /\ k = 3 * G - L /\ k <= 2
    <3>1. PICK k \in {0, 1, 2} : L = 3 * G - k
      BY <1>1
    <3>2. L % 3 = (3 - k) % 3
      BY <3>1
    <3>3. (3 - ((3 - k) % 3)) % 3 = k
      OBVIOUS
    <3> QED BY <3>1, <3>2, <3>3 DEF Filled
  <2>6. /\ 4 * m + 1 <= 4 * G - k /\ 4 * m + 2 <= 4 * G - k
        /\ (3 * m + 2 > L <=> 4 * m + 3 > 4 * G - k)
        /\ (3 * m + 3 > L <=> 4 * m + 4 > 4 * G - k)
    BY <1>1, <2>1, <2>5
  <2>7. CASE n \in {4 * m + 1, 4 * m + 2}
    <3>1. c[n] # 64
      BY <2>4, <2>7
    <3>2. ~(n > 4 * G - k)
      BY <2>5, <2>6, <2>7
    <3> QED BY <2>5, <3>1, <3>2
  <2>8. CASE n = 4 * m + 3
    BY <2>4, <2>5, <2>6, <2>8, Zenon
  <2>9. CASE n = 4 * m + 4
    BY <2>4, <2>5, <2>6, <2>9, Zenon
  <2> QED BY <2>1, <2>7, <2>8, <2>9
<1> QED BY <1>1, <1>2, <1>4, <1>5

------------------------------------------------------------------------------
(* Types.  sha1 reads and writes inside its arrays: it has whole blocks of *)
(* data, at least the sixteen words that the next one is made of, no more  *)
(* than the eighty of a block, and five words in h and in a..e.            *)

Shape ==
  /\ pc = "request" => Len(key) <= 24
  /\ pc \in {"load", "expand", "round"} => Len(data) \in {64, 128}
  /\ pc \in {"load", "expand", "round", "encode"} => Len(h) = 5
  /\ pc \in {"expand", "round"} => i < Len(data)
  /\ pc = "expand" => Len(w) \in 16..80
  /\ pc = "round" => Len(v) = 5 /\ Len(w) \in 0..80

HsTypes ==
  /\ pc \in {"request", "load", "expand", "round", "encode", "answered",
             "typed", "arrived", "received"}
  /\ key \in Seq(Byte) /\ data \in Seq(Byte)
  /\ i \in {0, 64, 128}
  /\ w \in Seq(Word) /\ v \in Seq(Word) /\ h \in Seq(Word)
  /\ accept_key \in Seq(0..64)

HsInv == HsTypes /\ Shape

(* The steps of the handshake, one by one *)
LEMMA RequestKeepsTypes ==
  ASSUME HsInv, Request
  PROVE  HsInv'
<1>1. key \in Bytes /\ Len(key) <= 24
  BY DEF HsInv, HsTypes, Shape, Request, Bytes
<1>2. data' \in Seq(Byte) /\ Len(data') \in {64, 128}
  BY <1>1, RequestIsPadded DEF Request, Bytes
<1>3. h' \in Seq(Word) /\ Len(h') = 5
  BY ConstantsAreWords DEF Request
<1> QED BY <1>2, <1>3 DEF HsInv, HsTypes, Shape, Request

LEMMA LoadBlockKeepsTypes ==
  ASSUME HsInv, LoadBlock
  PROVE  HsInv'
<1> USE DEF HsInv
<1>1. CASE i < Len(data)
  <2> DEFINE W(j) == <<256 * data[i + 4 * (j - 1) + 1] + data[i + 4 * (j - 1) + 2],
                       256 * data[i + 4 * (j - 1) + 3] + data[i + 4 * (j - 1) + 4]>>
  <2>1. /\ w' = [j \in 1..16 |-> W(j)]
        /\ pc' = "expand"
        /\ UNCHANGED <<key, data, i, v, h, accept_key>>
    BY <1>1 DEF LoadBlock
  <2>2. i + 64 <= Len(data)
    <3>1. i \in {0, 64, 128}
      BY DEF HsTypes
    <3>2. PICK n \in {64, 128} : n = Len(data)
      BY DEF Shape, LoadBlock
    <3>3. i < n
      BY <1>1, <3>2, Zenon
    <3>4. i + 64 <= n
      BY <3>1, <3>3
    <3> QED BY <3>2, <3>4, Zenon
  <2>3. ASSUME NEW j \in 1..16
        PROVE  W(j) \in Word
    <3>1. PICK p \in Nat : p = i + 4 * (j - 1) /\ p + 4 <= Len(data)
      BY <2>2 DEF HsTypes
    <3>2. /\ data[p + 1] \in Byte /\ data[p + 2] \in Byte
          /\ data[p + 3] \in Byte /\ data[p + 4] \in Byte
      BY <3>1 DEF HsTypes
    <3>3. \A a \in Byte, b \in Byte : 256 * a + b \in Half
      BY DEF Byte, Half
    <3>4. 256 * data[p + 1] + data[p + 2] \in Half /\ 256 * data[p + 3] + data[p + 4] \in Half
      BY <3>2, <3>3
    <3> QED BY <3>1, <3>4 DEF Word
  <2> HIDE DEF W
  <2>4. w' \in [1..16 -> Word]
    BY <2>1, <2>3
  <2>5. w' \in Seq(Word) /\ Len(w') = 16
    BY <2>4, FunctionIsSeq
  <2> QED BY <2>1, <2>5, <1>1 DEF HsTypes, Shape, LoadBlock
<1>2. CASE ~(i < Len(data))
  BY <1>2 DEF HsTypes, Shape, LoadBlock
<1> QED BY <1>1, <1>2

LEMMA ExpandKeepsTypes ==
  ASSUME HsInv, Expand
  PROVE  HsInv'
<1> USE DEF HsInv
<1>1. CASE Len(w) + 1 <= 80
  <2>0. PICK n \in 16..80 : n = Len(w)
    BY DEF Shape, Expand
  <2>1. PICK j \in 17..80 : j = n + 1
    <3>1. n + 1 <= 80
      BY <1>1, <2>0, Zenon
    <3> QED BY <3>1
  <2>2. /\ w[j - 3] \in Word /\ w[j - 8] \in Word
        /\ w[j - 14] \in Word /\ w[j - 16] \in Word
    <3>1. /\ j - 3 \in 1..n /\ j - 8 \in 1..n /\ j - 14 \in 1..n /\ j - 16 \in 1..n
      BY <2>1
    <3>2. w \in Seq(Word)
      BY DEF HsTypes
    <3> QED BY <2>0, <3>1, <3>2, ElementOfSeq
  <2>3. PICK x \in Word : x = Xor2(Xor2(w[j - 3], w[j - 8]), Xor2(w[j - 14], w[j - 16]))
    BY <2>2, WordOperators
  <2>4. PICK y \in Word : y = left_rotate(x, 2)
    BY RotateIsWord
  <2>5. w' = Append(w, y) /\ UNCHANGED <<pc, key, data, i, v, h, accept_key>>
    BY <1>1, <2>0, <2>1, <2>3, <2>4 DEF Expand
  <2>6. w' \in Seq(Word) /\ Len(w') = n + 1
    BY <2>0, <2>5, AppendProperties DEF HsTypes
  <2>7. Len(w') \in 16..80
    BY <2>1, <2>6
  <2> QED BY <2>5, <2>6, <2>7 DEF HsTypes, Shape, Expand
<1>2. CASE ~(Len(w) + 1 <= 80)
  <2>1. Len(w) \in 0..80 /\ v' = h /\ pc' = "round"
    BY <1>2 DEF Shape, Expand
  <2> QED BY <1>2, <2>1 DEF HsTypes, Shape, Expand
<1> QED BY <1>1, <1>2

LEMMA RoundKeepsTypes ==
  ASSUME HsInv, Round
  PROVE  HsInv'
<1> USE DEF HsInv
<1>1. pc = "round" /\ v \in Seq(Word) /\ Len(v) = 5 /\ w \in Seq(Word)
      /\ h \in Seq(Word) /\ Len(h) = 5
  BY DEF HsTypes, Shape, Round
<1>2. /\ v[1] \in Word /\ v[2] \in Word /\ v[3] \in Word
      /\ v[4] \in Word /\ v[5] \in Word
  <2>1. \A n \in 1..5 : v[n] \in Word
    BY <1>1, ElementOfSeq
  <2> QED BY <2>1
<1>3. CASE w # <<>>
  <2>0. PICK n \in 0..80 : n = Len(w)
    BY <1>1 DEF Shape
  <2>1. PICK j \in Int : j = 80 - n
    OBVIOUS
  <2>2. Head(w) \in Word /\ Tail(w) \in Seq(Word)
    BY <1>1, <1>3
  <2>3. PICK t \in Word : t = Add(Add(Add(Add(left_rotate(v[1], 32),
                                             f(j, v[2], v[3], v[4])), v[5]), k32(j)), Head(w))
    <3>1. left_rotate(v[1], 32) \in Word
      BY <1>2, RotateIsWord
    <3>2. f(j, v[2], v[3], v[4]) \in Word
      BY <1>2, FunctionIsWord
    <3>3. k32(j) \in Word
      BY ConstantsAreWords
    <3> QED BY <1>2, <2>2, <3>1, <3>2, <3>3, AddIsWord
  <2>4. /\ v' = <<t, v[1], left_rotate_30(v[2]), v[3], v[4]>>
        /\ w' = Tail(w)
        /\ UNCHANGED <<pc, key, data, i, h, accept_key>>
    BY <1>3, <2>0, <2>1, <2>3 DEF Round
  <2>5. left_rotate_30(v[2]) \in Word
    BY <1>2, Rotate30IsWord
  <2>6. v' \in Seq(Word) /\ Len(v') = 5
    BY <1>2, <2>4, <2>5
  <2>7. Len(w') \in 0..80
    <3>1. Len(w') = n - 1 /\ n # 0
      BY <1>1, <1>3, <2>0, <2>4, HeadTailProperties
    <3> QED BY <3>1
  <2> QED BY <1>1, <2>2, <2>4, <2>6, <2>7 DEF HsTypes, Shape
<1>4. CASE w = <<>>
  <2>1. /\ h' = [n \in 1..5 |-> Add(h[n], v[n])]
        /\ i' = i + 64 /\ pc' = "load"
        /\ UNCHANGED <<v, w, key, data, accept_key>>
    BY <1>4 DEF Round
  <2>2. \A n \in 1..5 : Add(h[n], v[n]) \in Word
    BY <1>1, AddIsWord, ElementOfSeq
  <2>3. h' \in [1..5 -> Word]
    BY <2>1, <2>2
  <2>4. h' \in Seq(Word) /\ Len(h') = 5
    BY <2>3, FunctionIsSeq
  <2>5. i' \in {0, 64, 128}
    <3>1. i \in {0, 64, 128} /\ i < Len(data)
      BY <1>1 DEF HsTypes, Shape
    <3>2. PICK n \in {64, 128} : n = Len(data)
      BY <1>1 DEF Shape
    <3>3. i < n
      BY <3>1, <3>2, Zenon
    <3> QED BY <2>1, <3>1, <3>3
  <2> QED BY <1>1, <2>1, <2>4, <2>5 DEF HsTypes, Shape
<1> QED BY <1>3, <1>4

LEMMA EncodeKeepsTypes ==
  ASSUME HsInv, Encode
  PROVE  HsInv'
<1>1. hash \in Bytes
  BY HashIsBytes DEF HsInv, HsTypes, Shape, Encode
<1>2. accept_key' \in Seq(0..64)
  BY <1>1, Base64Characters DEF Encode
<1> QED BY <1>2 DEF HsInv, HsTypes, Shape, Encode

------------------------------------------------------------------------------
(* Frames of the browser *)

Mask == [1..4 -> Byte]

Masked(m, k) == [n \in 1..Len(m) |-> m[n] ^^ k[1 + ((n - 1) % 4)]]

(* The parts of a frame keep their places in it. *)
LEMMA Concatenation ==
  ASSUME NEW S, NEW s \in Seq(S), NEW t \in Seq(S),
         NEW a \in Nat, a = Len(s), NEW b \in Nat, b = Len(t), NEW u, u = s \o t
  PROVE  /\ u \in Seq(S) /\ Len(u) = a + b
         /\ \A p \in 1..a : u[p] = s[p]
         /\ \A p \in 1..b : u[a + p] = t[p]
OBVIOUS

LEMMA MaskedIsSeq ==
  ASSUME NEW m \in Seq(Byte), NEW L \in Nat, L = Len(m), NEW k \in Mask
  PROVE  /\ Masked(m, k) \in Seq(Byte) /\ Len(Masked(m, k)) = L
         /\ \A n \in 1..L : Masked(m, k)[n] = m[n] ^^ k[1 + ((n - 1) % 4)]
<1>1. ASSUME NEW n \in 1..L
      PROVE  m[n] ^^ k[1 + ((n - 1) % 4)] \in Byte
  <2>1. PICK j \in 1..4 : j = 1 + ((n - 1) % 4)
    OBVIOUS
  <2>2. m[n] \in Byte /\ k[j] \in Byte
    BY ElementOfSeq DEF Mask
  <2> QED BY <2>1, <2>2, XorTwice
<1>2. Masked(m, k) \in [1..L -> Byte]
  BY <1>1 DEF Masked
<1>3. Masked(m, k) \in Seq(Byte) /\ Len(Masked(m, k)) = L
  BY <1>2, FunctionIsSeq
<1> QED BY <1>3 DEF Masked

IsShortFrame(cf, m, L, k) ==
  /\ cf \in Seq(Byte) /\ Len(cf) = 6 + L
  /\ cf[2] = 128 + L
  /\ \A j \in 1..4 : cf[2 + j] = k[j]
  /\ \A n \in 1..L : cf[6 + n] = m[n] ^^ k[1 + ((n - 1) % 4)]

(* A frame with its length in the second byte *)
LEMMA ShortFrame ==
  ASSUME NEW m \in Seq(Byte), NEW L \in Nat, L = Len(m), L <= 125,
         NEW k \in Mask
  PROVE  IsShortFrame(ClientFrame(m, k), m, L, k)
<1> DEFINE A == <<129, 128 + Len(m)>>
<1>1. /\ A \in Seq(Byte) /\ Len(A) = 2
      /\ A[2] = 128 + L
  <2>1. 129 \in Byte /\ 128 + L \in Byte
    BY DEF Byte
  <2> QED BY <2>1
<1>2. Len(m) <= 125
  OBVIOUS
<1>3. ClientFrame(m, k) = (A \o k) \o Masked(m, k)
  BY <1>2 DEF ClientFrame, Masked
<1> HIDE DEF A
<1>4. PICK a \in Nat, four \in Nat : a = 2 /\ four = 4
  OBVIOUS
<1>5. A \in Seq(Byte) /\ a = Len(A) /\ k \in Seq(Byte) /\ four = Len(k)
  <2>1. A \in Seq(Byte) /\ a = Len(A)
    BY <1>1, <1>4, Zenon
  <2>2. 4 \in Nat /\ k \in [1..4 -> Byte]
    BY DEF Mask
  <2>3. k \in Seq(Byte) /\ Len(k) = 4
    BY <2>2, FunctionIsSeq
  <2> QED BY <1>4, <2>1, <2>3, Zenon
<1>6. PICK B : B = A \o k
  OBVIOUS
<1>7. /\ B \in Seq(Byte) /\ Len(B) = a + four
      /\ \A p \in 1..a : B[p] = A[p]
      /\ \A j \in 1..four : B[a + j] = k[j]
  BY <1>5, <1>6, Concatenation
<1>8. PICK M : /\ M = Masked(m, k) /\ M \in Seq(Byte) /\ L = Len(M)
              /\ \A n \in 1..L : M[n] = m[n] ^^ k[1 + ((n - 1) % 4)]
  BY MaskedIsSeq
<1>9. PICK c \in Nat : c = a + four
  OBVIOUS
<1>10. PICK cf : cf = B \o M
  OBVIOUS
<1>11. B \in Seq(Byte) /\ c = Len(B) /\ M \in Seq(Byte) /\ L = Len(M)
  BY <1>7, <1>8, <1>9
<1>12. /\ cf \in Seq(Byte) /\ Len(cf) = c + L
       /\ \A p \in 1..c : cf[p] = B[p]
       /\ \A n \in 1..L : cf[c + n] = M[n]
  BY <1>10, <1>11, Concatenation
<1>13. c = 6 /\ a = 2 /\ four = 4
  BY <1>4, <1>9
<1>14. cf[2] = 128 + L
  BY <1>1, <1>7, <1>12, <1>13
<1>15. ASSUME NEW j \in 1..4
       PROVE  cf[2 + j] = k[j]
  <2>1. a + j \in 1..c /\ j \in 1..four /\ a + j = 2 + j
    BY <1>13
  <2> QED BY <2>1, <1>7, <1>12
<1>16. \A n \in 1..L : cf[6 + n] = m[n] ^^ k[1 + ((n - 1) % 4)]
  BY <1>8, <1>12, <1>13
<1>17. Len(cf) = 6 + L
  BY <1>12, <1>13
<1>18. ClientFrame(m, k) = cf
  BY <1>3, <1>6, <1>8, <1>10
<1>19. IsShortFrame(cf, m, L, k)
  BY <1>12, <1>14, <1>15, <1>16, <1>17 DEF IsShortFrame
<1> QED BY <1>18, <1>19

IsLongFrame(cf, m, L, k) ==
  /\ cf \in Seq(Byte) /\ Len(cf) = 8 + L
  /\ cf[2] = 254 /\ cf[3] = L \div 256
  /\ \A j \in 1..4 : cf[4 + j] = k[j]
  /\ \A n \in 1..L : cf[8 + n] = m[n] ^^ k[1 + ((n - 1) % 4)]

(* A frame with its length in the third and fourth byte *)
LEMMA LongFrame ==
  ASSUME NEW m \in Seq(Byte), NEW L \in Nat, L = Len(m), ~(L <= 125), L \div 256 \in Byte,
         NEW k \in Mask
  PROVE  IsLongFrame(ClientFrame(m, k), m, L, k)
<1> DEFINE A == <<129, 254, Len(m) \div 256, Len(m) % 256>>
<1>1. /\ A \in Seq(Byte) /\ Len(A) = 4
      /\ A[2] = 254 /\ A[3] = L \div 256
  <2>1. 129 \in Byte /\ 254 \in Byte /\ L \div 256 \in Byte /\ L % 256 \in Byte
    BY DEF Byte
  <2> QED BY <2>1
<1>2. ~(Len(m) <= 125)
  OBVIOUS
<1>3. ClientFrame(m, k) = (A \o k) \o Masked(m, k)
  BY <1>2 DEF ClientFrame, Masked
<1> HIDE DEF A
<1>4. PICK a \in Nat, four \in Nat : a = 4 /\ four = 4
  OBVIOUS
<1>5. A \in Seq(Byte) /\ a = Len(A) /\ k \in Seq(Byte) /\ four = Len(k)
  <2>1. A \in Seq(Byte) /\ a = Len(A)
    BY <1>1, <1>4, Zenon
  <2>2. 4 \in Nat /\ k \in [1..4 -> Byte]
    BY DEF Mask
  <2>3. k \in Seq(Byte) /\ Len(k) = 4
    BY <2>2, FunctionIsSeq
  <2> QED BY <1>4, <2>1, <2>3, Zenon
<1>6. PICK B : B = A \o k
  OBVIOUS
<1>7. /\ B \in Seq(Byte) /\ Len(B) = a + four
      /\ \A p \in 1..a : B[p] = A[p]
      /\ \A j \in 1..four : B[a + j] = k[j]
  BY <1>5, <1>6, Concatenation
<1>8. PICK M : /\ M = Masked(m, k) /\ M \in Seq(Byte) /\ L = Len(M)
              /\ \A n \in 1..L : M[n] = m[n] ^^ k[1 + ((n - 1) % 4)]
  BY MaskedIsSeq
<1>9. PICK c \in Nat : c = a + four
  OBVIOUS
<1>10. PICK cf : cf = B \o M
  OBVIOUS
<1>11. B \in Seq(Byte) /\ c = Len(B) /\ M \in Seq(Byte) /\ L = Len(M)
  BY <1>7, <1>8, <1>9
<1>12. /\ cf \in Seq(Byte) /\ Len(cf) = c + L
       /\ \A p \in 1..c : cf[p] = B[p]
       /\ \A n \in 1..L : cf[c + n] = M[n]
  BY <1>10, <1>11, Concatenation
<1>13. c = 8 /\ a = 4 /\ four = 4
  BY <1>4, <1>9
<1>14. cf[2] = 254 /\ cf[3] = L \div 256
  BY <1>1, <1>7, <1>12, <1>13
<1>15. ASSUME NEW j \in 1..4
       PROVE  cf[4 + j] = k[j]
  <2>1. a + j \in 1..c /\ j \in 1..four /\ a + j = 4 + j
    BY <1>13
  <2> QED BY <2>1, <1>7, <1>12
<1>16. \A n \in 1..L : cf[8 + n] = m[n] ^^ k[1 + ((n - 1) % 4)]
  BY <1>8, <1>12, <1>13
<1>17. Len(cf) = 8 + L
  BY <1>12, <1>13
<1>18. ClientFrame(m, k) = cf
  BY <1>3, <1>6, <1>8, <1>10
<1>19. IsLongFrame(cf, m, L, k)
  BY <1>12, <1>14, <1>15, <1>16, <1>17 DEF IsLongFrame
<1> QED BY <1>18, <1>19

------------------------------------------------------------------------------
(* What recv returns, and the text that is made of it *)

(* The bytes that recv has returned are the first ones of the frame cf,    *)
(* and lost are the others.  What follows them in frame, if none is lost,  *)
(* belongs to another frame.                                               *)
Received(cf, kept) ==
  /\ kept + Len(lost) = Len(cf) /\ kept <= Len(frame)
  /\ \A p \in 1..kept : frame[p] = cf[p]
  /\ \A n \in 1..Len(lost) : lost[n] = cf[kept + n]
  /\ Len(lost) # 0 => Len(frame) = kept

(* What recv returns is a part of the frame, or goes beyond it. *)
LEMMA RecvReceives ==
  ASSUME NEW cf \in Seq(Byte), frame = cf, lost = <<>>, Recv
  PROVE  /\ frame' \in Seq(Byte) /\ lost' \in Seq(Byte)
         /\ \E kept \in Nat : Received(cf, kept)'
<1>1. PICK L \in Nat : L = Len(cf)
  BY LenProperties
<1>2. CASE UNCHANGED <<frame, lost>>
  <2>1. lost' = <<>> /\ frame' = cf
    BY <1>2
  <2>2. Len(lost') = 0 /\ lost' \in Seq(Byte)
    BY <2>1
  <2>3. Received(cf, L)'
    BY <1>1, <2>1, <2>2 DEF Received
  <2> QED BY <2>1, <2>2, <2>3
<1>3. CASE \E n \in Segments : /\ n < Len(frame)
                              /\ frame' = SubSeq(frame, 1, n)
                              /\ lost' = SubSeq(frame, n + 1, Len(frame))
  <2>1. PICK n \in Nat : /\ n < L
                        /\ frame' = SubSeq(cf, 1, n)
                        /\ lost' = SubSeq(cf, n + 1, L)
    BY <1>1, <1>3, SegmentsAssumption
  <2>2. \A q \in 1..L : cf[q] \in Byte
    BY <1>1, ElementOfSeq
  <2>3. /\ frame' \in Seq(Byte) /\ Len(frame') = n
        /\ \A q \in 1..n : frame'[q] = cf[q]
    <3>1. \A q \in 1..n : cf[q] \in Byte
      BY <2>1, <2>2
    <3> QED BY <2>1, <3>1
  <2>4. /\ lost' \in Seq(Byte) /\ Len(lost') = L - n
        /\ \A q \in 1..(L - n) : lost'[q] = cf[n + q]
    <3>1. \A q \in (n + 1)..L : cf[q] \in Byte
      BY <2>1, <2>2
    <3>2. PICK l : l = SubSeq(cf, n + 1, L)
      OBVIOUS
    <3>3. PICK a \in Nat : a = n + 1 /\ a <= L
      BY <2>1
    <3>4. /\ l \in Seq(Byte)
          /\ Len(l) = IF a <= L THEN L - a + 1 ELSE 0
          /\ \A q \in 1..(L - a + 1) : l[q] = cf[a + q - 1]
      BY <3>1, <3>2, <3>3, SubSeqProperties
    <3>5. lost' = l
      BY <2>1, <3>2, Zenon
    <3>6. Len(l) = L - n
      BY <3>3, <3>4
    <3>7. \A q \in 1..(L - n) : l[q] = cf[n + q]
      BY <3>3, <3>4
    <3> QED BY <3>4, <3>5, <3>6, <3>7
  <2>5. Received(cf, n)'
    BY <1>1, <2>1, <2>3, <2>4 DEF Received
  <2> QED BY <2>3, <2>4, <2>5
<1>4. CASE \E k \in MaskingKeys :
             frame' = frame \o ClientFrame(<<>>, k) /\ UNCHANGED lost
  <2>1. PICK k \in Mask : frame' = cf \o ClientFrame(<<>>, k) /\ lost' = <<>>
    BY <1>4, MaskAssumption DEF Mask
  <2>2. PICK next \in Seq(Byte) : next = ClientFrame(<<>>, k)
    <3>1. PICK z \in Nat : z = 0
      OBVIOUS
    <3>2. <<>> \in Seq(Byte) /\ z = Len(<<>>) /\ z <= 125
      BY <3>1
    <3>3. IsShortFrame(ClientFrame(<<>>, k), <<>>, z, k)
      BY <3>2, ShortFrame
    <3> QED BY <3>3 DEF IsShortFrame
  <2>3. PICK b \in Nat : b = Len(next)
    BY LenProperties
  <2>4. PICK fr : fr = cf \o next
    OBVIOUS
  <2>5. /\ fr \in Seq(Byte) /\ Len(fr) = L + b
        /\ \A p \in 1..L : fr[p] = cf[p]
    BY <1>1, <2>3, <2>4, Concatenation
  <2>6. frame' = fr /\ Len(lost') = 0 /\ lost' \in Seq(Byte)
    BY <2>1, <2>2, <2>4
  <2>7. Received(cf, L)'
    BY <1>1, <2>5, <2>6 DEF Received
  <2> QED BY <2>5, <2>6, <2>7
<1> QED BY <1>2, <1>3, <1>4 DEF Recv

(* The decoder reads the frame up to where it was cut, and 0 from there. *)
LEMMA FrameAtReceived ==
  ASSUME frame \in Seq(Byte), lost \in Seq(Byte), NEW cf \in Seq(Byte), NEW L \in Nat, L = Len(cf),
         NEW kept \in Nat, Received(cf, kept),
         NEW n \in Nat, n < L
  PROVE  FrameAt(n) = IF n < kept THEN cf[n + 1] ELSE 0
<1>1. PICK a \in Nat, b \in Nat : a = Len(frame) /\ b = Len(lost)
  BY LenProperties
<1>2. kept + b = L /\ kept <= a /\ (b # 0 => a = kept)
  BY <1>1 DEF Received
<1>3. FrameAt(n) = IF n < a THEN frame[n + 1] ELSE 0
  BY <1>1 DEF FrameAt
<1>4. CASE n < kept
  <2>1. n + 1 \in 1..kept /\ n < a
    BY <1>2, <1>4
  <2>2. frame[n + 1] = cf[n + 1]
    BY <2>1 DEF Received
  <2> QED BY <1>3, <1>4, <2>1, <2>2
<1>5. CASE ~(n < kept)
  BY <1>2, <1>3, <1>5
<1> QED BY <1>4, <1>5

LEMMA FrameAtIsByte ==
  ASSUME frame \in Seq(Byte), NEW n \in Nat
  PROVE  FrameAt(n) \in Byte
<1>1. PICK a \in Nat : a = Len(frame)
  BY LenProperties
<1>2. CASE n < a
  <2>1. n + 1 \in 1..a
    BY <1>2
  <2>2. frame[n + 1] \in Byte
    BY <1>1, <2>1, ElementOfSeq
  <2> QED BY <1>1, <1>2, <2>2 DEF FrameAt
<1>3. CASE ~(n < a)
  BY <1>1, <1>3 DEF FrameAt, Byte
<1> QED BY <1>2, <1>3

(* Whatever was received, at most 127 bytes are decoded from it. *)
LEMMA UnmaskIsText ==
  ASSUME frame \in Seq(Byte)
  PROVE  \E U \in Nat : /\ U = FrameAt(1) % 128 /\ U <= 127
                       /\ Unmask \in Seq(Byte) /\ Len(Unmask) = U
                       /\ \A n \in 1..U :
                            Unmask[n] = FrameAt(5 + n) ^^ FrameAt(2 + ((n - 1) % 4))
<1>1. FrameAt(1) \in Byte
  BY FrameAtIsByte
<1>2. PICK U \in Nat : U = FrameAt(1) % 128 /\ U <= 127
  BY <1>1 DEF Byte
<1>3. ASSUME NEW n \in 1..U
      PROVE  FrameAt(5 + n) ^^ FrameAt(2 + ((n - 1) % 4)) \in Byte
  <2>1. PICK a \in Nat, b \in Nat : a = 5 + n /\ b = 2 + ((n - 1) % 4)
    OBVIOUS
  <2>2. FrameAt(a) \in Byte /\ FrameAt(b) \in Byte
    BY FrameAtIsByte
  <2> QED BY <2>1, <2>2, XorTwice
<1>4. Unmask \in [1..U -> Byte]
  BY <1>2, <1>3 DEF Unmask
<1>5. Unmask \in Seq(Byte) /\ Len(Unmask) = U
  BY <1>4, FunctionIsSeq
<1>6. \A n \in 1..U : Unmask[n] = FrameAt(5 + n) ^^ FrameAt(2 + ((n - 1) % 4))
  BY <1>2 DEF Unmask
<1> QED BY <1>2, <1>5, <1>6

------------------------------------------------------------------------------
(* The prefix that asks for a rollback *)

LEMMA PrefixIsText == RollbackPrefix \in Seq(Byte) /\ Len(RollbackPrefix) = 10
BY DEF RollbackPrefix, Byte

(* The prefix is taken off or was not there. *)
LEMMA StripPrefixIsText ==
  ASSUME NEW m \in Seq(Byte), NEW L \in Nat, L = Len(m)
  PROVE  LET d == StripPrefix(m)
         IN  /\ d \in [text : Seq(Byte), rollback : BOOLEAN]
             /\ d.rollback <=> IsPrefix(RollbackPrefix, m)
             /\ m = (IF d.rollback THEN RollbackPrefix ELSE <<>>) \o d.text
             /\ Len(d.text) <= L
<1>1. CASE IsPrefix(RollbackPrefix, m)
  <2>1. PICK ten \in Nat : ten = 10
    OBVIOUS
  <2>2. ten = Len(RollbackPrefix)
    BY <2>1, PrefixIsText, Zenon
  <2>3. ten <= L /\ SubSeq(RollbackPrefix, 1, ten) = SubSeq(m, 1, ten)
    BY <1>1, <2>2 DEF IsPrefix
  <2>4. PICK t : t = SubSeq(m, ten + 1, L)
    OBVIOUS
  <2>5. \A q \in (ten + 1)..L : m[q] \in Byte
    BY <2>3, ElementOfSeq
  <2>6. t \in Seq(Byte) /\ Len(t) <= L
    BY <2>3, <2>4, <2>5, SubSeqProperties
  <2>7. SubSeq(RollbackPrefix, 1, ten) = RollbackPrefix
    BY <2>2, PrefixIsText, SubSeqFull
  <2>8. m = RollbackPrefix \o t
    <3>1. 1 \in 1..(L + 1) /\ ten \in (1 - 1)..L /\ L \in ten..L
      BY <2>3
    <3>2. SubSeq(m, 1, ten) \o SubSeq(m, ten + 1, L) = SubSeq(m, 1, L)
      BY <3>1, ConcatAdjacentSubSeq
    <3>3. SubSeq(m, 1, L) = m
      BY SubSeqFull
    <3> QED BY <2>3, <2>4, <2>7, <3>2, <3>3
  <2>9. StripPrefix(m) = [text |-> t, rollback |-> TRUE]
    <3>1. ten + 1 = 11
      BY <2>1
    <3>2. t = SubSeq(m, 11, Len(m))
      BY <2>4, <3>1
    <3> QED BY <1>1, <3>2 DEF StripPrefix
  <2> QED BY <1>1, <2>6, <2>8, <2>9
<1>2. CASE ~IsPrefix(RollbackPrefix, m)
  <2>1. StripPrefix(m) = [text |-> m, rollback |-> FALSE]
    <3>1. IsPrefix(RollbackPrefix, m) = FALSE
      BY <1>2 DEF IsPrefix
    <3> QED BY <3>1 DEF StripPrefix
  <2>2. <<>> \o m = m
    OBVIOUS
  <2> QED BY <1>2, <2>1, <2>2
<1> QED BY <1>1, <1>2

(* What is left of the text is right if and only if all of it is.          *)
------------------------------------------------------------------------------
(* Which texts arrive *)

Text == Seq(Byte \ {0})

(* No byte of a text is 0. *)
LEMMA TextIsBytes ==
  ASSUME NEW m \in Text, NEW L \in Nat, L = Len(m)
  PROVE  m \in Seq(Byte) /\ \A n \in 1..L : m[n] \in Byte /\ m[n] # 0
<1>1. \A n \in 1..L : m[n] \in Byte \ {0}
  BY ElementOfSeq DEF Text
<1>2. m \in [1..L -> Byte]
  BY <1>1 DEF Text
<1> QED BY <1>1, <1>2, FunctionIsSeq

(* Above 125 bytes the mask is taken from the wrong place: three bytes of  *)
(* the result can be as they were typed only if another one is 0.          *)
LEMMA LongTextIsLost ==
  ASSUME frame \in Seq(Byte), lost \in Seq(Byte),
         NEW m \in Text, NEW L \in Nat, L = Len(m), ~(L <= 125), L \div 256 \in Byte,
         NEW k \in Mask, NEW kept \in Nat, Received(ClientFrame(m, k), kept)
  PROVE  Unmask # m
<1> SUFFICES ASSUME Unmask = m PROVE FALSE
  OBVIOUS
<1>1. m \in Seq(Byte) /\ \A n \in 1..L : m[n] \in Byte /\ m[n] # 0
  BY TextIsBytes
<1>2. PICK cf : cf = ClientFrame(m, k) /\ IsLongFrame(cf, m, L, k)
  <2>1. IsLongFrame(ClientFrame(m, k), m, L, k)
    BY <1>1, LongFrame
  <2> QED BY <2>1
<1>3. PICK C \in Nat : C = 8 + L
  OBVIOUS
<1>4. /\ cf \in Seq(Byte) /\ C = Len(cf)
      /\ cf[2] = 254 /\ cf[3] = L \div 256
      /\ \A j \in 1..4 : cf[4 + j] = k[j]
      /\ \A n \in 1..L : cf[8 + n] = m[n] ^^ k[1 + ((n - 1) % 4)]
  BY <1>2, <1>3 DEF IsLongFrame
<1>5. Received(cf, kept)
  BY <1>2
<1>6. \A n \in Nat : n < C => FrameAt(n) = IF n < kept THEN cf[n + 1] ELSE 0
  BY <1>4, <1>5, FrameAtReceived
<1>7. PICK U \in Nat : /\ U = FrameAt(1) % 128 /\ U = Len(Unmask)
                      /\ \A n \in 1..U :
                           Unmask[n] = FrameAt(5 + n) ^^ FrameAt(2 + ((n - 1) % 4))
  BY UnmaskIsText
<1>8. U = L
  BY <1>7
<1>9. FrameAt(1) = IF 1 < kept THEN 254 ELSE 0
  BY <1>3, <1>4, <1>6
<1>10. L = 126
  <2>1. L = FrameAt(1) % 128
    BY <1>7, <1>8, Zenon
  <2>2. CASE 1 < kept
    <3>1. FrameAt(1) = 254
      BY <1>9, <2>2
    <3>2. L = 254 % 128
      BY <2>1, <3>1, Zenon
    <3> QED BY <3>2
  <2>3. CASE ~(1 < kept)
    <3>1. FrameAt(1) = 0
      BY <1>9, <2>3
    <3>2. L = 0 % 128
      BY <2>1, <3>1, Zenon
    <3> QED BY <3>2
  <2> QED BY <2>2, <2>3
<1>11. FrameAt(2) = 0
  <2>1. cf[3] = 0
    BY <1>4, <1>10
  <2> QED BY <1>3, <1>6, <2>1
<1>12. /\ m[1] = FrameAt(6) ^^ FrameAt(2)
       /\ m[3] = FrameAt(8) ^^ FrameAt(4)
       /\ m[5] = FrameAt(10) ^^ FrameAt(2)
  <2>1. \A n \in 1..126 : m[n] = FrameAt(5 + n) ^^ FrameAt(2 + ((n - 1) % 4))
    BY <1>7, <1>8, <1>10
  <2> QED BY <2>1
<1>13. m[1] \in Byte /\ m[3] \in Byte /\ m[5] # 0
  BY <1>1, <1>10
<1>14. kept > 10
  <2>1. FrameAt(10) \in Byte /\ FrameAt(10) # 0
    BY <1>11, <1>12, <1>13, FrameAtIsByte, XorZero
  <2> QED BY <1>3, <1>6, <2>1
<1>15. k[1] \in Byte /\ k[3] \in Byte
  BY DEF Mask
<1>16. /\ FrameAt(4) = k[1] /\ FrameAt(6) = k[3]
       /\ FrameAt(8) = m[1] ^^ k[1] /\ FrameAt(10) = m[3] ^^ k[3]
  <2>1. cf[5] = k[1] /\ cf[7] = k[3]
    BY <1>4
  <2>2. cf[9] = m[1] ^^ k[1] /\ cf[11] = m[3] ^^ k[3]
    BY <1>4, <1>10
  <2>3. /\ FrameAt(4) = cf[5] /\ FrameAt(6) = cf[7]
        /\ FrameAt(8) = cf[9] /\ FrameAt(10) = cf[11]
    BY <1>3, <1>6, <1>14
  <2> QED BY <2>1, <2>2, <2>3
<1>17. m[1] = k[3] /\ m[3] = m[1]
  BY <1>11, <1>12, <1>13, <1>15, <1>16, XorZero, XorTwice
<1>18. FrameAt(10) = 0
  BY <1>13, <1>16, <1>17, XorSame
<1> QED
  <2>1. m[5] = 0
    BY <1>11, <1>12, <1>18, XorZero DEF Byte
  <2> QED BY <1>13, <2>1

LEMMA EmptyIfZero ==
  ASSUME NEW S, NEW s \in Seq(S), Len(s) = 0
  PROVE  s = <<>>
OBVIOUS

(* Up to 125 bytes a byte is as it was typed if it has arrived; if not, it is *)
(* only if what was lost of it is 0 and its byte of the mask has arrived.  *)
LEMMA ShortTextArrives ==
  ASSUME frame \in Seq(Byte), lost \in Seq(Byte), message \in Text,
         NEW L \in Nat, L = Len(message), L <= 125,
         NEW k \in Mask, NEW kept \in Nat, Received(ClientFrame(message, k), kept)
  PROVE  Unmask = message <=>
           message = <<>> \/ \A n \in DOMAIN lost : lost[n] = 0 \/ Unused(n)
<1>1. message \in Seq(Byte) /\ \A n \in 1..L : message[n] \in Byte /\ message[n] # 0
  BY TextIsBytes
<1>2. PICK cf : cf = ClientFrame(message, k) /\ IsShortFrame(cf, message, L, k)
  <2>1. IsShortFrame(ClientFrame(message, k), message, L, k)
    BY <1>1, ShortFrame
  <2> QED BY <2>1
<1>3. PICK C \in Nat, b \in Nat : C = 6 + L /\ b = Len(lost)
  BY LenProperties
<1>4. /\ cf \in Seq(Byte) /\ C = Len(cf) /\ cf[2] = 128 + L
      /\ \A j \in 1..4 : cf[2 + j] = k[j]
      /\ \A n \in 1..L : cf[6 + n] = message[n] ^^ k[1 + ((n - 1) % 4)]
  BY <1>2, <1>3 DEF IsShortFrame
<1>5. Received(cf, kept)
  BY <1>2
<1>6. \A n \in Nat : n < C => FrameAt(n) = IF n < kept THEN cf[n + 1] ELSE 0
  BY <1>4, <1>5, FrameAtReceived
<1>7. /\ kept + b = C
      /\ \A n \in 1..b : lost[n] = cf[kept + n]
  BY <1>3, <1>4, <1>5 DEF Received
<1>8. PICK U \in Nat : /\ U = FrameAt(1) % 128 /\ U = Len(Unmask) /\ Unmask \in Seq(Byte)
                      /\ \A n \in 1..U :
                           Unmask[n] = FrameAt(5 + n) ^^ FrameAt(2 + ((n - 1) % 4))
  BY UnmaskIsText
<1>9. ASSUME NEW n \in 1..b
      PROVE  Unused(n) <=> 2 + L < kept + n /\ kept + n <= 6
  <2>1. 6 + L - b + n = kept + n
    BY <1>3, <1>7
  <2> QED BY <1>3, <2>1 DEF Unused
<1> DEFINE Fine == \A n \in 1..b : cf[kept + n] = 0 \/ (2 + L < kept + n /\ kept + n <= 6)
<1>10. (\A n \in DOMAIN lost : lost[n] = 0 \/ Unused(n)) <=> Fine
  <2>1. DOMAIN lost = 1..b
    BY <1>3, LenProperties
  <2> QED BY <1>7, <1>9, <2>1
<1>11. CASE L = 0
  <2>1. message = <<>>
    <3>1. Len(message) = 0
      BY <1>11, Zenon
    <3> QED BY <1>1, <3>1, EmptyIfZero
  <2>2. FrameAt(1) = IF 1 < kept THEN 128 ELSE 0
    BY <1>3, <1>4, <1>6, <1>11
  <2>3. U = 0
    <3>1. 128 % 128 = 0 /\ 0 % 128 = 0
      OBVIOUS
    <3> QED BY <1>8, <2>2, <3>1
  <2>4. Unmask = <<>>
    <3>1. Len(Unmask) = 0
      BY <1>8, <2>3, Zenon
    <3> QED BY <1>8, <3>1, EmptyIfZero
  <2> QED BY <2>1, <2>4
<1>12. CASE L # 0 /\ kept < 2
  <2>1. FrameAt(1) = 0
    BY <1>3, <1>6, <1>12
  <2>2. U = 0
    <3>1. 0 % 128 = 0
      OBVIOUS
    <3> QED BY <1>8, <2>1, <3>1
  <2>3. Unmask # message
    BY <1>8, <1>12, <2>2
  <2>4. ~Fine
    <3>1. PICK n \in 1..b : kept + n = 2
      <4>1. 2 - kept \in 1..b
        BY <1>3, <1>7, <1>12
      <4> QED BY <4>1
    <3>2. cf[kept + n] # 0 /\ ~(2 + L < kept + n)
      BY <1>4, <3>1
    <3> QED BY <3>2
  <2>5. message # <<>>
    BY <1>12
  <2> QED BY <1>10, <2>3, <2>4, <2>5
<1>13. CASE L # 0 /\ kept >= 2
  <2>1. FrameAt(1) = 128 + L
    BY <1>3, <1>4, <1>6, <1>13
  <2>2. U = L
    <3>1. (128 + L) % 128 = L
      OBVIOUS
    <3> QED BY <1>8, <2>1, <3>1
  <2>3. Unmask = message <=> \A n \in 1..L : Unmask[n] = message[n]
    BY <1>1, <1>8, <2>2, SeqEqual
  <2>4. message # <<>>
    BY <1>13
  <2>5. ASSUME NEW n \in 1..L
        PROVE  \E j \in 1..4 :
                 /\ j <= n /\ (n <= 4 => j = n)
                 /\ message[n] \in Byte /\ message[n] # 0 /\ k[j] \in Byte
                 /\ cf[6 + n] = message[n] ^^ k[j] /\ cf[2 + j] = k[j]
                 /\ Unmask[n] = (IF 6 + n <= kept THEN cf[6 + n] ELSE 0)
                                  ^^ (IF 2 + j <= kept THEN cf[2 + j] ELSE 0)
    <3>1. PICK j \in 1..4 : j = 1 + ((n - 1) % 4) /\ j <= n /\ (n <= 4 => j = n)
      OBVIOUS
    <3>2. k[j] \in Byte
      BY DEF Mask
    <3>3. cf[6 + n] = message[n] ^^ k[j] /\ cf[2 + j] = k[j]
      BY <1>4, <3>1
    <3>4. PICK x \in Nat, y \in Nat : x = 5 + n /\ y = 1 + j /\ y = 2 + ((n - 1) % 4)
      BY <3>1
    <3>5. Unmask[n] = FrameAt(x) ^^ FrameAt(y)
      BY <1>8, <2>2, <3>4
    <3>6. /\ FrameAt(x) = IF x < kept THEN cf[x + 1] ELSE 0
          /\ FrameAt(y) = IF y < kept THEN cf[y + 1] ELSE 0
      BY <1>3, <1>6, <3>1, <3>4
    <3>7. /\ FrameAt(x) = IF 6 + n <= kept THEN cf[6 + n] ELSE 0
          /\ FrameAt(y) = IF 2 + j <= kept THEN cf[2 + j] ELSE 0
      BY <3>4, <3>6
    <3> QED BY <1>1, <3>1, <3>2, <3>3, <3>5, <3>7
  <2>6. ASSUME Fine, NEW n \in 1..L
        PROVE  Unmask[n] = message[n]
    <3>1. PICK j \in 1..4 :
            /\ j <= n /\ (n <= 4 => j = n)
            /\ message[n] \in Byte /\ message[n] # 0 /\ k[j] \in Byte
            /\ cf[6 + n] = message[n] ^^ k[j] /\ cf[2 + j] = k[j]
            /\ Unmask[n] = (IF 6 + n <= kept THEN cf[6 + n] ELSE 0)
                             ^^ (IF 2 + j <= kept THEN cf[2 + j] ELSE 0)
      BY <2>5
    <3>2. CASE 6 + n <= kept
      <4>1. 2 + j <= kept
        BY <3>1, <3>2
      <4> QED BY <3>1, <3>2, <4>1, XorTwice
    <3>3. CASE ~(6 + n <= kept)
      <4>1. cf[6 + n] = 0
        <5>1. PICK q \in 1..b : kept + q = 6 + n
          <6>1. 6 + n - kept \in 1..b
            BY <1>3, <1>7, <3>3
          <6> QED BY <6>1
        <5>2. ~(kept + q <= 6)
          BY <5>1
        <5> QED BY <2>6, <5>1, <5>2
      <4>2. message[n] = k[j]
        BY <3>1, <4>1, XorSame
      <4>3. 2 + j <= kept
        <5> SUFFICES ASSUME ~(2 + j <= kept) PROVE FALSE
          OBVIOUS
        <5>1. PICK q \in 1..b : kept + q = 2 + j
          <6>1. 2 + j - kept \in 1..b
            BY <1>3, <1>7, <3>1
          <6> QED BY <6>1
        <5>2. ~(2 + L < kept + q)
          BY <3>1, <5>1
        <5>3. cf[2 + j] = 0
          BY <2>6, <5>1, <5>2
        <5> QED BY <3>1, <4>2, <5>3
      <4> QED BY <3>1, <3>3, <4>2, <4>3, XorZero
    <3> QED BY <3>2, <3>3
  <2>7. ASSUME \A n \in 1..L : Unmask[n] = message[n], NEW q \in 1..b
        PROVE  cf[kept + q] = 0 \/ (2 + L < kept + q /\ kept + q <= 6)
    <3>1. CASE kept + q > 6
      <4>1. PICK n \in 1..L : 6 + n = kept + q
        <5>1. kept + q - 6 \in 1..L
          BY <1>3, <1>7, <3>1
        <5> QED BY <5>1
      <4>2. PICK j \in 1..4 :
              /\ message[n] \in Byte /\ message[n] # 0 /\ k[j] \in Byte
              /\ cf[6 + n] = message[n] ^^ k[j] /\ cf[2 + j] = k[j]
              /\ Unmask[n] = (IF 6 + n <= kept THEN cf[6 + n] ELSE 0)
                               ^^ (IF 2 + j <= kept THEN cf[2 + j] ELSE 0)
        BY <2>5
      <4>3. ~(6 + n <= kept)
        BY <4>1
      <4>4. CASE 2 + j <= kept
        <5>1. message[n] = k[j]
          BY <2>7, <4>2, <4>3, <4>4, XorZero
        <5> QED BY <4>1, <4>2, <5>1, XorSame
      <4>5. CASE ~(2 + j <= kept)
        <5>1. message[n] = 0
          BY <2>7, <4>2, <4>3, <4>5, XorZero DEF Byte
        <5> QED BY <4>2, <5>1
      <4> QED BY <4>4, <4>5
    <3>2. CASE ~(kept + q > 6) /\ ~(2 + L < kept + q)
      <4>1. PICK n \in 1..L : n <= 4 /\ 2 + n = kept + q
        <5>1. kept + q - 2 \in 1..L /\ kept + q - 2 <= 4
          BY <1>13, <3>2
        <5> QED BY <5>1
      <4>2. PICK j \in 1..4 :
              /\ n <= 4 => j = n
              /\ message[n] \in Byte /\ message[n] # 0
              /\ Unmask[n] = (IF 6 + n <= kept THEN cf[6 + n] ELSE 0)
                               ^^ (IF 2 + j <= kept THEN cf[2 + j] ELSE 0)
        BY <2>5
      <4>3. ~(6 + n <= kept) /\ ~(2 + j <= kept)
        BY <4>1, <4>2
      <4>4. message[n] = 0
        BY <2>7, <4>2, <4>3, XorZero DEF Byte
      <4> QED BY <4>2, <4>4
    <3>3. CASE ~(kept + q > 6) /\ 2 + L < kept + q
      BY <3>3
    <3> QED BY <3>1, <3>2, <3>3
  <2>8. Fine <=> \A n \in 1..L : Unmask[n] = message[n]
    BY <2>6, <2>7
  <2> HIDE DEF Fine
  <2> QED BY <1>10, <2>3, <2>4, <2>8
<1>14. L = 0 \/ (L # 0 /\ kept < 2) \/ (L # 0 /\ kept >= 2)
  OBVIOUS
<1> QED BY <1>11, <1>12, <1>13, <1>14

------------------------------------------------------------------------------
(* What the browser sees *)

EventNames == {"begin", "insert", "commit", "rollback", "lock", "chat"}

FrTypes ==
  /\ message \in Seq(Byte) /\ frame \in Seq(Byte) /\ lost \in Seq(Byte)
  /\ decoded \in [text : Seq(Byte), rollback : BOOLEAN]
  /\ todo \in Seq(EventNames \X Nat)
  /\ seen \in Seq(EventNames \cup {"garbled"})
  /\ browser \in {"reading", "waiting", "failed"}

(* TypeOK is the types of the handshake and those of the frames. *)
LEMMA TypesTogether == TypeOK <=> HsTypes /\ FrTypes
BY DEF TypeOK, HsTypes, FrTypes, Bytes, Words, Word, EventNames

(* No event of a decoded message is longer than a char can hold. *)
LEMMA EventsFit ==
  ASSUME NEW D \in Nat, D <= 127, NEW ok \in BOOLEAN, NEW j \in 1..5
  PROVE  /\ Events(D, ok)[j] \in EventNames \X Nat
         /\ Events(D, ok)[j][1] \in EventNames
         /\ Events(D, ok)[j][2] \in Nat /\ Events(D, ok)[j][2] < 256
<1>1. IdLength \in Nat /\ IdLength <= 20
  BY IdAssumption
<1>2. PICK third \in {<<"commit", 41>>, <<"rollback", 49>>} :
        third = IF ok THEN <<"commit", 41>> ELSE <<"rollback", 49>>
  OBVIOUS
<1>3. Events(D, ok) = << <<"begin", 52>>, <<"insert", 55 + D>>, third,
                        <<"lock", 80 + IdLength>>, <<"chat", 53 + IdLength + D>> >>
  BY <1>2 DEF Events
<1>4. CASE j = 1
  BY <1>3, <1>4 DEF EventNames
<1>5. CASE j = 2
  BY <1>3, <1>5 DEF EventNames
<1>6. CASE j = 3
  BY <1>2, <1>3, <1>6 DEF EventNames
<1>7. CASE j = 4
  BY <1>1, <1>3, <1>7 DEF EventNames
<1>8. CASE j = 5
  BY <1>1, <1>3, <1>8 DEF EventNames
<1> QED BY <1>4, <1>5, <1>6, <1>7, <1>8

LEMMA EventsAreFive ==
  ASSUME NEW D \in Nat, D <= 127, NEW ok \in BOOLEAN
  PROVE  /\ Events(D, ok) \in Seq(EventNames \X Nat)
         /\ Len(Events(D, ok)) = 5
<1>1. DOMAIN Events(D, ok) = 1..5 /\ Len(Events(D, ok)) = 5
  BY DEF Events
<1>2. Events(D, ok) \in [1..5 -> EventNames \X Nat]
  <2>1. Events(D, ok) = [j \in 1..5 |-> Events(D, ok)[j]]
    BY DEF Events
  <2> QED BY <2>1, EventsFit
<1> QED BY <1>1, <1>2, FunctionIsSeq

(* The browser has seen the first n events for a text of D bytes. *)
SeenSoFar(n, D, ok) ==
  /\ Len(seen) = n
  /\ \A j \in 1..n : /\ seen[j] = Events(D, ok)[j][1]
                     /\ Events(D, ok)[j][2] <= 125

(* It has seen all before the one with number stop, which was too long. *)
StoppedAt(stop, D, ok) ==
  /\ \E m \in Nat : m = stop - 1 /\ SeenSoFar(m, D, ok)
  /\ Events(D, ok)[stop][2] > 125
  /\ browser = IF Events(D, ok)[stop][2] <= 127 THEN "waiting" ELSE "failed"

(* n of the events have been broadcast. *)
ToldSoFar(n, D, ok) ==
  /\ n + Len(todo) = 5
  /\ \A j \in 1..Len(todo) : todo[j] = Events(D, ok)[n + j]
  /\ \/ browser = "reading" /\ SeenSoFar(n, D, ok)
     \/ \E stop \in 1..n : StoppedAt(stop, D, ok)

Told ==
  pc = "received" =>
    \E n \in Nat, D \in Nat, ok \in BOOLEAN :
      D <= 127 /\ D = Len(decoded.text) /\ ToldSoFar(n, D, ok)

(* A broadcast adds one event, or stops the browser, or finds it stopped. *)
LEMMA BroadcastTells ==
  ASSUME FrTypes, Broadcast, NEW n \in Nat, NEW D \in Nat, D <= 127,
         NEW ok \in BOOLEAN, ToldSoFar(n, D, ok)
  PROVE  FrTypes' /\ ToldSoFar(n + 1, D, ok)'
<1>1. PICK r \in Nat : r = Len(todo)
  BY LenProperties DEF FrTypes
<1>2. n + r = 5 /\ r # 0
  BY <1>1, EmptyIfZero DEF FrTypes, ToldSoFar, Broadcast
<1>3. PICK rest \in Nat, next \in 1..5 : rest = r - 1 /\ next = n + 1
  BY <1>2
<1>4. PICK e : e = Events(D, ok)[next]
  OBVIOUS
<1>5. e[1] \in EventNames /\ e[2] \in Nat /\ e[2] < 256
  BY <1>4, EventsFit
<1>6. Head(todo) = e
  <2>1. todo[1] = Events(D, ok)[n + 1]
    BY <1>1, <1>2 DEF ToldSoFar
  <2> QED BY <2>1, <1>3, <1>4 DEF FrTypes
<1>7. /\ todo' \in Seq(EventNames \X Nat) /\ Len(todo') = rest
      /\ \A j \in 1..rest : todo'[j] = todo[j + 1]
  <2>1. todo # <<>> /\ todo' = Tail(todo)
    BY DEF Broadcast
  <2>2. /\ Tail(todo) \in Seq(EventNames \X Nat) /\ Len(Tail(todo)) = r - 1
        /\ \A j \in 1..Len(Tail(todo)) : Tail(todo)[j] = todo[j + 1]
    BY <1>1, <2>1, HeadTailProperties DEF FrTypes
  <2> QED BY <1>3, <2>1, <2>2
<1>8. \A j \in 1..rest : todo'[j] = Events(D, ok)[next + j]
  <2>1. ASSUME NEW j \in 1..rest
        PROVE  todo'[j] = Events(D, ok)[next + j]
    <3>1. PICK q \in 1..r : q = j + 1 /\ n + q = next + j
      BY <1>3
    <3>2. todo[q] = Events(D, ok)[n + q]
      BY <1>1 DEF ToldSoFar
    <3> QED BY <1>7, <3>1, <3>2
  <2> QED BY <2>1
<1>9. LengthByteOf(e[2]) = e[2]
  BY <1>5 DEF LengthByteOf
<1>10. /\ Read(e, e[2])
       /\ UNCHANGED <<message, frame, lost, decoded>>
  BY <1>6, <1>9 DEF Broadcast
<1>11. /\ next + rest = 5 /\ n < next
       /\ \A j : j \in 1..next <=> j \in 1..n \/ j = next
  BY <1>2, <1>3
<1>12. CASE browser # "reading"
  <2>1. UNCHANGED <<seen, browser>>
    BY <1>10, <1>12 DEF Read
  <2>2. PICK stop \in 1..n : StoppedAt(stop, D, ok)
    BY <1>12 DEF ToldSoFar
  <2>3. StoppedAt(stop, D, ok)' /\ stop \in 1..next
    BY <1>11, <2>1, <2>2 DEF StoppedAt, SeenSoFar
  <2>4. ToldSoFar(next, D, ok)'
    BY <1>7, <1>8, <1>11, <2>3 DEF ToldSoFar
  <2>5. FrTypes'
    BY <1>7, <1>10, <2>1 DEF FrTypes
  <2> QED BY <1>3, <2>4, <2>5
<1>13. CASE browser = "reading" /\ e[2] > 125
  <2>1. /\ seen' = seen
        /\ browser' = IF e[2] <= 127 THEN "waiting" ELSE "failed"
    BY <1>5, <1>10, <1>13 DEF Read
  <2>2. SeenSoFar(n, D, ok)
    BY <1>13 DEF ToldSoFar, StoppedAt
  <2>3. SeenSoFar(n, D, ok)'
    BY <2>1, <2>2 DEF SeenSoFar
  <2>4. StoppedAt(next, D, ok)'
    <3>1. n = next - 1
      BY <1>3
    <3> QED BY <1>4, <1>13, <2>1, <2>3, <3>1 DEF StoppedAt
  <2>5. ToldSoFar(next, D, ok)'
    BY <1>7, <1>8, <1>11, <2>4 DEF ToldSoFar
  <2>6. FrTypes'
    BY <1>7, <1>10, <2>1 DEF FrTypes
  <2> QED BY <1>3, <2>5, <2>6
<1>14. CASE browser = "reading" /\ e[2] <= 125
  <2>1. seen' = Append(seen, e[1]) /\ browser' = "reading"
    BY <1>5, <1>10, <1>14 DEF Read
  <2>2. SeenSoFar(n, D, ok)
    BY <1>14 DEF ToldSoFar, StoppedAt
  <2>3. seen \in Seq(EventNames \cup {"garbled"}) /\ e[1] \in EventNames \cup {"garbled"}
    BY <1>5 DEF FrTypes
  <2>4. /\ seen' \in Seq(EventNames \cup {"garbled"}) /\ Len(seen') = next
        /\ \A j \in 1..n : seen'[j] = seen[j]
        /\ seen'[next] = e[1]
    BY <1>3, <2>1, <2>2, <2>3, AppendProperties DEF SeenSoFar
  <2>5. SeenSoFar(next, D, ok)'
    <3>1. ASSUME NEW j \in 1..next
          PROVE  seen'[j] = Events(D, ok)[j][1] /\ Events(D, ok)[j][2] <= 125
      <4>1. j \in 1..n \/ j = next
        BY <1>3
      <4> QED BY <1>4, <1>14, <2>2, <2>4, <4>1 DEF SeenSoFar
    <3> QED BY <2>4, <3>1 DEF SeenSoFar
  <2>6. ToldSoFar(next, D, ok)'
    BY <1>7, <1>8, <1>11, <2>1, <2>5 DEF ToldSoFar
  <2>7. FrTypes'
    BY <1>7, <1>10, <2>1, <2>4 DEF FrTypes
  <2> QED BY <1>3, <2>6, <2>7
<1> QED BY <1>5, <1>12, <1>13, <1>14

------------------------------------------------------------------------------
(* The invariant *)

(* Nothing is lost, seen or stopped before its time; what was typed is in  *)
(* the frame, and what recv returned is a part of it.                      *)
Course ==
  /\ pc \notin {"arrived", "received"} => lost = <<>>
  /\ pc # "received" => seen = <<>> /\ browser = "reading"
  /\ pc \in {"typed", "arrived", "received"} => message \in Messages
  /\ pc = "typed" => \E k \in Mask : frame = ClientFrame(message, k)
  /\ pc = "arrived" =>
       \E k \in Mask, kept \in Nat : Received(ClientFrame(message, k), kept)

(* The inductive invariant                                                 *)
IInv == HsInv /\ FrTypes /\ Course /\ TextArrives /\ Told

LEMMA MessagesAreTexts ==
  ASSUME NEW m \in Messages
  PROVE  /\ m \in Text /\ m \in Seq(Byte)
         /\ \E L \in Nat : L = Len(m) /\ L \div 256 \in Byte
<1>1. m \in Text /\ Len(m) <= 4080
  BY TextAssumption DEF Text
<1>2. PICK L \in Nat : L = Len(m)
  BY <1>1, LenProperties DEF Text
<1>3. L <= 4080
  BY <1>1, <1>2
<1>4. L \div 256 \in Byte
  BY <1>3 DEF Byte
<1> QED BY <1>1, <1>2, <1>4, TextIsBytes

(* What the browser makes of a text is bytes. *)
LEMMA ClientFrameIsBytes ==
  ASSUME NEW m \in Messages, NEW k \in Mask
  PROVE  ClientFrame(m, k) \in Seq(Byte)
<1>1. PICK L \in Nat : L = Len(m) /\ L \div 256 \in Byte
  BY MessagesAreTexts
<1>2. m \in Seq(Byte)
  BY MessagesAreTexts
<1>3. CASE L <= 125
  <2>1. IsShortFrame(ClientFrame(m, k), m, L, k)
    BY <1>1, <1>2, <1>3, ShortFrame
  <2> QED BY <2>1 DEF IsShortFrame
<1>4. CASE ~(L <= 125)
  <2>1. IsLongFrame(ClientFrame(m, k), m, L, k)
    BY <1>1, <1>2, <1>4, LongFrame
  <2> QED BY <2>1 DEF IsLongFrame
<1> QED BY <1>3, <1>4

(* It holds at first, and every step keeps it. *)
LEMMA Initially == Init => IInv
<1> SUFFICES ASSUME Init PROVE IInv
  OBVIOUS
<1>1. HsInv
  <2>1. key \in Seq(Byte) /\ Len(key) <= 24
    BY KeysAssumption DEF Init, HsInit
  <2> QED BY <2>1 DEF Init, HsInit, HsInv, HsTypes, Shape
<1>2. FrTypes
  <2>1. decoded \in [text : Seq(Byte), rollback : BOOLEAN]
    BY DEF Init
  <2>2. \A S : <<>> \in Seq(S)
    OBVIOUS
  <2> QED BY <2>1, <2>2 DEF Init, FrTypes
<1>3. Course /\ TextArrives /\ Told
  BY DEF Init, HsInit, Course, TextArrives, Told
<1> QED BY <1>1, <1>2, <1>3 DEF IInv

LEMMA HandshakeStep ==
  ASSUME IInv, HsNext, UNCHANGED frVars
  PROVE  IInv'
<1>1. HsInv'
  BY RequestKeepsTypes, LoadBlockKeepsTypes, ExpandKeepsTypes, RoundKeepsTypes,
     EncodeKeepsTypes DEF HsNext, IInv
<1>2. FrTypes'
  BY DEF FrTypes, IInv, frVars
<1>3. pc \notin {"typed", "arrived", "received"} /\ pc' \notin {"typed", "arrived", "received"}
  BY DEF HsNext, Request, LoadBlock, Expand, Round, Encode
<1>4. Course' /\ TextArrives' /\ Told'
  BY <1>3 DEF IInv, Course, TextArrives, Told, frVars
<1> QED BY <1>1, <1>2, <1>4 DEF IInv

LEMMA TypeStep ==
  ASSUME IInv, NEW m \in Messages, NEW k \in MaskingKeys, Type(m, k)
  PROVE  IInv'
<1>1. k \in Mask
  BY MaskAssumption DEF Mask
<1>2. HsInv'
  BY DEF IInv, HsInv, HsTypes, Shape, Type
<1>3. FrTypes'
  <2>1. m \in Seq(Byte) /\ ClientFrame(m, k) \in Seq(Byte)
    BY <1>1, MessagesAreTexts, ClientFrameIsBytes
  <2> QED BY <2>1 DEF IInv, FrTypes, Type
<1>4. Course'
  BY <1>1 DEF IInv, Course, Type
<1>5. TextArrives' /\ Told'
  BY DEF Type, TextArrives, Told
<1> QED BY <1>2, <1>3, <1>4, <1>5 DEF IInv

LEMMA RecvStep ==
  ASSUME IInv, Recv
  PROVE  IInv'
<1>1. HsInv'
  BY DEF IInv, HsInv, HsTypes, Shape, Recv
<1>2. PICK k \in Mask : frame = ClientFrame(message, k)
  BY DEF IInv, Course, Recv
<1>3. ClientFrame(message, k) \in Seq(Byte) /\ message \in Messages /\ lost = <<>>
  BY <1>2 DEF IInv, FrTypes, Course, Recv
<1>4. PICK cf \in Seq(Byte) : cf = ClientFrame(message, k)
  BY <1>3
<1>5. /\ frame' \in Seq(Byte) /\ lost' \in Seq(Byte)
      /\ \E kept \in Nat : Received(cf, kept)'
  BY <1>2, <1>3, <1>4, RecvReceives
<1>6. FrTypes'
  BY <1>5 DEF IInv, FrTypes, Recv
<1>7. /\ pc = "typed" /\ pc' = "arrived"
      /\ UNCHANGED <<message, seen, browser>>
  BY DEF Recv
<1>8. PICK kept \in Nat : Received(ClientFrame(message, k), kept)'
  <2>1. cf = ClientFrame(message, k)'
    BY <1>4, <1>7 DEF ClientFrame
  <2> QED BY <1>5, <2>1
<1>9. Course'
  BY <1>3, <1>7, <1>8 DEF IInv, Course
<1>10. TextArrives' /\ Told'
  BY <1>7 DEF TextArrives, Told
<1> QED BY <1>1, <1>6, <1>9, <1>10 DEF IInv

LEMMA ReceiveStep ==
  ASSUME IInv, Receive
  PROVE  IInv'
<1>1. HsInv'
  BY DEF IInv, HsInv, HsTypes, Shape, Receive
<1>2. /\ frame \in Seq(Byte) /\ lost \in Seq(Byte) /\ message \in Messages
      /\ seen = <<>> /\ browser = "reading"
  BY DEF IInv, FrTypes, Course, Receive
<1>3. PICK k \in Mask, kept \in Nat : Received(ClientFrame(message, k), kept)
  BY DEF IInv, Course, Receive
<1>4. PICK U \in Seq(Byte) : U = Unmask
  BY <1>2, UnmaskIsText
<1>5. PICK n \in Nat : n = Len(U) /\ n <= 127
  BY <1>2, <1>4, UnmaskIsText
<1>6. /\ decoded' = StripPrefix(U)
      /\ pc' = "received" /\ frame' = <<>>
      /\ UNCHANGED <<message, lost, seen, browser>>
  BY <1>4 DEF Receive
<1>7. PICK D \in Nat : /\ decoded' \in [text : Seq(Byte), rollback : BOOLEAN]
                      /\ D = Len(decoded'.text) /\ D <= n
  <2>1. /\ decoded' \in [text : Seq(Byte), rollback : BOOLEAN]
        /\ Len(decoded'.text) <= n
    BY <1>5, <1>6, StripPrefixIsText
  <2>2. PICK D \in Nat : D = Len(decoded'.text)
    BY <2>1, LenProperties
  <2> QED BY <2>1, <2>2
<1>8. D <= 127
  BY <1>5, <1>7
<1>9. PICK ok \in BOOLEAN : todo' = Events(D, ok)
  BY <1>7 DEF Receive
<1>10. PICK ev : ev = Events(D, ok)
  OBVIOUS
<1>11. ev \in Seq(EventNames \X Nat) /\ Len(ev) = 5
  BY <1>8, <1>10, EventsAreFive
<1>12. FrTypes'
  BY <1>2, <1>6, <1>7, <1>9, <1>10, <1>11 DEF IInv, FrTypes
<1>13. Course'
  BY <1>2, <1>6 DEF Course
<1>14. Told'
  <2>1. ToldSoFar(0, D, ok)'
    <3>1. Len(todo') = 5 /\ \A j \in 1..5 : todo'[j] = Events(D, ok)[j]
      BY <1>9, <1>10, <1>11
    <3>2. Len(seen') = 0 /\ browser' = "reading"
      BY <1>2, <1>6
    <3> QED BY <3>1, <3>2 DEF ToldSoFar, SeenSoFar
  <2> QED BY <1>7, <1>8, <2>1 DEF Told
<1>15. TextArrives'
  <2>1. PICK L \in Nat : L = Len(message) /\ L \div 256 \in Byte
    BY <1>2, MessagesAreTexts
  <2>2. message \in Text /\ message \in Seq(Byte)
    BY <1>2, MessagesAreTexts
  <2>3. AsTyped' <=> U = message
    <3>1. PICK d : d = decoded'
      OBVIOUS
    <3>2. /\ d.rollback <=> IsPrefix(RollbackPrefix, U)
          /\ U = (IF d.rollback THEN RollbackPrefix ELSE <<>>) \o d.text
      BY <1>5, <1>6, <3>1, StripPrefixIsText
    <3>3. AsTyped' <=> /\ d.rollback <=> IsPrefix(RollbackPrefix, message)
                       /\ message = (IF d.rollback THEN RollbackPrefix ELSE <<>>) \o d.text
      BY <1>6, <3>1 DEF AsTyped
    <3> QED BY <3>2, <3>3
  <2>4. \A q : Unused(q)' <=> Unused(q)
    BY <1>6 DEF Unused
  <2>5. CASE L <= 125
    <3>1. U = message <=>
            message = <<>> \/ \A q \in DOMAIN lost : lost[q] = 0 \/ Unused(q)
      BY <1>2, <1>3, <1>4, <2>1, <2>2, <2>5, ShortTextArrives
    <3>2. Len(message) <= 125
      BY <2>1, <2>5
    <3>3. lost' = lost /\ message' = message
      BY <1>6
    <3> QED BY <2>3, <2>4, <3>1, <3>2, <3>3 DEF TextArrives
  <2>6. CASE ~(L <= 125)
    <3>1. U # message
      BY <1>2, <1>3, <1>4, <2>1, <2>2, <2>6, LongTextIsLost
    <3>2. ~(Len(message) <= 125)
      BY <2>1, <2>6
    <3>3. message' = message
      BY <1>6
    <3> QED BY <2>3, <3>1, <3>2, <3>3 DEF TextArrives
  <2> QED BY <2>5, <2>6
<1> QED BY <1>1, <1>12, <1>13, <1>14, <1>15 DEF IInv

LEMMA BroadcastStep ==
  ASSUME IInv, Broadcast
  PROVE  IInv'
<1>1. UNCHANGED <<hsVars, message, frame, lost, decoded>> /\ pc = "received"
  BY DEF Broadcast
<1>2. HsInv'
  BY <1>1 DEF IInv, HsInv, HsTypes, Shape, hsVars
<1>3. PICK n \in Nat, D \in Nat, ok \in BOOLEAN :
        D <= 127 /\ D = Len(decoded.text) /\ ToldSoFar(n, D, ok)
  BY <1>1 DEF IInv, Told
<1>4. FrTypes' /\ ToldSoFar(n + 1, D, ok)'
  BY <1>3, BroadcastTells DEF IInv
<1>5. Told'
  <2>1. PICK q \in Nat : q = n + 1
    OBVIOUS
  <2>2. ToldSoFar(q, D, ok)' /\ D = Len(decoded'.text)
    BY <1>1, <1>3, <1>4, <2>1
  <2> QED BY <1>3, <2>2 DEF Told
<1>6. Course'
  BY <1>1 DEF IInv, Course, hsVars
<1>7. TextArrives'
  BY <1>1 DEF IInv, TextArrives, AsTyped, Unused, hsVars
<1> QED BY <1>2, <1>4, <1>5, <1>6, <1>7 DEF IInv

LEMMA Step == IInv /\ [Next]_vars => IInv'
<1> SUFFICES ASSUME IInv, [Next]_vars PROVE IInv'
  OBVIOUS
<1>1. CASE HsNext /\ UNCHANGED frVars
  BY <1>1, HandshakeStep
<1>2. ASSUME NEW m \in Messages, NEW k \in MaskingKeys, Type(m, k)
      PROVE  IInv'
  BY <1>2, TypeStep
<1>3. CASE Recv
  BY <1>3, RecvStep
<1>4. CASE Receive
  BY <1>4, ReceiveStep
<1>5. CASE Broadcast
  BY <1>5, BroadcastStep
<1>6. CASE UNCHANGED vars
  <2> USE <1>6 DEF vars, hsVars, frVars
  <2>1. HsInv'
    BY DEF IInv, HsInv, HsTypes, Shape
  <2>2. FrTypes'
    BY DEF IInv, FrTypes
  <2>3. Course'
    <3>1. ASSUME NEW k, NEW kept
          PROVE  Received(ClientFrame(message, k), kept)'
                   <=> Received(ClientFrame(message, k), kept)
      BY DEF Received
    <3> QED BY <3>1 DEF IInv, Course
  <2>4. TextArrives'
    BY DEF IInv, TextArrives, AsTyped, Unused
  <2>5. Told'
    BY DEF IInv, Told, ToldSoFar, SeenSoFar, StoppedAt
  <2> QED BY <2>1, <2>2, <2>3, <2>4, <2>5 DEF IInv
<1> QED BY <1>1, <1>2, <1>3, <1>4, <1>5, <1>6 DEF Next

LEMMA Invariance == Spec => []IInv
<1>1. Init => IInv
  BY Initially
<1>2. IInv /\ [Next]_vars => IInv'
  BY Step
<1> QED BY <1>1, <1>2, PTL DEF Spec

------------------------------------------------------------------------------
(* What follows from it *)

(***************************************************************************)
(* The state has its type: every word of sha1 is 32 bits wide, whatever    *)
(* the key, and recv, the unmasking and the frames deal in bytes.          *)
(***************************************************************************)
THEOREM TypeCorrect == Spec => []TypeOK
<1>1. IInv => TypeOK
  BY TypesTogether DEF IInv, HsInv
<1> QED BY <1>1, Invariance, PTL

(***************************************************************************)
(* sha1 stays within its arrays: whatever the key, a round that reads      *)
(* w[i] finds it among the 80 words of the block, and the block among the  *)
(* padded bytes.                                                           *)
(***************************************************************************)
THEOREM ArraysAreInBounds == Spec => []Shape
<1>1. IInv => Shape
  BY DEF IInv, HsInv
<1> QED BY <1>1, Invariance, PTL

(***************************************************************************)
(* Which texts arrive: exactly those of up to 125 bytes of whose frame     *)
(* recv returned all that counts, whatever the text, the mask and the      *)
(* segment.                                                                *)
(***************************************************************************)
THEOREM TextsArrive == Spec => []TextArrives
<1>1. IInv => TextArrives
  BY DEF IInv
<1> QED BY <1>1, Invariance, PTL

(* The lengths of the five events: only the second and fifth can be long. *)
LEMMA EventLengths ==
  ASSUME NEW D \in Nat, NEW ok \in BOOLEAN
  PROVE  /\ Events(D, ok)[1][2] <= 125
         /\ Events(D, ok)[2][2] = 55 + D
         /\ Events(D, ok)[3][2] <= 125
         /\ Events(D, ok)[4][2] <= 125
         /\ Events(D, ok)[5][2] = 53 + IdLength + D
<1>1. PICK I \in Nat : I = IdLength /\ 1 <= I /\ I <= 20
  BY IdAssumption
<1>2. PICK third \in {<<"commit", 41>>, <<"rollback", 49>>} :
        third = IF ok THEN <<"commit", 41>> ELSE <<"rollback", 49>>
  OBVIOUS
<1>3. Events(D, ok) = << <<"begin", 52>>, <<"insert", 55 + D>>, third,
                        <<"lock", 80 + I>>, <<"chat", 53 + I + D>> >>
  BY <1>1, <1>2 DEF Events
<1> QED BY <1>1, <1>2, <1>3

(***************************************************************************)
(* Which messages the browsers live through: those whose INSERT and chat   *)
(* events fit into the 7 bits of a frame's length, whatever the text and   *)
(* the thread's id; and where it stops at the others, whose frames         *)
(* broadcastMessage gives a length byte of 126 or more.                    *)
(***************************************************************************)
THEOREM ShortMessages == Spec => []ShortMessagesAreSeen
<1>1. IInv => ShortMessagesAreSeen
  <2> DEFINE short == browser = "reading" <=> FirstLong <= 125
             long  == browser = "waiting" <=> FirstLong \in {126, 127}
             many  == Len(seen) = IF FirstLong <= 125 THEN 5
                                  ELSE IF InsertLength > 125 THEN 1 ELSE 4
             clear == \A n \in DOMAIN seen : seen[n] # "garbled"
  <2> SUFFICES ASSUME IInv, pc = "received", todo = <<>>
               PROVE  short /\ long /\ many /\ clear
    BY DEF ShortMessagesAreSeen
  <2>1. PICK n \in Nat, D \in Nat, ok \in BOOLEAN :
          D <= 127 /\ D = Len(decoded.text) /\ ToldSoFar(n, D, ok)
    BY DEF IInv, Told
  <2>2. n = 5
    <3>1. Len(todo) = 0
      OBVIOUS
    <3> QED BY <2>1, <3>1 DEF ToldSoFar
  <2>3. PICK I \in Nat, ins \in Nat, chat \in Nat :
          /\ I = IdLength /\ ins = 55 + D /\ chat = 53 + I + D
          /\ ins = InsertLength /\ chat = ChatLength
    <3>1. IdLength \in Nat
      BY IdAssumption
    <3>2. InsertLength = 55 + D /\ ChatLength = 53 + IdLength + D
      BY <2>1 DEF InsertLength, ChatLength
    <3> QED BY <3>1, <3>2
  <2>4. FirstLong = IF ins > 125 THEN ins ELSE chat
    BY <2>3 DEF FirstLong
  <2>5. /\ Events(D, ok)[1][2] <= 125 /\ Events(D, ok)[2][2] = ins
        /\ Events(D, ok)[3][2] <= 125 /\ Events(D, ok)[4][2] <= 125
        /\ Events(D, ok)[5][2] = chat
    BY <2>3, EventLengths
  <2>6. ASSUME NEW stop \in Nat, stop <= 5, SeenSoFar(stop, D, ok) PROVE clear
    <3>1. DOMAIN seen = 1..stop
      BY <2>6, LenProperties DEF SeenSoFar, IInv, FrTypes
    <3>2. ASSUME NEW j \in 1..stop PROVE seen[j] # "garbled"
      <4>1. j \in 1..5
        BY <2>6
      <4>2. Events(D, ok)[j][1] \in EventNames
        BY <2>1, <4>1, EventsFit
      <4> QED BY <2>6, <4>2 DEF SeenSoFar, EventNames
    <3> QED BY <3>1, <3>2
  <2>7. CASE browser = "reading" /\ SeenSoFar(5, D, ok)
    <3>1. ins <= 125 /\ chat <= 125 /\ Len(seen) = 5
      BY <2>5, <2>7 DEF SeenSoFar
    <3> QED BY <2>3, <2>4, <2>6, <2>7, <3>1
  <2>8. ASSUME NEW stop \in 1..5, StoppedAt(stop, D, ok) PROVE short /\ long /\ many /\ clear
    <3>1. PICK m \in Nat : m = stop - 1 /\ SeenSoFar(m, D, ok)
      BY <2>8 DEF StoppedAt
    <3>2. stop = 2 \/ stop = 5
      <4>1. Events(D, ok)[stop][2] > 125 /\ Events(D, ok)[stop][2] \in Nat
        BY <2>1, <2>8, EventsFit DEF StoppedAt
      <4>2. stop # 1 /\ stop # 3 /\ stop # 4
        BY <2>5, <4>1
      <4> QED BY <2>8, <4>2
    <3>3. clear
      BY <2>6, <3>1
    <3>4. CASE stop = 2
      <4>1. /\ ins > 125 /\ Len(seen) = 1
            /\ browser = IF ins <= 127 THEN "waiting" ELSE "failed"
        BY <2>5, <2>8, <3>1, <3>4 DEF StoppedAt, SeenSoFar
      <4> QED BY <2>3, <2>4, <3>3, <4>1
    <3>5. CASE stop = 5
      <4>1. /\ ins <= 125 /\ chat > 125 /\ Len(seen) = 4
            /\ browser = IF chat <= 127 THEN "waiting" ELSE "failed"
        BY <2>5, <2>8, <3>1, <3>5 DEF StoppedAt, SeenSoFar
      <4> QED BY <2>3, <2>4, <3>3, <4>1
    <3> QED BY <3>2, <3>4, <3>5
  <2> QED BY <2>1, <2>2, <2>7, <2>8 DEF ToldSoFar
<1> QED BY <1>1, Invariance, PTL
------------------------------------------------------------------------------
(* What the answer carries *)

AnswerDecodes ==
  pc = "answered" =>
    /\ Len(accept_key) = 28
    /\ \A n \in 1..20 : DecodedByte(accept_key, n) = HashByte(n)
    /\ \A n \in 1..28 : accept_key[n] = 64 <=> n = 28

LEMMA EncodeDecodes ==
  ASSUME HsInv, Encode
  PROVE  AnswerDecodes'
<1>1. hash \in Bytes
  BY HashIsBytes DEF HsInv, HsTypes, Shape, Encode
<1>2. Len(hash) = 20 /\ \A n \in 1..20 : hash[n] = HashByte(n)
  BY DEF hash
<1>3. PICK c : c = base64_encode(hash)
  OBVIOUS
<1>4. /\ Len(c) = 4 * ((20 + 2) \div 3)
      /\ \A n \in 1..20 : DecodedByte(c, n) = hash[n]
      /\ \A n \in 1..Len(c) : c[n] = 64 <=> n > Len(c) - Filled(20)
  <2>1. LET c2 == base64_encode(hash)
        IN  /\ Len(c2) = 4 * ((Len(hash) + 2) \div 3)
            /\ \A n \in 1..Len(hash) : DecodedByte(c2, n) = hash[n]
            /\ \A n \in 1..Len(c2) : c2[n] = 64 <=> n > Len(c2) - Filled(Len(hash))
    BY <1>1, Base64IsDecoded, Zenon
  <2>2. /\ Len(c) = 4 * ((Len(hash) + 2) \div 3)
        /\ \A n \in 1..Len(hash) : DecodedByte(c, n) = hash[n]
        /\ \A n \in 1..Len(c) : c[n] = 64 <=> n > Len(c) - Filled(Len(hash))
    BY <2>1, <1>3, Zenon
  <2>3. Len(hash) = 20
    BY <1>2
  <2> QED BY <2>2, <2>3, Zenon
<1>5. 4 * ((20 + 2) \div 3) = 28 /\ Filled(20) = 1
  BY DEF Filled
<1>6. \A n \in 1..28 : n > 28 - 1 <=> n = 28
  OBVIOUS
<1>7. /\ Len(c) = 28
      /\ \A n \in 1..20 : DecodedByte(c, n) = HashByte(n)
      /\ \A n \in 1..28 : c[n] = 64 <=> n = 28
  BY <1>2, <1>4, <1>5, <1>6
<1>8. \A n : HashByte(n)' = HashByte(n)
  BY DEF Encode, HashByte
<1>9. \A n : DecodedByte(accept_key, n)' = DecodedByte(c, n)
  BY <1>3 DEF Encode, DecodedByte
<1>10. accept_key' = c
  BY <1>3 DEF Encode
<1> QED BY <1>7, <1>8, <1>9, <1>10 DEF AnswerDecodes

(***************************************************************************)
(* The answer carries the hash: whatever the key, accept_key has 28        *)
(* characters of which only the last is '=', and a decoder gets the 20     *)
(* bytes of sha1's five words back from them.                              *)
(***************************************************************************)
THEOREM AnswerCarriesTheHash == Spec => []AnswerDecodes
<1>1. Init => AnswerDecodes
  BY DEF Init, HsInit, AnswerDecodes
<1>2. IInv /\ AnswerDecodes /\ [Next]_vars => AnswerDecodes'
  <2> SUFFICES ASSUME IInv, AnswerDecodes, [Next]_vars
               PROVE  AnswerDecodes'
    OBVIOUS
  <2>1. CASE Encode
    BY <2>1, EncodeDecodes DEF IInv
  <2>2. CASE UNCHANGED vars
    BY <2>2 DEF vars, hsVars, AnswerDecodes, DecodedByte, HashByte
  <2>3. CASE Next /\ ~Encode
    <3>1. pc' # "answered"
      BY <2>3 DEF Next, HsNext, Request, LoadBlock, Expand, Round, Type, Recv,
                  Receive, Broadcast, hsVars
    <3> QED BY <3>1 DEF AnswerDecodes
  <2> QED BY <2>1, <2>2, <2>3
<1> QED BY <1>1, <1>2, Invariance, PTL DEF Spec

------------------------------------------------------------------------------
(* The operators of sha1 are the standard's (SecureHash.tla). *)

LEMMA HalfParts ==
  ASSUME NEW op, NEW x, NEW y
  PROVE  /\ Bits16(op, x, y) \div 256 = Bits8(op, x \div 256, y \div 256)
         /\ Bits16(op, x, y) % 256 = Bits8(op, x % 256, y % 256)
<1>1. PICK hi \in Byte : hi = Bits8(op, x \div 256, y \div 256)
  BY ByteRange
<1>2. PICK lo \in Byte : lo = Bits8(op, x % 256, y % 256)
  BY ByteRange
<1>3. Bits16(op, x, y) = 256 * hi + lo
  BY <1>1, <1>2 DEF Bits16
<1>4. (256 * hi + lo) \div 256 = hi /\ (256 * hi + lo) % 256 = lo
  BY DEF Byte
<1> QED BY <1>1, <1>2, <1>3, <1>4

LEMMA ComplementBits ==
  ASSUME NEW x \in Byte, NEW p \in {1, 2, 4, 8, 16, 32, 64, 128}
  PROVE  Bit(255 - x, p) = 1 - Bit(x, p)
<1> DEFINE b(q) == Bit(x, q)
<1>1. /\ b(1) \in 0..1 /\ b(2) \in 0..1 /\ b(4) \in 0..1 /\ b(8) \in 0..1
      /\ b(16) \in 0..1 /\ b(32) \in 0..1 /\ b(64) \in 0..1 /\ b(128) \in 0..1
  BY BitIsBit DEF Byte
<1>2. x = b(1) + 2 * b(2) + 4 * b(4) + 8 * b(8) + 16 * b(16) + 32 * b(32)
            + 64 * b(64) + 128 * b(128)
  BY Decompose
<1> HIDE DEF b
<1>3. /\ 1 - b(1) \in 0..1 /\ 1 - b(2) \in 0..1 /\ 1 - b(4) \in 0..1 /\ 1 - b(8) \in 0..1
      /\ 1 - b(16) \in 0..1 /\ 1 - b(32) \in 0..1 /\ 1 - b(64) \in 0..1
      /\ 1 - b(128) \in 0..1
  BY <1>1
<1>4. 255 - x = (1 - b(1)) + 2 * (1 - b(2)) + 4 * (1 - b(4)) + 8 * (1 - b(8))
                  + 16 * (1 - b(16)) + 32 * (1 - b(32)) + 64 * (1 - b(64))
                  + 128 * (1 - b(128))
  BY <1>1, <1>2
<1>5. Bit(255 - x, p) = 1 - b(p)
  BY <1>3, <1>4, Compose
<1> QED BY <1>5 DEF b

(* The functions of the rounds on bytes: the code's are the standard's. *)
LEMMA ChBytes ==
  ASSUME NEW x \in Byte, NEW y, NEW z
  PROVE  Bits8("or", Bits8("and", x, y), Bits8("and", 255 - x, z))
           = Bits8("xor", Bits8("and", x, y), Bits8("and", 255 - x, z))
<1>1. PICK a, b : a = Bits8("and", x, y) /\ b = Bits8("and", 255 - x, z)
  OBVIOUS
<1>2. ASSUME NEW p \in {1, 2, 4, 8, 16, 32, 64, 128}
      PROVE  Combined("or", Bit(a, p), Bit(b, p)) = Combined("xor", Bit(a, p), Bit(b, p))
  <2>1. Bit(x, p) \in 0..1
    BY BitIsBit DEF Byte
  <2>2. Bit(a, p) = Combined("and", Bit(x, p), Bit(y, p))
    BY <1>1, BitsOfBits8
  <2>3. Bit(b, p) = Combined("and", 1 - Bit(x, p), Bit(z, p))
    BY <1>1, BitsOfBits8, ComplementBits
  <2> QED BY <2>1, <2>2, <2>3 DEF Combined
<1>3. Bits8("or", a, b) = Bits8("xor", a, b)
  BY <1>2 DEF Bits8
<1> QED BY <1>1, <1>3

LEMMA MajBytes ==
  ASSUME NEW x, NEW y, NEW z
  PROVE  Bits8("or", Bits8("and", x, y), Bits8("or", Bits8("and", x, z), Bits8("and", y, z)))
           = Bits8("xor", Bits8("xor", Bits8("and", x, y), Bits8("and", x, z)),
                          Bits8("and", y, z))
<1>1. PICK a, b, c : a = Bits8("and", x, y) /\ b = Bits8("and", x, z) /\ c = Bits8("and", y, z)
  OBVIOUS
<1>2. PICK d, e : d = Bits8("or", b, c) /\ e = Bits8("xor", a, b)
  OBVIOUS
<1>3. ASSUME NEW p \in {1, 2, 4, 8, 16, 32, 64, 128}
      PROVE  Combined("or", Bit(a, p), Bit(d, p)) = Combined("xor", Bit(e, p), Bit(c, p))
  <2>1. /\ Bit(a, p) = Combined("and", Bit(x, p), Bit(y, p))
        /\ Bit(b, p) = Combined("and", Bit(x, p), Bit(z, p))
        /\ Bit(c, p) = Combined("and", Bit(y, p), Bit(z, p))
        /\ Bit(d, p) = Combined("or", Bit(b, p), Bit(c, p))
        /\ Bit(e, p) = Combined("xor", Bit(a, p), Bit(b, p))
    BY <1>1, <1>2, BitsOfBits8
  <2> QED BY <2>1 DEF Combined
<1>4. Bits8("or", a, d) = Bits8("xor", e, c)
  BY <1>3 DEF Bits8
<1> QED BY <1>1, <1>2, <1>4

LEMMA ParityBytes ==
  ASSUME NEW x \in Byte, NEW y \in Byte, NEW z \in Byte
  PROVE  Bits8("xor", x, Bits8("xor", y, z)) = Bits8("xor", Bits8("xor", x, y), z)
<1>1. PICK d, e : d = Bits8("xor", y, z) /\ e = Bits8("xor", x, y)
  OBVIOUS
<1>2. ASSUME NEW p \in {1, 2, 4, 8, 16, 32, 64, 128}
      PROVE  Combined("xor", Bit(x, p), Bit(d, p)) = Combined("xor", Bit(e, p), Bit(z, p))
  <2>1. Bit(x, p) \in 0..1 /\ Bit(y, p) \in 0..1 /\ Bit(z, p) \in 0..1
    BY BitIsBit DEF Byte
  <2>2. /\ Bit(d, p) = Combined("xor", Bit(y, p), Bit(z, p))
        /\ Bit(e, p) = Combined("xor", Bit(x, p), Bit(y, p))
    BY <1>1, BitsOfBits8
  <2> QED BY <2>1, <2>2 DEF Combined
<1>3. Bits8("xor", x, d) = Bits8("xor", e, z)
  BY <1>2 DEF Bits8
<1> QED BY <1>1, <1>3

LEMMA ChHalves ==
  ASSUME NEW x \in Half, NEW y, NEW z
  PROVE  Bits16("or", Bits16("and", x, y), Bits16("and", 65535 - x, z))
           = Bits16("xor", Bits16("and", x, y), Bits16("and", 65535 - x, z))
<1>1. PICK a, b : a = Bits16("and", x, y) /\ b = Bits16("and", 65535 - x, z)
  OBVIOUS
<1>2. /\ x \div 256 \in Byte /\ x % 256 \in Byte
      /\ (65535 - x) \div 256 = 255 - (x \div 256)
      /\ (65535 - x) % 256 = 255 - (x % 256)
  BY DEF Half, Byte
<1>3. /\ a \div 256 = Bits8("and", x \div 256, y \div 256)
      /\ a % 256 = Bits8("and", x % 256, y % 256)
      /\ b \div 256 = Bits8("and", 255 - (x \div 256), z \div 256)
      /\ b % 256 = Bits8("and", 255 - (x % 256), z % 256)
  BY <1>1, <1>2, HalfParts
<1>4. /\ Bits8("or", a \div 256, b \div 256) = Bits8("xor", a \div 256, b \div 256)
      /\ Bits8("or", a % 256, b % 256) = Bits8("xor", a % 256, b % 256)
  BY <1>2, <1>3, ChBytes
<1>5. Bits16("or", a, b) = Bits16("xor", a, b)
  BY <1>4 DEF Bits16
<1> QED BY <1>1, <1>5

LEMMA MajHalves ==
  ASSUME NEW x, NEW y, NEW z
  PROVE  Bits16("or", Bits16("and", x, y),
                      Bits16("or", Bits16("and", x, z), Bits16("and", y, z)))
           = Bits16("xor", Bits16("xor", Bits16("and", x, y), Bits16("and", x, z)),
                           Bits16("and", y, z))
<1>1. PICK a, b, c : a = Bits16("and", x, y) /\ b = Bits16("and", x, z)
                     /\ c = Bits16("and", y, z)
  OBVIOUS
<1>2. PICK d, e : d = Bits16("or", b, c) /\ e = Bits16("xor", a, b)
  OBVIOUS
<1>3. /\ a \div 256 = Bits8("and", x \div 256, y \div 256)
      /\ b \div 256 = Bits8("and", x \div 256, z \div 256)
      /\ c \div 256 = Bits8("and", y \div 256, z \div 256)
      /\ d \div 256 = Bits8("or", b \div 256, c \div 256)
      /\ e \div 256 = Bits8("xor", a \div 256, b \div 256)
  BY <1>1, <1>2, HalfParts
<1>4. /\ a % 256 = Bits8("and", x % 256, y % 256)
      /\ b % 256 = Bits8("and", x % 256, z % 256)
      /\ c % 256 = Bits8("and", y % 256, z % 256)
      /\ d % 256 = Bits8("or", b % 256, c % 256)
      /\ e % 256 = Bits8("xor", a % 256, b % 256)
  BY <1>1, <1>2, HalfParts
<1>5. Bits8("or", a \div 256, d \div 256) = Bits8("xor", e \div 256, c \div 256)
  BY <1>3, MajBytes
<1>6. Bits8("or", a % 256, d % 256) = Bits8("xor", e % 256, c % 256)
  BY <1>4, MajBytes
<1>7. Bits16("or", a, d) = Bits16("xor", e, c)
  BY <1>5, <1>6 DEF Bits16
<1> QED BY <1>1, <1>2, <1>7

LEMMA ParityHalves ==
  ASSUME NEW x \in Half, NEW y \in Half, NEW z \in Half
  PROVE  Bits16("xor", x, Bits16("xor", y, z)) = Bits16("xor", Bits16("xor", x, y), z)
<1>1. PICK d, e : d = Bits16("xor", y, z) /\ e = Bits16("xor", x, y)
  OBVIOUS
<1>2. \A q \in Half : q \div 256 \in Byte /\ q % 256 \in Byte
  BY DEF Half, Byte
<1>3. /\ d \div 256 = Bits8("xor", y \div 256, z \div 256)
      /\ d % 256 = Bits8("xor", y % 256, z % 256)
      /\ e \div 256 = Bits8("xor", x \div 256, y \div 256)
      /\ e % 256 = Bits8("xor", x % 256, y % 256)
  BY <1>1, HalfParts
<1>4. /\ Bits8("xor", x \div 256, d \div 256) = Bits8("xor", e \div 256, z \div 256)
      /\ Bits8("xor", x % 256, d % 256) = Bits8("xor", e % 256, z % 256)
  BY <1>2, <1>3, ParityBytes
<1>5. Bits16("xor", x, d) = Bits16("xor", e, z)
  BY <1>4 DEF Bits16
<1> QED BY <1>1, <1>5

(* The operators on pairs of halves are those on the numbers they stand    *)
(* for.                                                                    *)
LEMMA ValueParts ==
  ASSUME NEW x \in Word
  PROVE  /\ Value(x) \div 65536 = x[1] /\ Value(x) % 65536 = x[2]
         /\ Value(x) \in Nat /\ Value(x) < 4294967296
<1>1. PICK a \in Half, b \in Half : x[1] = a /\ x[2] = b /\ Value(x) = 65536 * a + b
  BY ValueOfHalves
<1>2. /\ (65536 * a + b) \div 65536 = a /\ (65536 * a + b) % 65536 = b
      /\ 65536 * a + b \in Nat /\ 65536 * a + b < 4294967296
  BY DEF Half
<1> QED BY <1>1, <1>2

LEMMA ValueOfBits ==
  ASSUME NEW x \in Word, NEW y \in Word
  PROVE  /\ Value(Xor2(x, y)) = Bits32("xor", Value(x), Value(y))
         /\ Value(And2(x, y)) = Bits32("and", Value(x), Value(y))
BY ValueParts DEF Xor2, And2, Bits32, Value, ^^, &

LEMMA FunctionIsStandard ==
  ASSUME NEW j \in 0..79, NEW b \in Word, NEW c \in Word, NEW d \in Word
  PROVE  Value(f(j, b, c, d)) = FunctionOf(j, Value(b), Value(c), Value(d))
<1>1. b[1] \in Half /\ b[2] \in Half /\ c[1] \in Half /\ c[2] \in Half
      /\ d[1] \in Half /\ d[2] \in Half
  BY DEF Word
<1>2. CASE j < 20
  <2>1. Or2(And2(b, c), And2(Not2(b), d)) = Xor2(And2(b, c), And2(Not2(b), d))
    BY <1>1, ChHalves DEF Or2, And2, Not2, Xor2, |, &, ^^
  <2>2. Value(Not2(b)) = Complement(Value(b))
    BY HalvesAreUint32 DEF Complement
  <2>3. PICK x \in Word, y \in Word, n \in Word :
          x = And2(b, c) /\ n = Not2(b) /\ y = And2(n, d)
    BY WordOperators
  <2>4. /\ Value(x) = Bits32("and", Value(b), Value(c))
        /\ Value(y) = Bits32("and", Value(n), Value(d))
        /\ Value(Xor2(x, y)) = Bits32("xor", Value(x), Value(y))
    BY <2>3, ValueOfBits
  <2>5. Value(Xor2(x, y)) = Ch(Value(b), Value(c), Value(d))
    BY <2>2, <2>3, <2>4 DEF Ch
  <2>6. f(j, b, c, d) = Xor2(x, y)
    BY <1>2, <2>1, <2>3 DEF f
  <2> QED BY <1>2, <2>5, <2>6 DEF FunctionOf
<1>3. CASE 40 <= j /\ j < 60
  <2>1. Or2(And2(b, c), Or2(And2(b, d), And2(c, d)))
          = Xor2(Xor2(And2(b, c), And2(b, d)), And2(c, d))
    BY MajHalves DEF Or2, And2, Xor2, |, &, ^^
  <2>2. PICK x \in Word, y \in Word, z \in Word :
          x = And2(b, c) /\ y = And2(b, d) /\ z = And2(c, d)
    BY WordOperators
  <2>3. PICK n \in Word : n = Xor2(x, y)
    BY WordOperators
  <2>4. /\ Value(x) = Bits32("and", Value(b), Value(c))
        /\ Value(y) = Bits32("and", Value(b), Value(d))
        /\ Value(z) = Bits32("and", Value(c), Value(d))
        /\ Value(n) = Bits32("xor", Value(x), Value(y))
        /\ Value(Xor2(n, z)) = Bits32("xor", Value(n), Value(z))
    BY <2>2, <2>3, ValueOfBits
  <2>5. Value(Xor2(n, z)) = Maj(Value(b), Value(c), Value(d))
    BY <2>4 DEF Maj
  <2>6. f(j, b, c, d) = Xor2(n, z)
    BY <1>3, <2>1, <2>2, <2>3 DEF f
  <2> QED BY <1>3, <2>5, <2>6 DEF FunctionOf
<1>4. CASE ~(j < 20) /\ ~(40 <= j /\ j < 60)
  <2>1. Xor2(b, Xor2(c, d)) = Xor2(Xor2(b, c), d)
    BY <1>1, ParityHalves DEF Xor2, ^^
  <2>2. Value(Xor2(Xor2(b, c), d)) = Parity(Value(b), Value(c), Value(d))
    BY ValueOfBits, WordOperators DEF Parity
  <2> QED BY <1>4, <2>1, <2>2 DEF f, FunctionOf
<1> QED BY <1>2, <1>3, <1>4

LEMMA ConstantIsStandard ==
  ASSUME NEW j \in 0..79
  PROVE  Value(k32(j)) = ConstantOf(j)
<1>1. CASE j < 20
  BY <1>1 DEF k32, ConstantOf, Value
<1>2. CASE 20 <= j /\ j < 40
  BY <1>2 DEF k32, ConstantOf, Value
<1>3. CASE 40 <= j /\ j < 60
  BY <1>3 DEF k32, ConstantOf, Value
<1>4. CASE 60 <= j
  BY <1>4 DEF k32, ConstantOf, Value
<1> QED BY <1>1, <1>2, <1>3, <1>4

LEMMA SumIsStandard ==
  ASSUME NEW x \in Word, NEW y \in Word
  PROVE  Value(Add(x, y)) = Plus(Value(x), Value(y))
BY HalvesAreUint32 DEF Plus

LEMMA RotationIsStandard ==
  ASSUME NEW x \in Word
  PROVE  /\ Value(left_rotate(x, 2)) = ROTL1(Value(x))
         /\ Value(left_rotate(x, 32)) = ROTL5(Value(x))
         /\ Value(left_rotate_30(x)) = ROTL30(Value(x))
BY HalvesAreUint32 DEF ROTL1, ROTL5, ROTL30

------------------------------------------------------------------------------
(* The padding and the bytes of the hash are the standard's. *)

(* The padding of sha1 is the standard's. *)
LEMMA PaddingIsStandard ==
  ASSUME NEW input \in Bytes, Len(input) \in 36..60, NEW M, IsPadded(M, input)
  PROVE  /\ Len(Padded(input)) = Len(M)
         /\ \A p \in 1..Len(M) : Padded(input)[p] = M[p]
<1>1. PICK n \in 36..60 : n = Len(input)
  OBVIOUS
<1>2. PICK L \in Nat : L = Len(M)
  BY DEF IsPadded
<1>3. /\ L % 64 = 0 /\ n + 9 <= L /\ L < n + 9 + 64
      /\ \A p \in 1..n : M[p] = input[p]
      /\ M[n + 1] = 128
      /\ \A p \in (n + 2)..(L - 2) : M[p] = 0
      /\ 256 * M[L - 1] + M[L] = 8 * n
  BY <1>1, <1>2 DEF IsPadded
<1>4. PaddedLength(n) + 8 = L /\ PaddedLength(n) \in Nat
  <2>1. CASE n <= 55
    <3>1. L = 64 /\ (55 - n) % 64 = 55 - n
      BY <1>3, <2>1
    <3> QED BY <3>1 DEF PaddedLength
  <2>2. CASE n > 55
    <3>1. L = 128 /\ (55 - n) % 64 = 55 - n + 64
      BY <1>3, <2>2
    <3> QED BY <3>1 DEF PaddedLength
  <2> QED BY <2>1, <2>2
<1>5. PICK x \in Byte, y \in Byte : x = M[L - 1] /\ y = M[L]
  <2>1. M \in Seq(Byte)
    BY DEF IsPadded, Octet, Byte
  <2> QED BY <1>2, <1>3, <2>1, ElementOfSeq
<1>6. x = (8 * n) \div 256 /\ y = (8 * n) % 256
  BY <1>3, <1>5 DEF Byte
<1>7. ASSUME NEW p \in 1..L
      PROVE  PaddedByte(input, p) = M[p]
  <2> DEFINE P == PaddedLength(n)
  <2>1. P \in Nat /\ P = L - 8 /\ p \in Nat /\ n \in Nat /\ n + 1 <= P
    BY <1>3, <1>4
  <2> HIDE DEF P
  <2>2. CASE p <= n
    <3>1. p # n + 1 /\ ~(p > P)
      BY <2>1, <2>2
    <3>2. PaddedByte(input, p) = input[p]
      BY <1>1, <2>2, <3>1, Zenon DEF PaddedByte, P
    <3> QED BY <1>3, <2>2, <3>2
  <2>3. CASE p = n + 1
    <3>1. ~(p <= n) /\ ~(p > P)
      BY <2>1, <2>3
    <3>2. PaddedByte(input, p) = 128
      BY <1>1, <2>3, <3>1, Zenon DEF PaddedByte, P
    <3> QED BY <1>3, <2>3, <3>2
  <2>4. CASE n + 1 < p /\ p <= P
    <3>1. ~(p <= n) /\ p # n + 1 /\ ~(p > P)
      BY <2>1, <2>4
    <3>2. PaddedByte(input, p) = 0
      BY <1>1, <3>1, Zenon DEF PaddedByte, P
    <3>3. p \in (n + 2)..(L - 2)
      BY <2>1, <2>4
    <3> QED BY <1>3, <3>2, <3>3
  <2>5. CASE P < p
    <3>1. ~(p <= n) /\ p # n + 1 /\ p > P
      BY <2>1, <2>5
    <3>2. PaddedByte(input, p) = LengthByte(n, P + 8 - p)
      BY <1>1, <3>1, Zenon DEF PaddedByte, P
    <3>3. P + 8 - p = L - p
      BY <2>1
    <3>4. CASE p = L
      <4>1. L - p = 0
        BY <3>4
      <4>2. LengthByte(n, 0) = (8 * n) % 256
        BY DEF LengthByte
      <4> QED BY <1>5, <1>6, <3>2, <3>3, <3>4, <4>1, <4>2
    <3>5. CASE p = L - 1
      <4>1. L - p = 1
        BY <3>5
      <4>2. LengthByte(n, 1) = (8 * n) \div 256
        BY DEF LengthByte
      <4> QED BY <1>5, <1>6, <3>2, <3>3, <3>5, <4>1, <4>2
    <3>6. CASE p <= L - 2
      <4>1. L - p # 0 /\ L - p # 1
        BY <3>6
      <4>2. LengthByte(n, L - p) = 0
        BY <4>1, Zenon DEF LengthByte
      <4>3. p \in (n + 2)..(L - 2)
        BY <2>1, <3>1, <3>6
      <4> QED BY <1>3, <3>2, <3>3, <4>2, <4>3
    <3> QED BY <3>4, <3>5, <3>6
  <2> QED BY <2>1, <2>2, <2>3, <2>4, <2>5
<1>8. Padded(input) = [p \in 1..L |-> PaddedByte(input, p)]
  BY <1>1, <1>4 DEF Padded
<1> QED BY <1>2, <1>7, <1>8

(* The bytes of the five words *)
LEMMA DigestIsHash ==
  ASSUME h \in Seq(Word), Len(h) = 5, NEW x, \A n \in 1..5 : Value(h[n]) = x[n]
  PROVE  hash = Digest(x)
<1>1. ASSUME NEW y \in Word
      PROVE  /\ ByteOf(Value(y), 1) = y[1] \div 256
             /\ ByteOf(Value(y), 2) = y[1] % 256
             /\ ByteOf(Value(y), 3) = y[2] \div 256
             /\ ByteOf(Value(y), 4) = y[2] % 256
  <2>1. PICK a \in Half, b \in Half : y[1] = a /\ y[2] = b /\ Value(y) = 65536 * a + b
    BY ValueOfHalves
  <2>2. PICK q, r \in Nat : a \div 256 = q /\ a % 256 = r /\ a = 256 * q + r /\ r < 256
    BY DEF Half
  <2>3. PICK s, t \in Nat : /\ b \div 256 = s /\ b % 256 = t /\ b = 256 * s + t
                            /\ t < 256 /\ s < 256
    BY DEF Half
  <2>4. /\ Value(y) = 16777216 * q + (65536 * r + b)
        /\ 65536 * r + b \in Nat /\ 65536 * r + b < 16777216
    BY <2>1, <2>2 DEF Half
  <2>5. (16777216 * q + (65536 * r + b)) \div 16777216 = q
    <3>1. \A m, n \in Nat : n < 16777216 => (16777216 * m + n) \div 16777216 = m
      OBVIOUS
    <3> QED BY <2>4, <3>1
  <2>6. Value(y) \div 65536 = a
    BY ValueParts, <2>1
  <2>7. Value(y) = 256 * (256 * a + s) + t
    BY <2>1, <2>3 DEF Half
  <2>8. /\ (256 * (256 * a + s) + t) \div 256 = 256 * a + s
        /\ (256 * (256 * a + s) + t) % 256 = t
        /\ (256 * a + s) % 256 = s
    BY <2>3 DEF Half
  <2> QED BY <2>1, <2>2, <2>3, <2>4, <2>5, <2>6, <2>7, <2>8 DEF ByteOf
<1>2. ASSUME NEW n \in 1..20
      PROVE  HashByte(n) = ByteOf(x[(n + 3) \div 4], 1 + ((n - 1) % 4))
  <2>1. PICK j \in 1..5 : j = (n + 3) \div 4
    OBVIOUS
  <2>2. PICK y \in Word : y = h[j] /\ Value(y) = x[j]
    BY ElementOfSeq
  <2>3. CASE n % 4 = 1
    <3>1. 1 + ((n - 1) % 4) = 1 /\ n % 2 = 1
      BY <2>3
    <3>2. HashByte(n) = y[1] \div 256
      BY <2>1, <2>2, <2>3, <3>1 DEF HashByte
    <3> QED BY <1>1, <2>1, <2>2, <3>1, <3>2
  <2>4. CASE n % 4 = 2
    <3>1. 1 + ((n - 1) % 4) = 2 /\ n % 2 # 1
      BY <2>4
    <3>2. HashByte(n) = y[1] % 256
      BY <2>1, <2>2, <2>4, <3>1 DEF HashByte
    <3> QED BY <1>1, <2>1, <2>2, <3>1, <3>2
  <2>5. CASE n % 4 = 3
    <3>1. 1 + ((n - 1) % 4) = 3 /\ n % 2 = 1
      BY <2>5
    <3>2. HashByte(n) = y[2] \div 256
      BY <2>1, <2>2, <2>5, <3>1 DEF HashByte
    <3> QED BY <1>1, <2>1, <2>2, <3>1, <3>2
  <2>6. CASE n % 4 = 0
    <3>1. 1 + ((n - 1) % 4) = 4 /\ n % 2 # 1
      BY <2>6
    <3>2. HashByte(n) = y[2] % 256
      BY <2>1, <2>2, <2>6, <3>1 DEF HashByte
    <3> QED BY <1>1, <2>1, <2>2, <3>1, <3>2
  <2> QED BY <2>3, <2>4, <2>5, <2>6
<1> QED BY <1>2, Zenon DEF hash, Digest

------------------------------------------------------------------------------
(* The standard defines a hash for every key. *)

(* What sha1 makes of the message is a padding as the standard has it. *)
LEMMA PaddingExists ==
  ASSUME NEW input \in Bytes, Len(input) \in 36..60
  PROVE  IsPadded(Padded(input), input)
<1>1. PICK n \in 36..60 : n = Len(input)
  OBVIOUS
<1>2. PICK P \in {56, 120} : P = PaddedLength(n) /\ n < P /\ P - n < 65
  BY DEF PaddedLength
<1>3. PICK M : M = Padded(input)
  OBVIOUS
<1>4. M \in Bytes /\ M = [p \in 1..(P + 8) |-> PaddedByte(input, p)]
  BY <1>1, <1>2, <1>3, PaddedIsBlocks DEF Padded
<1>5. M \in Seq(Octet) /\ Len(M) = P + 8
  BY <1>4 DEF Bytes, Byte, Octet
<1>6. \A p \in 1..(P + 8) : M[p] = PaddedByte(input, p)
  BY <1>4
<1>7. ASSUME NEW p \in 1..n PROVE M[p] = input[p]
  <2>1. p <= n /\ p # n + 1 /\ ~(p > P) /\ p \in 1..(P + 8)
    BY <1>2
  <2> QED BY <1>1, <1>2, <1>6, <2>1, Zenon DEF PaddedByte
<1>8. M[n + 1] = 128
  <2>1. ~(n + 1 <= n) /\ ~(n + 1 > P) /\ n + 1 \in 1..(P + 8)
    BY <1>2
  <2> QED BY <1>1, <1>2, <1>6, <2>1, Zenon DEF PaddedByte
<1>9. \A k \in 2..7 : LengthByte(n, k) = 0
  BY DEF LengthByte
<1>10. ASSUME NEW p \in (n + 2)..(P + 6) PROVE M[p] = 0
  <2>1. ~(p <= n) /\ p # n + 1 /\ p \in 1..(P + 8)
    BY <1>2
  <2>2. CASE p > P
    <3>1. PICK k : k = P + 8 - p /\ k \in 2..7
      BY <1>2, <2>2
    <3>2. M[p] = LengthByte(n, k)
      BY <1>1, <1>2, <1>6, <2>1, <2>2, <3>1, Zenon DEF PaddedByte
    <3> QED BY <1>9, <3>1, <3>2
  <2>3. CASE ~(p > P)
    BY <1>1, <1>2, <1>6, <2>1, <2>3, Zenon DEF PaddedByte
  <2> QED BY <2>2, <2>3
<1>11. 256 * M[P + 7] + M[P + 8] = 8 * n
  <2>1. ASSUME NEW k \in {0, 1}
        PROVE  M[P + 8 - k] = LengthByte(n, k)
    <3>1. PICK p : p = P + 8 - k /\ p \in 1..(P + 8) /\ P + 8 - p = k
      BY <1>2
    <3>2. ~(p <= n) /\ p # n + 1 /\ p > P
      BY <1>2, <3>1
    <3> QED BY <1>1, <1>2, <1>6, <3>1, <3>2, Zenon DEF PaddedByte
  <2>2. P + 8 - 0 = P + 8 /\ P + 8 - 1 = P + 7
    BY <1>2
  <2>3. M[P + 8] = (8 * n) % 256 /\ M[P + 7] = (8 * n) \div 256
    BY <2>1, <2>2 DEF LengthByte
  <2> QED BY <2>3
<1>12. PICK L \in Nat : L = P + 8 /\ L - 1 = P + 7 /\ L - 2 = P + 6
  BY <1>2
<1>13. L % 64 = 0 /\ n + 9 <= L /\ L < n + 9 + 64
  BY <1>2, <1>12
<1>14. Len(M) = L
  BY <1>5, <1>12
<1>15. IsPadded(M, input)
  <2>1. \A p \in (n + 2)..(L - 2) : M[p] = 0
    BY <1>10, <1>12, Zenon
  <2>2. 256 * M[L - 1] + M[L] = 8 * n
    BY <1>11, <1>12, Zenon
  <2>3. \A p \in 1..n : M[p] = input[p]
    BY <1>7
  <2>4. M \in Seq(Octet)
    BY <1>5
  <2> QED BY <1>1, <1>8, <1>13, <1>14, <2>1, <2>2, <2>3, <2>4, Zenon DEF IsPadded
<1> QED BY <1>3, <1>15

(* Induction up to N, for a set of numbers *)
LEMMA UpTo ==
  ASSUME NEW N \in Nat, NEW P, 0 \in P,
         \A n \in 0..(N - 1) : n \in P => n + 1 \in P
  PROVE  \A n \in 0..N : n \in P
<1> SUFFICES ASSUME NEW x \in 0..N, x \notin P PROVE FALSE
  OBVIOUS
<1> DEFINE Below(n) == 0..n
           I == 0..N
           Missing == {n \in I : n \notin P}
           T == {Below(n) : n \in Missing}
<1>1. \A n \in Missing : IsFiniteSet(Below(n)) /\ Below(n) \subseteq I
  BY FS_Interval
<1>2. T \subseteq FiniteSubsetsOf(I) /\ T # {}
  BY <1>1 DEF FiniteSubsetsOf
<1>3. PICK A \in T : \A B \in T : ~(<<B, A>> \in StrictSubsetOrdering(I))
  BY <1>2, FS_StrictSubsetOrderingWellFounded, WFMin
<1>4. PICK m \in Missing : A = Below(m)
  OBVIOUS
<1>5. m - 1 \in Missing
  BY <1>4
<1>6. Below(m - 1) \subseteq Below(m) /\ m \in Below(m) \ Below(m - 1)
  BY <1>4
<1>7. <<Below(m - 1), Below(m)>> \in StrictSubsetOrdering(I)
  BY <1>1, <1>5, <1>6 DEF StrictSubsetOrdering
<1> QED BY <1>3, <1>4, <1>5, <1>7

(* What a word of the schedule is made of, from the sixteen before it *)
NextWord(u, t) ==
  ROTL1(Bits32("xor", Bits32("xor", u[t - 3], u[t - 8]),
                      Bits32("xor", u[t - 14], u[t - 16])))

Schedule(M, b, u) ==
  /\ \A t \in 0..15 : u[t] = MessageWord(M, 64 * b + 4 * t)
  /\ \A t \in 16..79 : u[t] = NextWord(u, t)

LEMMA ScheduleExists ==
  ASSUME NEW M, NEW b
  PROVE  \E u : Schedule(M, b, u)
<1> DEFINE Loaded(t) == MessageWord(M, 64 * b + 4 * t)
           Good(u, n) == /\ \A t \in 0..15 : u[t] = Loaded(t)
                         /\ \A t \in 16..(15 + n) : u[t] = NextWord(u, t)
           P == {n \in 0..64 : \E u : Good(u, n)}
<1> HIDE DEF Loaded
<1>1. 0 \in P
  <2>1. PICK u : u = [t \in 0..15 |-> Loaded(t)]
    OBVIOUS
  <2>2. Good(u, 0)
    BY <2>1
  <2> QED BY <2>2
<1>2. ASSUME NEW n \in 0..63, n \in P
      PROVE  n + 1 \in P
  <2>1. PICK u : Good(u, n)
    BY <1>2
  <2>2. PICK x : x = NextWord(u, 16 + n)
    OBVIOUS
  <2>3. PICK y : y = [t \in 0..(16 + n) |-> IF t = 16 + n THEN x ELSE u[t]]
    OBVIOUS
  <2>4. \A t \in 0..(15 + n) : y[t] = u[t]
    BY <2>3
  <2>5. ASSUME NEW t \in 16..(16 + n)
        PROVE  NextWord(y, t) = NextWord(u, t)
    <3>1. /\ t - 3 \in 0..(15 + n) /\ t - 8 \in 0..(15 + n)
          /\ t - 14 \in 0..(15 + n) /\ t - 16 \in 0..(15 + n)
      OBVIOUS
    <3>2. /\ y[t - 3] = u[t - 3] /\ y[t - 8] = u[t - 8]
          /\ y[t - 14] = u[t - 14] /\ y[t - 16] = u[t - 16]
      BY <2>4, <3>1
    <3> QED BY <3>2 DEF NextWord
  <2>6. y[16 + n] = NextWord(y, 16 + n)
    BY <2>2, <2>3, <2>5
  <2>7. ASSUME NEW t \in 16..(15 + (n + 1))
        PROVE  y[t] = NextWord(y, t)
    <3>1. CASE t = 16 + n
      BY <2>6, <3>1
    <3>2. CASE t # 16 + n
      <4>1. t \in 16..(15 + n) /\ t \in 0..(15 + n) /\ t \in 16..(16 + n)
        BY <3>2
      <4> QED BY <2>1, <2>4, <2>5, <4>1
    <3> QED BY <3>1, <3>2
  <2>8. \A t \in 0..15 : y[t] = Loaded(t)
    BY <2>1, <2>4
  <2> QED BY <2>7, <2>8
<1>3. 64 \in P
  <2> HIDE DEF P
  <2>1. \A n \in 0..(64 - 1) : n \in P => n + 1 \in P
    BY <1>2
  <2> QED BY <1>1, <2>1, UpTo
<1>4. PICK u : Good(u, 64)
  BY <1>3
<1> QED BY <1>4 DEF Loaded, Schedule

(* The working variables after a round *)
RoundOf(t, x, word) ==
  <<Plus(Plus(Plus(Plus(ROTL5(x[1]), FunctionOf(t, x[2], x[3], x[4])), x[5]),
              ConstantOf(t)), word),
    x[1], ROTL30(x[2]), x[3], x[4]>>

LEMMA RoundsExist ==
  ASSUME NEW x, NEW u
  PROVE  \E s : /\ \A n \in 1..5 : s[0][n] = x[n]
                /\ \A t \in 0..79 : IsRound(t, s[t], s[t + 1], u[t])
<1> DEFINE Good(s, n) == /\ s[0] = x
                         /\ \A t \in 0..(n - 1) : IsRound(t, s[t], s[t + 1], u[t])
           P == {n \in 0..80 : \E s : Good(s, n)}
<1>1. 0 \in P
  <2>1. PICK s : s = [t \in {0} |-> x]
    OBVIOUS
  <2>2. Good(s, 0)
    BY <2>1
  <2> QED BY <2>2
<1>2. ASSUME NEW n \in 0..79, n \in P
      PROVE  n + 1 \in P
  <2>1. PICK s : Good(s, n)
    BY <1>2
  <2>2. PICK y : y = RoundOf(n, s[n], u[n])
    OBVIOUS
  <2>3. IsRound(n, s[n], y, u[n])
    BY <2>2 DEF IsRound, RoundOf
  <2>4. PICK z : z = [t \in 0..(n + 1) |-> IF t = n + 1 THEN y ELSE s[t]]
    OBVIOUS
  <2>5. z[n + 1] = y /\ \A t \in 0..n : z[t] = s[t]
    BY <2>4
  <2>6. ASSUME NEW t \in 0..((n + 1) - 1)
        PROVE  IsRound(t, z[t], z[t + 1], u[t])
    <3>1. CASE t = n
      <4>1. z[t] = s[n] /\ z[t + 1] = y
        BY <2>5, <3>1
      <4> QED BY <2>3, <3>1, <4>1
    <3>2. CASE t # n
      <4>1. t \in 0..(n - 1) /\ t \in 0..n /\ t + 1 \in 0..n
        BY <3>2
      <4> QED BY <2>1, <2>5, <4>1
    <3> QED BY <3>1, <3>2
  <2>7. z[0] = x
    BY <2>1, <2>5
  <2>8. Good(z, n + 1)
    BY <2>6, <2>7
  <2> QED BY <2>8
<1>3. 80 \in P
  <2> HIDE DEF P
  <2>1. \A n \in 0..(80 - 1) : n \in P => n + 1 \in P
    BY <1>2
  <2> QED BY <1>1, <2>1, UpTo
<1>4. PICK s : Good(s, 80)
  BY <1>3
<1> QED BY <1>4

(* Every padded message has a hash *)
LEMMA HashExists ==
  ASSUME NEW M, Len(M) \in Nat
  PROVE  \E W, S, H : IsHash(M, W, S, H)
<1>1. PICK N \in Nat : N = Len(M) \div 64
  OBVIOUS
<1> DEFINE Chosen(b) == CHOOSE u : Schedule(M, b, u)
           W == [b \in 0..N |-> Chosen(b)]
<1>2. ASSUME NEW b \in 0..(N - 1)
      PROVE  IsSchedule(M, b, W)
  <2>1. Schedule(M, b, Chosen(b))
    BY ScheduleExists
  <2> HIDE DEF Chosen
  <2>2. W[b] = Chosen(b)
    OBVIOUS
  <2>3. Schedule(M, b, W[b])
    BY <2>1, <2>2, Zenon
  <2> HIDE DEF W
  <2> QED BY <2>3, Zenon DEF IsSchedule, NextWord, Schedule
<1>3. PICK V : V = W
  OBVIOUS
<1> HIDE DEF W
<1>4. \A b \in 0..(N - 1) : IsSchedule(M, b, V)
  BY <1>2, <1>3
<1> DEFINE Follows(b, S, H) ==
             /\ \A n \in 1..5 : S[b][0][n] = H[b][n]
             /\ \A t \in 0..79 : IsRound(t, S[b][t], S[b][t + 1], V[b][t])
             /\ \A n \in 1..5 : H[b + 1][n] = Plus(H[b][n], S[b][80][n])
           Good(S, H, m) == /\ \A n \in 1..5 : H[0][n] = InitialValue[n]
                            /\ \A b \in 0..(m - 1) : Follows(b, S, H)
           P == {m \in 0..N : \E S, H : Good(S, H, m)}
<1>5. 0 \in P
  <2>1. PICK H : H = [b \in {0} |-> InitialValue]
    OBVIOUS
  <2>2. Good(H, H, 0)
    BY <2>1
  <2> QED BY <2>2
<1>6. ASSUME NEW m \in 0..(N - 1), m \in P
      PROVE  m + 1 \in P
  <2>1. PICK S, H : Good(S, H, m)
    BY <1>6
  <2>2. PICK s : /\ \A n \in 1..5 : s[0][n] = H[m][n]
                 /\ \A t \in 0..79 : IsRound(t, s[t], s[t + 1], V[m][t])
    <3>1. PICK y, u : y = H[m] /\ u = V[m]
      OBVIOUS
    <3>2. \E s : /\ \A n \in 1..5 : s[0][n] = y[n]
                 /\ \A t \in 0..79 : IsRound(t, s[t], s[t + 1], u[t])
      BY RoundsExist, Zenon
    <3> QED BY <3>1, <3>2, Zenon
  <2>3. PICK x : x = [n \in 1..5 |-> Plus(H[m][n], s[80][n])]
    OBVIOUS
  <2>4. PICK S2 : S2 = [b \in 0..m |-> IF b = m THEN s ELSE S[b]]
    OBVIOUS
  <2>5. PICK H2 : H2 = [b \in 0..(m + 1) |-> IF b = m + 1 THEN x ELSE H[b]]
    OBVIOUS
  <2>6. /\ S2[m] = s /\ H2[m + 1] = x
        /\ \A b \in 0..(m - 1) : S2[b] = S[b]
        /\ \A b \in 0..m : H2[b] = H[b]
    BY <2>4, <2>5
  <2>7. \A n \in 1..5 : x[n] = Plus(H[m][n], s[80][n])
    BY <2>3
  <2>8. ASSUME NEW b \in 0..((m + 1) - 1)
        PROVE  Follows(b, S2, H2)
    <3>1. CASE b = m
      <4>1. S2[b] = s /\ H2[b + 1] = x /\ H2[b] = H[m]
        BY <2>6, <3>1
      <4> QED BY <2>2, <2>7, <3>1, <4>1
    <3>2. CASE b # m
      <4>1. b \in 0..(m - 1) /\ b \in 0..m /\ b + 1 \in 0..m
        BY <3>2
      <4>2. S2[b] = S[b] /\ H2[b] = H[b] /\ H2[b + 1] = H[b + 1]
        BY <2>6, <4>1
      <4>3. Follows(b, S, H)
        BY <2>1, <4>1
      <4> QED BY <4>2, <4>3
    <3> QED BY <3>1, <3>2
  <2>9. \A n \in 1..5 : H2[0][n] = InitialValue[n]
    <3>1. H2[0] = H[0]
      BY <2>6
    <3> QED BY <2>1, <3>1
  <2>10. Good(S2, H2, m + 1)
    BY <2>8, <2>9
  <2> HIDE DEF Good
  <2>11. m + 1 \in 0..N
    OBVIOUS
  <2> QED BY <2>10, <2>11
<1>7. N \in P
  <2> HIDE DEF P
  <2>1. \A m \in 0..(N - 1) : m \in P => m + 1 \in P
    BY <1>6
  <2>2. \A m \in 0..N : m \in P
    BY <1>5, <2>1, UpTo
  <2> QED BY <2>2
<1>8. PICK S, H : Good(S, H, N)
  BY <1>7
<1>9. IsHash(M, V, S, H)
  BY <1>1, <1>4, <1>8 DEF IsHash
<1> QED BY <1>9

------------------------------------------------------------------------------
(* sha1 follows the standard: whatever the standard computes for the       *)
(* message, the variables of sha1 are what it has at this point.           *)

WordsAre(s, x) == \A n \in 1..5 : Value(s[n]) = x[n]

IsComputation(k, M, W, S, H) == IsPadded(M, k \o Guid) /\ IsHash(M, W, S, H)

BlockAgrees(M, H) ==
  /\ Len(data) = Len(M) /\ i <= Len(M)
  /\ \A p \in 1..Len(M) : data[p] = M[p]
  /\ WordsAre(h, H[i \div 64])

ScheduleAgrees(W) == \A j \in 1..Len(w) : Value(w[j]) = W[i \div 64][j - 1]

RoundAgrees(W, S) ==
  /\ WordsAre(v, S[i \div 64][80 - Len(w)])
  /\ \A j \in 1..Len(w) : Value(w[j]) = W[i \div 64][79 - Len(w) + j]

Agrees(M, W, S, H) ==
  /\ pc \in {"load", "expand", "round"} => BlockAgrees(M, H)
  /\ pc = "expand" => ScheduleAgrees(W)
  /\ pc = "round" => RoundAgrees(W, S)
  /\ pc = "encode" => WordsAre(h, H[Len(M) \div 64])
  /\ pc = "answered" => accept_key = base64_encode(Digest(H[Len(M) \div 64]))

LEMMA RequestAgrees ==
  ASSUME HsInv, Request, NEW M, NEW W, NEW S, NEW H, IsComputation(key, M, W, S, H)
  PROVE  Agrees(M, W, S, H)'
<1>1. key \in Bytes /\ Len(key) <= 24
  BY DEF HsInv, HsTypes, Shape, Request, Bytes
<1>2. PICK input : input = key \o Guid
  OBVIOUS
<1>3. input \in Bytes /\ Len(input) \in 36..60
  BY <1>1, <1>2, InputLength
<1>4. /\ Len(Padded(input)) = Len(M)
      /\ \A p \in 1..Len(M) : Padded(input)[p] = M[p]
  BY <1>2, <1>3, PaddingIsStandard DEF IsComputation
<1>5. data' = Padded(input) /\ h' = H0 /\ i' = 0 /\ pc' = "load"
  BY <1>2 DEF Request
<1>6. WordsAre(H0, H[0])
  <2>1. \A n \in 1..5 : Value(H0[n]) = InitialValue[n]
    BY DEF H0, Value, InitialValue
  <2> QED BY <2>1 DEF IsComputation, IsHash, WordsAre
<1>7. 0 <= Len(M) /\ 0 \div 64 = 0
  <2>1. PICK L \in Nat : L = Len(M)
    BY DEF IsComputation, IsPadded
  <2> QED BY <2>1
<1>8. BlockAgrees(M, H)'
  BY <1>4, <1>5, <1>6, <1>7, Zenon DEF BlockAgrees, WordsAre
<1> QED BY <1>5, <1>8 DEF Agrees

LEMMA LoadBlockAgrees ==
  ASSUME HsInv, LoadBlock, NEW M, NEW W, NEW S, NEW H, IsComputation(key, M, W, S, H),
         Agrees(M, W, S, H)
  PROVE  Agrees(M, W, S, H)'
<1>1. BlockAgrees(M, H)
  BY DEF Agrees, LoadBlock
<1>2. PICK L \in Nat : L = Len(M) /\ L = Len(data) /\ L % 64 = 0 /\ i <= L
  BY <1>1 DEF BlockAgrees, IsComputation, IsPadded
<1>3. PICK b \in Nat : i = 64 * b /\ i \div 64 = b /\ i \in Nat
  <2>1. i \in {0, 64, 128}
    BY DEF HsInv, HsTypes
  <2>2. i = 64 * (i \div 64) /\ i \div 64 \in Nat /\ i \in Nat
    BY <2>1
  <2> QED BY <2>2
<1>4. /\ \A p \in 1..L : data[p] = M[p]
      /\ WordsAre(h, H[b])
  BY <1>1, <1>2, <1>3 DEF BlockAgrees
<1>5. CASE i < Len(data)
  <2> DEFINE Loaded(j) ==
        <<256 * data[i + 4 * (j - 1) + 1] + data[i + 4 * (j - 1) + 2],
          256 * data[i + 4 * (j - 1) + 3] + data[i + 4 * (j - 1) + 4]>>
  <2>1. /\ w' = [j \in 1..16 |-> Loaded(j)]
        /\ pc' = "expand"
        /\ UNCHANGED <<key, data, i, v, h, accept_key>>
    BY <1>5 DEF LoadBlock
  <2>2. b \in 0..((L \div 64) - 1) /\ i + 64 <= L
    <3>1. 64 * b < L /\ L % 64 = 0
      BY <1>2, <1>3, <1>5, Zenon
    <3>2. b \in 0..((L \div 64) - 1) /\ 64 * b + 64 <= L
      BY <3>1
    <3> QED BY <1>3, <3>2, Zenon
  <2>3. \A t \in 0..15 : W[b][t] = MessageWord(M, 64 * b + 4 * t)
    <3>1. b \in 0..((Len(M) \div 64) - 1)
      BY <1>2, <2>2, Zenon
    <3>2. IsSchedule(M, b, W)
      BY <3>1, Zenon DEF IsComputation, IsHash
    <3> QED BY <3>2, Zenon DEF IsSchedule
  <2>4. ASSUME NEW j \in 1..16
        PROVE  Value(w'[j]) = W[b][j - 1]
    <3>1. PICK m \in Nat : m = i + 4 * (j - 1) /\ m = 64 * b + 4 * (j - 1) /\ m + 4 <= L
      BY <1>3, <2>2
    <3>2. w'[j] = <<256 * data[m + 1] + data[m + 2], 256 * data[m + 3] + data[m + 4]>>
      BY <2>1, <3>1
    <3>3. /\ data[m + 1] = M[m + 1] /\ data[m + 2] = M[m + 2]
          /\ data[m + 3] = M[m + 3] /\ data[m + 4] = M[m + 4]
      BY <1>4, <3>1
    <3>4. Value(w'[j]) = MessageWord(M, m)
      BY <3>2, <3>3 DEF Value, MessageWord
    <3>5. j - 1 \in 0..15
      OBVIOUS
    <3> QED BY <2>3, <3>1, <3>4, <3>5
  <2>5. Len(w') = 16
    BY <2>1
  <2> HIDE DEF Loaded
  <2>6. ScheduleAgrees(W)'
    <3>1. ScheduleAgrees(W)' <=> \A j \in 1..Len(w') : Value(w'[j]) = W[i' \div 64][j - 1]
      BY DEF ScheduleAgrees
    <3>2. i' \div 64 = b
      BY <1>3, <2>1
    <3> QED BY <2>4, <2>5, <3>1, <3>2, Zenon
  <2>7. BlockAgrees(M, H)'
    BY <1>1, <2>1 DEF BlockAgrees
  <2> QED BY <2>1, <2>6, <2>7 DEF Agrees
<1>6. CASE ~(i < Len(data))
  <2>1. pc' = "encode" /\ UNCHANGED h
    BY <1>6 DEF LoadBlock
  <2>2. i = L
    BY <1>2, <1>3, <1>6
  <2>3. WordsAre(h', H[Len(M) \div 64])
    BY <1>2, <1>3, <1>4, <2>1, <2>2
  <2> QED BY <2>1, <2>3 DEF Agrees, WordsAre
<1> QED BY <1>5, <1>6

(* The block that is worked on *)
LEMMA BlockNumber ==
  ASSUME HsInv, pc \in {"expand", "round"}, NEW M, NEW text, IsPadded(M, text),
         Len(data) = Len(M)
  PROVE  \E b, L \in Nat : /\ L = Len(M) /\ i = 64 * b /\ i \div 64 = b /\ i + 64 <= L
                           /\ b \in 0..((L \div 64) - 1)
                           /\ (i + 64) \div 64 = b + 1
<1>1. PICK L \in Nat : L = Len(M) /\ L % 64 = 0
  BY DEF IsPadded
<1>2. i \in {0, 64, 128} /\ i < L
  BY <1>1 DEF HsInv, HsTypes, Shape
<1>3. /\ i \div 64 \in Nat /\ i = 64 * (i \div 64) /\ i + 64 <= L
      /\ i \div 64 \in 0..((L \div 64) - 1)
      /\ (i + 64) \div 64 = (i \div 64) + 1
  BY <1>1, <1>2
<1> QED BY <1>1, <1>3

LEMMA ExpandAgrees ==
  ASSUME HsInv, Expand, NEW M, NEW W, NEW S, NEW H, IsComputation(key, M, W, S, H),
         Agrees(M, W, S, H)
  PROVE  Agrees(M, W, S, H)'
<1>1. BlockAgrees(M, H) /\ ScheduleAgrees(W) /\ pc = "expand"
  BY DEF Agrees, Expand
<1>2. PICK b \in Nat, L \in Nat : L = Len(M) /\ i \div 64 = b /\ b \in 0..((L \div 64) - 1)
  BY <1>1, BlockNumber DEF BlockAgrees, IsComputation
<1>3. IsSchedule(M, b, W) /\ \A n \in 1..5 : S[b][0][n] = H[b][n]
  BY <1>2 DEF IsComputation, IsHash
<1>4. PICK n \in 16..80 : n = Len(w)
  BY <1>1 DEF HsInv, Shape
<1>5. \A j \in 1..n : Value(w[j]) = W[b][j - 1]
  BY <1>1, <1>2, <1>4 DEF ScheduleAgrees
<1>6. \A j \in 1..n : w[j] \in Word
  BY <1>4, ElementOfSeq DEF HsInv, HsTypes
<1>7. CASE n + 1 <= 80
  <2>1. PICK j \in 17..80 : j = n + 1
    BY <1>7
  <2>2. /\ j - 3 \in 1..n /\ j - 8 \in 1..n /\ j - 14 \in 1..n /\ j - 16 \in 1..n
        /\ (j - 3) - 1 = n - 3 /\ (j - 8) - 1 = n - 8
        /\ (j - 14) - 1 = n - 14 /\ (j - 16) - 1 = n - 16
    BY <2>1
  <2>3. PICK x \in Word, y \in Word, z \in Word, u \in Word :
          x = w[j - 3] /\ y = w[j - 8] /\ z = w[j - 14] /\ u = w[j - 16]
    BY <1>6, <2>2
  <2>4. PICK q \in Word, s \in Word : q = Xor2(x, y) /\ s = Xor2(z, u)
    BY WordOperators
  <2>5. PICK t \in Word : t = Xor2(q, s)
    BY WordOperators
  <2>6. PICK r \in Word : r = left_rotate(t, 2)
    BY RotateIsWord
  <2>7. w' = Append(w, r) /\ UNCHANGED <<pc, key, data, i, v, h, accept_key>>
    BY <1>4, <1>7, <2>1, <2>3, <2>4, <2>5, <2>6 DEF Expand
  <2>8. Value(r) = W[b][n]
    <3>1. /\ Value(x) = W[b][n - 3] /\ Value(y) = W[b][n - 8]
          /\ Value(z) = W[b][n - 14] /\ Value(u) = W[b][n - 16]
      BY <1>5, <2>2, <2>3
    <3>2. /\ Value(q) = Bits32("xor", Value(x), Value(y))
          /\ Value(s) = Bits32("xor", Value(z), Value(u))
          /\ Value(t) = Bits32("xor", Value(q), Value(s))
      BY <2>4, <2>5, ValueOfBits
    <3>3. Value(r) = ROTL1(Value(t))
      BY <2>6, RotationIsStandard
    <3>4. n \in 16..79
      BY <1>7
    <3>5. W[b][n] = ROTL1(Bits32("xor", Bits32("xor", W[b][n - 3], W[b][n - 8]),
                                        Bits32("xor", W[b][n - 14], W[b][n - 16])))
      BY <1>3, <3>4 DEF IsSchedule
    <3> QED BY <3>1, <3>2, <3>3, <3>5
  <2>9. /\ Len(w') = n + 1 /\ w'[n + 1] = r
        /\ \A m \in 1..n : w'[m] = w[m]
    <3>1. w \in Seq(Word)
      BY DEF HsInv, HsTypes
    <3> QED BY <1>4, <2>7, <3>1, AppendProperties
  <2>10. \A m \in 1..(n + 1) : Value(w'[m]) = W[b][m - 1]
    <3>1. ASSUME NEW m \in 1..(n + 1)
          PROVE  Value(w'[m]) = W[b][m - 1]
      <4>1. CASE m = n + 1
        <5>1. m - 1 = n
          BY <4>1
        <5> QED BY <2>8, <2>9, <4>1, <5>1
      <4>2. CASE m # n + 1
        <5>1. m \in 1..n
          BY <4>2
        <5> QED BY <1>5, <2>9, <5>1
      <4> QED BY <4>1, <4>2
    <3> QED BY <3>1
  <2>11. ScheduleAgrees(W)'
    BY <1>2, <2>7, <2>9, <2>10 DEF ScheduleAgrees
  <2>12. BlockAgrees(M, H)'
    BY <1>1, <2>7 DEF BlockAgrees
  <2> QED BY <1>1, <2>7, <2>11, <2>12 DEF Agrees
<1>8. CASE ~(n + 1 <= 80)
  <2>1. v' = h /\ pc' = "round" /\ UNCHANGED <<w, key, data, i, h, accept_key>>
    <3>1. ~(Len(w) + 1 <= 80)
      BY <1>4, <1>8, Zenon
    <3> QED BY <3>1 DEF Expand
  <2>2. n = 80
    BY <1>8
  <2>3. WordsAre(h, S[b][0])
    BY <1>1, <1>2, <1>3 DEF BlockAgrees, WordsAre
  <2>4. /\ 80 - Len(w) = 0
        /\ \A j \in 1..Len(w) : 79 - Len(w) + j = j - 1
    BY <1>4, <2>2
  <2>5. RoundAgrees(W, S)'
    BY <1>2, <1>4, <1>5, <2>1, <2>3, <2>4 DEF RoundAgrees, WordsAre
  <2>6. BlockAgrees(M, H)'
    BY <1>1, <2>1 DEF BlockAgrees
  <2> QED BY <2>1, <2>5, <2>6 DEF Agrees
<1> QED BY <1>7, <1>8

FiveWords(s) == \A n \in 1..5 : s[n] \in Word

NextWords(t, s, word) ==
  <<Add(Add(Add(Add(left_rotate(s[1], 32), f(t, s[2], s[3], s[4])), s[5]), k32(t)), word),
    s[1], left_rotate_30(s[2]), s[3], s[4]>>

LEMMA RoundIsStandard ==
  ASSUME NEW t \in 0..79, NEW s, FiveWords(s), NEW word \in Word,
         NEW x, WordsAre(s, x), NEW y, IsRound(t, x, y, Value(word))
  PROVE  WordsAre(NextWords(t, s, word), y)
<1>1. s[1] \in Word /\ s[2] \in Word /\ s[3] \in Word /\ s[4] \in Word /\ s[5] \in Word
  BY DEF FiveWords
<1>2. /\ x[1] = Value(s[1]) /\ x[2] = Value(s[2]) /\ x[3] = Value(s[3])
      /\ x[4] = Value(s[4]) /\ x[5] = Value(s[5])
  BY DEF WordsAre
<1>3. PICK p \in Word : p = left_rotate(s[1], 32) /\ Value(p) = ROTL5(x[1])
  BY <1>1, <1>2, RotateIsWord, RotationIsStandard
<1>4. PICK q \in Word : /\ q = f(t, s[2], s[3], s[4])
                        /\ Value(q) = FunctionOf(t, x[2], x[3], x[4])
  <2>1. \A b, c, d \in Word :
          Value(f(t, b, c, d)) = FunctionOf(t, Value(b), Value(c), Value(d))
    BY FunctionIsStandard
  <2>2. \A b, c, d \in Word : f(t, b, c, d) \in Word
    BY FunctionIsWord
  <2>3. f(t, s[2], s[3], s[4]) \in Word
    BY <1>1, <2>2, Zenon
  <2>4. Value(f(t, s[2], s[3], s[4])) = FunctionOf(t, Value(s[2]), Value(s[3]), Value(s[4]))
    BY <1>1, <2>1, Zenon
  <2> QED BY <1>2, <2>3, <2>4
<1>5. PICK r \in Word : r = k32(t) /\ Value(r) = ConstantOf(t)
  <2>1. k32(t) \in Word
    BY ConstantsAreWords
  <2>2. Value(k32(t)) = ConstantOf(t)
    BY ConstantIsStandard
  <2> QED BY <2>1, <2>2
<1>6. PICK s1 \in Word : s1 = Add(p, q) /\ Value(s1) = Plus(Value(p), Value(q))
  BY AddIsWord, SumIsStandard
<1>7. PICK s2 \in Word : s2 = Add(s1, s[5]) /\ Value(s2) = Plus(Value(s1), x[5])
  <2>1. PICK u \in Word : u = s[5] /\ Value(u) = x[5]
    BY <1>1, <1>2
  <2>2. Add(s1, u) \in Word /\ Value(Add(s1, u)) = Plus(Value(s1), Value(u))
    BY AddIsWord, SumIsStandard
  <2> QED BY <2>1, <2>2
<1>8. PICK s3 \in Word : s3 = Add(s2, r) /\ Value(s3) = Plus(Value(s2), Value(r))
  BY AddIsWord, SumIsStandard
<1>9. Value(Add(s3, word)) = y[1]
  <2>1. Value(Add(s3, word)) = Plus(Value(s3), Value(word))
    BY SumIsStandard
  <2> QED BY <2>1, <1>3, <1>4, <1>5, <1>6, <1>7, <1>8 DEF IsRound
<1>10. /\ y[2] = Value(s[1]) /\ y[3] = Value(left_rotate_30(s[2]))
       /\ y[4] = Value(s[3]) /\ y[5] = Value(s[4])
  BY <1>1, <1>2, RotationIsStandard DEF IsRound
<1>11. NextWords(t, s, word) = <<Add(s3, word), s[1], left_rotate_30(s[2]), s[3], s[4]>>
  BY <1>3, <1>4, <1>5, <1>6, <1>7, <1>8 DEF NextWords
<1>12. PICK z : z = NextWords(t, s, word)
  OBVIOUS
<1>13. /\ z[1] = Add(s3, word) /\ z[2] = s[1] /\ z[3] = left_rotate_30(s[2])
       /\ z[4] = s[3] /\ z[5] = s[4]
  BY <1>11, <1>12
<1>14. /\ Value(z[1]) = y[1] /\ Value(z[2]) = y[2] /\ Value(z[3]) = y[3]
       /\ Value(z[4]) = y[4] /\ Value(z[5]) = y[5]
  BY <1>9, <1>10, <1>13, Zenon
<1>15. \A n \in 1..5 : n = 1 \/ n = 2 \/ n = 3 \/ n = 4 \/ n = 5
  OBVIOUS
<1>16. WordsAre(z, y)
  BY <1>14, <1>15, Zenon DEF WordsAre
<1> QED BY <1>12, <1>16

LEMMA RoundStepAgrees ==
  ASSUME HsInv, Round, NEW M, NEW W, NEW S, NEW H, IsComputation(key, M, W, S, H),
         Agrees(M, W, S, H)
  PROVE  Agrees(M, W, S, H)'
<1>1. BlockAgrees(M, H) /\ RoundAgrees(W, S) /\ pc = "round"
  BY DEF Agrees, Round
<1>2. PICK b \in Nat, L \in Nat :
        /\ L = Len(M) /\ i = 64 * b /\ i \div 64 = b /\ i + 64 <= L
        /\ b \in 0..((L \div 64) - 1) /\ (i + 64) \div 64 = b + 1
  BY <1>1, BlockNumber DEF BlockAgrees, IsComputation
<1>3. /\ \A t \in 0..79 : IsRound(t, S[b][t], S[b][t + 1], W[b][t])
      /\ \A n \in 1..5 : H[b + 1][n] = Plus(H[b][n], S[b][80][n])
  BY <1>2 DEF IsComputation, IsHash
<1>4. PICK n \in 0..80 : n = Len(w)
  BY <1>1 DEF HsInv, Shape
<1>5. /\ WordsAre(v, S[b][80 - n])
      /\ \A j \in 1..n : Value(w[j]) = W[b][79 - n + j]
  BY <1>1, <1>2, <1>4 DEF RoundAgrees
<1>6. /\ v[1] \in Word /\ v[2] \in Word /\ v[3] \in Word /\ v[4] \in Word /\ v[5] \in Word
  <2>1. v \in Seq(Word) /\ Len(v) = 5
    BY <1>1 DEF HsInv, HsTypes, Shape
  <2>2. \A m \in 1..5 : v[m] \in Word
    BY <2>1, ElementOfSeq
  <2> QED BY <2>2
<1>7. CASE w # <<>>
  <2>1. n > 0 /\ w[1] \in Word /\ Head(w) = w[1] /\ w \in Seq(Word)
    <3>1. w \in Seq(Word)
      BY DEF HsInv, HsTypes
    <3>2. n # 0
      BY <1>4, <1>7, <3>1, EmptySeq
    <3>3. Head(w) \in Word
      BY <1>7, <3>1, HeadTailProperties
    <3>4. Head(w) = w[1]
      BY <1>7, <3>1
    <3> QED BY <3>1, <3>2, <3>3, <3>4
  <2>2. PICK t \in 0..79 : t = 80 - n
    <3>1. n > 0
      BY <2>1
    <3> QED BY <3>1
  <2>3. /\ v' = <<Add(Add(Add(Add(left_rotate(v[1], 32), f(t, v[2], v[3], v[4])),
                                 v[5]), k32(t)), w[1]),
                  v[1], left_rotate_30(v[2]), v[3], v[4]>>
        /\ w' = Tail(w)
        /\ UNCHANGED <<h, i, pc, key, data, accept_key>>
    BY <1>4, <1>7, <2>1, <2>2, Zenon DEF Round
  <2>4. Value(w[1]) = W[b][t]
    <3>1. 79 - n + 1 = t /\ 1 \in 1..n
      BY <1>4, <2>1, <2>2
    <3> QED BY <1>5, <3>1
  <2>6. IsRound(t, S[b][t], S[b][t + 1], Value(w[1]))
    BY <1>3, <2>4
  <2>7. WordsAre(v', S[b][t + 1])
    <3>1. v' = NextWords(t, v, w[1])
      BY <2>3, Zenon DEF NextWords
    <3>2. FiveWords(v)
      BY <1>6 DEF FiveWords
    <3>3. WordsAre(v, S[b][t])
      BY <1>5, <2>2
    <3>4. WordsAre(NextWords(t, v, w[1]), S[b][t + 1])
      BY <2>1, <2>6, <3>2, <3>3, RoundIsStandard
    <3> QED BY <3>1, <3>4
  <2>8. /\ Len(w') = n - 1
        /\ \A j \in 1..(n - 1) : w'[j] = w[j + 1]
    BY <1>4, <2>1, <2>3
  <2>9. \A j \in 1..(n - 1) : Value(w'[j]) = W[b][79 - (n - 1) + j]
    <3>1. ASSUME NEW j \in 1..(n - 1)
          PROVE  Value(w'[j]) = W[b][79 - (n - 1) + j]
      <4>1. j + 1 \in 1..n /\ 79 - n + (j + 1) = 79 - (n - 1) + j
        BY <1>4
      <4>2. Value(w[j + 1]) = W[b][79 - n + (j + 1)]
        BY <1>5, <4>1
      <4> QED BY <2>8, <4>1, <4>2
    <3> QED BY <3>1
  <2>10. 80 - (n - 1) = t + 1
    BY <1>4, <2>2
  <2>11. RoundAgrees(W, S)'
    BY <1>2, <2>3, <2>7, <2>8, <2>9, <2>10 DEF RoundAgrees, WordsAre
  <2>12. BlockAgrees(M, H)'
    BY <1>1, <2>3 DEF BlockAgrees
  <2> QED BY <1>1, <2>3, <2>11, <2>12 DEF Agrees
<1>8. CASE w = <<>>
  <2>1. /\ h' = [m \in 1..5 |-> Add(h[m], v[m])] /\ i' = i + 64 /\ pc' = "load"
        /\ UNCHANGED <<v, w, key, data, accept_key>>
    BY <1>8 DEF Round
  <2>2. n = 0
    BY <1>4, <1>8
  <2>3. WordsAre(h, H[b]) /\ WordsAre(v, S[b][80])
    BY <1>1, <1>2, <1>5, <2>2 DEF BlockAgrees
  <2>4. ASSUME NEW m \in 1..5
        PROVE  Value(h'[m]) = H[b + 1][m]
    <3>1. h[m] \in Word /\ v[m] \in Word
      <4>1. h \in Seq(Word) /\ Len(h) = 5
        BY <1>1 DEF HsInv, HsTypes, Shape
      <4>2. \A q \in 1..5 : h[q] \in Word
        BY <4>1, ElementOfSeq
      <4>3. \A q \in 1..5 : v[q] \in Word
        BY <1>6
      <4> QED BY <4>2, <4>3
    <3>2. Value(h'[m]) = Plus(Value(h[m]), Value(v[m]))
      BY <2>1, <3>1, SumIsStandard
    <3> QED BY <1>3, <2>3, <3>2 DEF WordsAre
  <2>5. BlockAgrees(M, H)'
    BY <1>1, <1>2, <2>1, <2>4 DEF BlockAgrees, WordsAre
  <2> QED BY <2>1, <2>5 DEF Agrees
<1> QED BY <1>7, <1>8

LEMMA EncodeAgrees ==
  ASSUME HsInv, Encode, NEW M, NEW W, NEW S, NEW H, Agrees(M, W, S, H)
  PROVE  Agrees(M, W, S, H)'
<1>1. h \in Seq(Word) /\ Len(h) = 5
  BY DEF HsInv, HsTypes, Shape, Encode
<1>2. PICK x : x = H[Len(M) \div 64] /\ \A n \in 1..5 : Value(h[n]) = x[n]
  BY DEF Agrees, Encode, WordsAre
<1>3. hash = Digest(x)
  BY <1>1, <1>2, DigestIsHash
<1>4. accept_key' = base64_encode(hash) /\ pc' = "answered" /\ UNCHANGED <<key, data, h>>
  BY DEF Encode
<1> QED BY <1>2, <1>3, <1>4 DEF Agrees

StandardInv ==
  \A M, W, S, H : IsComputation(key, M, W, S, H) => Agrees(M, W, S, H)

LEMMA StandardStep ==
  ASSUME IInv, StandardInv, [Next]_vars
  PROVE  StandardInv'
<1> SUFFICES ASSUME NEW M, NEW W, NEW S, NEW H, IsComputation(key, M, W, S, H)'
             PROVE  Agrees(M, W, S, H)'
  BY DEF StandardInv
<1>1. HsInv
  BY DEF IInv
<1>2. CASE HsNext
  <2>1. key' = key
    BY <1>2 DEF HsNext, Request, LoadBlock, Expand, Round, Encode
  <2>2. IsComputation(key, M, W, S, H)
    BY <2>1 DEF IsComputation
  <2>3. Agrees(M, W, S, H)
    BY <2>2 DEF StandardInv
  <2> QED BY <1>1, <1>2, <2>2, <2>3, RequestAgrees, LoadBlockAgrees, ExpandAgrees,
             RoundStepAgrees, EncodeAgrees DEF HsNext
<1>3. CASE UNCHANGED hsVars
  <2>1. Agrees(M, W, S, H)
    BY <1>3 DEF StandardInv, IsComputation, hsVars
  <2> QED BY <1>3, <2>1 DEF hsVars, Agrees, BlockAgrees, ScheduleAgrees, RoundAgrees,
             WordsAre
<1>4. CASE pc' \in {"typed", "arrived", "received"}
  BY <1>4 DEF Agrees
<1> QED BY <1>2, <1>3, <1>4 DEF Next, vars, Type, Recv, Receive, Broadcast

(***************************************************************************)
(* The standard has a hash for every key that handleClient can cut out of  *)
(* a request.                                                              *)
(***************************************************************************)
THEOREM StandardIsDefined ==
  \A k \in Bytes : Len(k) <= 24 => \E M, W, S, H : IsComputation(k, M, W, S, H)
<1> SUFFICES ASSUME NEW k \in Bytes, Len(k) <= 24
             PROVE  \E M, W, S, H : IsComputation(k, M, W, S, H)
  OBVIOUS
<1>1. PICK input : input = k \o Guid
  OBVIOUS
<1>2. input \in Bytes /\ Len(input) \in 36..60
  BY <1>1, InputLength
<1>3. PICK M : M = Padded(input) /\ IsPadded(M, input)
  BY <1>2, PaddingExists
<1>4. Len(M) \in Nat
  BY <1>3 DEF IsPadded
<1>5. PICK W, S, H : IsHash(M, W, S, H)
  BY <1>4, HashExists
<1> QED BY <1>1, <1>3, <1>5 DEF IsComputation

(***************************************************************************)
(* The answer is the standard one for every key: whatever the key, sha1    *)
(* computes what FIPS 180-4 defines for the key and the constant, and      *)
(* accept_key is that hash in base64.                                      *)
(***************************************************************************)
StandardAnswer ==
  pc = "answered" =>
    \A M, W, S, H :
      IsComputation(key, M, W, S, H) =>
        accept_key = base64_encode(Digest(H[Len(M) \div 64]))

THEOREM AnswerIsStandard == Spec => []StandardAnswer
<1>1. Init => StandardInv
  BY DEF Init, HsInit, StandardInv, Agrees
<1>2. IInv /\ StandardInv /\ [Next]_vars => StandardInv'
  BY StandardStep
<1>3. StandardInv => StandardAnswer
  BY DEF StandardInv, StandardAnswer, Agrees
<1> QED BY <1>1, <1>2, <1>3, Invariance, PTL DEF Spec

(***************************************************************************)
(* So a key whose answer by the standard is known gets that answer.        *)
(***************************************************************************)
THEOREM KnownAnswersAreGiven ==
  ASSUME \A k \in DOMAIN KnownAnswer : \E M, W, S, H :
           /\ IsComputation(k, M, W, S, H)
           /\ KnownAnswer[k] = base64_encode(Digest(H[Len(M) \div 64]))
  PROVE  Spec => []AnswerIsKnown
<1>1. StandardAnswer => AnswerIsKnown
  BY DEF StandardAnswer, AnswerIsKnown
<1> QED BY <1>1, AnswerIsStandard, PTL
==============================================================================
