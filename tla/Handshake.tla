------------------------------ MODULE Handshake ------------------------------
(***************************************************************************)
(* The answer to a WebSocket handshake: handleClient appends a constant to *)
(* the key of the request, and sends base64_encode(sha1(...)) back         *)
(* (backend/include/server/crypto).  The loops of sha1 are steps here, one *)
(* per iteration.                                                          *)
(*                                                                         *)
(* A byte is a number; a uint32_t is a pair of 16-bit halves, so that no   *)
(* number exceeds what TLC computes with; a character of base64 is its     *)
(* index in b64_table, and 64 is '='.                                      *)
(***************************************************************************)
EXTENDS Integers, Sequences, Bits

CONSTANT Keys  \* what the requests have in the place of the key

Byte == {n \in Nat : n < 256}
Half == {n \in Nat : n < 65536}

(* substr(.., 24) of the request *)
ASSUME KeysAssumption == \A k \in Keys : k \in Seq(Byte) /\ Len(k) <= 24

VARIABLES
  pc,         \* "request", "load", "expand", "round", "encode", "answered"
  key,        \* the key of the request: at most 24 characters
  data,       \* the local variables of sha1
  i,          \* the outer loop's i
  w, v, h,    \* v is a, b, c, d, e
  accept_key  \* what is sent back

hsVars == <<pc, key, data, i, w, v, h, accept_key>>

------------------------------------------------------------------------------
(* uint32_t *)

AddUnbounded(x, y) ==  \* mutant: the sum is not cut to 32 bits
  <<x[1] + y[1] + ((x[2] + y[2]) \div 65536), (x[2] + y[2]) % 65536>>

Add(x, y) == LET lo == x[2] + y[2]
             IN  <<(x[1] + y[1] + (lo \div 65536)) % 65536, lo % 65536>>

Xor2(x, y) == <<x[1] ^^ y[1], x[2] ^^ y[2]>>
And2(x, y) == <<x[1] & y[1], x[2] & y[2]>>
Or2(x, y)  == <<x[1] | y[1], x[2] | y[2]>>
Not2(x)    == <<65535 - x[1], 65535 - x[2]>>

rotate_right(x, p) ==  \* mutant: the other direction
  <<x[1] \div p + (x[2] % p) * (65536 \div p),
    x[2] \div p + (x[1] % p) * (65536 \div p)>>

(* p is 2^count, for the counts 1 and 5; a rotation by 30 is one by 14     *)
(* after the halves have changed places.                                   *)
left_rotate(x, p) ==
  <<(x[1] % (65536 \div p)) * p + x[2] \div (65536 \div p),
    (x[2] % (65536 \div p)) * p + x[1] \div (65536 \div p)>>

left_rotate_30(x) == left_rotate(<<x[2], x[1]>>, 16384)

H0 == << <<\h6745, \h2301>>, <<\hEFCD, \hAB89>>, <<\h98BA, \hDCFE>>,
         <<\h1032, \h5476>>, <<\hC3D2, \hE1F0>> >>

------------------------------------------------------------------------------
(* sha1: the padding *)

PaddedLength(n) ==  \* the first length above n that is 56 modulo 64
  n + 1 + ((55 - n) % 64)

LengthByte(n, k) ==  \* (bit_len >> 8k) & 0xFF, for n below 2^13
  CASE k = 0 -> (8 * n) % 256
    [] k = 1 -> (8 * n) \div 256
    [] OTHER -> 0

PaddedByte(input, p) ==
  LET n == Len(input)
  IN  CASE p <= n             -> input[p]
        [] p = n + 1          -> 128
        [] p > PaddedLength(n) -> LengthByte(n, PaddedLength(n) + 8 - p)
        [] OTHER              -> 0

Padded(input) ==
  [p \in 1..(PaddedLength(Len(input)) + 8) |-> PaddedByte(input, p)]

(* The request has been read: sha1 is called with key + "258EAFA5-E914-..." *)
Guid == <<50, 53, 56, 69, 65, 70, 65, 53, 45, 69, 57, 49, 52, 45, 52, 55, 68,
          65, 45, 57, 53, 67, 65, 45, 67, 53, 65, 66, 48, 68, 67, 56, 53, 66,
          49, 49>>

Request ==
  /\ pc = "request"
  /\ data' = Padded(key \o Guid)
  /\ h' = H0 /\ i' = 0
  /\ pc' = "load"
  /\ UNCHANGED <<key, w, v, accept_key>>

------------------------------------------------------------------------------
(* sha1: the blocks *)

LoadBlock ==
  /\ pc = "load"
  /\ IF i < Len(data)
     THEN /\ w' = [j \in 1..16 |->
                     LET p == i + 4 * (j - 1)
                     IN  <<256 * data[p + 1] + data[p + 2],
                           256 * data[p + 3] + data[p + 4]>>]
          /\ pc' = "expand"
     ELSE /\ w' = <<>> /\ pc' = "encode"
  /\ UNCHANGED <<key, data, i, v, h, accept_key>>

Expand ==
  /\ pc = "expand"
  /\ LET j == Len(w) + 1
     IN  IF j <= 80
         THEN /\ w' = Append(w, left_rotate(
                        Xor2(Xor2(w[j - 3], w[j - 8]),
                             Xor2(w[j - 14], w[j - 16])), 2))
              /\ UNCHANGED <<v, pc>>
         ELSE /\ v' = h /\ pc' = "round"
              /\ UNCHANGED w
  /\ UNCHANGED <<key, data, i, h, accept_key>>

(* The function and the constant of a round *)
f(j, b, c, d) ==
  CASE j < 20 -> Or2(And2(b, c), And2(Not2(b), d))
    [] 40 <= j /\ j < 60 -> Or2(And2(b, c), Or2(And2(b, d), And2(c, d)))
    [] OTHER -> Xor2(b, Xor2(c, d))

k32(j) == CASE j < 20 -> <<\h5A82, \h7999>>
            [] 20 <= j /\ j < 40 -> <<\h6ED9, \hEBA1>>
            [] 40 <= j /\ j < 60 -> <<\h8F1B, \hBCDC>>
            [] OTHER -> <<\hCA62, \hC1D6>>

(* One round takes the first word off w; the last one ends the block.      *)
Round ==
  /\ pc = "round"
  /\ IF w # <<>>
     THEN LET j == 80 - Len(w)
              temp == Add(Add(Add(Add(left_rotate(v[1], 32), f(j, v[2], v[3], v[4])),
                                  v[5]), k32(j)), Head(w))
          IN  /\ v' = <<temp, v[1], left_rotate_30(v[2]), v[3], v[4]>>
              /\ w' = Tail(w)
              /\ UNCHANGED <<h, i, pc>>
     ELSE /\ h' = [n \in 1..5 |-> Add(h[n], v[n])]
          /\ i' = i + 64
          /\ pc' = "load"
          /\ UNCHANGED <<v, w>>
  /\ UNCHANGED <<key, data, accept_key>>

HashByte(n) ==
  LET half == h[(n + 3) \div 4][IF n % 4 \in {1, 2} THEN 1 ELSE 2]
  IN  IF n % 2 = 1 THEN half \div 256 ELSE half % 256

hash == [n \in 1..20 |-> HashByte(n)]

------------------------------------------------------------------------------
(* Three bytes make four characters; a group that is short by one or two   *)
(* bytes is filled with 0 and its characters without a byte are '='.       *)
Character(buf, n) ==
  LET At(p) == IF p <= Len(buf) THEN buf[p] ELSE 0
      g == 3 * ((n - 1) \div 4)
  IN  CASE n % 4 = 1 -> At(g + 1) \div 4
        [] n % 4 = 2 -> (At(g + 1) % 4) * 16 + (At(g + 2) \div 16)
        [] n % 4 = 3 -> IF g + 2 > Len(buf) THEN 64
                        ELSE (At(g + 2) % 16) * 4 + (At(g + 3) \div 64)
        [] OTHER     -> IF g + 3 > Len(buf) THEN 64 ELSE At(g + 3) % 64

base64_encode(buf) ==
  [n \in 1..(4 * ((Len(buf) + 2) \div 3)) |-> Character(buf, n)]

Encode ==
  /\ pc = "encode"
  /\ accept_key' = base64_encode(hash)
  /\ pc' = "answered"
  /\ UNCHANGED <<key, data, i, w, v, h>>

------------------------------------------------------------------------------
HsInit ==
  /\ pc = "request"
  /\ key \in Keys
  /\ data = <<>> /\ i = 0 /\ w = <<>> /\ v = <<>> /\ h = <<>>
  /\ accept_key = <<>>

HsNext == Request \/ LoadBlock \/ Expand \/ Round \/ Encode
==============================================================================
