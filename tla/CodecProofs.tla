---------------------------- MODULE CodecProofs ----------------------------
(***************************************************************************)
(* What is read from a packet or a tag is what was written, for every      *)
(* node_id and any numbers of processes and tiles.                         *)
(*                                                                         *)
(* A behaviour computes: Inv says what the packet, the tile and the tags   *)
(* are at each stage, as terms of what the packet was made from.  The rest *)
(* is about these terms: where the fields of a word begin and end, and     *)
(* what 16 bits of a number are worth.                                     *)
(***************************************************************************)
EXTENDS Codec, SequenceTheorems, TLAPS

-----------------------------------------------------------------------------
(* Bits and numbers *)

\* The powers of two that are bits of a number.
LEMMA Powers ==
  /\ 2 ^ 0 = 1 /\ 2 ^ 1 = 2 /\ 2 ^ 2 = 4 /\ 2 ^ 3 = 8 /\ 2 ^ 4 = 16 /\ 2 ^ 5 = 32
  /\ 2 ^ 6 = 64 /\ 2 ^ 7 = 128 /\ 2 ^ 8 = 256 /\ 2 ^ 9 = 512 /\ 2 ^ 10 = 1024
  /\ 2 ^ 11 = 2048 /\ 2 ^ 12 = 4096 /\ 2 ^ 13 = 8192 /\ 2 ^ 14 = 16384 /\ 2 ^ 15 = 32768
  /\ 2 ^ 16 = 65536 /\ 2 ^ 17 = 131072 /\ 2 ^ 18 = 262144 /\ 2 ^ 19 = 524288
  /\ 2 ^ 20 = 1048576
OBVIOUS

\* A bit of a number.
Bit(n, b) == (n \div 2 ^ b) % 2

LEMMA BitOf ==
  ASSUME NEW n \in Nat
  PROVE  \A b \in 0 .. 20 : b \in Bits(n) <=> Bit(n, b) = 1
BY DEF Bits, Bit

\* The value of a bit of a number, by the bit's own.
BitValue(n, k) == IF (n \div k) % 2 = 1 THEN k ELSE 0

\* A remainder and the next bit are the next remainder.
LEMMA Digits ==
  ASSUME NEW n \in Nat
  PROVE  /\ n % 2 = BitValue(n, 1)
         /\ n % 4 = (n % 2) + BitValue(n, 2)
         /\ n % 8 = (n % 4) + BitValue(n, 4)
         /\ n % 16 = (n % 8) + BitValue(n, 8)
         /\ n % 32 = (n % 16) + BitValue(n, 16)
         /\ n % 64 = (n % 32) + BitValue(n, 32)
         /\ n % 128 = (n % 64) + BitValue(n, 64)
         /\ n % 256 = (n % 128) + BitValue(n, 128)
         /\ n % 512 = (n % 256) + BitValue(n, 256)
         /\ n % 1024 = (n % 512) + BitValue(n, 512)
         /\ n % 2048 = (n % 1024) + BitValue(n, 1024)
         /\ n % 4096 = (n % 2048) + BitValue(n, 2048)
         /\ n % 8192 = (n % 4096) + BitValue(n, 4096)
         /\ n % 16384 = (n % 8192) + BitValue(n, 8192)
         /\ n % 32768 = (n % 16384) + BitValue(n, 16384)
         /\ n % 65536 = (n % 32768) + BitValue(n, 32768)
<1>1. n % 2 = BitValue(n, 1)
  BY DEF BitValue
<1>2. n % 4 = (n % 2) + BitValue(n, 2)
  BY DEF BitValue
<1>3. n % 8 = (n % 4) + BitValue(n, 4)
  BY DEF BitValue
<1>4. n % 16 = (n % 8) + BitValue(n, 8)
  BY DEF BitValue
<1>5. n % 32 = (n % 16) + BitValue(n, 16)
  BY DEF BitValue
<1>6. n % 64 = (n % 32) + BitValue(n, 32)
  BY DEF BitValue
<1>7. n % 128 = (n % 64) + BitValue(n, 64)
  BY DEF BitValue
<1>8. n % 256 = (n % 128) + BitValue(n, 128)
  BY DEF BitValue
<1>9. n % 512 = (n % 256) + BitValue(n, 256)
  BY DEF BitValue
<1>10. n % 1024 = (n % 512) + BitValue(n, 512)
  BY DEF BitValue
<1>11. n % 2048 = (n % 1024) + BitValue(n, 1024)
  BY DEF BitValue
<1>12. n % 4096 = (n % 2048) + BitValue(n, 2048)
  BY DEF BitValue
<1>13. n % 8192 = (n % 4096) + BitValue(n, 4096)
  BY DEF BitValue
<1>14. n % 16384 = (n % 8192) + BitValue(n, 8192)
  BY DEF BitValue
<1>15. n % 32768 = (n % 16384) + BitValue(n, 16384)
  BY DEF BitValue
<1>16. n % 65536 = (n % 32768) + BitValue(n, 32768)
  BY DEF BitValue
<1> QED
  BY <1>1, <1>2, <1>3, <1>4, <1>5, <1>6, <1>7, <1>8,
     <1>9, <1>10, <1>11, <1>12, <1>13, <1>14, <1>15, <1>16

\* A bit of a number, and whether it is there.
LEMMA BitValueOf ==
  ASSUME NEW n \in Nat, NEW b \in 0 .. 15, NEW w,
         b \in w <=> b \in Bits(n)
  PROVE  (IF b \in w THEN 2 ^ b ELSE 0) = BitValue(n, 2 ^ b)
<1>1. b \in 0 .. 20
  OBVIOUS
<1>2. b \in w <=> (n \div 2 ^ b) % 2 = 1
  BY <1>1, BitOf, Zenon DEF Bit
<1> QED
  BY <1>2, Zenon DEF BitValue

\* The value of a word that has the lowest 16 bits of a number.
LEMMA SumOfBits ==
  ASSUME NEW n \in Nat, NEW w,
         \A b \in 0 .. 15 : b \in w <=> b \in Bits(n)
  PROVE  Value(w) = n % 65536
<1> DEFINE v(b) == IF b \in w THEN 2 ^ b ELSE 0
           B(k) == BitValue(n, k)
           m(k) == n % k
<1>1. \A b \in 0 .. 15 : v(b) = BitValue(n, 2 ^ b)
  BY BitValueOf, Zenon
<1>2. Value(w) = v(0) + v(1) + v(2) + v(3) + v(4) + v(5) + v(6) + v(7)
                 + v(8) + v(9) + v(10) + v(11) + v(12) + v(13) + v(14) + v(15)
  BY DEF Value
<1> HIDE DEF v
<1>3. /\ v(0) = B(1) /\ v(1) = B(2) /\ v(2) = B(4) /\ v(3) = B(8)
      /\ v(4) = B(16) /\ v(5) = B(32) /\ v(6) = B(64) /\ v(7) = B(128)
  BY <1>1, Powers
<1>4. /\ v(8) = B(256) /\ v(9) = B(512) /\ v(10) = B(1024) /\ v(11) = B(2048)
      /\ v(12) = B(4096) /\ v(13) = B(8192) /\ v(14) = B(16384) /\ v(15) = B(32768)
  BY <1>1, Powers
<1>5. \A k \in Nat : B(k) \in Nat
  BY DEF BitValue
<1>6. /\ m(2) = B(1) /\ m(4) = m(2) + B(2) /\ m(8) = m(4) + B(4)
      /\ m(16) = m(8) + B(8) /\ m(32) = m(16) + B(16) /\ m(64) = m(32) + B(32)
      /\ m(128) = m(64) + B(64) /\ m(256) = m(128) + B(128)
  BY Digits
<1>7. /\ m(512) = m(256) + B(256) /\ m(1024) = m(512) + B(512)
      /\ m(2048) = m(1024) + B(1024) /\ m(4096) = m(2048) + B(2048)
      /\ m(8192) = m(4096) + B(4096) /\ m(16384) = m(8192) + B(8192)
      /\ m(32768) = m(16384) + B(16384) /\ m(65536) = m(32768) + B(32768)
  BY Digits
<1> HIDE DEF B, m
<1>8. m(256) = B(1) + B(2) + B(4) + B(8) + B(16) + B(32) + B(64) + B(128)
  BY <1>5, <1>6
<1>9. m(65536) = B(1) + B(2) + B(4) + B(8) + B(16) + B(32) + B(64) + B(128)
                 + B(256) + B(512) + B(1024) + B(2048)
                 + B(4096) + B(8192) + B(16384) + B(32768)
  BY <1>5, <1>7, <1>8
<1>10. Value(w) = m(65536)
  BY <1>2, <1>3, <1>4, <1>9
<1> QED
  BY <1>10 DEF m

\* Numbers have bits; they are words.
LEMMA BitsAreWords ==
  /\ \A n \in Nat : Bits(n) \in SUBSET (0 .. 20)
  /\ \A w \in SUBSET Nat, n \in Nat : Low(w, n) \in SUBSET Nat
BY DEF Bits, Low

\* The lowest 16 bits of a number are its remainder.
LEMMA LowBits ==
  ASSUME NEW n \in Nat
  PROVE  /\ Value(Low(Bits(n), 16)) = n % 65536
         /\ Value(Low(Low(Bits(n), 16), 16)) = n % 65536
<1>1. \A b \in 0 .. 15 : b \in Low(Bits(n), 16) <=> b \in Bits(n)
  BY DEF Low
<1>2. \A b \in 0 .. 15 : b \in Low(Low(Bits(n), 16), 16) <=> b \in Bits(n)
  BY <1>1 DEF Low
<1> QED
  BY <1>1, <1>2, SumOfBits

\* A number of 16 bits has no others.
LEMMA AllBitsLow ==
  ASSUME NEW n \in Nat, n < 65536
  PROVE  Bits(n) \in SUBSET (0 .. 15) /\ Low(Bits(n), 16) = Bits(n)
<1>1. n \in Nat
  OBVIOUS
<1> DEFINE q(k) == n \div k
<1>2. /\ q(65536) = 0 /\ q(131072) = 0 /\ q(262144) = 0
      /\ q(524288) = 0 /\ q(1048576) = 0
  <2>1. n \in Nat /\ n < 65536
    OBVIOUS
  <2>2. \A k \in Nat : k >= 65536 => q(k) = 0
    BY <2>1
  <2> HIDE DEF q
  <2> QED
    BY <2>2
<1>3. /\ Bit(n, 16) = 0 /\ Bit(n, 17) = 0 /\ Bit(n, 18) = 0
      /\ Bit(n, 19) = 0 /\ Bit(n, 20) = 0
  BY <1>2, Powers DEF Bit
<1>4. ASSUME NEW b \in Bits(n) PROVE b \in 0 .. 15
  <2>1. b \in 0 .. 20
    BY <1>1, BitsAreWords
  <2>2. Bit(n, b) = 1
    BY <1>1, <2>1, BitOf
  <2>3. b # 16 /\ b # 17 /\ b # 18 /\ b # 19 /\ b # 20
    BY <1>3, <2>2
  <2> QED
    BY <2>1, <2>3
<1> QED
  BY <1>4 DEF Low

\* A type has 8 bits, and no other number has them.
LEMMA TypeBits ==
  ASSUME NEW n \in Nat, n < 256, NEW t \in Nat, t < 256,
         Low(Bits(n), 8) = Low(Bits(t), 8)
  PROVE  n = t
<1> DEFINE v(b) == IF b \in Low(Bits(n), 8) THEN 2 ^ b ELSE 0
           u(b) == IF b \in Low(Bits(t), 8) THEN 2 ^ b ELSE 0
<1>1. \A b \in 0 .. 7 : b \in 0 .. 15 /\ b \in 0 .. 8 - 1
  OBVIOUS
<1>2. n \in Nat /\ t \in Nat
  OBVIOUS
<1>3. \A b \in 0 .. 7 : BitValue(n, 2 ^ b) = BitValue(t, 2 ^ b)
  <2> SUFFICES ASSUME NEW b \in 0 .. 7 PROVE BitValue(n, 2 ^ b) = BitValue(t, 2 ^ b)
    OBVIOUS
  <2>1. b \in Low(Bits(n), 8) <=> b \in Bits(n)
    BY <1>1 DEF Low
  <2>2. b \in Low(Bits(t), 8) <=> b \in Bits(t)
    BY <1>1 DEF Low
  <2>3. v(b) = BitValue(n, 2 ^ b)
    BY <1>1, <1>2, <2>1, BitValueOf, Zenon
  <2>4. u(b) = BitValue(t, 2 ^ b)
    BY <1>1, <1>2, <2>2, BitValueOf, Zenon
  <2>5. v(b) = u(b)
    OBVIOUS
  <2> HIDE DEF v, u
  <2> QED
    BY <2>3, <2>4, <2>5
<1> DEFINE B(k) == BitValue(n, k)
           E(k) == BitValue(t, k)
           m(k) == n % k
           e(k) == t % k
<1>4. /\ B(1) = E(1) /\ B(2) = E(2) /\ B(4) = E(4) /\ B(8) = E(8)
      /\ B(16) = E(16) /\ B(32) = E(32) /\ B(64) = E(64) /\ B(128) = E(128)
  BY <1>3, Powers
<1>5. /\ m(2) = B(1) /\ m(4) = m(2) + B(2) /\ m(8) = m(4) + B(4)
      /\ m(16) = m(8) + B(8) /\ m(32) = m(16) + B(16) /\ m(64) = m(32) + B(32)
      /\ m(128) = m(64) + B(64) /\ m(256) = m(128) + B(128)
  BY <1>2, Digits
<1>6. /\ e(2) = E(1) /\ e(4) = e(2) + E(2) /\ e(8) = e(4) + E(4)
      /\ e(16) = e(8) + E(8) /\ e(32) = e(16) + E(16) /\ e(64) = e(32) + E(32)
      /\ e(128) = e(64) + E(64) /\ e(256) = e(128) + E(128)
  BY <1>2, Digits
<1>7. m(256) = n /\ e(256) = t
  BY Z3
<1>8. m(256) = e(256)
  <2> HIDE DEF B, E, m, e
  <2> QED
    BY <1>4, <1>5, <1>6
<1> QED
  BY <1>7, <1>8

\* A number of 8 bits has no others.
LEMMA TypeBitsLow ==
  ASSUME NEW n \in Nat, n < 256
  PROVE  Low(Bits(n), 8) = Bits(n)
<1>1. n \in Nat
  OBVIOUS
<1>2. n < 65536
  OBVIOUS
<1> DEFINE q(k) == n \div k
<1>3. /\ q(256) = 0 /\ q(512) = 0 /\ q(1024) = 0 /\ q(2048) = 0
      /\ q(4096) = 0 /\ q(8192) = 0 /\ q(16384) = 0 /\ q(32768) = 0
  <2>1. n \in Nat /\ n < 256
    OBVIOUS
  <2>2. \A k \in Nat : k >= 256 => q(k) = 0
    BY <2>1
  <2> HIDE DEF q
  <2> QED
    BY <2>2
<1>4. /\ Bit(n, 8) = 0 /\ Bit(n, 9) = 0 /\ Bit(n, 10) = 0 /\ Bit(n, 11) = 0
      /\ Bit(n, 12) = 0 /\ Bit(n, 13) = 0 /\ Bit(n, 14) = 0 /\ Bit(n, 15) = 0
  BY <1>3, Powers DEF Bit
<1>5. ASSUME NEW b \in Bits(n) PROVE b \in 0 .. 7
  <2>1. b \in 0 .. 15
    <3>1. Bits(n) \in SUBSET (0 .. 15)
      BY <1>2, AllBitsLow
    <3> QED
      BY <3>1
  <2>2. Bit(n, b) = 1
    BY <1>1, <2>1, BitOf
  <2>3. b # 8 /\ b # 9 /\ b # 10 /\ b # 11 /\ b # 12 /\ b # 13 /\ b # 14 /\ b # 15
    BY <1>4, <2>2
  <2> QED
    BY <2>1, <2>3
<1> QED
  BY <1>5 DEF Low

\* The types of tags.
LEMMA TagTypes ==
  /\ Bits(tag_default) = {0} /\ Bits(tag_dresp_data) = {1}
<1>1. 1 < 256 /\ 2 < 256 /\ 1 \in Nat /\ 2 \in Nat
  OBVIOUS
<1>2. ASSUME NEW n \in {1, 2}, NEW b \in Bits(n) PROVE b \in 0 .. 7 /\ Bit(n, b) = 1
  <2>1. b \in 0 .. 7
    BY <1>1, TypeBitsLow DEF Low
  <2> QED
    BY <1>1, <2>1, BitOf
<1>3. /\ Bit(1, 0) = 1 /\ Bit(1, 1) = 0 /\ Bit(1, 2) = 0 /\ Bit(1, 3) = 0
      /\ Bit(1, 4) = 0 /\ Bit(1, 5) = 0 /\ Bit(1, 6) = 0 /\ Bit(1, 7) = 0
  BY Powers DEF Bit
<1>4. /\ Bit(2, 0) = 0 /\ Bit(2, 1) = 1 /\ Bit(2, 2) = 0 /\ Bit(2, 3) = 0
      /\ Bit(2, 4) = 0 /\ Bit(2, 5) = 0 /\ Bit(2, 6) = 0 /\ Bit(2, 7) = 0
  BY Powers DEF Bit
<1>5. \A b \in Bits(1) : b = 0
  BY <1>2, <1>3
<1>6. \A b \in Bits(2) : b = 1
  BY <1>2, <1>4
<1>7. 0 \in Bits(1) /\ 1 \in Bits(2)
  BY <1>1, <1>3, <1>4, BitOf
<1> QED
  BY <1>5, <1>6, <1>7 DEF tag_default, tag_dresp_data

-----------------------------------------------------------------------------
(* Fields *)

\* The positions of a field, and of what is read from a word.
LEMMA FieldElements ==
  ASSUME NEW w \in SUBSET Nat, NEW shift \in Nat, NEW mask \in SUBSET Nat
  PROVE  /\ Field(w, shift, mask) \in SUBSET (mask \cap 0 .. 63)
         /\ \A x \in mask : x \in Field(w, shift, mask) <=> x <= 63 /\ x - shift \in w
BY DEF Field, ShiftLeft

LEMMA ShiftElements ==
  ASSUME NEW w \in SUBSET Nat, NEW shift \in Nat
  PROVE  /\ ShiftRight(w, shift) \in SUBSET Nat
         /\ \A x \in Nat : x \in ShiftRight(w, shift) <=> x + shift \in w
<1>1. ShiftRight(w, shift) \in SUBSET Nat
  BY DEF ShiftRight
<1>2. ASSUME NEW x \in Nat PROVE x \in ShiftRight(w, shift) <=> x + shift \in w
  <2>1. ASSUME x \in ShiftRight(w, shift) PROVE x + shift \in w
    <3>1. PICK b \in w : b >= shift /\ x = b - shift
      BY <2>1 DEF ShiftRight
    <3>2. x + shift = b
      BY <3>1
    <3> QED
      BY <3>2
  <2>2. ASSUME x + shift \in w PROVE x \in ShiftRight(w, shift)
    <3> DEFINE b == x + shift
    <3>1. b \in w /\ b >= shift /\ x = b - shift
      BY <2>2
    <3> HIDE DEF b
    <3> QED
      BY <3>1 DEF ShiftRight
  <2> QED
    BY <2>1, <2>2
<1> QED
  BY <1>1, <1>2

\* What is read from a field is what was put into it, cut to its length.
LEMMA FieldRead ==
  ASSUME NEW w \in SUBSET Nat, NEW shift \in Nat, NEW length \in Nat, shift + length <= 64,
         NEW mask \in SUBSET Nat,
         \A x \in Nat : x \in mask <=> shift <= x /\ x < shift + length
  PROVE  ShiftRight(Field(w, shift, mask), shift) = Low(w, length)
<1> DEFINE f == Field(w, shift, mask)
<1>1. /\ f \in SUBSET Nat /\ f \subseteq mask
      /\ \A x \in mask : x \in f <=> x <= 63 /\ x - shift \in w
  BY FieldElements
<1> HIDE DEF f
<1>2. /\ ShiftRight(f, shift) \in SUBSET Nat
      /\ \A x \in Nat : x \in ShiftRight(f, shift) <=> x + shift \in f
  BY <1>1, ShiftElements
<1>3. ASSUME NEW x \in Nat
      PROVE  x \in ShiftRight(f, shift) <=> x \in Low(w, length)
  <2>1. x \in ShiftRight(f, shift) <=> x + shift \in f
    BY <1>2
  <2>2. x + shift \in mask => (x + shift \in f <=> x \in w)
    <3>1. x + shift \in mask =>
            (x + shift \in f <=> x + shift <= 63 /\ (x + shift) - shift \in w)
      BY <1>1
    <3>2. x + shift \in mask => x + shift <= 63
      OBVIOUS
    <3>3. (x + shift) - shift = x
      OBVIOUS
    <3> QED
      BY <3>1, <3>2, <3>3
  <2>3. x + shift \in f => x + shift \in mask
    BY <1>1
  <2>4. x + shift \in mask <=> x \in 0 .. length - 1
    OBVIOUS
  <2> QED
    BY <2>1, <2>2, <2>3, <2>4 DEF Low
<1>4. Low(w, length) \in SUBSET Nat
  BY DEF Low
<1>5. ShiftRight(f, shift) = Low(w, length)
  BY <1>2, <1>3, <1>4
<1> QED
  BY <1>5 DEF f

\* Fields that do not overlap.
LEMMA Disjoint ==
  ASSUME NEW f, NEW rest, NEW mask, f \subseteq mask, rest \cap mask = {}
  PROVE  (f \cup rest) \cap mask = f
OBVIOUS

\* Cutting twice.
LEMMA LowTwice ==
  ASSUME NEW w, NEW m \in Nat, NEW n \in Nat, m <= n
  PROVE  Low(Low(w, m), n) = Low(w, m) /\ Low(Low(w, n), m) = Low(w, m)
BY DEF Low

\* A word, as the provers need to see it in a lemma of many words.
IsWord(w) == w \in SUBSET Nat

\* No field of a header runs over into another one.
LEMMA HeaderFields ==
  ASSUME NEW type, NEW prio, NEW redir, NEW length, NEW to, NEW return_to,
         NEW ack_to, NEW return_as, NEW header,
         IsWord(type), IsWord(prio), IsWord(redir), IsWord(length), IsWord(to),
         IsWord(return_to),
         header = mkHeader(type, prio, redir, length, to, return_to, ack_to, return_as)
  PROVE  /\ IsWord(header[1]) /\ header[2] = ack_to /\ header[3] = return_as
         /\ getPacket_type(header) = Low(type, 8)
         /\ getTo(header) = Low(to, 16)
         /\ getReturn_to(header) = Low(return_to, 16)
         /\ getReturn_as(header) = return_as
<1> DEFINE word == header[1]
           f1 == Field(type, 56, F_Packet_type)
           f2 == Field(prio, 51, F_Ctrl)
           f3 == Field(redir, 48, F_Redir)
           f4 == Field(length, 32, F_Length)
           f5 == Field(to, 16, F_To)
           f6 == Field(return_to, 0, F_Return_to)
<1>1. /\ type \in SUBSET Nat /\ prio \in SUBSET Nat /\ redir \in SUBSET Nat
      /\ length \in SUBSET Nat /\ to \in SUBSET Nat /\ return_to \in SUBSET Nat
  BY DEF IsWord
<1>2. word = f1 \cup f2 \cup f3 \cup f4 \cup f5 \cup f6
  BY DEF mkHeader
<1>3. header[2] = ack_to /\ header[3] = return_as
  BY DEF mkHeader
<1>4. /\ F_Packet_type = 56 .. 63 /\ F_Ctrl = 51 .. 55 /\ F_Redir = 48 .. 50
      /\ F_Length = 32 .. 47 /\ F_To = 16 .. 31 /\ F_Return_to = 0 .. 15
  BY DEF F_Packet_type, F_Ctrl, F_Redir, F_Length, F_To, F_Return_to
<1>5. /\ F_Packet_type \in SUBSET Nat /\ F_Ctrl \in SUBSET Nat /\ F_Redir \in SUBSET Nat
      /\ F_Length \in SUBSET Nat /\ F_To \in SUBSET Nat /\ F_Return_to \in SUBSET Nat
  BY <1>4
<1>6. /\ f1 \subseteq F_Packet_type /\ f2 \subseteq F_Ctrl /\ f3 \subseteq F_Redir
      /\ f4 \subseteq F_Length /\ f5 \subseteq F_To /\ f6 \subseteq F_Return_to
  <2>1. \A w \in SUBSET Nat, mask \in SUBSET Nat, shift \in Nat :
          Field(w, shift, mask) \subseteq mask
    BY FieldElements
  <2>2. 0 \in Nat /\ 16 \in Nat /\ 32 \in Nat /\ 48 \in Nat /\ 51 \in Nat /\ 56 \in Nat
    OBVIOUS
  <2> QED
    BY <1>1, <1>5, <2>1, <2>2
<1> HIDE DEF word, f1, f2, f3, f4, f5, f6
<1>7. word \cap F_Packet_type = f1
  <2>1. /\ F_Ctrl \cap F_Packet_type = {} /\ F_Redir \cap F_Packet_type = {}
        /\ F_Length \cap F_Packet_type = {} /\ F_To \cap F_Packet_type = {}
        /\ F_Return_to \cap F_Packet_type = {}
    BY <1>4
  <2>2. (f2 \cup f3 \cup f4 \cup f5 \cup f6) \cap F_Packet_type = {}
    BY <1>6, <2>1, Zenon
  <2>3. word = f1 \cup (f2 \cup f3 \cup f4 \cup f5 \cup f6)
    BY <1>2
  <2> QED
    BY <1>6, <2>2, <2>3, Disjoint, Zenon
<1>8. word \cap F_To = f5
  <2>1. /\ F_Packet_type \cap F_To = {} /\ F_Ctrl \cap F_To = {} /\ F_Redir \cap F_To = {}
        /\ F_Length \cap F_To = {} /\ F_Return_to \cap F_To = {}
    BY <1>4
  <2>2. (f1 \cup f2 \cup f3 \cup f4 \cup f6) \cap F_To = {}
    BY <1>6, <2>1, Zenon
  <2>3. word = f5 \cup (f1 \cup f2 \cup f3 \cup f4 \cup f6)
    BY <1>2
  <2> QED
    BY <1>6, <2>2, <2>3, Disjoint, Zenon
<1>9. word \cap F_Return_to = f6
  <2>1. /\ F_Packet_type \cap F_Return_to = {} /\ F_Ctrl \cap F_Return_to = {}
        /\ F_Redir \cap F_Return_to = {} /\ F_Length \cap F_Return_to = {}
        /\ F_To \cap F_Return_to = {}
    BY <1>4
  <2>2. (f1 \cup f2 \cup f3 \cup f4 \cup f5) \cap F_Return_to = {}
    BY <1>6, <2>1, Zenon
  <2>3. word = f6 \cup (f1 \cup f2 \cup f3 \cup f4 \cup f5)
    BY <1>2
  <2> QED
    BY <1>6, <2>2, <2>3, Disjoint, Zenon
<1>10. word \in SUBSET Nat
  BY <1>2, <1>5, <1>6
<1>11. ShiftRight(f1, 56) = Low(type, 8)
  BY <1>1, <1>4, <1>5, FieldRead DEF f1
<1>12. ShiftRight(f5, 16) = Low(to, 16)
  BY <1>1, <1>4, <1>5, FieldRead DEF f5
<1>13. ShiftRight(f6, 0) = Low(return_to, 16)
  BY <1>1, <1>4, <1>5, FieldRead DEF f6
<1>14. \A w, n : Low(Low(w, n), n) = Low(w, n)
  BY DEF Low
<1>15. getPacket_type(header) = Low(type, 8)
  BY <1>7, <1>11, <1>14, Zenon DEF word, getPacket_type
<1>16. getTo(header) = Low(to, 16)
  BY <1>8, <1>12, <1>14, Zenon DEF word, getTo
<1>17. getReturn_to(header) = Low(return_to, 16)
  BY <1>9, <1>13, <1>14, Zenon DEF word, getReturn_to
<1> QED
  BY <1>3, <1>10, <1>15, <1>16, <1>17 DEF word, IsWord, getReturn_as

\* What the fields of a tag hold.
LEMMA TagFields ==
  ASSUME NEW type \in SUBSET Nat, NEW receiver \in SUBSET Nat, NEW sender \in SUBSET Nat
  PROVE  /\ get_tag_type(create_tag(type, receiver, sender)) = Low(type, 4)
         /\ get_receiver_id(create_tag(type, receiver, sender)) = Low(receiver, 14)
         /\ get_sender_id(create_tag(type, receiver, sender)) = Low(sender, 14)
         /\ 1 \in create_tag(type, receiver, sender) <=> 1 \in type
<1> DEFINE t == create_tag(type, receiver, sender)
           f1 == Field(Low(type, 8), 0, F_tag_t)
           f2 == Field(Low(receiver, 16), 4, F_receiver_t)
           f3 == Field(Low(sender, 16), 18, F_sender_t)
<1>1. t = f1 \cup f2 \cup f3
  BY DEF create_tag
<1>2. F_tag_t = 0 .. 3 /\ F_receiver_t = 4 .. 17 /\ F_sender_t = 18 .. 31
  BY DEF F_tag_t, F_receiver_t, F_sender_t
<1>3. /\ Low(type, 8) \in SUBSET Nat /\ Low(receiver, 16) \in SUBSET Nat
      /\ Low(sender, 16) \in SUBSET Nat
  BY DEF Low
<1>4. F_tag_t \in SUBSET Nat /\ F_receiver_t \in SUBSET Nat /\ F_sender_t \in SUBSET Nat
  BY <1>2
<1>5. 0 \in Nat /\ 4 \in Nat /\ 18 \in Nat
  OBVIOUS
<1>6. f1 \subseteq F_tag_t /\ f2 \subseteq F_receiver_t /\ f3 \subseteq F_sender_t
  BY <1>3, <1>4, <1>5, FieldElements
<1>7. 1 \in f1 <=> 1 \in type
  <2>1. 1 \in F_tag_t /\ 1 <= 63 /\ 1 - 0 = 1
    BY <1>2
  <2>2. 1 \in f1 <=> 1 \in Low(type, 8)
    BY <1>3, <1>4, <1>5, <2>1, FieldElements
  <2> QED
    BY <2>2 DEF Low
<1> HIDE DEF t, f1, f2, f3
<1>9. t \cap F_tag_t = f1 /\ t \cap F_receiver_t = f2 /\ t \cap F_sender_t = f3
  <2>1. /\ F_tag_t \cap F_receiver_t = {} /\ F_receiver_t \cap F_tag_t = {}
        /\ F_tag_t \cap F_sender_t = {} /\ F_sender_t \cap F_tag_t = {}
        /\ F_receiver_t \cap F_sender_t = {} /\ F_sender_t \cap F_receiver_t = {}
    BY <1>2
  <2>2. /\ (f2 \cup f3) \cap F_tag_t = {} /\ (f1 \cup f3) \cap F_receiver_t = {}
        /\ (f1 \cup f2) \cap F_sender_t = {}
    BY <1>6, <2>1, Zenon
  <2>3. t = f1 \cup (f2 \cup f3) /\ t = f2 \cup (f1 \cup f3) /\ t = f3 \cup (f1 \cup f2)
    BY <1>1
  <2> QED
    BY <1>6, <2>2, <2>3, Disjoint, Zenon
<1>10. t \in SUBSET Nat
  BY <1>1, <1>4, <1>6
<1>11. ShiftRight(f1, 0) = Low(Low(type, 8), 4)
  BY <1>2, <1>3, <1>4, FieldRead DEF f1
<1>12. ShiftRight(f2, 4) = Low(Low(receiver, 16), 14)
  BY <1>2, <1>3, <1>4, FieldRead DEF f2
<1>13. ShiftRight(f3, 18) = Low(Low(sender, 16), 14)
  BY <1>2, <1>3, <1>4, FieldRead DEF f3
<1>14. 4 <= 8 /\ 14 <= 16 /\ 4 \in Nat /\ 8 \in Nat /\ 14 \in Nat /\ 16 \in Nat
  OBVIOUS
<1>15. /\ Low(Low(type, 8), 4) = Low(type, 4)
       /\ Low(Low(receiver, 16), 14) = Low(receiver, 14)
       /\ Low(Low(sender, 16), 14) = Low(sender, 14)
  BY <1>14, LowTwice
<1>16. 1 \in t <=> 1 \in type
  BY <1>1, <1>2, <1>6, <1>7
<1> QED
  BY <1>9, <1>11, <1>12, <1>13, <1>15, <1>16, Zenon
     DEF get_tag_type, get_receiver_id, get_sender_id, t

-----------------------------------------------------------------------------
(* Addresses *)

\* The rest of a division, as the code computes it.
LEMMA RestOfDivision ==
  ASSUME NEW a \in Nat, NEW n \in Nat \ {0}
  PROVE  /\ CDiv(a, n) = a \div n
         /\ CRem(a, n) \in 0 .. n - 1 /\ CRem(a, n) <= a
<1>1. CDiv(a, n) = a \div n
  BY DEF CDiv
<1>2. a - n * (a \div n) = a % n
  BY Z3
<1>3. a % n \in 0 .. n - 1 /\ a % n <= a
  BY Z3
<1> QED
  BY <1>1, <1>2, <1>3 DEF CRem

\* The same for -1, what a To of 0 becomes.
LEMMA RestOfMinusOne ==
  ASSUME NEW n \in Nat \ {0}
  PROVE  /\ n > 1 => CDiv(-1, n) = 0 /\ CRem(-1, n) = -1
         /\ n = 1 => CDiv(-1, n) = -1 /\ CRem(-1, n) = 0 /\ (-1) % n = 0
<1>1. CDiv(-1, n) = -(1 \div n)
  BY DEF CDiv
<1>2. ASSUME n > 1 PROVE CDiv(-1, n) = 0 /\ CRem(-1, n) = -1
  <2>1. 1 \div n = 0
    BY <1>2, Z3
  <2>2. CDiv(-1, n) = 0
    BY <1>1, <2>1
  <2>3. n * 0 = 0
    BY Z3
  <2> QED
    BY <2>2, <2>3 DEF CRem
<1>3. ASSUME n = 1 PROVE CDiv(-1, n) = -1 /\ CRem(-1, n) = 0 /\ (-1) % n = 0
  <2>1. 1 \div 1 = 1 /\ (-1) % 1 = 0
    OBVIOUS
  <2>2. CDiv(-1, n) = -1
    BY <1>1, <1>3, <2>1
  <2> QED
    BY <1>3, <2>1, <2>2 DEF CRem
<1> QED
  BY <1>2, <1>3

\* The rest of an unsigned division.
LEMMA RestOfUnsigned ==
  ASSUME NEW a \in Int, NEW n \in Nat \ {0}
  PROVE  URem(a, n) \in 0 .. n - 1
<1>1. \A b \in Int : b % n \in 0 .. n - 1
  BY Z3
<1>2. 2147483647 % n \in Int
  BY <1>1
<1> DEFINE m == 2147483647 % n
<1> HIDE DEF m
<1>3. a + 2 * m + 2 \in Int
  BY <1>2 DEF m
<1>4. URem(a, n) = IF a >= 0 THEN a % n ELSE (a + 2 * m + 2) % n
  BY DEF URem, m
<1> QED
  BY <1>1, <1>3, <1>4

\* There is at least one tile.
LEMMA TilesExist ==
  Size * NServices \in Nat \ {0} /\ Size * NServices >= NServices
<1>1. \A s, n \in Nat \ {0} : s * n \in Nat \ {0} /\ s * n >= n
  BY Z3
<1> QED
  BY <1>1, CodecAssumption

(* The tile that the code computes is the one that a node_id stands for.   *)
(* The Transceiver always computes a tile that exists.                     *)
LEMMA NodeIsWrap ==
  ASSUME NEW id \in Nat, NEW header, Value(getTo(header)) = id % 65536
  PROVE  /\ node(header) = Wrap(id)
         /\ Wrap(id) \in Nat /\ Wrap(id) < 65536
         /\ id % 65536 # 0 => Wrap(id) \in 1 .. Size * NServices
         /\ id % 65536 # 0 => transmit_dest(header) = Wrap(id)
         /\ id % 65536 = 0 /\ Size * NServices > 1 => Wrap(id) = 0
         /\ transmit_dest(header) \in 1 .. Size * NServices
<1> DEFINE N == Size * NServices
           r == id % 65536
           d == transmit_dest(header)
<1>1. N \in Nat \ {0} /\ N >= NServices /\ NServices \in Nat \ {0}
  BY TilesExist, CodecAssumption
<1>2. r \in Nat /\ r < 65536
  BY Z3
<1>3. node(header) = CRem(r - 1, N) + 1 /\ d = URem(r - 1, N) + 1
  BY DEF node, transmit_dest
<1>4. Wrap(id) = IF r = 0 /\ N > 1 THEN 0 ELSE ((r - 1) % N) + 1
  BY DEF Wrap
<1> DEFINE Goal ==
             /\ node(header) = Wrap(id)
             /\ Wrap(id) \in Nat /\ Wrap(id) < 65536
             /\ r # 0 => Wrap(id) \in 1 .. N
             /\ r # 0 => d = Wrap(id)
             /\ r = 0 /\ N > 1 => Wrap(id) = 0
<1> HIDE DEF N, r, d
<1>5. ASSUME r # 0 PROVE Goal
  <2> DEFINE a == r - 1
             m == a % N
  <2>1. a \in Nat /\ a < 65535
    BY <1>2, <1>5
  <2>2. node(header) = CRem(a, N) + 1 /\ Wrap(id) = m + 1 /\ d = URem(a, N) + 1
    BY <1>3, <1>4, <1>5
  <2> HIDE DEF a
  <2>3. CRem(a, N) = m /\ m \in 0 .. N - 1 /\ m <= a
    <3>1. CRem(a, N) = a - N * CDiv(a, N) /\ CDiv(a, N) = a \div N
      BY <2>1 DEF CRem, CDiv
    <3>2. a - N * (a \div N) = a % N
      BY <1>1, <2>1, Z3
    <3>3. CRem(a, N) \in 0 .. N - 1 /\ CRem(a, N) <= a
      BY <1>1, <2>1, RestOfDivision
    <3> QED
      BY <3>1, <3>2, <3>3
  <2>4. URem(a, N) = m
    BY <2>1 DEF URem
  <2> HIDE DEF m
  <2>5. m \in Nat /\ m + 1 <= N /\ m + 1 <= 65535
    BY <1>1, <2>1, <2>3
  <2>6. m + 1 \in 1 .. N /\ m + 1 \in Nat /\ m + 1 < 65536
    BY <1>1, <2>5
  <2> QED
    BY <1>5, <2>2, <2>3, <2>4, <2>6
<1>6. ASSUME r = 0 /\ N > 1 PROVE Goal
  <2>1. CRem(-1, N) = -1 /\ r - 1 = -1
    BY <1>1, <1>6, RestOfMinusOne
  <2>2. node(header) = 0 /\ Wrap(id) = 0
    BY <1>3, <1>4, <1>6, <2>1
  <2> QED
    BY <1>6, <2>2
<1>7. ASSUME r = 0 /\ N = 1 PROVE Goal
  <2>1. CRem(-1, N) = 0 /\ (-1) % N = 0 /\ r - 1 = -1
    BY <1>1, <1>7, RestOfMinusOne
  <2>2. node(header) = 1 /\ Wrap(id) = 1 /\ ~(N > 1)
    BY <1>3, <1>4, <1>7, <2>1
  <2> QED
    BY <1>7, <2>2
<1>8. N > 1 \/ N = 1
  BY <1>1
<1>9. Goal
  BY <1>5, <1>6, <1>7, <1>8
<1>10. d \in 1 .. N
  <2> DEFINE e == URem(r - 1, N)
  <2>1. r - 1 \in Int
    BY <1>2
  <2>2. e \in 0 .. N - 1
    BY <1>1, <2>1, RestOfUnsigned
  <2> HIDE DEF e
  <2>3. d = e + 1
    BY <1>3 DEF e
  <2> QED
    BY <1>1, <2>2, <2>3
<1> QED
  BY <1>9, <1>10 DEF N, r, d

\* A tile is one of a process that exists, and a key of nodes there.
LEMMA RankExists ==
  \A tile \in 1 .. Size * NServices :
    to_rank(tile) \in 0 .. Size - 1 /\ tile \in Nodes(to_rank(tile))
<1>1. Size \in Nat \ {0} /\ NServices \in Nat \ {0} /\ Size * NServices \in Nat \ {0}
  BY CodecAssumption, TilesExist
<1>2. ASSUME NEW tile \in 1 .. Size * NServices
      PROVE  to_rank(tile) \in 0 .. Size - 1 /\ tile \in Nodes(to_rank(tile))
  <2> DEFINE p == tile - 1
             q == p \div NServices
  <2>1. p \in Nat /\ p < Size * NServices
    BY <1>1
  <2>2. to_rank(tile) = q
    BY <1>1, <2>1, RestOfDivision DEF to_rank
  <2>3. q \in Nat /\ q * NServices <= p /\ p < (q + 1) * NServices
    <3> HIDE DEF p
    <3>1. \A a \in Nat, n \in Nat \ {0} :
            a \div n \in Nat /\ (a \div n) * n <= a /\ a < ((a \div n) + 1) * n
      BY Z3
    <3> QED
      BY <1>1, <2>1, <3>1
  <2>7. p = tile - 1 /\ tile \in Nat
    OBVIOUS
  <2> HIDE DEF p, q
  <2>4. q >= Size => q * NServices >= Size * NServices
    <3>1. \A a, b \in Nat, n \in Nat \ {0} : a >= b => a * n >= b * n
      BY Z3
    <3> QED
      BY <1>1, <2>3, <3>1
  <2> DEFINE a == q * NServices
             b == Size * NServices
  <2>5. a <= p /\ p < b /\ (q >= Size => a >= b) /\ a \in Int /\ b \in Int
    BY <1>1, <2>1, <2>3, <2>4
  <2> HIDE DEF a, b
  <2>6. q < Size
    BY <1>1, <2>1, <2>3, <2>5
  <2>8. q * NServices \in Nat /\ (q + 1) * NServices \in Nat
    <3>1. \A k \in Nat, n \in Nat \ {0} : k * n \in Nat /\ (k + 1) * n \in Nat
      BY Z3
    <3> QED
      BY <1>1, <2>3, <3>1
  <2>9. tile \in q * NServices + 1 .. (q + 1) * NServices
    <3> DEFINE c == q * NServices
               d == (q + 1) * NServices
    <3>1. c \in Nat /\ d \in Nat /\ c <= p /\ p < d
      BY <2>3, <2>8
    <3> HIDE DEF c, d
    <3>2. tile \in c + 1 .. d
      BY <2>7, <3>1
    <3> QED
      BY <3>2 DEF c, d
  <2> QED
    BY <1>1, <2>2, <2>3, <2>6, <2>9 DEF Nodes
<1> QED
  BY <1>2

-----------------------------------------------------------------------------
(* Packets *)

\* A packet of three words of header and those of its payload.
LEMMA PacketParts ==
  ASSUME NEW S, NEW h \in Seq(S), Len(h) = 3, NEW q \in Seq(S), NEW p, p = h \o q
  PROVE  getHeader(p) = <<h[1], h[2], h[3]>> /\ getPayload(p) = q
<1>1. Len(q) \in Nat /\ Len(h) \in Nat
  BY LenProperties
<1>2. /\ p \in Seq(S) /\ Len(p) = 3 + Len(q)
      /\ \A i \in 1 .. 3 + Len(q) : p[i] = IF i <= 3 THEN h[i] ELSE q[i - 3]
  <2>1. /\ p \in Seq(S) /\ Len(p) = Len(h) + Len(q)
        /\ \A i \in 1 .. Len(h) + Len(q) : p[i] = IF i <= Len(h) THEN h[i] ELSE q[i - Len(h)]
    BY ConcatProperties
  <2> QED
    BY <2>1
<1>3. p[1] = h[1] /\ p[2] = h[2] /\ p[3] = h[3]
  BY <1>1, <1>2
<1>4. ASSUME NEW i \in 1 .. Len(q) PROVE p[3 + i] = q[i]
  <2>1. 3 + i \in 1 .. 3 + Len(q) /\ ~(3 + i <= 3) /\ (3 + i) - 3 = i
    BY <1>1
  <2> QED
    BY <1>2, <2>1
<1>5. getPayload(p) = q
  <2> DEFINE u == SubSeq(p, 4, Len(p))
  <2>1. \A i \in 4 .. Len(p) : p[i] \in S
    <3>1. \A i \in 4 .. Len(p) : i \in 1 .. Len(p)
      OBVIOUS
    <3> QED
      BY <1>2, <3>1, ElementOfSeq
  <2>2. /\ u \in Seq(S)
        /\ Len(u) = IF 4 <= Len(p) THEN Len(p) - 4 + 1 ELSE 0
        /\ \A i \in 1 .. Len(p) - 4 + 1 : u[i] = p[4 + i - 1]
    BY <1>1, <1>2, <2>1, SubSeqProperties
  <2> HIDE DEF u
  <2>3. Len(u) = Len(q)
    BY <1>1, <1>2, <2>2
  <2>4. \A i \in 1 .. Len(q) : u[i] = q[i]
    <3> SUFFICES ASSUME NEW i \in 1 .. Len(q) PROVE u[i] = q[i]
      OBVIOUS
    <3>1. i \in 1 .. Len(p) - 4 + 1 /\ 4 + i - 1 = 3 + i
      BY <1>1, <1>2
    <3> QED
      BY <1>4, <2>2, <3>1
  <2>5. u = q
    BY <2>2, <2>3, <2>4, SeqEqual
  <2> QED
    BY <2>5 DEF u, getPayload
<1>6. getHeader(p) = <<h[1], h[2], h[3]>>
  BY <1>3, Zenon DEF getHeader
<1> QED
  BY <1>5, <1>6

\* Three words.
LEMMA Triple ==
  ASSUME NEW S, NEW a \in S, NEW b \in S, NEW c \in S, NEW h, h = <<a, b, c>>
  PROVE  h \in Seq(S) /\ Len(h) = 3 /\ h[1] = a /\ h[2] = b /\ h[3] = c
OBVIOUS

\* The header of what the packet is made from.
Header ==
  mkHeader(Bits(args.type), Bits(2), Bits(3), Bits(Len(Payload)),
           Bits(args.to), Bits(args.return_to), Bits(7), D_SIZE)

\* A packet with that header whose last word is pointer.
PacketIs(p, pointer) ==
  /\ p \in Seq(SUBSET Nat) /\ Len(p) = 6
  /\ p[1] = Header[1] /\ p[2] = Bits(7) /\ p[3] = D_SIZE
  /\ p[4] = Bits(1) /\ p[5] = Bits(2) /\ p[6] = pointer

\* The tag that both sides make for the packet.
Tag ==
  IF IsDresp
  THEN create_tag(Bits(tag_dresp_data), Bits(node(Header)), getReturn_to(Header))
  ELSE Bits(tag_default)

PacketOK ==
  /\ stage \in {"made", "given", "sent"} => PacketIs(packet, Pointer)
  /\ stage = "received" => PacketIs(packet, IF IsDresp THEN NewPointer ELSE Pointer)

(* Where the packet is: with the process that made it, until a bridge      *)
(* sends it, which the Transceiver lets it do for another process only.    *)
GivenOK ==
  /\ stage \in {"new", "made", "given"} => at = args.rank
  /\ stage \in {"given", "sent", "received"} => to_rank(transmit_dest(Header)) # args.rank

SentOK ==
  /\ stage \in {"sent", "received"} =>
       dest = node(Header) /\ at = to_rank(node(Header)) /\ tag = Tag
  /\ stage = "received" => expected = Tag

\* A packet is stored by the Transceiver or by a receiving thread.
StoredOK ==
  stage = "stored" =>
    \/ stored = transmit_dest(Header) /\ at = to_rank(transmit_dest(Header))
    \/ stored = node(Header) /\ at = to_rank(node(Header))

AnswerOK ==
  stage = "answered" =>
    /\ getHeader(packet) = AnswerHeader(Header)
    /\ dest = node(AnswerHeader(Header))

Inv ==
  /\ stage \in {"new", "made", "given", "sent", "received", "stored", "answered"}
  /\ args \in [rank : Sender, type : Type, to : NodeId, return_to : NodeId]
  /\ PacketOK /\ GivenOK /\ SentOK /\ StoredOK /\ AnswerOK

\* The constants, as words.
LEMMA Words ==
  /\ Pointer \in SUBSET Nat /\ NewPointer \in SUBSET Nat /\ D_SIZE \in SUBSET Nat
  /\ \A n \in Nat : Bits(n) \in SUBSET Nat
  /\ \A n \in {1, 2, 3, 7, 11, 999} : Bits(n) \in SUBSET Nat
  /\ Len(Payload) = 3
<1>1. \A n \in Nat : Bits(n) \in SUBSET Nat
  BY BitsAreWords
<1>2. Pointer \in SUBSET Nat /\ NewPointer \in SUBSET Nat
  BY DEF Pointer, NewPointer
<1>3. D_SIZE \in SUBSET Nat
  BY <1>1 DEF D_SIZE
<1>4. Len(Payload) = 3
  BY DEF Payload
<1> QED
  BY <1>1, <1>2, <1>3, <1>4

\* What the packet is made from.
LEMMA Args ==
  ASSUME args \in [rank : Sender, type : Type, to : NodeId, return_to : NodeId]
  PROVE  /\ args.rank \in 0 .. Size - 1
         /\ args.type \in Nat /\ args.type < 256
         /\ args.to \in Nat \ {0} /\ args.return_to \in Nat \ {0}
<1>1. /\ args.rank \in Sender /\ args.type \in Type
      /\ args.to \in NodeId /\ args.return_to \in NodeId
  OBVIOUS
<1>2. \A t \in Type : t \in Nat /\ t < 256
  BY CodecAssumption
<1>3. \A id \in NodeId : id \in Nat \ {0}
  BY CodecAssumption
<1>4. args.rank \in 0 .. Size - 1
  BY <1>1, CodecAssumption
<1> QED
  BY <1>1, <1>2, <1>3, <1>4

\* What is in the header.
LEMMA HeaderValues ==
  ASSUME args \in [rank : Sender, type : Type, to : NodeId, return_to : NodeId]
  PROVE  /\ getPacket_type(Header) = Bits(args.type)
         /\ getPacket_type(Header) = Bits(P_DRESP) <=> IsDresp
         /\ getTo(Header) = Low(Bits(args.to), 16)
         /\ getReturn_to(Header) = Low(Bits(args.return_to), 16)
         /\ getReturn_as(Header) = D_SIZE
         /\ Header = <<Header[1], Bits(7), D_SIZE>> /\ Header[1] \in SUBSET Nat
         /\ Header \in Seq(SUBSET Nat) /\ Len(Header) = 3
<1>1. /\ args.type \in Nat /\ args.type < 256
      /\ args.to \in Nat /\ args.return_to \in Nat
  BY Args
<1>2. /\ Bits(args.type) \in SUBSET Nat /\ Bits(args.to) \in SUBSET Nat
      /\ Bits(args.return_to) \in SUBSET Nat
  BY <1>1, Words
<1>3. /\ Bits(2) \in SUBSET Nat /\ Bits(3) \in SUBSET Nat /\ Bits(7) \in SUBSET Nat
      /\ Bits(Len(Payload)) \in SUBSET Nat
  BY Words
<1> DEFINE h == Header
           type == Bits(args.type)
           to == Bits(args.to)
           return_to == Bits(args.return_to)
           prio == Bits(2)
           redir == Bits(3)
           length == Bits(Len(Payload))
           ack_to == Bits(7)
<1>4. h = mkHeader(type, prio, redir, length, to, return_to, ack_to, D_SIZE)
  BY DEF Header
<1>5. /\ type \in SUBSET Nat /\ to \in SUBSET Nat /\ return_to \in SUBSET Nat
      /\ prio \in SUBSET Nat /\ redir \in SUBSET Nat /\ length \in SUBSET Nat
      /\ ack_to \in SUBSET Nat /\ D_SIZE \in SUBSET Nat
  BY <1>2, <1>3, Words
<1>6. /\ IsWord(type) /\ IsWord(to) /\ IsWord(return_to)
      /\ IsWord(prio) /\ IsWord(redir) /\ IsWord(length)
  BY <1>5 DEF IsWord
<1> HIDE DEF h, type, to, return_to, prio, redir, length, ack_to
<1>7. /\ IsWord(h[1]) /\ h[2] = ack_to /\ h[3] = D_SIZE
      /\ getPacket_type(h) = Low(type, 8)
      /\ getTo(h) = Low(to, 16)
      /\ getReturn_to(h) = Low(return_to, 16)
      /\ getReturn_as(h) = D_SIZE
  BY <1>4, <1>6, HeaderFields
<1>8. h = <<h[1], ack_to, D_SIZE>>
  BY <1>4 DEF mkHeader
<1>9. h \in Seq(SUBSET Nat) /\ Len(h) = 3
  <2> DEFINE word == h[1]
  <2>1. word \in SUBSET Nat /\ h = <<word, ack_to, D_SIZE>>
    BY <1>7, <1>8 DEF IsWord
  <2> HIDE DEF word
  <2> QED
    BY <1>5, <2>1
<1>10. Low(Bits(args.type), 8) = Bits(args.type)
  BY <1>1, TypeBitsLow
<1>11. Low(Bits(8), 8) = Bits(8)
  BY TypeBitsLow
<1>12. Bits(args.type) = Bits(8) <=> args.type = 8
  BY <1>1, <1>10, <1>11, TypeBits
<1> QED
  BY <1>7, <1>8, <1>9, <1>10, <1>12
     DEF IsWord, h, type, to, return_to, ack_to, IsDresp, P_DRESP

\* A packet with the header and the payload.
LEMMA PacketValues ==
  ASSUME args \in [rank : Sender, type : Type, to : NodeId, return_to : NodeId],
         NEW p, NEW pointer, PacketIs(p, pointer)
  PROVE  /\ getHeader(p) = Header
         /\ getPayload(p) = <<Bits(1), Bits(2), pointer>>
         /\ getPayload(p) \in Seq(SUBSET Nat)

<1>1. getHeader(p) = Header
  <2>1. Header = <<Header[1], Bits(7), D_SIZE>>
    BY HeaderValues
  <2>2. p[1] = Header[1] /\ p[2] = Bits(7) /\ p[3] = D_SIZE
    BY DEF PacketIs
  <2> DEFINE h == Header
             h1 == h[1]
  <2> HIDE DEF h1, h
  <2>3. h = <<h1, Bits(7), D_SIZE>> /\ p[1] = h1
    BY <2>1, <2>2 DEF h, h1
  <2>4. getHeader(p) = h
    BY <2>2, <2>3 DEF getHeader
  <2> QED
    BY <2>4 DEF h
<1>2. /\ p \in Seq(SUBSET Nat) /\ Len(p) = 6
      /\ p[4] = Bits(1) /\ p[5] = Bits(2) /\ p[6] = pointer
  BY DEF PacketIs
<1> DEFINE u == SubSeq(p, 4, Len(p))
<1>3. \A i \in 4 .. 6 : p[i] \in SUBSET Nat
  <2>1. \A i \in 4 .. 6 : i \in 1 .. Len(p)
    BY <1>2
  <2> QED
    BY <1>2, <2>1, ElementOfSeq
<1>4. u \in Seq(SUBSET Nat) /\ Len(u) = 3 /\ \A i \in 1 .. 3 : u[i] = p[4 + i - 1]
  <2>1. Len(p) - 4 + 1 = 3 /\ 4 <= Len(p) /\ Len(p) \in Int
    BY <1>2
  <2> QED
    BY <1>2, <1>3, <2>1, SubSeqProperties
<1> HIDE DEF u
<1>5. /\ 1 \in 1 .. 3 /\ 2 \in 1 .. 3 /\ 3 \in 1 .. 3
      /\ 4 + 1 - 1 = 4 /\ 4 + 2 - 1 = 5 /\ 4 + 3 - 1 = 6
  OBVIOUS
<1>6. u[1] = Bits(1) /\ u[2] = Bits(2) /\ u[3] = pointer
  BY <1>2, <1>4, <1>5
<1>7. u = <<Bits(1), Bits(2), pointer>>
  BY <1>4, <1>6
<1> QED
  BY <1>1, <1>4, <1>7 DEF u, getPayload

\* A sequence whose last element is replaced.
LEMMA ReplaceLast ==
  ASSUME NEW S, NEW p \in Seq(S), NEW n \in Nat \ {0}, Len(p) = n, NEW e \in S, NEW u,
         u = [p EXCEPT ![n] = e]
  PROVE  /\ u \in Seq(S) /\ Len(u) = n /\ u[n] = e
         /\ \A i \in 1 .. n - 1 : u[i] = p[i]
<1>1. p \in [1 .. n -> S]
  BY LenProperties
<1>2. u \in [1 .. n -> S] /\ u[n] = e /\ \A i \in 1 .. n - 1 : u[i] = p[i]
  BY <1>1
<1>3. u \in Seq(S) /\ Len(u) = n
  BY <1>2
<1> QED
  BY <1>2, <1>3

\* The tile a packet is sent to, and the one that the Transceiver computes.
LEMMA HeaderNode ==
  ASSUME args \in [rank : Sender, type : Type, to : NodeId, return_to : NodeId]
  PROVE  /\ node(Header) = Wrap(args.to)
         /\ Wrap(args.to) \in Nat /\ Wrap(args.to) < 65536
         /\ args.to % 65536 # 0 => Wrap(args.to) \in 1 .. Size * NServices
         /\ args.to % 65536 # 0 => transmit_dest(Header) = Wrap(args.to)
         /\ args.to % 65536 = 0 /\ Size * NServices > 1 => Wrap(args.to) = 0
         /\ transmit_dest(Header) \in 1 .. Size * NServices
<1>1. args.to \in Nat /\ getTo(Header) = Low(Bits(args.to), 16)
  BY Args, HeaderValues
<1>2. Value(getTo(Header)) = args.to % 65536
  BY <1>1, LowBits
<1> DEFINE id == args.to
           h == Header
<1> HIDE DEF id, h
<1>3. id \in Nat /\ Value(getTo(h)) = id % 65536
  BY <1>1, <1>2 DEF id, h
<1>4. /\ node(h) = Wrap(id) /\ Wrap(id) \in Nat /\ Wrap(id) < 65536
      /\ id % 65536 # 0 => Wrap(id) \in 1 .. Size * NServices
      /\ id % 65536 # 0 => transmit_dest(h) = Wrap(id)
      /\ id % 65536 = 0 /\ Size * NServices > 1 => Wrap(id) = 0
      /\ transmit_dest(h) \in 1 .. Size * NServices
  BY <1>3, NodeIsWrap
<1> QED
  BY <1>4 DEF id, h

\* The same tile in the receiving thread.
LEMMA SameTile ==
  ASSUME NEW header
  PROVE  receiver_node_id(header) = node(header) /\ service_id(header) = node(header)
BY DEF node, receiver_node_id, service_id

\* What is in the header of the answer, and where it goes.
LEMMA AnswerValues ==
  ASSUME args \in [rank : Sender, type : Type, to : NodeId, return_to : NodeId]
  PROVE  /\ getPacket_type(AnswerHeader(Header)) = Bits(P_DACK)
         /\ getReturn_to(AnswerHeader(Header)) = Bits(Wrap(args.to))
         /\ node(AnswerHeader(Header)) = Wrap(args.return_to)
         /\ AnswerHeader(Header) \in Seq(SUBSET Nat) /\ Len(AnswerHeader(Header)) = 3
         /\ \E word \in SUBSET Nat : AnswerHeader(Header) = <<word, Bits(7), Bits(0)>>
<1>1. args.return_to \in Nat /\ getReturn_to(Header) = Low(Bits(args.return_to), 16)
  BY Args, HeaderValues
<1> DEFINE a == AnswerHeader(Header)
           n == Wrap(args.to)
           type == Bits(P_DACK)
           prio == Bits(2)
           redir == Bits(3)
           length == Bits(1)
           to == getReturn_to(Header)
           return_to == Bits(n)
           ack_to == Bits(7)
           return_as == Bits(0)
<1>2. node(Header) = n /\ n \in Nat /\ n < 65536
  BY HeaderNode
<1>3. a = mkHeader(type, prio, redir, length, to, return_to, ack_to, return_as)
  <2>1. receiver_node_id(Header) = n
    BY <1>2, SameTile
  <2> QED
    BY <2>1, Zenon DEF AnswerHeader
<1>4. to \in SUBSET Nat
  BY <1>1, Words DEF Low
<1>5. return_to \in SUBSET Nat
  BY <1>2, Words
<1>6. /\ type \in SUBSET Nat /\ prio \in SUBSET Nat /\ redir \in SUBSET Nat
      /\ length \in SUBSET Nat /\ ack_to \in SUBSET Nat /\ return_as \in SUBSET Nat
  BY Words DEF P_DACK
<1>7. /\ IsWord(type) /\ IsWord(to) /\ IsWord(return_to)
      /\ IsWord(prio) /\ IsWord(redir) /\ IsWord(length)
  BY <1>4, <1>5, <1>6 DEF IsWord
<1>8. Low(type, 8) = type
  BY TypeBitsLow DEF P_DACK
<1>9. Low(return_to, 16) = return_to
  BY <1>2, AllBitsLow
<1>10. Value(Low(to, 16)) = args.return_to % 65536
  BY <1>1, LowBits
<1> HIDE DEF a, n, type, prio, redir, length, to, return_to, ack_to, return_as
<1>11. /\ IsWord(a[1]) /\ a[2] = ack_to /\ a[3] = return_as
       /\ getPacket_type(a) = Low(type, 8)
       /\ getTo(a) = Low(to, 16)
       /\ getReturn_to(a) = Low(return_to, 16)
  BY <1>3, <1>7, HeaderFields
<1>12. a = <<a[1], ack_to, return_as>>
  BY <1>3 DEF mkHeader
<1>13. /\ a \in Seq(SUBSET Nat) /\ Len(a) = 3
       /\ \E word \in SUBSET Nat : a = <<word, ack_to, return_as>>
  <2> DEFINE word == a[1]
  <2>1. word \in SUBSET Nat /\ a = <<word, ack_to, return_as>>
    BY <1>11, <1>12 DEF IsWord
  <2> HIDE DEF word
  <2>2. a \in Seq(SUBSET Nat) /\ Len(a) = 3
    BY <1>6, <2>1
  <2> QED
    BY <2>1, <2>2
<1>14. node(a) = Wrap(args.return_to)
  <2>1. Value(getTo(a)) = args.return_to % 65536
    BY <1>10, <1>11
  <2> DEFINE id == args.return_to
  <2> HIDE DEF id
  <2>2. id \in Nat /\ Value(getTo(a)) = id % 65536
    BY <1>1, <2>1 DEF id
  <2>3. node(a) = Wrap(id)
    BY <2>2, NodeIsWrap
  <2> QED
    BY <2>3 DEF id
<1>15. getPacket_type(a) = type /\ getReturn_to(a) = return_to
  BY <1>8, <1>9, <1>11
<1> QED
  BY <1>13, <1>14, <1>15 DEF a, n, type, return_to, ack_to, return_as

-----------------------------------------------------------------------------
(* The invariant *)

LEMMA MakeInv ==
  ASSUME Inv, Make
  PROVE  Inv'
<1>1. /\ args \in [rank : Sender, type : Type, to : NodeId, return_to : NodeId]
      /\ stage' = "made" /\ args' = args /\ packet' = mkPacket(Header, Payload)
      /\ at' = args'.rank
  BY DEF Inv, GivenOK, Make, Header
<1>2. Header' = Header /\ Header \in Seq(SUBSET Nat) /\ Len(Header) = 3
  BY <1>1, HeaderValues DEF Header
<1>3. /\ Payload \in Seq(SUBSET Nat) /\ Len(Payload) = 3
      /\ Payload[1] = Bits(1) /\ Payload[2] = Bits(2) /\ Payload[3] = Pointer
  <2>1. Bits(1) \in SUBSET Nat /\ Bits(2) \in SUBSET Nat /\ Pointer \in SUBSET Nat
    BY Words
  <2> QED
    BY <2>1, Triple DEF Payload
<1>4. Header[2] = Bits(7) /\ Header[3] = D_SIZE
  BY DEF Header, mkHeader
<1>5. PacketIs(packet, Pointer)'
  <2> DEFINE h == Header
             q == Payload
             p == packet'
  <2>1. /\ h \in Seq(SUBSET Nat) /\ Len(h) = 3 /\ q \in Seq(SUBSET Nat) /\ Len(q) = 3
        /\ p = h \o q
    BY <1>1, <1>2, <1>3 DEF mkPacket
  <2> DEFINE S == SUBSET Nat
  <2>2. h \in Seq(S) /\ Len(h) = 3 /\ q \in Seq(S) /\ p = h \o q
    BY <2>1
  <2> HIDE DEF h, q, p, S
  <2>3. /\ p \in Seq(S) /\ Len(p) = 6
        /\ \A i \in 1 .. 6 : p[i] = IF i <= 3 THEN h[i] ELSE q[i - 3]
    <3>1. /\ p \in Seq(S) /\ Len(p) = Len(h) + Len(q)
          /\ \A i \in 1 .. Len(h) + Len(q) :
               p[i] = IF i <= Len(h) THEN h[i] ELSE q[i - Len(h)]
      BY <2>2, ConcatProperties
    <3> QED
      BY <2>1, <3>1
  <2>4. p \in Seq(SUBSET Nat)
    BY <2>3 DEF S
  <2>5. p[1] = h[1] /\ p[2] = h[2] /\ p[3] = h[3]
    BY <2>3
  <2>6. p[4] = q[1] /\ p[5] = q[2] /\ p[6] = q[3]
    BY <2>3
  <2> QED
    BY <1>2, <1>3, <1>4, <2>4, <2>5, <2>6, <2>3 DEF p, h, q, PacketIs
<1> QED
  BY <1>1, <1>5 DEF Inv, PacketOK, GivenOK, SentOK, StoredOK, AnswerOK

LEMMA TransmitInv ==
  ASSUME Inv, Transmit
  PROVE  Inv'
<1>1. /\ args \in [rank : Sender, type : Type, to : NodeId, return_to : NodeId]
      /\ PacketIs(packet, Pointer) /\ at = args.rank
      /\ UNCHANGED <<args, packet, at>>
  BY DEF Inv, PacketOK, GivenOK, Transmit
<1>2. getHeader(packet) = Header /\ Header' = Header
  BY <1>1, PacketValues DEF Header
<1> DEFINE h == Header
           tile == transmit_dest(h)
<1> HIDE DEF h
<1>3. getHeader(packet) = h /\ h' = h
  BY <1>2 DEF h
<1>4. \/ to_rank(tile) = at /\ stage' = "stored" /\ stored' = tile
      \/ to_rank(tile) # at /\ stage' = "given"
  BY <1>3, Zenon DEF Transmit
<1>5. transmit_dest(h)' = tile /\ PacketIs(packet, Pointer)'
  BY <1>1, <1>2, <1>3 DEF PacketIs, transmit_dest
<1>6. CASE to_rank(tile) = at /\ stage' = "stored" /\ stored' = tile
  <2>1. StoredOK'
    BY <1>1, <1>3, <1>5, <1>6, Zenon DEF StoredOK, h, to_rank
  <2> QED
    BY <1>1, <1>6, <2>1 DEF Inv, PacketOK, GivenOK, SentOK, AnswerOK
<1>7. CASE to_rank(tile) # at /\ stage' = "given"
  <2>1. (to_rank(transmit_dest(Header)) # args.rank)'
    BY <1>1, <1>3, <1>5, <1>7, Zenon DEF h, to_rank
  <2> QED
    BY <1>1, <1>5, <1>7, <2>1 DEF Inv, PacketOK, GivenOK, SentOK, StoredOK, AnswerOK
<1> QED
  BY <1>4, <1>6, <1>7

LEMMA SendInv ==
  ASSUME Inv, Send
  PROVE  Inv'
<1>1. /\ args \in [rank : Sender, type : Type, to : NodeId, return_to : NodeId]
      /\ PacketIs(packet, Pointer) /\ to_rank(transmit_dest(Header)) # args.rank
      /\ stage' = "sent" /\ args' = args /\ packet' = packet
  BY DEF Inv, PacketOK, GivenOK, Send
<1>2. getHeader(packet) = Header /\ Header' = Header
  BY <1>1, PacketValues DEF Header
<1>3. dest' = node(Header) /\ at' = to_rank(node(Header))
  BY <1>2 DEF Send
<1>4. getPacket_type(Header) = Bits(P_DRESP) <=> IsDresp
  BY <1>1, HeaderValues
<1>5. tag' = Tag
  BY <1>2, <1>3, <1>4, Zenon DEF Send, Tag
<1>6. Tag' = Tag /\ PacketIs(packet, Pointer)'
  BY <1>1, <1>2 DEF Tag, IsDresp, PacketIs
<1>7. SentOK' /\ GivenOK'
  BY <1>1, <1>2, <1>3, <1>5, <1>6 DEF SentOK, GivenOK
<1> QED
  BY <1>1, <1>6, <1>7 DEF Inv, PacketOK, StoredOK, AnswerOK

LEMMA ReceiveInv ==
  ASSUME Inv, Receive
  PROVE  Inv'
<1>1. /\ args \in [rank : Sender, type : Type, to : NodeId, return_to : NodeId]
      /\ PacketIs(packet, Pointer) /\ dest = node(Header) /\ tag = Tag
      /\ at = to_rank(node(Header)) /\ to_rank(transmit_dest(Header)) # args.rank
      /\ stage' = "received" /\ args' = args /\ dest' = dest /\ tag' = tag /\ at' = at
  BY DEF Inv, PacketOK, GivenOK, SentOK, Receive
<1>2. getHeader(packet) = Header /\ Header' = Header
  BY <1>1, PacketValues DEF Header
<1>3. getPacket_type(Header) = Bits(P_DRESP) <=> IsDresp
  BY <1>1, HeaderValues
<1>4. expected' = Tag
  BY <1>2, <1>3, SameTile, Zenon DEF Receive, Tag
<1>5. packet' = IF IsDresp THEN [packet EXCEPT ![Len(packet)] = NewPointer] ELSE packet
  BY <1>2, <1>3, Zenon DEF Receive
<1>6. Tag' = Tag /\ IsDresp' = IsDresp
  BY <1>1, <1>2 DEF Tag, IsDresp
<1>7. PacketIs(packet, IF IsDresp THEN NewPointer ELSE Pointer)'
  <2>1. CASE ~IsDresp
    BY <1>1, <1>2, <1>5, <1>6, <2>1 DEF PacketIs
  <2>2. CASE IsDresp
    <3> DEFINE p == packet
               e == NewPointer
               n == Len(p)
               u == [p EXCEPT ![n] = e]
               S == SUBSET Nat
    <3>1. p \in Seq(S) /\ n = 6 /\ e \in S
      BY <1>1, Words DEF PacketIs
    <3>2. packet' = u
      BY <1>5, <2>2
    <3> HIDE DEF p, e, n, u, S
    <3>3. /\ p \in Seq(S) /\ n \in Nat \ {0} /\ Len(p) = n /\ e \in S
          /\ u = [p EXCEPT ![n] = e]
      BY <3>1 DEF n, u
    <3>4. u \in Seq(S) /\ Len(u) = n /\ u[n] = e /\ \A i \in 1 .. n - 1 : u[i] = p[i]
      BY <3>3, ReplaceLast
    <3>5. /\ Len(u) = 6 /\ u[6] = e
          /\ u[1] = p[1] /\ u[2] = p[2] /\ u[3] = p[3] /\ u[4] = p[4] /\ u[5] = p[5]
      BY <3>1, <3>4
    <3>6. u \in Seq(SUBSET Nat)
      BY <3>4 DEF S
    <3> QED
      BY <1>1, <1>2, <1>6, <2>2, <3>2, <3>5, <3>6 DEF p, e, PacketIs
  <2> QED
    BY <2>1, <2>2
<1>8. SentOK' /\ GivenOK'
  BY <1>1, <1>2, <1>4, <1>6 DEF SentOK, GivenOK
<1> QED
  BY <1>1, <1>7, <1>8 DEF Inv, PacketOK, StoredOK, AnswerOK

LEMMA StoreInv ==
  ASSUME Inv, Store
  PROVE  Inv'
<1>1. /\ args \in [rank : Sender, type : Type, to : NodeId, return_to : NodeId]
      /\ at = to_rank(node(Header))
      /\ stage' = "stored" /\ args' = args /\ at' = at
      /\ stored' = service_id(getHeader(packet))
  BY DEF Inv, SentOK, Store
<1>2. PICK pointer : PacketIs(packet, pointer)
  BY DEF Inv, PacketOK, Store
<1>3. getHeader(packet) = Header /\ Header' = Header
  BY <1>1, <1>2, PacketValues DEF Header
<1>4. stored' = node(Header)
  BY <1>1, <1>3, SameTile
<1>5. StoredOK'
  BY <1>1, <1>3, <1>4 DEF StoredOK
<1> QED
  BY <1>1, <1>5 DEF Inv, PacketOK, GivenOK, SentOK, AnswerOK

LEMMA AnswerInv ==
  ASSUME Inv, Answer
  PROVE  Inv'
<1>1. /\ args \in [rank : Sender, type : Type, to : NodeId, return_to : NodeId]
      /\ stage' = "answered" /\ args' = args
  BY DEF Inv, Answer
<1>2. PICK pointer : PacketIs(packet, pointer)
  BY DEF Inv, PacketOK, Answer
<1>3. getHeader(packet) = Header /\ Header' = Header
  BY <1>1, <1>2, PacketValues DEF Header
<1>4. packet' = AnswerHeader(Header) \o <<Bits(999)>>
  BY <1>3 DEF Answer, mkPacket
<1>5. getHeader(packet') = AnswerHeader(Header)
  <2>1. PICK word \in SUBSET Nat : AnswerHeader(Header) = <<word, Bits(7), Bits(0)>>
    BY <1>1, AnswerValues
  <2> DEFINE S == SUBSET Nat
             a == AnswerHeader(Header)
             x == Bits(7)
             y == Bits(0)
             w == Bits(999)
             q == <<w>>
  <2>2. word \in S /\ x \in S /\ y \in S /\ w \in S
    BY <2>1, Words
  <2>3. packet' = a \o q /\ a = <<word, x, y>>
    BY <1>4, <2>1
  <2> HIDE DEF S, a, x, y, w
  <2>4. q \in Seq(S)
    BY <2>2
  <2>5. a \in Seq(S) /\ Len(a) = 3 /\ a[1] = word /\ a[2] = x /\ a[3] = y
    BY <2>2, <2>3, Triple
  <2> HIDE DEF q
  <2>6. getHeader(packet') = <<a[1], a[2], a[3]>>
    <3>1. packet' = a \o q /\ Len(a) = 3 /\ a \in Seq(S)
      BY <2>3, <2>5
    <3> QED
      BY <2>4, <3>1, PacketParts
  <2> QED
    BY <2>3, <2>5, <2>6 DEF a
<1>6. dest' = node(AnswerHeader(Header))
  BY <1>5 DEF Answer
<1>7. AnswerHeader(Header)' = AnswerHeader(Header)
  BY <1>3 DEF AnswerHeader
<1>8. AnswerOK'
  BY <1>5, <1>6, <1>7 DEF AnswerOK, getHeader
<1> QED
  BY <1>1, <1>8 DEF Inv, PacketOK, GivenOK, SentOK, StoredOK

\* At every stage the packet and the tags are those of Header.
THEOREM CodecInvHolds == Spec => []Inv
<1>1. Init => Inv
  BY DEF Init, Inv, PacketOK, GivenOK, SentOK, StoredOK, AnswerOK
<1>2. Inv /\ [Next]_vars => Inv'
  <2> SUFFICES ASSUME Inv, [Next]_vars PROVE Inv'
    OBVIOUS
  <2>1. CASE UNCHANGED vars
    BY <2>1 DEF vars, Inv, PacketOK, PacketIs, GivenOK, SentOK, StoredOK, AnswerOK, Header,
       Tag, IsDresp
  <2> QED
    BY <2>1, MakeInv, TransmitInv, SendInv, ReceiveInv, StoreInv, AnswerInv DEF Next
<1> QED
  BY <1>1, <1>2, PTL DEF Spec

-----------------------------------------------------------------------------
(* The properties *)

LEMMA InvFieldsKept ==
  ASSUME Inv
  PROVE  FieldsKept
<1> SUFFICES ASSUME stage \in {"made", "given", "sent", "received"} PROVE FieldsKept
  BY DEF FieldsKept
<1> DEFINE pointer == IF stage = "received" /\ IsDresp THEN NewPointer ELSE Pointer
           payload == getPayload(packet)
           answer == AnswerHeader(Header)
           new == setHeader(packet, answer)
<1>1. args \in [rank : Sender, type : Type, to : NodeId, return_to : NodeId] /\ PacketIs(packet, pointer)
  BY DEF Inv, PacketOK
<1>2. /\ getHeader(packet) = Header /\ payload = <<Bits(1), Bits(2), pointer>>
      /\ payload \in Seq(SUBSET Nat)
  BY <1>1, PacketValues
<1>3. getPacket_type(Header) = Low(Bits(args.type), 8)
  BY <1>1, Args, HeaderValues, TypeBitsLow
<1>4. /\ getTo(Header) = Low(Bits(args.to), 16)
      /\ getReturn_to(Header) = Low(Bits(args.return_to), 16)
      /\ getReturn_as(Header) = D_SIZE
  BY <1>1, HeaderValues
<1>5. getPayload(new) = payload /\ getHeader(new) = answer
  <2>1. PICK word \in SUBSET Nat : answer = <<word, Bits(7), Bits(0)>>
    BY <1>1, AnswerValues
  <2>2. new = answer \o payload
    BY DEF setHeader
  <2> DEFINE S == SUBSET Nat
             x == Bits(7)
             y == Bits(0)
  <2>3. word \in S /\ x \in S /\ y \in S /\ payload \in Seq(S)
    BY <1>2, <2>1, Words
  <2>4. answer = <<word, x, y>>
    BY <2>1
  <2> HIDE DEF S, x, y, payload, answer, new
  <2>5. /\ answer \in Seq(S) /\ Len(answer) = 3
        /\ answer[1] = word /\ answer[2] = x /\ answer[3] = y
    BY <2>3, <2>4, Triple
  <2>6. getHeader(new) = <<answer[1], answer[2], answer[3]>> /\ getPayload(new) = payload
    <3>1. answer \in Seq(S) /\ Len(answer) = 3
      BY <2>5
    <3> QED
      BY <2>2, <2>3, <3>1, PacketParts
  <2> QED
    BY <2>4, <2>5, <2>6
<1> HIDE DEF pointer
<1>6. /\ getPayload(packet) = <<Bits(1), Bits(2), pointer>>
      /\ getPayload(setHeader(packet, AnswerHeader(getHeader(packet)))) = getPayload(packet)
      /\ getHeader(setHeader(packet, AnswerHeader(getHeader(packet))))
           = AnswerHeader(getHeader(packet))
  BY <1>2, <1>5, Zenon
<1> QED
  BY <1>2, <1>3, <1>4, <1>6, Zenon DEF FieldsKept, pointer

LEMMA InvDestInRange ==
  ASSUME Inv
  PROVE  DestInRange
<1> DEFINE id == args.to
           tile == Wrap(id)
           from == transmit_dest(Header)
           N == Size * NServices
<1>1. args \in [rank : Sender, type : Type, to : NodeId, return_to : NodeId]
  BY DEF Inv
<1>2. /\ node(Header) = tile
      /\ id % 65536 # 0 => tile \in 1 .. N /\ from = tile
      /\ id % 65536 = 0 /\ N > 1 => tile = 0
      /\ from \in 1 .. N /\ N \in Nat \ {0}
  BY <1>1, HeaderNode, TilesExist
<1>3. \A t \in 1 .. N : to_rank(t) \in 0 .. Size - 1 /\ t \in Nodes(to_rank(t))
  BY RankExists
<1>4. args.rank \in 0 .. Size - 1
  BY <1>1, Args
<1>5. stage \in {"sent", "received"} =>
        /\ dest = tile /\ at = to_rank(tile)
        /\ to_rank(from) # args.rank
  BY <1>2 DEF Inv, SentOK, GivenOK
<1>6. stage = "stored" =>
        \/ stored = from /\ at = to_rank(from)
        \/ stored = tile /\ at = to_rank(tile)
  BY <1>2 DEF Inv, StoredOK
<1>7. stage = "sent" => transmit_dest(getHeader(packet)) = from
  <2>1. stage = "sent" => PacketIs(packet, Pointer)
    BY DEF Inv, PacketOK
  <2>2. stage = "sent" => getHeader(packet) = Header
    BY <1>1, <2>1, PacketValues
  <2> QED
    BY <2>2
<1>8. stage = "sent" => N > 1
  <2> SUFFICES ASSUME stage = "sent", N = 1 PROVE FALSE
    BY <1>2
  <2>1. Size = 1
    <3>1. \A a, b \in Nat \ {0} : a * b = 1 => a = 1
      BY Z3
    <3> QED
      BY <3>1, CodecAssumption
  <2>2. to_rank(from) \in 0 .. Size - 1
    BY <1>2, <1>3
  <2> QED
    BY <1>4, <1>5, <2>1, <2>2
<1> HIDE DEF id, tile, from, N
<1>9. id % 65536 # 0 =>
        /\ stage \in {"sent", "received"} =>
             dest = tile /\ at \in 0 .. Size - 1 /\ at # args.rank
        /\ stage = "stored" => stored = tile /\ stored \in Nodes(at)
  <2> SUFFICES ASSUME id % 65536 # 0
               PROVE  /\ stage \in {"sent", "received"} =>
                           dest = tile /\ at \in 0 .. Size - 1 /\ at # args.rank
                      /\ stage = "stored" => stored = tile /\ stored \in Nodes(at)
    OBVIOUS
  <2>1. from = tile /\ to_rank(tile) \in 0 .. Size - 1 /\ tile \in Nodes(to_rank(tile))
    BY <1>2, <1>3
  <2>2. stage \in {"sent", "received"} =>
          dest = tile /\ at \in 0 .. Size - 1 /\ at # args.rank
    BY <1>5, <2>1
  <2>3. stage = "stored" => stored = tile /\ stored \in Nodes(at)
    BY <1>6, <2>1
  <2> QED
    BY <2>2, <2>3
<1>10. stage = "sent" => (dest = from <=> id % 65536 # 0)
  <2>1. from # 0
    BY <1>2
  <2> QED
    BY <1>2, <1>5, <1>8, <2>1
<1> QED
  <2>1. stage = "sent" => (dest = transmit_dest(getHeader(packet)) <=> id % 65536 # 0)
    BY <1>7, <1>10
  <2> QED
    BY <1>9, <2>1 DEF DestInRange, id, tile

\* The tag of an array, and what it is made from.
LEMMA ArrayTag ==
  ASSUME args \in [rank : Sender, type : Type, to : NodeId, return_to : NodeId], IsDresp
  PROVE  /\ get_tag_type(Tag) = Bits(tag_dresp_data)
         /\ get_receiver_id(Tag) = Low(Bits(node(Header)), 14)
         /\ get_sender_id(Tag) = Low(Bits(args.return_to), 14)
         /\ 1 \in Tag
<1> DEFINE type == Bits(tag_dresp_data)
           receiver == Bits(node(Header))
           all == Bits(args.return_to)
           sender == Low(all, 16)
           t == Tag
<1>1. t = create_tag(type, receiver, sender)
  BY HeaderValues DEF Tag
<1>2. all \in SUBSET Nat
  BY Args, Words
<1>3. node(Header) \in Nat
  BY HeaderNode
<1>4. type \in SUBSET Nat /\ receiver \in SUBSET Nat /\ sender \in SUBSET Nat
  BY <1>2, <1>3, Words DEF Low, tag_dresp_data
<1>5. type = {1}
  BY TagTypes
<1> HIDE DEF t, type, receiver, all, sender
<1>6. /\ get_tag_type(t) = Low(type, 4)
      /\ get_receiver_id(t) = Low(receiver, 14)
      /\ get_sender_id(t) = Low(sender, 14)
      /\ 1 \in t <=> 1 \in type
  <2>1. get_tag_type(t) = Low(type, 4) /\ get_receiver_id(t) = Low(receiver, 14)
    BY <1>1, <1>4, TagFields
  <2>2. get_sender_id(t) = Low(sender, 14)
    BY <1>1, <1>4, TagFields
  <2>3. 1 \in t <=> 1 \in type
    BY <1>1, <1>4, TagFields
  <2> QED
    BY <2>1, <2>2, <2>3
<1>7. Low(type, 4) = type /\ 1 \in type
  BY <1>5 DEF Low
<1>8. Low(sender, 14) = Low(all, 14)
  BY DEF sender, Low
<1> QED
  BY <1>6, <1>7, <1>8 DEF t, type, receiver, all

LEMMA InvTagsAgree ==
  ASSUME Inv
  PROVE  TagsAgree
<1> SUFFICES ASSUME stage = "received" PROVE TagsAgree
  BY DEF TagsAgree
<1>1. /\ args \in [rank : Sender, type : Type, to : NodeId, return_to : NodeId]
      /\ tag = Tag /\ expected = Tag
  BY DEF Inv, SentOK
<1>2. ASSUME IsDresp PROVE tag # Bits(tag_default)
  <2>1. 1 \in Tag
    BY <1>1, <1>2, ArrayTag
  <2> QED
    BY <1>1, <2>1, TagTypes
<1>3. ~IsDresp => tag = Bits(tag_default)
  BY <1>1 DEF Tag
<1> QED
  BY <1>1, <1>2, <1>3 DEF TagsAgree

LEMMA InvTagTellsApart ==
  ASSUME Inv
  PROVE  TagTellsApart
BY ArrayTag DEF Inv, SentOK, TagTellsApart

LEMMA InvAnswerComesBack ==
  ASSUME Inv
  PROVE  AnswerComesBack
BY AnswerValues DEF Inv, AnswerOK, AnswerComesBack

(* What was written into a packet is what is read from it, for every type, *)
(* To and Return_to: no field runs over into another.                      *)
THEOREM FieldsKeptCorrect == Spec => []FieldsKept
<1>1. Inv => FieldsKept
  BY InvFieldsKept
<1> QED
  BY <1>1, CodecInvHolds, PTL

(* Transceiver, bridge and receiving thread agree on the tile of a packet, *)
(* for any numbers of processes and tiles, unless its To field is 0.       *)
THEOREM DestInRangeCorrect == Spec => []DestInRange
<1>1. Inv => DestInRange
  BY InvDestInRange
<1> QED
  BY <1>1, CodecInvHolds, PTL

(* Sender and receiver make the same tag, and no array has that of a       *)
(* packet.                                                                 *)
THEOREM TagsAgreeCorrect == Spec => []TagsAgree
<1>1. Inv => TagsAgree
  BY InvTagsAgree
<1> QED
  BY <1>1, CodecInvHolds, PTL

(* A tag holds 14 bits of the receiver and of the sender.                  *)
THEOREM TagTellsApartCorrect == Spec => []TagTellsApart
<1>1. Inv => TagTellsApart
  BY InvTagTellsApart
<1> QED
  BY <1>1, CodecInvHolds, PTL

(* The P_DACK answer goes to the tile in Return_to and names the tile that *)
(* got the packet.                                                         *)
THEOREM AnswerComesBackCorrect == Spec => []AnswerComesBack
<1>1. Inv => AnswerComesBack
  BY InvAnswerComesBack
<1> QED
  BY <1>1, CodecInvHolds, PTL

============================================================================
