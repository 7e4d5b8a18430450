----------------------------- MODULE CodecProofs -----------------------------
(***************************************************************************)
(* What holds of the codecs for every sequence of bytes.  base16 comes     *)
(* back whole; of base64 a group of one to three bytes does, and the two   *)
(* length functions agree with what is written; of base85 a group of one   *)
(* to four bytes does.                                                     *)
(***************************************************************************)
EXTENDS Codecs, SequenceTheorems, TLAPS

(***************************************************************************)
(* The digit that b16str writes for a half byte is one that base16_decode  *)
(* takes, and dhex gives the half byte back.                               *)
(***************************************************************************)
LEMMA HexDigit ==
  ASSUME NEW d \in 0 .. 15
  PROVE  /\ b16str(d) \in Nat
         /\ is_base16(b16str(d))
         /\ dhex(b16str(d)) = d
<1>1. CASE d < 10
  <2>1. b16str(d) = 48 + d
    BY <1>1 DEF b16str
  <2>2. b16str(d) \in 48 .. 57
    BY <2>1, <1>1
  <2>3. dhex(b16str(d)) = b16str(d) - 48
    BY <2>2 DEF dhex
  <2> QED
    BY <2>1, <2>2, <2>3 DEF is_base16
<1>2. CASE ~(d < 10)
  <2>1. b16str(d) = 55 + d
    BY <1>2 DEF b16str
  <2>2. b16str(d) \in 65 .. 70
    BY <2>1, <1>2
  <2>3. dhex(b16str(d)) = b16str(d) - 55
    BY <2>2 DEF dhex
  <2> QED
    BY <2>1, <2>2, <2>3 DEF is_base16
<1> QED
  BY <1>1, <1>2

(* A byte is its two halves. *)
LEMMA HalfBytes ==
  ASSUME NEW x \in Byte
  PROVE  /\ x \div 16 \in 0 .. 15
         /\ x % 16 \in 0 .. 15
         /\ 16 * (x \div 16) + (x % 16) = x
BY DEF Byte

(***************************************************************************)
(* With room for two characters a byte, base16_encode writes for the i-th  *)
(* byte its upper half and then its lower half.                            *)
(***************************************************************************)
LEMMA Base16Text ==
  ASSUME NEW s \in Seq(Byte), s # << >>,
         NEW text, text = base16_encode(s, BASE16_LENGTH(Len(s)))
  PROVE  /\ text.ok
         /\ text.val = [k \in 1 .. 2 * Len(s) |->
                          IF k % 2 = 1 THEN b16str(s[(k + 1) \div 2] \div 16)
                                       ELSE b16str(s[k \div 2] % 16)]
<1>1. Len(s) \in Nat /\ Len(s) > 0
  OBVIOUS
<1>2. BASE16_LENGTH(Len(s)) = 2 * Len(s)
  BY <1>1 DEF BASE16_LENGTH
<1>3. Least(Len(s), BASE16_LENGTH(Len(s)) \div 2) = Len(s)
  BY <1>1, <1>2 DEF Least
<1>4. BASE16_LENGTH(Len(s)) # 0
  BY <1>1, <1>2
<1> QED
  BY <1>3, <1>4 DEF base16_encode, Ok

(***************************************************************************)
(* Whatever is written in base16 is read back byte by byte: the length     *)
(* that base16_decoded_len computes is right and base16_decode, given that *)
(* much room, returns what base16_encode was given.                        *)
(***************************************************************************)
THEOREM Base16ComesBack ==
  ASSUME NEW s \in Seq(Byte), s # << >>
  PROVE  LET text == base16_encode(s, BASE16_LENGTH(Len(s)))
         IN  /\ text.ok
             /\ base16_decoded_len(text.val) = Len(s)
             /\ base16_decode(text.val, base16_decoded_len(text.val)) = Ok(s)
<1> DEFINE text == base16_encode(s, BASE16_LENGTH(Len(s)))
           t == text.val
           n == Len(s)
<1>1. n \in Nat /\ n > 0
  OBVIOUS
<1>2. /\ text.ok
      /\ t = [k \in 1 .. 2 * n |-> IF k % 2 = 1 THEN b16str(s[(k + 1) \div 2] \div 16)
                                                ELSE b16str(s[k \div 2] % 16)]
  BY Base16Text
<1> HIDE DEF text
<1>3. ASSUME NEW i \in 1 .. n
      PROVE  /\ t[2 * i - 1] = b16str(s[i] \div 16)
             /\ t[2 * i] = b16str(s[i] % 16)
  <2>1. 2 * i - 1 \in 1 .. 2 * n /\ 2 * i \in 1 .. 2 * n
    BY <1>1
  <2>2. (2 * i - 1) % 2 = 1 /\ ((2 * i - 1) + 1) \div 2 = i
    OBVIOUS
  <2>3. (2 * i) % 2 # 1 /\ (2 * i) \div 2 = i
    OBVIOUS
  <2> HIDE DEF n, t
  <2> QED
    BY <1>2, <2>1, <2>2, <2>3
<1>4. \A i \in 1 .. n : s[i] \in Byte
  BY <1>1
<1>5. t \in Seq(Nat) /\ Len(t) = 2 * n
  <2>1. ASSUME NEW k \in 1 .. 2 * n PROVE t[k] \in Nat
    <3>1. PICK i \in 1 .. n : k = 2 * i - 1 \/ k = 2 * i
      <4>1. (k + 1) \div 2 \in 1 .. n
        BY <1>1
      <4>2. k = 2 * ((k + 1) \div 2) - 1 \/ k = 2 * ((k + 1) \div 2)
        BY <1>1
      <4> QED
        BY <4>1, <4>2
    <3>2. b16str(s[i] \div 16) \in Nat /\ b16str(s[i] % 16) \in Nat
      BY <1>4, HalfBytes, HexDigit
    <3> HIDE DEF t, n
    <3> QED
      BY <3>1, <3>2, <1>3
  <2>2. t \in [1 .. 2 * n -> Nat] /\ 2 * n \in Nat
    <3> HIDE DEF t, n
    <3> QED
      BY <2>1, <1>1, <1>2
  <2> HIDE DEF t, n
  <2>3. t \in Seq(Nat)
    BY <2>2, SeqDef
  <2> QED
    BY <2>2, <2>3, LenProperties
<1>6. base16_decoded_len(t) = n /\ t # << >>
  <2> HIDE DEF t, n
  <2> QED
    BY <1>1, <1>5 DEF base16_decoded_len
<1>7. \A k \in 1 .. 2 * n : is_base16(t[k])
  <2> TAKE k \in 1 .. 2 * n
  <2>1. PICK i \in 1 .. n : k = 2 * i - 1 \/ k = 2 * i
    <3>1. (k + 1) \div 2 \in 1 .. n
      BY <1>1
    <3>2. k = 2 * ((k + 1) \div 2) - 1 \/ k = 2 * ((k + 1) \div 2)
      BY <1>1
    <3> QED
      BY <3>1, <3>2
  <2>2. is_base16(b16str(s[i] \div 16)) /\ is_base16(b16str(s[i] % 16))
    BY <1>4, HalfBytes, HexDigit
  <2> HIDE DEF t, n
  <2> QED
    BY <2>1, <2>2, <1>3
<1>8. \A i \in 1 .. n : 16 * dhex(t[2 * i - 1]) + dhex(t[2 * i]) = s[i]
  <2> TAKE i \in 1 .. n
  <2>1. dhex(b16str(s[i] \div 16)) = s[i] \div 16 /\ dhex(b16str(s[i] % 16)) = s[i] % 16
    BY <1>4, HalfBytes, HexDigit
  <2>2. 16 * (s[i] \div 16) + (s[i] % 16) = s[i]
    BY <1>4, HalfBytes
  <2> HIDE DEF t, n
  <2> QED
    BY <2>1, <2>2, <1>3
<1>9. base16_decode(t, n) = Ok(s)
  <2>1. Least(Len(t) \div 2, n) = n
    <3> HIDE DEF t, n
    <3> QED
      BY <1>1, <1>5 DEF Least
  <2>2. base16_decode(t, n) = Ok([k \in 1 .. n |-> 16 * dhex(t[2 * k - 1]) + dhex(t[2 * k])])
    <3> HIDE DEF t, n
    <3> QED
      BY <2>1, <1>6, <1>7 DEF base16_decode
  <2>3. s = [k \in 1 .. n |-> s[k]]
    OBVIOUS
  <2> HIDE DEF t
  <2> QED
    BY <2>2, <2>3, <1>8
<1> QED
  BY <1>2, <1>6, <1>9 DEF text
-----------------------------------------------------------------------------
(***************************************************************************)
(* The character that b64str writes for six bits is in range, is not the   *)
(* padding, and to_idx gives the six bits back.                            *)
(***************************************************************************)
LEMMA Sextet ==
  ASSUME NEW d \in 0 .. 63
  PROVE  /\ b64str(d) \in Nat
         /\ in_range64(b64str(d))
         /\ b64str(d) # PAD
         /\ to_idx(b64str(d)) = d
<1>1. CASE d \in 0 .. 25
  <2>1. b64str(d) = 65 + d /\ b64str(d) \in 65 .. 90
    BY <1>1 DEF b64str
  <2>2. to_idx(b64str(d)) = b64str(d) - 65
    BY <2>1 DEF to_idx
  <2> QED
    BY <2>1, <2>2 DEF in_range64, PAD
<1>2. CASE d \in 26 .. 51
  <2>1. b64str(d) = 71 + d /\ b64str(d) \in 97 .. 122
    BY <1>2 DEF b64str
  <2>2. to_idx(b64str(d)) = b64str(d) - 71
    BY <2>1 DEF to_idx
  <2> QED
    BY <2>1, <2>2 DEF in_range64, PAD
<1>3. CASE d \in 52 .. 61
  <2>1. b64str(d) = d - 4 /\ b64str(d) \in 48 .. 57
    BY <1>3 DEF b64str
  <2>2. to_idx(b64str(d)) = b64str(d) + 4
    BY <2>1 DEF to_idx
  <2> QED
    BY <2>1, <2>2 DEF in_range64, PAD
<1>4. CASE d = 62
  BY <1>4 DEF b64str, to_idx, in_range64, PAD
<1>5. CASE d = 63
  BY <1>5 DEF b64str, to_idx, in_range64, PAD
<1> QED
  BY <1>1, <1>2, <1>3, <1>4, <1>5

(* The padding is in range and counts as no bits. *)
LEMMA PadIsZero == in_range64(PAD) /\ to_idx(PAD) = 0
BY DEF in_range64, to_idx, PAD

(* Six bits at a time, and back. *)
LEMMA SixBits ==
  ASSUME NEW x \in Byte, NEW y \in Byte, NEW z \in Byte
  PROVE  /\ x \div 4 \in 0 .. 63
         /\ (x % 4) * 16 \in 0 .. 63
         /\ (x % 4) * 16 + y \div 16 \in 0 .. 63
         /\ (y % 16) * 4 \in 0 .. 63
         /\ (y % 16) * 4 + z \div 64 \in 0 .. 63
         /\ z % 64 \in 0 .. 63
         /\ (x \div 4) * 4 + ((x % 4) * 16) \div 16 = x
         /\ (x \div 4) * 4 + ((x % 4) * 16 + y \div 16) \div 16 = x
         /\ (((x % 4) * 16 + y \div 16) % 16) * 16 + ((y % 16) * 4) \div 4 = y
         /\ (((x % 4) * 16 + y \div 16) % 16) * 16
              + ((y % 16) * 4 + z \div 64) \div 4 = y
         /\ (((y % 16) * 4 + z \div 64) % 4) * 64 + (z % 64) = z
BY SMTT(30) DEF Byte

(* The bytes of a quartet put one after the other. *)
LEMMA Joined ==
  ASSUME NEW x \in Byte, NEW y \in Byte, NEW z \in Byte
  PROVE  /\ <<x>> \o << >> \o << >> = <<x>>
         /\ <<x>> \o <<y>> \o << >> = <<x, y>>
         /\ <<x>> \o <<y>> \o <<z>> = <<x, y, z>>
<1>1. << >> \in Seq(Byte) /\ \A b \in Byte : <<b>> \in Seq(Byte)
  OBVIOUS
<1>2. <<x, y>> \in Seq(Byte) /\ <<x, y, z>> \in Seq(Byte)
  OBVIOUS
<1>3. <<x>> \o << >> = <<x>> /\ <<x, y>> \o << >> = <<x, y>>
  BY <1>1, <1>2, ConcatEmptySeq
<1>4. <<x>> \o <<y>> = <<x, y>>
  <2> DEFINE s == <<x>> \o <<y>>
  <2>1. /\ s \in Seq(Byte) /\ Len(s) = 2
        /\ \A i \in 1 .. 2 : s[i] = IF i <= 1 THEN <<x>>[i] ELSE <<y>>[i - 1]
    BY <1>1, ConcatProperties
  <2> HIDE DEF s
  <2>2. s[1] = x /\ s[2] = y
    BY <2>1
  <2>3. Len(<<x, y>>) = Len(s) /\ \A i \in 1 .. Len(s) : s[i] = <<x, y>>[i]
    BY <2>1, <2>2
  <2>4. s = <<x, y>>
    BY <1>2, <2>1, <2>3, SeqEqual
  <2> QED
    BY <2>4 DEF s
<1>5. <<x, y>> \o <<z>> = <<x, y, z>>
  <2> DEFINE s == <<x, y>> \o <<z>>
  <2>1. /\ s \in Seq(Byte) /\ Len(s) = 3
        /\ \A i \in 1 .. 3 : s[i] = IF i <= 2 THEN <<x, y>>[i] ELSE <<z>>[i - 2]
    BY <1>1, <1>2, ConcatProperties
  <2> HIDE DEF s
  <2>2. s[1] = x /\ s[2] = y /\ s[3] = z
    BY <2>1
  <2>3. Len(<<x, y, z>>) = Len(s) /\ \A i \in 1 .. Len(s) : s[i] = <<x, y, z>>[i]
    BY <2>1, <2>2
  <2>4. s = <<x, y, z>>
    BY <1>2, <2>1, <2>3, SeqEqual
  <2> QED
    BY <2>4 DEF s
<1> QED
  BY <1>3, <1>4, <1>5

(***************************************************************************)
(* decode_quartet returns every group of one, two or three bytes as it     *)
(* was before encode_quartet: the padding tells how many bytes there were, *)
(* and is never mistaken for bits.                                         *)
(***************************************************************************)
THEOREM QuartetComesBack ==
  ASSUME NEW g \in Seq(Byte), Len(g) \in 1 .. 3
  PROVE  decode_quartet(encode_quartet(g)) = Ok(g)
<1> DEFINE q == encode_quartet(g)
<1>1. CASE Len(g) = 1
  <2> DEFINE x == g[1]
  <2>1. x \in Byte /\ g = <<x>>
    BY <1>1
  <2>2. q = <<b64str(x \div 4), b64str((x % 4) * 16), PAD, PAD>>
    BY <1>1 DEF encode_quartet
  <2>3. /\ x \div 4 \in 0 .. 63
        /\ (x % 4) * 16 \in 0 .. 63
        /\ (x \div 4) * 4 + ((x % 4) * 16) \div 16 = x
    BY <2>1, SixBits
  <2>4. \A i \in 1 .. 4 : in_range64(q[i])
    <3> HIDE DEF x, q
    <3>1. in_range64(q[1]) /\ in_range64(q[2]) /\ in_range64(q[3]) /\ in_range64(q[4])
      BY <2>2, <2>3, Sextet, PadIsZero
    <3> QED
      BY <3>1
  <2>5. to_idx(q[1]) * 4 + to_idx(q[2]) \div 16 = x
    <3> HIDE DEF x, q
    <3> QED
      BY <2>2, <2>3, Sextet
  <2>6. q[3] = PAD /\ q[4] = PAD
    BY <2>2
  <2> HIDE DEF x, q
  <2>7. decode_quartet(q) = Ok(<<x>> \o << >> \o << >>)
    BY <2>4, <2>5, <2>6 DEF decode_quartet
  <2>8. <<x>> \o << >> \o << >> = <<x>>
    BY <2>1, Joined
  <2> QED
    BY <2>1, <2>7, <2>8 DEF q
<1>2. CASE Len(g) = 2
  <2> DEFINE x == g[1]
             y == g[2]
             c2 == (x % 4) * 16 + y \div 16
             c3 == (y % 16) * 4
  <2>1. x \in Byte /\ y \in Byte /\ g = <<x, y>>
    BY <1>2
  <2>2. q = <<b64str(x \div 4), b64str(c2), b64str(c3), PAD>>
    BY <1>2 DEF encode_quartet
  <2>3. /\ x \div 4 \in 0 .. 63 /\ c2 \in 0 .. 63 /\ c3 \in 0 .. 63
        /\ (x \div 4) * 4 + c2 \div 16 = x
        /\ (c2 % 16) * 16 + c3 \div 4 = y
    BY <2>1, SixBits
  <2> HIDE DEF x, y, c2, c3, q
  <2>4. \A i \in 1 .. 4 : in_range64(q[i])
    <3>1. in_range64(q[1]) /\ in_range64(q[2]) /\ in_range64(q[3]) /\ in_range64(q[4])
      BY <2>2, <2>3, Sextet, PadIsZero
    <3> QED
      BY <3>1
  <2>5. /\ to_idx(q[1]) * 4 + to_idx(q[2]) \div 16 = x
        /\ (to_idx(q[2]) % 16) * 16 + to_idx(q[3]) \div 4 = y
    BY <2>2, <2>3, Sextet
  <2>6. q[3] # PAD /\ q[4] = PAD
    BY <2>2, <2>3, Sextet
  <2>7. decode_quartet(q) = Ok(<<x>> \o <<y>> \o << >>)
    BY <2>4, <2>5, <2>6 DEF decode_quartet
  <2>8. <<x>> \o <<y>> \o << >> = <<x, y>>
    BY <2>1, Joined
  <2> QED
    BY <2>1, <2>7, <2>8 DEF q
<1>3. CASE Len(g) = 3
  <2> DEFINE x == g[1]
             y == g[2]
             z == g[3]
             c2 == (x % 4) * 16 + y \div 16
             c3 == (y % 16) * 4 + z \div 64
             c4 == z % 64
  <2>1. x \in Byte /\ y \in Byte /\ z \in Byte /\ g = <<x, y, z>>
    BY SMTT(30), <1>3
  <2>2. q = <<b64str(x \div 4), b64str(c2), b64str(c3), b64str(c4)>>
    BY <1>3 DEF encode_quartet
  <2>3. /\ x \div 4 \in 0 .. 63 /\ c2 \in 0 .. 63 /\ c3 \in 0 .. 63 /\ c4 \in 0 .. 63
        /\ (x \div 4) * 4 + c2 \div 16 = x
        /\ (c2 % 16) * 16 + c3 \div 4 = y
        /\ (c3 % 4) * 64 + c4 = z
    BY <2>1, SixBits
  <2> HIDE DEF x, y, z, c2, c3, c4, q
  <2>4. \A i \in 1 .. 4 : in_range64(q[i])
    <3>1. in_range64(q[1]) /\ in_range64(q[2]) /\ in_range64(q[3]) /\ in_range64(q[4])
      BY <2>2, <2>3, Sextet
    <3> QED
      BY <3>1
  <2>5. /\ to_idx(q[1]) * 4 + to_idx(q[2]) \div 16 = x
        /\ (to_idx(q[2]) % 16) * 16 + to_idx(q[3]) \div 4 = y
        /\ (to_idx(q[3]) % 4) * 64 + to_idx(q[4]) = z
    BY <2>2, <2>3, Sextet
  <2>6. q[3] # PAD /\ q[4] # PAD
    BY <2>2, <2>3, Sextet
  <2>7. decode_quartet(q) = Ok(<<x>> \o <<y>> \o <<z>>)
    BY <2>4, <2>5, <2>6 DEF decode_quartet
  <2>8. <<x>> \o <<y>> \o <<z>> = <<x, y, z>>
    BY <2>1, Joined
  <2> QED
    BY <2>1, <2>7, <2>8 DEF q
<1> QED
  BY <1>1, <1>2, <1>3

-----------------------------------------------------------------------------
(* The padding of a quartet tells the length of its group. *)
LEMMA QuartetPadding ==
  ASSUME NEW g \in Seq(Byte), Len(g) \in 1 .. 3
  PROVE  /\ encode_quartet(g)[3] = PAD <=> Len(g) = 1
         /\ encode_quartet(g)[4] = PAD <=> Len(g) # 3
<1>0. \A i \in 1 .. Len(g) : g[i] \in Byte
  BY ElementOfSeq
<1> DEFINE q == encode_quartet(g)
<1>1. CASE Len(g) = 1
  BY <1>1 DEF encode_quartet
<1>2. CASE Len(g) = 2
  <2>1. g[1] \in Byte /\ g[2] \in Byte
    BY <1>0, <1>2
  <2>2. (g[2] % 16) * 4 \in 0 .. 63
    BY <2>1, SixBits
  <2>3. q[3] = b64str((g[2] % 16) * 4) /\ q[4] = PAD
    BY <1>2 DEF encode_quartet
  <2> HIDE DEF q
  <2>4. q[3] # PAD /\ q[4] = PAD
    BY <2>2, <2>3, Sextet
  <2> QED
    BY <1>2, <2>4 DEF q
<1>3. CASE Len(g) = 3
  <2>1. g[1] \in Byte /\ g[2] \in Byte /\ g[3] \in Byte
    BY <1>0, <1>3
  <2>2. (g[2] % 16) * 4 + g[3] \div 64 \in 0 .. 63 /\ g[3] % 64 \in 0 .. 63
    BY ZenonT(60), <2>1, SixBits
  <2>3. q[3] = b64str((g[2] % 16) * 4 + g[3] \div 64) /\ q[4] = b64str(g[3] % 64)
    BY <1>3 DEF encode_quartet
  <2> HIDE DEF q
  <2>4. q[3] # PAD /\ q[4] # PAD
    BY <2>2, <2>3, Sextet
  <2> QED
    BY <1>3, <2>4 DEF q
<1> QED
  BY <1>1, <1>2, <1>3

(* The last group of a text of n bytes, m groups in all. *)
LEMMA LastGroup ==
  ASSUME NEW s \in Seq(Byte), s # << >>,
         NEW m, m = (Len(s) + 2) \div 3
  PROVE  /\ m \in Nat \ {0}
         /\ GroupOf(s, 3, m) \in Seq(Byte)
         /\ Len(GroupOf(s, 3, m)) = Len(s) - 3 * (m - 1)
         /\ Len(GroupOf(s, 3, m)) \in 1 .. 3
<1>1. Len(s) \in Nat /\ Len(s) > 0
  OBVIOUS
<1>2. m \in Nat /\ m > 0 /\ 3 * m >= Len(s) /\ 3 * (m - 1) < Len(s)
  BY <1>1
<1>3. Least(3 * m, Len(s)) = Len(s)
  BY <1>1, <1>2 DEF Least
<1>4. GroupOf(s, 3, m) = SubSeq(s, 3 * (m - 1) + 1, Len(s))
  BY <1>3 DEF GroupOf
<1>5. /\ 3 * (m - 1) + 1 \in Int /\ Len(s) \in Int
      /\ \A i \in 3 * (m - 1) + 1 .. Len(s) : s[i] \in Byte
      /\ 3 * (m - 1) + 1 <= Len(s)
  BY <1>1, <1>2
<1>6. /\ SubSeq(s, 3 * (m - 1) + 1, Len(s)) \in Seq(Byte)
      /\ Len(SubSeq(s, 3 * (m - 1) + 1, Len(s))) = Len(s) - (3 * (m - 1) + 1) + 1
  BY <1>5, SubSeqProperties
<1>7. Len(s) - (3 * (m - 1) + 1) + 1 = Len(s) - 3 * (m - 1)
  BY <1>1, <1>2
<1>8. Len(s) - 3 * (m - 1) \in 1 .. 3
  BY <1>1, <1>2
<1>9. m \in Nat \ {0}
  BY <1>2
<1>10. GroupOf(s, 3, m) \in Seq(Byte)
  BY <1>4, <1>6
<1>11. Len(GroupOf(s, 3, m)) = Len(s) - 3 * (m - 1)
  BY ONLY <1>4, <1>6, <1>7
<1> QED
  BY ONLY <1>8, <1>9, <1>10, <1>11

(***************************************************************************)
(* The buffer that base64_decode's caller allocates is the right one:      *)
(* BASE64_LENGTH characters are written for n bytes, and                   *)
(* base64_decoded_len tells n from the last two of them.                   *)
(***************************************************************************)
THEOREM Base64LengthComesBack ==
  ASSUME NEW s \in Seq(Byte), s # << >>
  PROVE  LET text == base64_encode(s, BASE64_LENGTH(Len(s)))
         IN  /\ text.ok
             /\ Len(text.val) = BASE64_LENGTH(Len(s))
             /\ base64_decoded_len(text.val) = Len(s)
<1> DEFINE n == Len(s)
           m == (n + 2) \div 3
           g == GroupOf(s, 3, m)
           text == base64_encode(s, BASE64_LENGTH(n))
           t == text.val
           Char(k) == encode_quartet(GroupOf(s, 3, (k + 3) \div 4))[((k - 1) % 4) + 1]
<1>1. n \in Nat /\ n > 0
  OBVIOUS
<1>2. /\ m \in Nat \ {0} /\ g \in Seq(Byte)
      /\ Len(g) = n - 3 * (m - 1) /\ Len(g) \in 1 .. 3
  BY LastGroup
<1>3. BASE64_LENGTH(n) = 4 * m
  BY <1>1 DEF BASE64_LENGTH
<1>4. text.ok /\ t = [k \in 1 .. 4 * m |-> Char(k)]
  <2>1. Least(m, BASE64_LENGTH(n) \div 4) = m
    <3> HIDE DEF m, n
    <3> QED
      BY <1>2, <1>3 DEF Least
  <2>2. BASE64_LENGTH(n) # 0
    <3> HIDE DEF m, n
    <3> QED
      BY <1>2, <1>3
  <2> QED
    BY <2>1, <2>2 DEF base64_encode, Ok
<1> HIDE DEF t, text
<1>5. /\ t[4 * m] = encode_quartet(g)[4]
      /\ t[4 * m - 1] = encode_quartet(g)[3]
  <2> HIDE DEF m
  <2>1. 4 * m \in 1 .. 4 * m /\ 4 * m - 1 \in 1 .. 4 * m
    BY <1>2
  <2>2. (4 * m + 3) \div 4 = m /\ ((4 * m - 1) % 4) + 1 = 4
    BY <1>2
  <2>3. ((4 * m - 1) + 3) \div 4 = m /\ (((4 * m - 1) - 1) % 4) + 1 = 3
    BY <1>2
  <2>4. t[4 * m] = Char(4 * m) /\ t[4 * m - 1] = Char(4 * m - 1)
    <3> HIDE DEF Char
    <3> QED
      BY <1>4, <2>1
  <2>5. Char(4 * m) = encode_quartet(GroupOf(s, 3, m))[4]
    BY <2>2
  <2>6. Char(4 * m - 1) = encode_quartet(GroupOf(s, 3, m))[3]
    BY <2>3
  <2> QED
    BY <2>4, <2>5, <2>6
<1>6. Len(t) = 4 * m
  <2> HIDE DEF m, Char
  <2> QED
    BY <1>2, <1>4
<1>7. /\ t[4 * m - 1] = PAD <=> Len(g) = 1
      /\ t[4 * m] = PAD <=> Len(g) # 3
  <2> HIDE DEF g
  <2> QED
    BY <1>2, <1>5, QuartetPadding
<1>8. base64_decoded_len(t) = n
  <2> HIDE DEF m, n, g
  <2>1. t # << >> /\ Len(t) \div 4 = m
    BY <1>2, <1>6
  <2>2. base64_decoded_len(t) = 3 * m - (IF t[4 * m] = PAD THEN 1 ELSE 0)
                                      - (IF t[4 * m - 1] = PAD THEN 1 ELSE 0)
    BY <2>1, <1>6 DEF base64_decoded_len
  <2> QED
    BY <1>1, <1>2, <1>7, <2>2
<1> QED
  BY <1>3, <1>4, <1>6, <1>8 DEF text, t

-----------------------------------------------------------------------------
(***************************************************************************)
(* A uint32 in halves, and its value.                                      *)
(***************************************************************************)
Word(h) == h[1] * HALF + h[2]
IsWord(h) == h[1] \in Nat /\ h[1] < HALF /\ h[2] \in Nat /\ h[2] < HALF
UINT32_MAX == 4294967295

(* It is less than 2^32. *)
LEMMA WordRange ==
  ASSUME NEW h, IsWord(h)
  PROVE  Word(h) \in Nat /\ Word(h) <= UINT32_MAX
BY SMT DEF IsWord, Word, HALF, UINT32_MAX

(* h is 85 times q and r over. *)
IsDigit(r) == r \in Nat /\ r < 85
Divides85(h, q, r) == IsWord(q) /\ IsDigit(r) /\ Word(h) = 85 * Word(q) + r

(* Division by 85 in halves is division by 85. *)
LEMMA Division ==
  ASSUME NEW h, IsWord(h)
  PROVE  Divides85(h, Quotient85(h), Remainder85(h))
<1>1. PICK x \in Nat : x = h[1] /\ x < 65536
  BY SMT DEF IsWord, HALF
<1>2. PICK y \in Nat : y = h[2] /\ y < 65536
  BY SMT DEF IsWord, HALF
<1>3. PICK a \in Nat : a = x \div 85
  BY SMT
<1>4. PICK b \in Nat : b = x % 85
  BY SMT
<1>5. b < 85 /\ x = 85 * a + b
  BY ONLY SMT, <1>3, <1>4, x \in Nat
<1>6. PICK z \in Nat : z = b * 65536 + y
  BY ONLY SMT, b \in Nat, y \in Nat
<1>7. PICK c \in Nat : c = z \div 85
  BY ONLY SMT, z \in Nat
<1>8. PICK r \in Nat : r = z % 85
  BY ONLY SMT, z \in Nat
<1>9. r < 85 /\ z = 85 * c + r
  BY ONLY SMT, <1>7, <1>8, z \in Nat
<1>10. Quotient85(h) = <<a, c>> /\ Remainder85(h) = r
  BY ONLY SMT, <1>1, <1>2, <1>3, <1>4, <1>6, <1>7, <1>8 DEF Quotient85, Remainder85, HALF
<1>11. c < 65536
  BY ONLY SMT, <1>2, <1>5, <1>6, <1>9, b \in Nat, y \in Nat, c \in Nat, r \in Nat
<1>12. a < 65536
  BY ONLY SMT, <1>1, <1>5, a \in Nat, b \in Nat, x \in Nat
<1>13. x * 65536 + y = 85 * (a * 65536 + c) + r
  BY ONLY SMT, <1>5, <1>6, <1>9, a \in Nat, b \in Nat, c \in Nat, r \in Nat, x \in Nat, y \in Nat
<1>14. Word(h) = 85 * (a * 65536 + c) + r
  BY ONLY SMT, <1>1, <1>2, <1>13 DEF Word, HALF
<1>15. Word(Quotient85(h)) = a * 65536 + c
  BY ONLY SMT, <1>10 DEF Word, HALF
<1>16. IsWord(Quotient85(h))
  BY ONLY SMT, <1>10, <1>11, <1>12, a \in Nat, c \in Nat DEF IsWord, HALF
<1> QED
  BY ONLY SMT, <1>9, <1>10, <1>14, <1>15, <1>16, r \in Nat DEF Divides85, IsDigit

(* Five digits of base 85, and their value. *)
IsDigits(d) ==
  IsDigit(d[1]) /\ IsDigit(d[2]) /\ IsDigit(d[3]) /\ IsDigit(d[4]) /\ IsDigit(d[5])
Sum85(d) == 52200625 * d[1] + 614125 * d[2] + 7225 * d[3] + 85 * d[4] + d[5]

(* The digits of a uint32 are those of its value. *)
LEMMA DigitsSum ==
  ASSUME NEW h, IsWord(h)
  PROVE  IsDigits(Digits(h)) /\ Sum85(Digits(h)) = Word(h)
<1>1. PICK h1 : h1 = Quotient85(h)
  OBVIOUS
<1>2. PICK h2 : h2 = Quotient85(h1)
  OBVIOUS
<1>3. PICK h3 : h3 = Quotient85(h2)
  OBVIOUS
<1>4. PICK h4 : h4 = Quotient85(h3)
  OBVIOUS
<1>5. PICK h5 : h5 = Quotient85(h4)
  OBVIOUS
<1>6. PICK d : d = <<Remainder85(h4), Remainder85(h3), Remainder85(h2), Remainder85(h1),
                     Remainder85(h)>>
  OBVIOUS
<1>7. Digits(h) = d
  BY ONLY <1>1, <1>2, <1>3, <1>4, <1>6 DEF Digits
<1>8. /\ d[1] = Remainder85(h4) /\ d[2] = Remainder85(h3) /\ d[3] = Remainder85(h2)
      /\ d[4] = Remainder85(h1) /\ d[5] = Remainder85(h)
  BY ONLY <1>6
<1>9. Divides85(h, h1, d[5])
  BY ONLY <1>1, <1>8, IsWord(h), Division
<1>10. Divides85(h1, h2, d[4])
  BY ONLY <1>2, <1>8, <1>9, Division DEF Divides85
<1>11. Divides85(h2, h3, d[3])
  BY ONLY <1>3, <1>8, <1>10, Division DEF Divides85
<1>12. Divides85(h3, h4, d[2])
  BY ONLY <1>4, <1>8, <1>11, Division DEF Divides85
<1>13. Divides85(h4, h5, d[1])
  BY ONLY <1>5, <1>8, <1>12, Division DEF Divides85
<1>14. IsDigits(d)
  BY ONLY <1>9, <1>10, <1>11, <1>12, <1>13 DEF Divides85, IsDigits
<1>15. Word(h) \in Nat /\ Word(h) <= UINT32_MAX
  BY WordRange
<1>16. /\ Word(h1) \in Nat /\ Word(h2) \in Nat /\ Word(h3) \in Nat /\ Word(h4) \in Nat
       /\ Word(h5) \in Nat
  BY ONLY <1>9, <1>10, <1>11, <1>12, <1>13, WordRange DEF Divides85
<1>17. /\ Word(h) = 85 * Word(h1) + d[5] /\ Word(h1) = 85 * Word(h2) + d[4]
       /\ Word(h2) = 85 * Word(h3) + d[3] /\ Word(h3) = 85 * Word(h4) + d[2]
       /\ Word(h4) = 85 * Word(h5) + d[1]
  BY ONLY <1>9, <1>10, <1>11, <1>12, <1>13 DEF Divides85
<1>18. Word(h5) = 0
  <2>1. /\ d[1] \in Nat /\ d[2] \in Nat /\ d[3] \in Nat /\ d[4] \in Nat /\ d[5] \in Nat
    BY ONLY <1>14 DEF IsDigits, IsDigit
  <2>2. SUFFICES ASSUME Word(h5) >= 1 PROVE FALSE
    BY SMT, <1>16
  <2>3. Word(h4) >= 85
    BY ONLY SMT, <1>16, <1>17, <2>1, <2>2
  <2>4. Word(h3) >= 7225
    BY ONLY SMT, <1>16, <1>17, <2>1, <2>3
  <2>5. Word(h2) >= 614125
    BY ONLY SMT, <1>16, <1>17, <2>1, <2>4
  <2>6. Word(h1) >= 52200625
    BY ONLY SMT, <1>16, <1>17, <2>1, <2>5
  <2>7. Word(h) >= 4437053125
    BY ONLY SMT, <1>15, <1>16, <1>17, <2>1, <2>6
  <2> QED
    BY ONLY SMT, <1>15, <2>7 DEF UINT32_MAX
<1>19. Sum85(d) = Word(h)
  BY ONLY SMT, <1>14, <1>15, <1>16, <1>17, <1>18 DEF IsDigits, IsDigit, Sum85
<1> QED
  BY ONLY <1>7, <1>14, <1>19

(* The sum of five characters is that of their digits if it fits a uint32. *)
LEMMA QuintetValue ==
  ASSUME NEW q, NEW d, IsDigits(d), \A i \in 1 .. 5 : q[i] = d[i] + 33,
         Sum85(d) <= UINT32_MAX
  PROVE  IsWord(QuintetSum(q)) /\ Word(QuintetSum(q)) = Sum85(d)
<1>1. PICK a \in Nat : a = d[1]
  BY DEF IsDigits, IsDigit
<1>2. PICK rest \in Nat : rest = d[2] * 614125 + d[3] * 7225 + d[4] * 85 + d[5]
  BY SMT DEF IsDigits, IsDigit
<1>3. Sum85(d) = 52200625 * a + rest
  BY ONLY SMT, <1>1, <1>2, IsDigits(d) DEF Sum85, IsDigits, IsDigit
<1>4. 52200625 * a + rest <= UINT32_MAX
  BY ONLY <1>3, Sum85(d) <= UINT32_MAX
<1>5. a <= 82
  BY ONLY SMT, <1>4, a \in Nat, rest \in Nat DEF UINT32_MAX
<1>6. PICK k \in Nat : k = (a * 33969) \div 65536
  BY ONLY SMT, a \in Nat
<1>7. PICK l \in Nat : l = (a * 33969) % 65536
  BY ONLY SMT, a \in Nat
<1>8. l < 65536 /\ a * 33969 = 65536 * k + l
  BY ONLY SMT, <1>6, <1>7, a \in Nat
<1>9. PICK rh \in Nat : rh = rest \div 65536
  BY ONLY SMT, rest \in Nat
<1>10. PICK rl \in Nat : rl = rest % 65536
  BY ONLY SMT, rest \in Nat
<1>11. rl < 65536 /\ rest = 65536 * rh + rl
  BY ONLY SMT, <1>9, <1>10, rest \in Nat
<1>12. PICK e \in Nat : e = (l + rl) \div 65536
  BY ONLY SMT, l \in Nat, rl \in Nat
<1>13. PICK f \in Nat : f = (l + rl) % 65536
  BY ONLY SMT, l \in Nat, rl \in Nat
<1>14. f < 65536 /\ l + rl = 65536 * e + f
  BY ONLY SMT, <1>12, <1>13, l \in Nat, rl \in Nat
<1>15. PICK m \in Nat : m = a * 796 + k
  BY ONLY SMT, a \in Nat, k \in Nat
<1>16. m < 65536
  BY ONLY SMT, <1>5, <1>8, <1>15, a \in Nat, k \in Nat, l \in Nat
<1>17. m % 65536 = m
  BY ONLY SMT, <1>16, m \in Nat
<1>18. PICK c : c = [i \in 1 .. 5 |-> q[i] - 33]
  OBVIOUS
<1>19. c[1] = a /\ c[2] = d[2] /\ c[3] = d[3] /\ c[4] = d[4] /\ c[5] = d[5]
  <2>1. /\ c[1] = q[1] - 33 /\ c[2] = q[2] - 33 /\ c[3] = q[3] - 33 /\ c[4] = q[4] - 33
        /\ c[5] = q[5] - 33
    BY ONLY <1>18
  <2>2. /\ q[1] = d[1] + 33 /\ q[2] = d[2] + 33 /\ q[3] = d[3] + 33 /\ q[4] = d[4] + 33
        /\ q[5] = d[5] + 33
    BY ONLY \A i \in 1 .. 5 : q[i] = d[i] + 33
  <2> QED
    BY ONLY <1>1, <2>1, <2>2, IsDigits(d) DEF IsDigits, IsDigit
<1>20. QuintetSum(q) =
         <<((a * 796 + (a * 33969) \div 65536) % 65536) + rest \div 65536
             + (((a * 33969) % 65536) + (rest % 65536)) \div 65536,
           (((a * 33969) % 65536) + (rest % 65536)) % 65536>>
  <2>1. QuintetSum(q) =
          LET rst == c[2] * 614125 + c[3] * 7225 + c[4] * 85 + c[5]
              low == ((c[1] * 33969) % HALF) + (rst % HALF)
          IN  <<((c[1] * 796 + (c[1] * 33969) \div HALF) % HALF) + rst \div HALF
                  + low \div HALF,
                low % HALF>>
    BY ONLY SMT, <1>18 DEF QuintetSum
  <2> QED
    BY ONLY SMT, <1>2, <1>19, <2>1 DEF HALF
<1>21. QuintetSum(q) = <<m + rh + e, f>>
  BY ONLY SMT, <1>6, <1>7, <1>9, <1>10, <1>12, <1>13, <1>15, <1>17, <1>20
<1>22. PICK top \in Nat : top = m + rh + e
  BY ONLY SMT, m \in Nat, rh \in Nat, e \in Nat
<1>23. 52200625 * a + rest = 65536 * top + f
  BY ONLY SMT, <1>8, <1>11, <1>14, <1>15, <1>22, a \in Nat, k \in Nat, l \in Nat,
          rh \in Nat, rl \in Nat, e \in Nat, f \in Nat, m \in Nat, rest \in Nat, top \in Nat
<1>24. top < 65536
  BY ONLY SMT, <1>4, <1>23, top \in Nat, f \in Nat DEF UINT32_MAX
<1>25. QuintetSum(q) = <<top, f>>
  BY ONLY <1>21, <1>22
<1>26. IsWord(QuintetSum(q))
  BY ONLY SMT, <1>14, <1>24, <1>25, top \in Nat, f \in Nat DEF IsWord, HALF
<1>27. Word(QuintetSum(q)) = 65536 * top + f
  BY ONLY SMT, <1>25, top \in Nat, f \in Nat DEF Word, HALF
<1> QED
  BY ONLY <1>3, <1>23, <1>26, <1>27

(* Four bytes, and the value they have most significant first. *)
IsByte(b) == b \in Nat /\ b < 256
IsBytes(v) == IsByte(v[1]) /\ IsByte(v[2]) /\ IsByte(v[3]) /\ IsByte(v[4])
Sum256(v) == 16777216 * v[1] + 65536 * v[2] + 256 * v[3] + v[4]

(* Four bytes are the halves of a uint32 of their value. *)
LEMMA HalvesValue ==
  ASSUME NEW v, IsBytes(v)
  PROVE  IsWord(Halves(v)) /\ Word(Halves(v)) = Sum256(v)
<1>1. Halves(v)[1] = v[1] * 256 + v[2] /\ Halves(v)[2] = v[3] * 256 + v[4]
  BY DEF Halves
<1> QED
  BY ONLY SMT, <1>1, IsBytes(v) DEF IsBytes, IsByte, IsWord, Word, Sum256, HALF

(* A uint32 is the value of its bytes. *)
LEMMA BytesValue ==
  ASSUME NEW h, IsWord(h)
  PROVE  IsBytes(BytesOf(h)) /\ Sum256(BytesOf(h)) = Word(h)
<1>1. PICK x \in Nat : x = h[1] /\ x < 65536
  BY SMT DEF IsWord, HALF
<1>2. PICK y \in Nat : y = h[2] /\ y < 65536
  BY SMT DEF IsWord, HALF
<1>3. PICK b : b = BytesOf(h)
  OBVIOUS
<1>4. b[1] = x \div 256 /\ b[2] = x % 256 /\ b[3] = y \div 256 /\ b[4] = y % 256
  BY ONLY <1>1, <1>2, <1>3 DEF BytesOf
<1>5. IsBytes(b)
  BY ONLY SMT, <1>1, <1>2, <1>4, x \in Nat, y \in Nat DEF IsBytes, IsByte
<1>6. x = 256 * b[1] + b[2] /\ y = 256 * b[3] + b[4]
  BY ONLY SMT, <1>4, x \in Nat, y \in Nat
<1>7. Sum256(b) = x * 65536 + y
  BY ONLY SMT, <1>5, <1>6 DEF Sum256, IsBytes, IsByte
<1>8. Word(h) = x * 65536 + y
  BY ONLY SMT, <1>1, <1>2 DEF Word, HALF
<1> QED
  BY ONLY <1>3, <1>5, <1>7, <1>8

(***************************************************************************)
(* What the bytes that a group of n leaves out are worth: a short group    *)
(* counts in multiples of it.                                              *)
(***************************************************************************)
Unit(n) == CASE n = 1 -> 16777216 [] n = 2 -> 65536 [] n = 3 -> 256 [] n = 4 -> 1

(***************************************************************************)
(* The decoder takes the digits that a short group does not write for 84,  *)
(* the greatest: the value grows by less than the unit of the group.       *)
(***************************************************************************)
LEMMA FilledUp ==
  ASSUME NEW n \in 1 .. 4, NEW d, IsDigits(d),
         NEW e, \A i \in 1 .. 5 : e[i] = IF i <= n + 1 THEN d[i] ELSE 84
  PROVE  /\ IsDigits(e)
         /\ Sum85(d) <= Sum85(e)
         /\ Sum85(e) < Sum85(d) + Unit(n)
<1>1. /\ d[1] \in Nat /\ d[1] < 85 /\ d[2] \in Nat /\ d[2] < 85 /\ d[3] \in Nat /\ d[3] < 85
      /\ d[4] \in Nat /\ d[4] < 85 /\ d[5] \in Nat /\ d[5] < 85
  BY DEF IsDigits, IsDigit
<1>2. e[1] = d[1] /\ e[2] = d[2]
  OBVIOUS
<1>3. CASE n = 1
  <2>1. e[3] = 84 /\ e[4] = 84 /\ e[5] = 84
    BY <1>3
  <2>2. Unit(n) = 16777216
    BY SMT, <1>3 DEF Unit
  <2> QED
    BY ONLY SMT, <1>1, <1>2, <2>1, <2>2 DEF IsDigits, IsDigit, Sum85
<1>4. CASE n = 2
  <2>1. e[3] = d[3] /\ e[4] = 84 /\ e[5] = 84
    BY <1>4
  <2>2. Unit(n) = 65536
    BY SMT, <1>4 DEF Unit
  <2> QED
    BY ONLY SMT, <1>1, <1>2, <2>1, <2>2 DEF IsDigits, IsDigit, Sum85
<1>5. CASE n = 3
  <2>1. e[3] = d[3] /\ e[4] = d[4] /\ e[5] = 84
    BY <1>5
  <2>2. Unit(n) = 256
    BY SMT, <1>5 DEF Unit
  <2> QED
    BY ONLY SMT, <1>1, <1>2, <2>1, <2>2 DEF IsDigits, IsDigit, Sum85
<1>6. CASE n = 4
  <2>1. e[3] = d[3] /\ e[4] = d[4] /\ e[5] = d[5]
    BY <1>6
  <2>2. Unit(n) = 1
    BY SMT, <1>6 DEF Unit
  <2> QED
    BY ONLY SMT, <1>1, <1>2, <2>1, <2>2 DEF IsDigits, IsDigit, Sum85
<1> QED
  BY <1>3, <1>4, <1>5, <1>6

(* The last byte of a number, and what is before it. *)
LEMMA LastByte ==
  ASSUME NEW x \in Nat, NEW y \in Nat, NEW b, IsByte(b), NEW c, IsByte(c), 256 * x + b = 256 * y + c
  PROVE  x = y /\ b = c
BY SMT DEF IsByte

(***************************************************************************)
(* A value less than a unit above that of a group has the group's bytes,   *)
(* and fits a uint32.                                                      *)
(***************************************************************************)
LEMMA SameBytes ==
  ASSUME NEW n \in 1 .. 4, NEW v, IsBytes(v), \A i \in n + 1 .. 4 : v[i] = 0
  PROVE  /\ Sum256(v) \in Nat
         /\ Sum256(v) + Unit(n) <= UINT32_MAX + 1
         /\ \A b : IsBytes(b) /\ Sum256(v) <= Sum256(b) /\ Sum256(b) < Sum256(v) + Unit(n)
                     => \A i \in 1 .. n : b[i] = v[i]
<1>1. /\ v[1] \in Nat /\ v[1] < 256 /\ v[2] \in Nat /\ v[2] < 256 /\ v[3] \in Nat /\ v[3] < 256
      /\ v[4] \in Nat /\ v[4] < 256
  BY DEF IsBytes, IsByte
<1>2. Sum256(v) \in Nat
  BY ONLY SMT, <1>1 DEF Sum256
<1>3. CASE n = 1
  <2>1. v[2] = 0 /\ v[3] = 0 /\ v[4] = 0
    BY <1>3
  <2>2. Unit(n) = 16777216
    BY SMT, <1>3 DEF Unit
  <2>3. Sum256(v) + Unit(n) <= UINT32_MAX + 1
    BY ONLY SMT, <1>1, <2>1, <2>2 DEF Sum256, UINT32_MAX
  <2>4. ASSUME NEW b, IsBytes(b), Sum256(v) <= Sum256(b), Sum256(b) < Sum256(v) + Unit(n)
        PROVE  b[1] = v[1]
    <3>1. /\ b[1] \in Nat /\ b[1] < 256 /\ b[2] \in Nat /\ b[2] < 256 /\ b[3] \in Nat
          /\ b[3] < 256 /\ b[4] \in Nat /\ b[4] < 256
      BY <2>4 DEF IsBytes, IsByte
    <3>2. PICK x \in Nat : x = v[1]
      BY ONLY SMT, <1>1
    <3>3. PICK y \in Nat : y = b[1]
      BY ONLY SMT, <3>1
    <3>4. PICK r \in Nat : r = 65536 * b[2] + 256 * b[3] + b[4]
      BY ONLY SMT, <3>1
    <3>5. r < 16777216
      BY ONLY SMT, <3>1, <3>4
    <3>6. Sum256(v) = 16777216 * x
      BY ONLY SMT, <1>1, <2>1, <3>2 DEF Sum256
    <3>7. Sum256(b) = 16777216 * y + r
      BY ONLY SMT, <3>1, <3>3, <3>4 DEF Sum256
    <3>8. 16777216 * x <= 16777216 * y + r /\ 16777216 * y + r < 16777216 * x + 16777216
      BY ONLY <2>2, <2>4, <3>6, <3>7
    <3>9. x = y
      BY ONLY SMT, <3>5, <3>8, x \in Nat, y \in Nat, r \in Nat
    <3> QED
      BY ONLY <3>2, <3>3, <3>9
  <2> QED
    BY <1>2, <1>3, <2>3, <2>4
<1>4. CASE n = 2
  <2>1. v[3] = 0 /\ v[4] = 0
    BY <1>4
  <2>2. Unit(n) = 65536
    BY SMT, <1>4 DEF Unit
  <2>3. Sum256(v) + Unit(n) <= UINT32_MAX + 1
    BY ONLY SMT, <1>1, <2>1, <2>2 DEF Sum256, UINT32_MAX
  <2>4. ASSUME NEW b, IsBytes(b), Sum256(v) <= Sum256(b), Sum256(b) < Sum256(v) + Unit(n)
        PROVE  b[1] = v[1] /\ b[2] = v[2]
    <3>1. /\ b[1] \in Nat /\ b[1] < 256 /\ b[2] \in Nat /\ b[2] < 256 /\ b[3] \in Nat
          /\ b[3] < 256 /\ b[4] \in Nat /\ b[4] < 256
      BY <2>4 DEF IsBytes, IsByte
    <3>2. PICK x \in Nat : x = 256 * v[1] + v[2]
      BY ONLY SMT, <1>1
    <3>3. PICK y \in Nat : y = 256 * b[1] + b[2]
      BY ONLY SMT, <3>1
    <3>4. PICK r \in Nat : r = 256 * b[3] + b[4]
      BY ONLY SMT, <3>1
    <3>5. r < 65536
      BY ONLY SMT, <3>1, <3>4
    <3>6. Sum256(v) = 65536 * x
      BY ONLY SMT, <1>1, <2>1, <3>2 DEF Sum256
    <3>7. Sum256(b) = 65536 * y + r
      BY ONLY SMT, <3>1, <3>3, <3>4 DEF Sum256
    <3>8. 65536 * x <= 65536 * y + r /\ 65536 * y + r < 65536 * x + 65536
      BY ONLY <2>2, <2>4, <3>6, <3>7
    <3>9. x = y
      BY ONLY SMT, <3>5, <3>8, x \in Nat, y \in Nat, r \in Nat
    <3>10. 256 * v[1] + v[2] = 256 * b[1] + b[2]
      BY ONLY <3>2, <3>3, <3>9
    <3> QED
      BY ONLY <1>1, <3>1, <3>10, LastByte DEF IsByte
  <2> QED
    BY <1>2, <1>4, <2>3, <2>4
<1>5. CASE n = 3
  <2>1. v[4] = 0
    BY <1>5
  <2>2. Unit(n) = 256
    BY SMT, <1>5 DEF Unit
  <2>3. Sum256(v) + Unit(n) <= UINT32_MAX + 1
    BY ONLY SMT, <1>1, <2>1, <2>2 DEF Sum256, UINT32_MAX
  <2>4. ASSUME NEW b, IsBytes(b), Sum256(v) <= Sum256(b), Sum256(b) < Sum256(v) + Unit(n)
        PROVE  b[1] = v[1] /\ b[2] = v[2] /\ b[3] = v[3]
    <3>1. /\ b[1] \in Nat /\ b[1] < 256 /\ b[2] \in Nat /\ b[2] < 256 /\ b[3] \in Nat
          /\ b[3] < 256 /\ b[4] \in Nat /\ b[4] < 256
      BY <2>4 DEF IsBytes, IsByte
    <3>2. PICK x \in Nat : x = 65536 * v[1] + 256 * v[2] + v[3]
      BY ONLY SMT, <1>1
    <3>3. PICK y \in Nat : y = 65536 * b[1] + 256 * b[2] + b[3]
      BY ONLY SMT, <3>1
    <3>4. PICK r \in Nat : r = b[4]
      BY ONLY SMT, <3>1
    <3>5. r < 256
      BY ONLY SMT, <3>1, <3>4
    <3>6. Sum256(v) = 256 * x
      BY ONLY SMT, <1>1, <2>1, <3>2 DEF Sum256
    <3>7. Sum256(b) = 256 * y + r
      BY ONLY SMT, <3>1, <3>3, <3>4 DEF Sum256
    <3>8. 256 * x <= 256 * y + r /\ 256 * y + r < 256 * x + 256
      BY ONLY <2>2, <2>4, <3>6, <3>7
    <3>9. x = y
      BY ONLY SMT, <3>5, <3>8, x \in Nat, y \in Nat, r \in Nat
    <3>10. PICK x2 \in Nat : x2 = 256 * v[1] + v[2]
      BY ONLY SMT, <1>1
    <3>11. PICK y2 \in Nat : y2 = 256 * b[1] + b[2]
      BY ONLY SMT, <3>1
    <3>12. 256 * x2 + v[3] = 256 * y2 + b[3]
      BY ONLY SMT, <1>1, <3>1, <3>2, <3>3, <3>9, <3>10, <3>11
    <3>13. x2 = y2 /\ v[3] = b[3]
      BY ONLY <1>1, <3>1, <3>12, x2 \in Nat, y2 \in Nat, LastByte DEF IsByte
    <3>14. 256 * v[1] + v[2] = 256 * b[1] + b[2]
      BY ONLY <3>10, <3>11, <3>13
    <3> QED
      BY ONLY <1>1, <3>1, <3>13, <3>14, LastByte DEF IsByte
  <2> QED
    BY <1>2, <1>5, <2>3, <2>4
<1>6. CASE n = 4
  <2>2. Unit(n) = 1
    BY SMT, <1>6 DEF Unit
  <2>3. Sum256(v) + Unit(n) <= UINT32_MAX + 1
    BY ONLY SMT, <1>1, <2>2 DEF Sum256, UINT32_MAX
  <2>4. ASSUME NEW b, IsBytes(b), Sum256(v) <= Sum256(b), Sum256(b) < Sum256(v) + Unit(n)
        PROVE  b[1] = v[1] /\ b[2] = v[2] /\ b[3] = v[3] /\ b[4] = v[4]
    <3>1. /\ b[1] \in Nat /\ b[1] < 256 /\ b[2] \in Nat /\ b[2] < 256 /\ b[3] \in Nat
          /\ b[3] < 256 /\ b[4] \in Nat /\ b[4] < 256
      BY <2>4 DEF IsBytes, IsByte
    <3>2. PICK x \in Nat : x = Sum256(v)
      BY ONLY SMT, <1>1, <1>2
    <3>3. PICK y \in Nat : y = Sum256(b)
      BY ONLY SMT, <3>1 DEF Sum256
    <3>4. PICK r \in Nat : r = 0
      BY ONLY SMT, <3>1
    <3>5. r < 1
      BY ONLY SMT, <3>1, <3>4
    <3>6. Sum256(v) = 1 * x
      BY ONLY SMT, <1>1, <3>2 DEF Sum256
    <3>7. Sum256(b) = 1 * y + r
      BY ONLY SMT, <3>1, <3>3, <3>4 DEF Sum256
    <3>8. 1 * x <= 1 * y + r /\ 1 * y + r < 1 * x + 1
      BY ONLY <2>2, <2>4, <3>6, <3>7
    <3>9. x = y
      BY ONLY SMT, <3>5, <3>8, x \in Nat, y \in Nat, r \in Nat
    <3>10. PICK x2 \in Nat : x2 = 256 * v[1] + v[2]
      BY ONLY SMT, <1>1
    <3>11. PICK y2 \in Nat : y2 = 256 * b[1] + b[2]
      BY ONLY SMT, <3>1
    <3>12. PICK x3 \in Nat : x3 = 256 * x2 + v[3]
      BY ONLY SMT, <1>1, x2 \in Nat
    <3>13. PICK y3 \in Nat : y3 = 256 * y2 + b[3]
      BY ONLY SMT, <3>1, y2 \in Nat
    <3>14. 256 * x3 + v[4] = 256 * y3 + b[4]
      BY ONLY SMT, <1>1, <3>1, <3>2, <3>3, <3>9, <3>10, <3>11, <3>12, <3>13 DEF Sum256
    <3>15. x3 = y3 /\ v[4] = b[4]
      BY ONLY <1>1, <3>1, <3>14, x3 \in Nat, y3 \in Nat, LastByte DEF IsByte
    <3>16. x2 = y2 /\ v[3] = b[3]
      BY ONLY <1>1, <3>1, <3>12, <3>13, <3>15, x2 \in Nat, y2 \in Nat, LastByte DEF IsByte
    <3>17. 256 * v[1] + v[2] = 256 * b[1] + b[2]
      BY ONLY <3>10, <3>11, <3>16
    <3>18. v[1] \in Nat /\ b[1] \in Nat /\ IsByte(v[2]) /\ IsByte(b[2])
      BY ONLY <1>1, <3>1 DEF IsByte
    <3>19. v[1] = b[1] /\ v[2] = b[2]
      BY ONLY <3>17, <3>18, LastByte
    <3> QED
      BY ONLY <3>15, <3>16, <3>19
  <2> QED
    BY <1>2, <1>6, <2>3, <2>4
<1> QED
  BY <1>3, <1>4, <1>5, <1>6

(* What a sequence that is filled up consists of. *)
LEMMA PaddedElements ==
  ASSUME NEW S, NEW s \in Seq(S), NEW n \in Nat, Len(s) <= n, NEW c
  PROVE  \A i \in 1 .. n : Padded(s, n, c)[i] = IF i <= Len(s) THEN s[i] ELSE c
<1> DEFINE t == [k \in 1 .. n - Len(s) |-> c]
<1>1. Len(s) \in Nat /\ n - Len(s) \in Nat
  OBVIOUS
<1>2. t \in Seq({c}) /\ Len(t) = n - Len(s)
  BY <1>1
<1>3. \A i \in 1 .. n - Len(s) : t[i] = c
  OBVIOUS
<1> HIDE DEF t
<1>4. Padded(s, n, c) = s \o t
  BY DEF Padded, t
<1> QED
  BY <1>1, <1>2, <1>3, <1>4

(***************************************************************************)
(* The characters of the first n + 1 digits of v, filled up with 'u', have *)
(* the first n bytes of v.                                                 *)
(***************************************************************************)
LEMMA DigitsComeBack ==
  ASSUME NEW n \in 1 .. 4, NEW v, IsBytes(v), \A i \in n + 1 .. 4 : v[i] = 0,
         NEW q, \A i \in 1 .. n + 1 : q[i] = Digits(Halves(v))[i] + 33,
         NEW p, \A i \in 1 .. 5 : p[i] = IF i <= n + 1 THEN q[i] ELSE 117
  PROVE  /\ \A i \in 1 .. n + 1 : q[i] \in Nat /\ in_range85(q[i])
         /\ IsWord(QuintetSum(p))
         /\ \A i \in 1 .. n : BytesOf(QuintetSum(p))[i] = v[i]
<1>1. PICK d : d = Digits(Halves(v))
  OBVIOUS
<1>2. IsDigits(d) /\ Sum85(d) = Sum256(v)
  BY ONLY <1>1, IsBytes(v), HalvesValue, DigitsSum
<1>3. \A i \in 1 .. 5 : d[i] \in Nat /\ d[i] < 85
  <2>1. \A i \in 1 .. 5 : i = 1 \/ i = 2 \/ i = 3 \/ i = 4 \/ i = 5
    OBVIOUS
  <2> QED
    BY ONLY <1>2, <2>1 DEF IsDigits, IsDigit
<1>4. \A i \in 1 .. n + 1 : q[i] = d[i] + 33 /\ i \in 1 .. 5
  BY <1>1
<1>5. \A i \in 1 .. n + 1 : q[i] \in Nat /\ in_range85(q[i])
  <2>1. ASSUME NEW i \in 1 .. n + 1 PROVE q[i] \in Nat /\ in_range85(q[i])
    <3>1. PICK x \in Nat : x = d[i] /\ x < 85
      BY ONLY <1>3, <1>4, i \in 1 .. n + 1
    <3>2. q[i] = x + 33
      BY ONLY <1>4, <3>1, i \in 1 .. n + 1
    <3>3. x + 33 \in 33 .. 117
      BY ONLY SMT, <3>1, x \in Nat
    <3> QED
      BY ONLY <3>2, <3>3, x \in Nat DEF in_range85
  <2> QED
    BY <2>1
<1>6. PICK e : e = [i \in 1 .. 5 |-> IF i <= n + 1 THEN d[i] ELSE 84]
  OBVIOUS
<1>7. \A i \in 1 .. 5 : e[i] = IF i <= n + 1 THEN d[i] ELSE 84
  BY ONLY <1>6
<1>8. \A i \in 1 .. 5 : p[i] = e[i] + 33
  <2>1. ASSUME NEW i \in 1 .. 5 PROVE p[i] = e[i] + 33
    <3>1. CASE i <= n + 1
      <4>1. i \in 1 .. n + 1
        BY ONLY <3>1, i \in 1 .. 5, n \in 1 .. 4
      <4> QED
        BY <1>4, <1>7, <3>1, <4>1
    <3>2. CASE ~(i <= n + 1)
      <4>1. p[i] = 117 /\ e[i] = 84
        BY <1>7, <3>2
      <4> QED
        BY ONLY SMT, <4>1
    <3> QED
      BY ONLY <3>1, <3>2
  <2> QED
    BY ONLY <2>1
<1>9. IsDigits(e) /\ Sum256(v) <= Sum85(e) /\ Sum85(e) < Sum256(v) + Unit(n)
  BY ONLY <1>2, <1>7, FilledUp, n \in 1 .. 4
<1>10. Sum256(v) \in Nat /\ Sum256(v) + Unit(n) <= UINT32_MAX + 1
  BY SameBytes
<1>11. Sum85(e) <= UINT32_MAX
  <2>1. PICK x \in Nat : x = Sum256(v)
    BY ONLY <1>10
  <2>2. PICK s \in Nat : s = Sum85(e)
    BY ONLY SMT, <1>9 DEF IsDigits, IsDigit, Sum85
  <2>3. PICK u \in Nat : u = Unit(n)
    BY ONLY SMT, n \in 1 .. 4 DEF Unit
  <2> QED
    BY ONLY SMT, <1>9, <1>10, <2>1, <2>2, <2>3, x \in Nat, s \in Nat, u \in Nat DEF UINT32_MAX
<1>12. IsWord(QuintetSum(p)) /\ Word(QuintetSum(p)) = Sum85(e)
  BY ONLY <1>8, <1>9, <1>11, QuintetValue
<1>13. /\ IsBytes(BytesOf(QuintetSum(p)))
       /\ Sum256(BytesOf(QuintetSum(p))) = Sum85(e)
  BY ONLY <1>12, BytesValue
<1>14. \A i \in 1 .. n : BytesOf(QuintetSum(p))[i] = v[i]
  BY <1>9, <1>13, SameBytes
<1> QED
  BY ONLY <1>5, <1>12, <1>14

(***************************************************************************)
(* base85 comes back group by group: what encode_quintet writes for one to *)
(* four bytes that have no short form is characters that the decoder       *)
(* collects, and filled up with 'u' they decode to the bytes, the sum      *)
(* within a uint32.                                                        *)
(***************************************************************************)
THEOREM QuintetComesBack ==
  ASSUME NEW g \in Seq(Byte), Len(g) \in 1 .. 4,
         Padded(g, 4, 0) \notin {<<0, 0, 0, 0>>, <<32, 32, 32, 32>>}
  PROVE  LET q == encode_quintet(g)
         IN  /\ Len(q) = Len(g) + 1
             /\ \A i \in 1 .. Len(q) : in_range85(q[i])
             /\ decode_quintet(Padded(q, 5, 117), 5 - Len(q)) = Ok(g)
<1>1. PICK n \in 1 .. 4 : n = Len(g)
  OBVIOUS
<1>2. PICK v : v = Padded(g, 4, 0)
  OBVIOUS
<1>3. \A i \in 1 .. 4 : v[i] = IF i <= n THEN g[i] ELSE 0
  <2>1. n <= 4 /\ 4 \in Nat
    BY ONLY n \in 1 .. 4
  <2> QED
    BY ONLY <1>1, <1>2, <2>1, g \in Seq(Byte), PaddedElements
<1>4. \A i \in 1 .. n : g[i] \in Byte
  BY <1>1, ElementOfSeq
<1>5. IsBytes(v)
  <2>1. ASSUME NEW i \in 1 .. 4 PROVE IsByte(v[i])
    <3>1. \A b \in Byte : IsByte(b)
      BY SMT DEF Byte, IsByte
    <3>2. IsByte(0)
      BY DEF IsByte
    <3>3. CASE i <= n
      BY <1>3, <1>4, <3>1, <3>3
    <3>4. CASE ~(i <= n)
      BY <1>3, <3>2, <3>4
    <3> QED
      BY <3>3, <3>4
  <2> QED
    BY <2>1 DEF IsBytes
<1>6. \A i \in n + 1 .. 4 : v[i] = 0
  <2>1. ASSUME NEW i \in n + 1 .. 4 PROVE i \in 1 .. 4 /\ ~(i <= n)
    BY ONLY n \in 1 .. 4, i \in n + 1 .. 4
  <2> QED
    BY <1>3, <2>1
<1>7. PICK q : q = encode_quintet(g)
  OBVIOUS
<1>8. PICK m \in 2 .. 5 : m = n + 1
  OBVIOUS
<1>9. q = [i \in 1 .. m |-> Digits(Halves(v))[i] + 33]
  BY <1>1, <1>2, <1>7, <1>8 DEF encode_quintet
<1>10. PICK p : p = [i \in 1 .. 5 |-> IF i <= m THEN q[i] ELSE 117]
  OBVIOUS
<1>11. /\ \A i \in 1 .. m : q[i] \in Nat /\ in_range85(q[i])
       /\ IsWord(QuintetSum(p))
       /\ \A i \in 1 .. n : BytesOf(QuintetSum(p))[i] = v[i]
  <2>1. \A i \in 1 .. m : q[i] = Digits(Halves(v))[i] + 33
    BY ONLY <1>9
  <2>2. \A i \in 1 .. 5 : p[i] = IF i <= m THEN q[i] ELSE 117
    BY ONLY <1>10
  <2> QED
    BY ONLY SMTT(30), <1>5, <1>6, <1>8, <2>1, <2>2, DigitsComeBack, n \in 1 .. 4
<1>12. q \in Seq(Nat) /\ Len(q) = m
  BY <1>9, <1>11
<1>13. p = Padded(q, 5, 117)
  <2>1. m <= 5 /\ 5 \in Nat
    BY ONLY m \in 2 .. 5
  <2>2. \A i \in 1 .. 5 : Padded(q, 5, 117)[i] = IF i <= m THEN q[i] ELSE 117
    BY ONLY <1>12, <2>1, PaddedElements
  <2>3. PICK t : t = [k \in 1 .. 5 - m |-> 117]
    OBVIOUS
  <2>4. t \in Seq(Nat) /\ Len(t) = 5 - m
    BY ONLY <2>3, m \in 2 .. 5
  <2>5. Padded(q, 5, 117) = q \o t
    BY ONLY <1>12, <2>3 DEF Padded
  <2>6. q \o t \in Seq(Nat) /\ Len(q \o t) = 5
    BY ONLY <1>12, <2>4, m \in 2 .. 5
  <2>7. Padded(q, 5, 117) = [i \in 1 .. 5 |-> Padded(q, 5, 117)[i]]
    <3>1. PICK w : w = Padded(q, 5, 117)
      OBVIOUS
    <3>2. w \in Seq(Nat) /\ Len(w) = 5
      BY ONLY <2>5, <2>6, <3>1
    <3>3. w = [i \in 1 .. 5 |-> w[i]]
      BY ONLY <3>2
    <3> QED
      BY ONLY <3>1, <3>3
  <2> QED
    BY ONLY <1>10, <2>2, <2>7
<1>14. PICK h : h = QuintetSum(p)
  OBVIOUS
<1>15. PICK b : b = BytesOf(h)
  OBVIOUS
<1>16. \A i \in 1 .. n : b[i] = g[i]
  <2>1. \A i \in 1 .. n : i \in 1 .. 4 /\ i <= n
    BY ONLY n \in 1 .. 4
  <2> QED
    BY ONLY <1>3, <1>11, <1>14, <1>15, <2>1
<1>17. decode_quintet(p, 4 - n) = Ok(SubSeq(b, 1, n))
  <2>1. 4 - n \in 0 .. 3 /\ 4 - (4 - n) = n
    BY ONLY n \in 1 .. 4
  <2>2. ~(h[1] >= HALF)
    BY ONLY SMT, <1>11, <1>14 DEF IsWord, HALF
  <2> QED
    BY ONLY <1>14, <1>15, <2>1, <2>2 DEF decode_quintet
<1>18. SubSeq(b, 1, n) = g
  <2>1. b = <<h[1] \div 256, h[1] % 256, h[2] \div 256, h[2] % 256>>
    BY ONLY <1>15 DEF BytesOf
  <2>2. /\ h[1] \div 256 \in Int /\ h[1] % 256 \in Int /\ h[2] \div 256 \in Int
        /\ h[2] % 256 \in Int
    BY ONLY SMT, <1>11, <1>14 DEF IsWord
  <2>3. b \in Seq(Int) /\ Len(b) = 4
    BY ONLY <2>1, <2>2
  <2>4. SubSeq(b, 1, n) = [i \in 1 .. n |-> b[i]]
    BY ONLY <2>3, n \in 1 .. 4
  <2>5. g = [i \in 1 .. n |-> g[i]]
    BY ONLY <1>1, g \in Seq(Byte), n \in 1 .. 4
  <2> QED
    BY ONLY <1>16, <2>4, <2>5
<1>19. 5 - m = 4 - n
  BY ONLY <1>8, n \in 1 .. 4
<1> QED
  BY ONLY <1>1, <1>7, <1>8, <1>11, <1>12, <1>13, <1>17, <1>18, <1>19
=============================================================================
