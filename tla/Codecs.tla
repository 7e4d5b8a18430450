------------------------------- MODULE Codecs -------------------------------
(***************************************************************************)
(* The binary encodings of the text formats: base16.c, base64.c, base85.c. *)
(*                                                                         *)
(* Bytes and characters are numbers in 0..255, a C expression on bits is   *)
(* the quotient or remainder it computes.  Where an array goes by index in *)
(* C it is a sequence here, so index i there is i + 1 here.                *)
(***************************************************************************)
EXTENDS Integers, Sequences, FiniteSets

Byte == 0 .. 255
Fail == [ok |-> FALSE, val |-> << >>]
Ok(val) == [ok |-> TRUE, val |-> val]

Least(a, b) == IF a <= b THEN a ELSE b

-----------------------------------------------------------------------------
(***************************************************************************)
(* base16.c: two upper case hexadecimal digits for a byte.                 *)
(***************************************************************************)
b16str(d) == IF d < 10 THEN 48 + d ELSE 55 + d

is_base16(c) == c \in 48 .. 57 \/ c \in 65 .. 70 \/ c \in 97 .. 102

dhex(c) == CASE c \in 48 .. 57  -> c - 48
             [] c \in 65 .. 70  -> c - 55
             [] c \in 97 .. 102 -> c - 87

BASE16_LENGTH(n) == n * 2
base16_decoded_len(in) == Len(in) \div 2

(***************************************************************************)
(* As many bytes as the room of outlen characters takes, the rest is left. *)
(***************************************************************************)
base16_encode(in, outlen) ==
  LET n == Least(Len(in), outlen \div 2)
  IN  IF in = << >> \/ outlen = 0 THEN Fail
      ELSE Ok([k \in 1 .. 2 * n |->
                 IF k % 2 = 1 THEN b16str(in[(k + 1) \div 2] \div 16)
                              ELSE b16str(in[k \div 2] % 16)])

(***************************************************************************)
(* Pairs of digits; a last odd one is not looked at.                       *)
(***************************************************************************)
base16_decode(in, outlen) ==
  LET n == Least(Len(in) \div 2, outlen)
  IN  IF in = << >> \/ \E k \in 1 .. 2 * n : ~is_base16(in[k]) THEN Fail
      ELSE Ok([k \in 1 .. n |-> 16 * dhex(in[2 * k - 1]) + dhex(in[2 * k])])

-----------------------------------------------------------------------------
(***************************************************************************)
(* base64.c: three bytes as four characters, a short last group is filled  *)
(* up with '=' (61).                                                       *)
(***************************************************************************)
PAD == 61

b64str(d) == CASE d \in 0 .. 25  -> 65 + d
               [] d \in 26 .. 51 -> 71 + d
               [] d \in 52 .. 61 -> d - 4
               [] d = 62         -> 43
               [] d = 63         -> 47

in_range64(c) ==
  \/ c \in 65 .. 90 \/ c \in 97 .. 122 \/ c \in 48 .. 57
  \/ c = 43 \/ c = 47 \/ c = PAD

to_idx(c) == CASE c \in 65 .. 90  -> c - 65
               [] c \in 97 .. 122 -> c - 71
               [] c \in 48 .. 57  -> c + 4
               [] c = 43          -> 62
               [] c = 47          -> 63
               [] OTHER           -> 0

encode_quartet(g) ==
  LET c1 == b64str(g[1] \div 4)
  IN  CASE Len(g) = 1 -> <<c1, b64str((g[1] % 4) * 16), PAD, PAD>>
        [] Len(g) = 2 -> <<c1, b64str((g[1] % 4) * 16 + g[2] \div 16),
                           b64str((g[2] % 16) * 4), PAD>>
        [] Len(g) = 3 -> <<c1, b64str((g[1] % 4) * 16 + g[2] \div 16),
                           b64str((g[2] % 16) * 4 + g[3] \div 64),
                           b64str(g[3] % 64)>>

(* Bug for the checks: a one byte group decodes to two. *)
decode_quartet_IgnoresPad(q) ==
  IF \E i \in 1 .. 4 : ~in_range64(q[i]) THEN Fail
  ELSE LET b1 == to_idx(q[1]) * 4 + to_idx(q[2]) \div 16
           b2 == (to_idx(q[2]) % 16) * 16 + to_idx(q[3]) \div 4
           b3 == (to_idx(q[3]) % 4) * 64 + to_idx(q[4])
       IN  Ok(IF q[4] = PAD THEN <<b1, b2>> ELSE <<b1, b2, b3>>)

(***************************************************************************)
(* The third and the fourth character add a byte each unless they are '='. *)
(* '=' elsewhere counts as 'A'; "xx=x" gives two bytes.                    *)
(***************************************************************************)
decode_quartet(q) ==
  IF \E i \in 1 .. 4 : ~in_range64(q[i]) THEN Fail
  ELSE LET b1 == to_idx(q[1]) * 4 + to_idx(q[2]) \div 16
           b2 == (to_idx(q[2]) % 16) * 16 + to_idx(q[3]) \div 4
           b3 == (to_idx(q[3]) % 4) * 64 + to_idx(q[4])
       IN  Ok(<<b1>> \o (IF q[3] # PAD THEN <<b2>> ELSE << >>)
                     \o (IF q[4] # PAD THEN <<b3>> ELSE << >>))

BASE64_LENGTH(n) == ((n + 2) \div 3) * 4

(* The g-th group of at most size elements of s. *)
GroupOf(s, size, g) ==
  SubSeq(s, size * (g - 1) + 1, Least(size * g, Len(s)))

base64_encode(in, outlen) ==
  LET groups == Least((Len(in) + 2) \div 3, outlen \div 4)
  IN  IF in = << >> \/ outlen = 0 THEN Fail
      ELSE Ok([k \in 1 .. 4 * groups |->
                 encode_quartet(GroupOf(in, 3, (k + 3) \div 4))[((k - 1) % 4) + 1]])

(***************************************************************************)
(* A buffer from calloc and the index o of the byte to write next.         *)
(***************************************************************************)
Blank == [o |-> 0, at |-> [k \in {} |-> 0]]
Put(out, bytes) ==
  [o  |-> out.o + Len(bytes),
   at |-> [k \in DOMAIN out.at \union out.o .. out.o + Len(bytes) - 1 |->
             IF k >= out.o /\ k < out.o + Len(bytes) THEN bytes[k - out.o + 1]
             ELSE out.at[k]]]
Skip(out, n) == [out EXCEPT !.o = @ + n]
Contents(out) ==
  [k \in 1 .. out.o |-> IF k - 1 \in DOMAIN out.at THEN out.at[k - 1] ELSE 0]

(***************************************************************************)
(* base64_decode tells a failed quartet from a good one by -1, and it      *)
(* returns FALSE: a quartet with a foreign character, or with the NUL past *)
(* the end, moves on by as many bytes as the quartet before it had.  Room  *)
(* for no byte at all is refused; otherwise the room is not looked at.     *)
(***************************************************************************)
base64_decode(in, outlen) ==
  LET At(i) == IF i <= Len(in) THEN in[i] ELSE 0
      Quartet(k) == decode_quartet([i \in 1 .. 4 |-> At(4 * (k - 1) + i)])
      Loop[k \in 0 .. (Len(in) + 3) \div 4] ==
        IF k = 0 THEN [out |-> Blank, olen |-> 0]
        ELSE LET s == Loop[k - 1]
                 q == Quartet(k)
             IN  IF q.ok THEN [out |-> Put(s.out, q.val), olen |-> Len(q.val)]
                 ELSE [s EXCEPT !.out = Skip(@, s.olen)]
  IN  IF in = << >> \/ outlen = 0 THEN Fail
      ELSE Ok(Contents(Loop[(Len(in) + 3) \div 4].out))

(***************************************************************************)
(* Of at least two characters: the code reads the last but one of one.     *)
(***************************************************************************)
base64_decoded_len(in) ==
  IF in = << >> THEN 0
  ELSE 3 * (Len(in) \div 4) - (IF in[Len(in)] = PAD THEN 1 ELSE 0)
                            - (IF in[Len(in) - 1] = PAD THEN 1 ELSE 0)

-----------------------------------------------------------------------------
(***************************************************************************)
(* base85.c: four bytes as five characters of base 85 ('!', 33, is zero),  *)
(* four zeros as 'z' (122), four spaces as 'y' (121).  A uint32 is the     *)
(* pair <<hi, lo>> of its 16 bit halves: TLC's integers have 32 bits.      *)
(***************************************************************************)
ZEROS == 122
SPACES == 121
HALF == 65536

in_range85(c) == c \in 33 .. 117

BASE85_LENGTH(n) == ((n + 3) \div 4) * 5

Padded(s, n, c) == s \o [k \in 1 .. n - Len(s) |-> c]
Halves(v) == <<v[1] * 256 + v[2], v[3] * 256 + v[4]>>
BytesOf(h) == <<h[1] \div 256, h[1] % 256, h[2] \div 256, h[2] % 256>>

(* Division of a uint32 by 85, with its remainder. *)
Quotient85(h) ==
  <<h[1] \div 85, ((h[1] % 85) * HALF + h[2]) \div 85>>
Remainder85(h) == ((h[1] % 85) * HALF + h[2]) % 85

Digits(h) ==
  LET h1 == Quotient85(h)
      h2 == Quotient85(h1)
      h3 == Quotient85(h2)
      h4 == Quotient85(h3)
  IN  <<Remainder85(h4), Remainder85(h3), Remainder85(h2), Remainder85(h1),
        Remainder85(h)>>

(***************************************************************************)
(* The short form for zeros is taken for a short group of zeros as well.   *)
(***************************************************************************)
encode_quintet(g) ==
  LET v == Padded(g, 4, 0)
  IN  CASE v = <<0, 0, 0, 0>>     -> <<ZEROS>>
        [] v = <<32, 32, 32, 32>> -> <<SPACES>>
        [] OTHER -> [i \in 1 .. Len(g) + 1 |-> Digits(Halves(v))[i] + 33]

(***************************************************************************)
(* The loop stops once the room is used up; it looks before a group only.  *)
(***************************************************************************)
base85_encode(in, outlen) ==
  LET Loop[g \in 0 .. (Len(in) + 3) \div 4] ==
        IF g = 0 THEN << >>
        ELSE IF Len(Loop[g - 1]) >= outlen THEN Loop[g - 1]
        ELSE Loop[g - 1] \o encode_quintet(GroupOf(in, 4, g))
  IN  IF in = << >> \/ outlen = 0 THEN Fail
      ELSE Ok(Loop[(Len(in) + 3) \div 4])

(***************************************************************************)
(* The value of five characters.  Only the first digit's term is computed  *)
(* in 32 bits, so only what the others carry over is seen to overflow.     *)
(***************************************************************************)
QuintetSum(q) ==
  LET d == [i \in 1 .. 5 |-> q[i] - 33]
      rest == d[2] * 614125 + d[3] * 7225 + d[4] * 85 + d[5]
      low == ((d[1] * 33969) % HALF) + (rest % HALF)
  IN  <<((d[1] * 796 + (d[1] * 33969) \div HALF) % HALF) + rest \div HALF
          + low \div HALF,
        low % HALF>>

(***************************************************************************)
(* The bytes of a quintet, the last padding ones left out; none when the   *)
(* padding is four or more, which ends every text of whole groups.         *)
(***************************************************************************)
decode_quintet(q, padding) ==
  IF padding \notin 0 .. 3 THEN Ok(<< >>)
  ELSE IF QuintetSum(q)[1] >= HALF THEN Fail
  ELSE Ok(SubSeq(BytesOf(QuintetSum(q)), 1, 4 - padding))

(* What a group adds to the output: a failure adds -1. *)
PutQuintet(out, q, padding) ==
  LET r == decode_quintet(q, padding)
  IN  IF r.ok THEN Put(out, r.val) ELSE Skip(out, -1)

(***************************************************************************)
(* base85_decode and base85_decoded_len scan alike, one to fill the buffer *)
(* and one to measure it: characters out of range are skipped, a short     *)
(* form inside a group fails.                                              *)
(***************************************************************************)
Scan85(in) ==
  LET Loop[i \in 0 .. Len(in)] ==
        IF i = 0 THEN [ok |-> TRUE, out |-> Blank, len |-> 0, buf |-> << >>]
        ELSE LET s == Loop[i - 1]
                 c == in[i]
                 b == Append(s.buf, c)
             IN  CASE c \in {ZEROS, SPACES} ->
                        [s EXCEPT !.ok  = @ /\ s.buf = << >>,
                                  !.len = @ + 4,
                                  !.out = Put(@, [k \in 1 .. 4 |->
                                            IF c = ZEROS THEN 0 ELSE 32])]
                   [] in_range85(c) /\ Len(b) < 5 -> [s EXCEPT !.buf = b]
                   [] in_range85(c) /\ Len(b) = 5 ->
                        [s EXCEPT !.buf = << >>, !.len = @ + 4,
                                  !.out = PutQuintet(@, b, 0)]
                   [] OTHER -> s
  IN  Loop[Len(in)]

(* The rest, filled up with 'u' (117). *)
Tail85(s) == [q |-> Padded(s.buf, 5, 117), padding |-> 5 - Len(s.buf)]

base85_decode(in) ==
  LET s == Scan85(in)
      t == Tail85(s)
  IN  IF s.ok THEN Ok(Contents(PutQuintet(s.out, t.q, t.padding))) ELSE Fail

(* A short form inside a group is a FAIL here: there is no length then.    *)
base85_decoded_len(in) ==
  LET s == Scan85(in)
      t == Tail85(s)
      r == decode_quintet(t.q, t.padding)
  IN  IF ~s.ok THEN 0 ELSE s.len + (IF r.ok THEN Len(r.val) ELSE -1)
=============================================================================
