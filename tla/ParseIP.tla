------------------------------ MODULE ParseIP ------------------------------
(***************************************************************************)
(* parseip and netlookup of libtask (task/net.c).  A name is a sequence of *)
(* character codes (ASCII, as the char array holds them); the NUL that    *)
(* ends the C string is the end of the sequence.  parseip reads up to four*)
(* dot-separated numbers with strtoul(p, &p, 0) into an int, keeps them   *)
(* in the bytes of an uninitialised union, and then expands the classful  *)
(* short forms a.b and a.b.c.  A byte parseip never assigns is Undef; its *)
(* class (the top two bits) may be any of 0..3, so parseip's result is a  *)
(* set of possible outcomes.                                               *)
(***************************************************************************)
EXTENDS Integers, Sequences, SequencesExt

CONSTANTS
  Names,   \* the names looked up
  Undef,   \* the value of a byte parseip never assigned
  Fail,    \* parseip returned -1
  DNS      \* the address gethostbyname gave

VARIABLE name   \* the name netlookup is asked to resolve

W == 65536      \* half of an unsigned 32-bit word: values are kept as hi * W + lo

Dot == 46                       \* '.'
X == 120                        \* 'x'
IsDigit(c) == c \in 48..57      \* '0'..'9'
Val(c) == c - 48

(* strtoul's digit loop in base b from position p, the value modulo 2^32  *)
(* (what is left of the unsigned long once it is assigned to int x).      *)
RECURSIVE Digits(_, _, _, _, _)
Digits(s, p, b, hi, lo) ==
  IF p <= Len(s) /\ IsDigit(s[p]) /\ Val(s[p]) < b
  THEN LET l == lo * b + Val(s[p]) IN
       Digits(s, p + 1, b, (hi * b + l \div W) % W, l % W)
  ELSE [hi |-> hi, lo |-> lo, end |-> p]

(* strtoul(p, &p, 0): "0x" before a digit selects hex, a leading 0 octal, *)
(* any other digit decimal; with no digit the value is 0 and p stays.     *)
StrToUL(s, p) ==
  IF p <= Len(s) /\ Val(s[p]) = 0 /\ p + 2 <= Len(s) /\ s[p + 1] = X
     /\ IsDigit(s[p + 2])
  THEN Digits(s, p + 2, 16, 0, 0)
  ELSE IF p <= Len(s) /\ Val(s[p]) = 0 THEN Digits(s, p, 8, 0, 0)
  ELSE IF p <= Len(s) /\ IsDigit(s[p]) THEN Digits(s, p, 10, 0, 0)
  ELSE [hi |-> 0, lo |-> 0, end |-> p]

(* The for loop: while i < 4 and *p, read a number; x < 0 || x >= 256 and *)
(* a number not followed by '.' or the end fail; a '.' is skipped.         *)
RECURSIVE ReadParts(_, _, _, _)
ReadParts(s, p, i, bytes) ==
  IF i < 4 /\ p <= Len(s)
  THEN LET r == StrToUL(s, p) IN
       IF r.hi # 0 \/ r.lo >= 256 THEN Fail
       ELSE IF r.end <= Len(s) /\ s[r.end] # Dot THEN Fail
       ELSE ReadParts(s, IF r.end <= Len(s) THEN r.end + 1 ELSE r.end, i + 1,
                      [bytes EXCEPT ![i] = r.lo])
  ELSE [i |-> i, bytes |-> bytes]

Class(b) == IF b = Undef THEN 0..3 ELSE {b \div 64}

(* The switch on CLASS(addr.bytes) for one class of the first byte.       *)
Expand(cl, i, b) ==
  CASE cl \in {0, 1} /\ i = 3 -> <<b[0], 0, b[1], b[2]>>
    [] cl \in {0, 1} /\ i = 2 -> <<b[0], 0, 0, b[1]>>
    [] cl = 2 /\ i = 3       -> <<b[0], b[1], 0, b[2]>>
    [] cl = 3 \/ i = 4       -> <<b[0], b[1], b[2], b[3]>>
    [] OTHER                 -> Fail

parseip(s) ==
  LET r == ReadParts(s, 1, 0, [k \in 0..3 |-> Undef]) IN
  IF r = Fail THEN {Fail}
  ELSE {Expand(cl, r.i, r.bytes) : cl \in Class(r.bytes[0])}

(* netlookup: a numeric name is taken as parsed, any other is resolved by *)
(* the blocking gethostbyname (whose success or failure is not modelled). *)
netlookup(s) == {IF a = Fail THEN DNS ELSE a : a \in parseip(s)}

-----------------------------------------------------------------------------
(* The reference: a numeric name is one to four dot-separated numbers,    *)
(* each decimal, 0-prefixed octal or 0x-prefixed hex, each below 256,     *)
(* with nothing before, between or after them; a.b is a.0.0.b and a.b.c  *)
(* is a.0.b.c for a first byte below 128, a.b.0.c for one below 192; a    *)
(* first byte of 192 or more needs all four numbers.                      *)
RECURSIVE SplitDots(_)
SplitDots(s) ==
  LET k == SelectInSeq(s, LAMBDA c : c = Dot) IN
  IF k = 0 THEN <<s>> ELSE <<SubSeq(s, 1, k - 1)>> \o SplitDots(SubSeq(s, k + 1, Len(s)))

AllIn(t, from, D) == \A k \in from..Len(t) : IsDigit(t[k]) /\ Val(t[k]) \in D

(* The base of a well-formed number token, 0 if it is not one.            *)
Base(t) ==
  CASE Len(t) >= 3 /\ Val(t[1]) = 0 /\ t[2] = X /\ AllIn(t, 3, 0..9) -> 16
    [] Len(t) >= 1 /\ Val(t[1]) = 0 /\ AllIn(t, 1, 0..7)               -> 8
    [] Len(t) >= 1 /\ Val(t[1]) # 0 /\ AllIn(t, 1, 0..9)               -> 10
    [] OTHER                                                       -> 0

(* The token's value, capped at 256.                                      *)
Value(t) ==
  LET b == Base(t)
      ds == IF b = 16 THEN SubSeq(t, 3, Len(t)) ELSE t IN
  FoldLeft(LAMBDA v, d : IF v * b + Val(d) >= 256 THEN 256 ELSE v * b + Val(d), 0, ds)

RefParse(s) ==
  LET ps == SplitDots(s)
      n == Len(ps)
      v == [k \in 1..n |-> Value(ps[k])] IN
  IF n > 4 \/ \E k \in 1..n : Base(ps[k]) = 0 \/ v[k] >= 256 THEN Fail
  ELSE CASE n = 4                -> <<v[1], v[2], v[3], v[4]>>
         [] n = 3 /\ v[1] < 128  -> <<v[1], 0, v[2], v[3]>>
         [] n = 3 /\ v[1] < 192  -> <<v[1], v[2], 0, v[3]>>
         [] n = 2 /\ v[1] < 128  -> <<v[1], 0, 0, v[2]>>
         [] OTHER                -> Fail

Init == name \in Names
Next == UNCHANGED name
Spec == Init /\ [][Next]_name

(* parseip, and so netlookup, takes a name as an IPv4 address exactly     *)
(* when it is a dotted number, and then yields the address it denotes:   *)
(* never an address for a name with other text in it, never a byte the    *)
(* name does not determine, never a part of 256 or more.                  *)
ParseIPAgrees == parseip(name) = {RefParse(name)}

=============================================================================
