------------------------------ MODULE Strings ------------------------------
(***************************************************************************)
(* stringutil and hexdump: the conversions, as functions of a text that    *)
(* grows byte by byte.                                                     *)
(***************************************************************************)
EXTENDS Naturals, Sequences, FiniteSets, SequencesExt, Folds

CONSTANTS
  Byte,      \* the bytes of the text, less than 256
  MaxText,   \* its length
  Carries    \* what split splits at: a sequence of bytes each

VARIABLE text

TypeOK == text \in Seq(Byte) /\ Len(text) <= MaxText
Init == text = <<>>
Type == Len(text) < MaxText /\ \E b \in Byte : text' = Append(text, b)
Spec == Init /\ [][Type]_text

----------------------------------------------------------------------------
(* base64: the letters are the numbers 0..63, and `=` is Pad.              *)

Pad == 64
\* Three bytes, of which n are there, as four letters.
Letters(a, b, c, n) ==
  SubSeq(<<a \div 4, (a % 4) * 16 + b \div 16, (b % 16) * 4 + c \div 64, c % 64>>, 1, n + 1)
    \o [i \in 1..(3 - n) |-> Pad]
base64_encode(s) ==
  LET At(i) == IF i <= Len(s) THEN s[i] ELSE 0
  IN  FlattenSeq([g \in 1..((Len(s) + 2) \div 3) |->
        LET i == 3 * g - 2 IN Letters(At(i), At(i + 1), At(i + 2), IF Len(s) - i > 2 THEN 3 ELSE Len(s) - i + 1)])

\* What is no letter is skipped; of an incomplete group of n letters come n - 1 bytes.
base64_decode(t) ==
  LET ls == SelectSeq(t, LAMBDA l : l < Pad)
      At(i) == IF i <= Len(ls) THEN ls[i] ELSE 0
      Bytes(i) == <<At(i) * 4 + At(i + 1) \div 16, (At(i + 1) % 16) * 16 + At(i + 2) \div 4,
                    (At(i + 2) % 4) * 64 + At(i + 3)>>
  IN  FlattenSeq([g \in 1..((Len(ls) + 3) \div 4) |->
        LET i == 4 * g - 3 IN SubSeq(Bytes(i), 1, IF Len(ls) - i > 2 THEN 3 ELSE Len(ls) - i)])

----------------------------------------------------------------------------
(* url encoding                                                            *)

Space == 32
Safe == (48..57) \cup (65..90) \cup (97..122) \cup {45, 46, 95, 126}
to_hex(x) == IF x > 9 THEN x + 55 ELSE x + 48
from_hex(x) == CASE x \in 65..90 -> x - 55 [] x \in 97..122 -> x - 87 [] x \in 48..57 -> x - 48 [] OTHER -> x

url_encode(s) == FlattenSeq([i \in DOMAIN s |->
  IF s[i] \in Safe THEN <<s[i]>> ELSE IF s[i] = Space THEN <<43>>
  ELSE <<37, to_hex(s[i] \div 16), to_hex(s[i] % 16)>>])

\* A `%` without two bytes behind it ends the text.
url_decode[s \in Seq(Nat)] ==
  IF s = <<>> THEN <<>>
  ELSE IF s[1] = 43 THEN <<Space>> \o url_decode[Tail(s)]
  ELSE IF s[1] # 37 THEN <<s[1]>> \o url_decode[Tail(s)]
  ELSE IF Len(s) < 3 THEN <<>>
  ELSE <<(from_hex(s[2]) * 16 + from_hex(s[3])) % 256>> \o url_decode[SubSeq(s, 4, Len(s))]

----------------------------------------------------------------------------
(* split and join                                                          *)

Found(s, c, p) == {n \in p..(Len(s) - Len(c) + 1) : SubSeq(s, n, n + Len(c) - 1) = c}
Least(ns) == CHOOSE n \in ns : \A m \in ns : n <= m

\* The parts from p on: the carry that is found first ends a part, the first in the list if
\* two are found at one place; empty parts are dropped.
split(s) ==
  LET From[p \in Nat] ==
        IF p > Len(s) THEN <<>>
        ELSE LET places == {<<Least(Found(s, Carries[i], p)), i>> :
                              i \in {j \in DOMAIN Carries : Found(s, Carries[j], p) # {}}}
                 first == CHOOSE a \in places :
                            \A b \in places : a[1] < b[1] \/ (a[1] = b[1] /\ a[2] <= b[2])
                 end == IF places = {} THEN Len(s) + 1 ELSE first[1]
                 next == IF places = {} THEN end ELSE end + Len(Carries[first[2]])
             IN  (IF end > p THEN <<SubSeq(s, p, end - 1)>> ELSE <<>>) \o From[next]
  IN  From[1]

join(parts, c) == FlattenSeq([i \in DOMAIN parts |-> IF i = 1 THEN parts[1] ELSE c \o parts[i]])

is_string_start(s, p) == Len(s) >= Len(p) /\ SubSeq(s, 1, Len(p)) = p
is_string_end(s, p) == Len(s) >= Len(p) /\ SubSeq(s, Len(s) - Len(p) + 1, Len(s)) = p
start_removed(s, p) == IF is_string_start(s, p) THEN SubSeq(s, Len(p) + 1, Len(s)) ELSE s
end_removed(s, p) == IF is_string_end(s, p) THEN SubSeq(s, 1, Len(s) - Len(p)) ELSE s

----------------------------------------------------------------------------
(* hexdump, with fewer bytes in a line than the code's 16.                 *)

CharPerLine == 2
line_count(length) ==
  LET n == length \div CharPerLine + (IF length % CharPerLine > 0 THEN 1 ELSE 0) IN IF n = 0 THEN 1 ELSE n
\* Mutant: the last line has what is left over, even if that is nothing.
MutLineSize(length, index) ==
  IF index # line_count(length) - 1 THEN CharPerLine ELSE length % CharPerLine
line_size(length, index) ==
  IF index # line_count(length) - 1 THEN CharPerLine
  ELSE IF line_count(length) = 1 THEN length
  ELSE IF length % CharPerLine = 0 THEN CharPerLine ELSE length % CharPerLine

\* The first byte and the length of the dump of some lines: the last may be a whole line.
lines(length, from, upto) ==
  LET last == IF upto > line_count(length) - 1 THEN line_count(length) - 1 ELSE upto
  IN  <<from * CharPerLine, (last - from + 1) * CharPerLine>>

----------------------------------------------------------------------------
(* trim and string_capitalize                                              *)

White == (9..13) \cup {Space}
Inked(s) == {i \in DOMAIN s : s[i] \notin White}
left_trim(s) == IF Inked(s) = {} THEN <<>> ELSE SubSeq(s, Least(Inked(s)), Len(s))
right_trim(s) == Reverse(left_trim(Reverse(s)))
trim(s) == left_trim(right_trim(s))

tolower(b) == IF b \in 65..90 THEN b + 32 ELSE b
toupper(b) == IF b \in 97..122 THEN b - 32 ELSE b
string_tolower(s) == [i \in DOMAIN s |-> tolower(s[i])]
string_toupper(s) == [i \in DOMAIN s |-> toupper(s[i])]

\* A byte of reset_carry stays; the first behind it, or of the text, is a capital.
string_capitalize(s, reset_carry) == [i \in DOMAIN s |->
  IF s[i] \in reset_carry THEN s[i]
  ELSE IF i = 1 \/ s[i - 1] \in reset_carry THEN toupper(s[i]) ELSE tolower(s[i])]

----------------------------------------------------------------------------

\* What is encoded is decoded again, whatever its length; the parts of a text have no carry
\* in them and, joined, give the text again up to empty parts; a prefix or suffix that is
\* removed was there; a dump shows every byte once,
\* and one of some lines goes on behind the data for no more than a line; what is trimmed is
\* white and stood at an end, and a capitalized text is the text but for the case.
RoundTrips ==
  /\ base64_decode(base64_encode(text)) = text /\ Len(base64_encode(text)) % 4 = 0
  /\ url_decode[url_encode(text)] = text
  /\ \A i \in DOMAIN split(text) : /\ split(text)[i] # <<>>
                                   /\ \A c \in Range(Carries) : Found(split(text)[i], c, 1) = {}
  /\ \A c \in Range(Carries) : split(join(split(text), c)) = split(text)
  /\ \A p \in {SubSeq(text, 1, n) : n \in 0..Len(text)} :
       /\ p \o start_removed(text, p) = text
       /\ \A q \in {end_removed(text, p)} : q = text \/ q \o p = text
  /\ FoldFunction(+, 0, [i \in 1..line_count(Len(text)) |-> line_size(Len(text), i - 1)]) = Len(text)
  /\ \A m, n \in 0..(line_count(Len(text)) - 1) : m <= n =>
       LET dump == lines(Len(text), m, n) IN dump[1] + dump[2] <= Len(text) + CharPerLine
  /\ LET t == trim(text) IN
       /\ trim(t) = t /\ Cardinality(Inked(t)) = Cardinality(Inked(text))
       /\ t # <<>> => {t[1], t[Len(t)]} \cap White = {}
  /\ string_tolower(string_capitalize(text, White)) = string_tolower(text)
  /\ string_capitalize(string_toupper(text), White) = string_capitalize(text, White)
=============================================================================
