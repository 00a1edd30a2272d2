-------------------------------- MODULE Wire --------------------------------
(***************************************************************************)
(* Octets, numerals, and values behind their lengths: what pkg/sexp and    *)
(* pkg/protocol have in common.  An octet is its ASCII code, a string a    *)
(* sequence of octets.                                                     *)
(***************************************************************************)
EXTENDS Integers, Sequences

Octet  == 0..255
Octets == Seq(Octet)

Colon == 58
Plus  == 43
Minus == 45

IsDigit(c) == c \in 48..57

\* Strings one behind the other: what a loop has written after some of them, and
\* in the end.
Joined(texts) ==
  LET joined[i \in 0..Len(texts)] == IF i = 0 THEN <<>> ELSE joined[i - 1] \o texts[i]
  IN  joined

Concat(texts) == Joined(texts)[Len(texts)]

\* The place of the first c in s, 0 if there is none.
IndexByte(s, c) ==
  IF \E i \in DOMAIN s : s[i] = c
  THEN CHOOSE i \in DOMAIN s : s[i] = c /\ \A j \in 1..(i - 1) : s[j] # c
  ELSE 0

\* fmt's %d.
Decimal[n \in Nat] ==
  IF n < 10 THEN <<48 + n>> ELSE Append(Decimal[n \div 10], 48 + (n % 10))

\* strconv.Atoi: a sign and at least one digit.
Magnitude(s) == IF s # <<>> /\ Head(s) \in {Plus, Minus} THEN Tail(s) ELSE s
IsNumber(s)  == Magnitude(s) # <<>> /\ \A i \in DOMAIN Magnitude(s) : IsDigit(Magnitude(s)[i])

\* Its loop over the digits, after some of them.
ValueOf(digits) ==
  LET value[i \in 0..Len(digits)] ==
        IF i = 0 THEN 0 ELSE (10 * value[i - 1]) + (digits[i] - 48)
  IN  value

Atoi(s) ==
  LET n == ValueOf(Magnitude(s))[Len(Magnitude(s))]
  IN  IF Head(s) = Minus THEN -n ELSE n

\* A length that counts the digits of the length as well.
LengthValueWhole(s) ==
  LET n == Len(s) + 2 IN Decimal[n] \o <<Colon>> \o s

\* <length>:<octets>, the form of an atom and of everything on the wire.
LengthValue(s) == Decimal[Len(s)] \o <<Colon>> \o s
=============================================================================
