------------------------------ MODULE Checksum -------------------------------
(* internal/detect/luhn.go and iban.go: the two checksums that gate a match   *)
(* of the card and the iban pattern.  A character is a number: a digit is its *)
(* value, a capital letter is 10 to 35 as in ISO 7064, then come the others.  *)
(*                                                                            *)
(* An operator whose comment starts with FAULT is a bug that could have been  *)
(* written in place of the definition below it; no specification uses it.     *)
EXTENDS Integers, Sequences, SequencesExt, FiniteSetsExt, Filter

CONSTANTS CardDigits,    \* 13 .. 19 in the program
          IbanLengths    \* 15 .. 34 in the program

ASSUME LengthsAssumption == CardDigits \subseteq Nat /\ IbanLengths \subseteq 4 .. 34

Digits == 0 .. 9
Letters == 10 .. 35
Space == 36
Hyphen == 37
Characters == Digits \union Letters \union {Space, Hyphen}

DigitsOf(s) == Keep(s, Digits)

Doubled(d) == IF 2 * d > 9 THEN 2 * d - 9 ELSE 2 * d

\* FAULT: the doubling starts with the last digit.
LuhnSumShifted(digits) ==
  MapThenSumSet(LAMBDA k : IF (Len(digits) - k) % 2 = 0 THEN Doubled(digits[k])
                                                       ELSE digits[k],
                DOMAIN digits)

\* Every second digit is doubled, counted from the right and without what
\* separates the digits.
LuhnSum(digits) ==
  MapThenSumSet(LAMBDA k : IF (Len(digits) - k) % 2 = 1 THEN Doubled(digits[k])
                                                       ELSE digits[k],
                DOMAIN digits)

LuhnValid(s) == /\ Range(s) \subseteq Digits \union {Space, Hyphen}
                /\ Len(DigitsOf(s)) \in CardDigits
                /\ LuhnSum(DigitsOf(s)) % 10 = 0

\* A letter stands for two decimal digits.
Mod97(m, c) == IF c \in Digits THEN (m * 10 + c) % 97
               ELSE (((m * 10 + (c \div 10)) % 97) * 10 + (c % 10)) % 97

\* The remainder of what the first k characters of s stand for.
Remainders(s) ==
  LET mod[k \in 0 .. Len(s)] == IF k = 0 THEN 0 ELSE Mod97(mod[k - 1], s[k])
  IN mod

\* The country code and the check digits are moved to the end.
Rearranged(s) == SubSeq(s, 5, Len(s)) \o SubSeq(s, 1, 4)

IBANValid(s) ==
  LET compact == Keep(s, Characters \ {Space})
      n == Len(compact)
  IN /\ n \in IbanLengths
     /\ {compact[1], compact[2]} \subseteq Letters
     /\ {compact[3], compact[4]} \subseteq Digits
     /\ Range(compact) \subseteq Digits \union Letters
     /\ Remainders(Rearranged(compact))[n] = 1
=============================================================================
