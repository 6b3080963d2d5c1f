-------------------------------- MODULE Words --------------------------------
(* The signed integers of the program, int64 and int on the 64-bit builds it  *)
(* is made for, at any width: the words from -MaxInt - 1 to MaxInt.  Sums and *)
(* products wrap around; division truncates towards zero.                     *)
EXTENDS Integers

CONSTANT MaxInt   \* the largest word, 2^63 - 1 in the program

ASSUME MaxIntAssumption == MaxInt \in Nat \ {0}

Word == -MaxInt - 1 .. MaxInt

\* The word that an exact result leaves behind.
Wrap(x) == ((x + MaxInt + 1) % (2 * MaxInt + 2)) - MaxInt - 1

\* Go's a / b for a positive b.
Quot(a, b) == IF a >= 0 THEN a \div b ELSE -((-a) \div b)
=============================================================================
