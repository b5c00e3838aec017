------------------------------- MODULE Monitor ------------------------------
(***************************************************************************)
(* The numbers of monitor.c: xprintf and xitoa print them, xatoi reads     *)
(* them.  A text is a sequence of code points, the end of a string is 0.   *)
(***************************************************************************)
EXTENDS Integers, SequencesExt

CONSTANT Word       \* a DWORD holds 0 .. Word - 1; 2^32 in the code

Signed(v) == IF v >= Word \div 2 THEN v - Word ELSE v

Space == 32
Minus == 45
Zero  == 48

-----------------------------------------------------------------------------
(* xitoa: a negative radix is a signed number, a negative length asks for  *)
(* leading zeros.  The sign is put before the digits and not before those. *)

Digit(c) == Zero + (IF c >= 10 THEN c + 7 ELSE c)

Digits(v, r) ==
    LET text[n \in Nat] ==
            IF n < r THEN <<Digit(n)>> ELSE Append(text[n \div r], Digit(n % r))
    IN  text[v]

xitoa(val, radix, len) ==
    LET minus == radix < 0 /\ val < 0
        r     == IF radix < 0 THEN -radix ELSE radix
        width == IF len < 0 THEN -len ELSE len
        pad   == IF len < 0 THEN Zero ELSE Space
        text  == (IF minus THEN <<Minus>> ELSE <<>>)
                     \o Digits((IF minus THEN -val ELSE val) % Word, r)
    IN  IF width > 20 THEN <<>>
        ELSE [i \in 1 .. width - Len(text) |-> pad] \o text

\* A conversion of xprintf.  Every further digit of the width counts the ones
\* before it eleven times.
Radix == [d |-> -10, u |-> 10, x |-> 16, b |-> 2]
Width(digits) == FoldLeft(LAMBDA w, d : w + w * 10 + d, 0, digits)
xprintf(zeros, digits, conv, val) ==
    xitoa(val, Radix[conv], IF zeros THEN -Width(digits) ELSE Width(digits))

-----------------------------------------------------------------------------
(* xatoi.                                                                  *)

At(str, i) == IF i <= Len(str) THEN str[i] ELSE 0

\* The radix a number shows by its first characters, 0 for none.
RadixOf(str) ==
    CASE At(str, 1) \in Zero + 1 .. Zero + 9 -> 10
      [] At(str, 1) = Zero /\ At(str, 2) = 120 -> 16
      [] At(str, 1) = Zero /\ At(str, 2) = 98  -> 2
      [] At(str, 1) = Zero /\ At(str, 2) \in Zero .. Zero + 9 -> 8
      [] OTHER -> 0
Prefix(r) == CASE r \in {2, 16} -> 2 [] r = 8 -> 1 [] OTHER -> 0

\* The characters between the digits and the letters count as 10 to 16.
Value(c) ==
    LET v == (IF c >= 97 THEN c - 32 ELSE c) - Zero
    IN  IF v >= 17 THEN v - 7 ELSE v

\* A number ends at the first blank or control character.
Number(str) ==
    LET ends == {i \in DOMAIN str : str[i] <= Space}
        first == CHOOSE i \in ends : \A j \in ends : i <= j
    IN  IF ends = {} THEN str ELSE SubSeq(str, 1, first - 1)

Refused == [ok |-> FALSE, val |-> 0]
xatoi(str) ==
    LET first == CHOOSE i \in 1 .. Len(str) + 1 :
                     At(str, i) # Space /\ \A j \in 1 .. i - 1 : str[j] = Space
        minus == At(str, first) = Minus
        num   == SubSeq(str, IF minus THEN first + 1 ELSE first, Len(str))
        r     == RadixOf(num)
        text  == Number(SubSeq(num, Prefix(r) + 1, Len(num)))
        val   == FoldLeft(LAMBDA v, c : (v * r + Value(c)) % Word, 0, text)
    IN  CASE At(num, 1) = Zero /\ At(num, 2) <= Space -> [ok |-> TRUE, val |-> 0]
          [] r # 0 /\ \A i \in DOMAIN text : Value(text[i]) \in 0 .. r - 1 ->
                 [ok |-> TRUE, val |-> Signed((IF minus THEN -val ELSE val) % Word)]
          [] OTHER -> Refused
=============================================================================
