------------------------------ MODULE CameraMC ------------------------------
(***************************************************************************)
(* Camera with the tries of the code; and the numbers the program prints,  *)
(* on a word of 13 bits.                                                   *)
(***************************************************************************)
EXTENDS Camera, TLC

TriesMC == "sync" :> 60 @@ "init" :> 15 @@ "quality" :> 1 @@ "snapshot" :> 15
           @@ "getPicture" :> 30

-----------------------------------------------------------------------------
Mon == INSTANCE Monitor WITH Word <- 8192

Longs == -4096 .. 4095
Read(val) == [ok |-> TRUE, val |-> val]

\* xatoi reads every number as xitoa prints it, in any width, down to the least
\* one, whose negative is itself; and hexadecimal digits behind "0x", with and
\* without leading zeros.
ASSUME NumbersReadBack ==
    /\ \A v \in Longs, w \in {0, 7} : Mon!xatoi(Mon!xitoa(v, -10, w)) = Read(v)
    /\ \A v \in Longs, w \in {0, -4} : Mon!xatoi(<<48, 120>> \o Mon!xitoa(v, 16, w)) = Read(v)

\* A width of one digit is kept, and not exceeded without need.
ASSUME WidthKept ==
    \A v \in {-4096, -10, -9, 0, 9, 10, 4095}, d \in 0 .. 9, zeros \in BOOLEAN :
        LET bare == Len(Mon!xitoa(v, -10, 0))
        IN  Len(Mon!xprintf(zeros, <<d>>, "d", v)) = IF bare > d THEN bare ELSE d

\* One of two digits is not: ten is eleven.  Leading zeros come before the
\* sign, and what lies between 9 and A is a hexadecimal digit to xatoi.
ASSUME Oddities ==
    /\ Len(Mon!xprintf(FALSE, <<1, 0>>, "d", 5)) = 11
    /\ Mon!xprintf(TRUE, <<3>>, "d", -5) = <<48, 45, 53>>
    /\ Mon!xatoi(<<48, 120, 58>>) = Read(10)
=============================================================================
