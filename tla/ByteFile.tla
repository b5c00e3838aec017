------------------------------ MODULE ByteFile ------------------------------
(***************************************************************************)
(* What f_open, f_read, f_write, f_lseek, f_truncate and f_close promise:  *)
(* a file is a sequence of bytes with a position.  A call may move its     *)
(* bytes piece by piece.  What the file holds where it was only stretched  *)
(* is not defined, and nothing is promised once the file object is not     *)
(* sane: after an error, or after calls that ff.c is not made for.         *)
(***************************************************************************)
EXTENDS Integers, Sequences, SequencesExt

CONSTANTS Byte,     \* what a byte may hold
          Limit     \* the length a file stays below

VARIABLES sane,     \* the file object is in order
          open,     \* there is a file object
          bytes,    \* the file
          pos,      \* the position in it
          given,    \* what the caller of f_write wants written and still has
          taken     \* what the caller of f_read has been given

vars == <<sane, open, bytes, pos, given, taken>>

Init ==
    /\ sane = TRUE /\ open = FALSE /\ bytes = <<>> /\ pos = 0
    /\ given = <<>> /\ taken = <<>>

Open ==
    /\ ~open /\ open' = TRUE /\ pos' = 0
    /\ UNCHANGED <<bytes, given, taken>>

Close ==
    /\ open /\ open' = FALSE /\ pos' = 0
    /\ UNCHANGED <<bytes, given, taken>>

Ask ==
    /\ open /\ given' \in Seq(Byte)
    /\ taken' = <<>>
    /\ UNCHANGED <<open, bytes, pos>>

\* The next bytes of the caller go to the position.
Put ==
    /\ open /\ given # <<>>
    /\ \E k \in 1 .. Len(given) :
           /\ bytes' = SubSeq(bytes, 1, pos) \o SubSeq(given, 1, k)
                       \o SubSeq(bytes, pos + k + 1, Len(bytes))
           /\ pos' = pos + k
           /\ given' = SubSeq(given, k + 1, Len(given))
    /\ UNCHANGED <<open, taken>>

\* The bytes at the position go to the caller.
Take ==
    /\ open
    /\ \E k \in 1 .. Len(bytes) - pos :
           /\ taken' = taken \o SubSeq(bytes, pos + 1, pos + k)
           /\ pos' = pos + k
    /\ UNCHANGED <<open, bytes, given>>

\* The position moves, and the file is stretched if it moves behind its end.
Seek ==
    /\ open
    /\ pos' \in 0 .. Limit - 1
    /\ Len(bytes') = IF pos' > Len(bytes) THEN pos' ELSE Len(bytes)
    /\ IsPrefix(bytes, bytes')
    /\ UNCHANGED <<open, given, taken>>

Cut ==
    /\ open
    /\ bytes' = SubSeq(bytes, 1, pos)
    /\ UNCHANGED <<open, pos, given, taken>>

Next ==
    \/ ~sane'
    \/ sane /\ sane' /\ (Open \/ Close \/ Ask \/ Put \/ Take \/ Seek \/ Cut)

Spec == Init /\ [][Next]_vars
=============================================================================
