------------------------------ MODULE DirName -------------------------------
(***************************************************************************)
(* File names: make_dirfile turns a path segment into the eleven bytes of  *)
(* a directory entry and a flag for lower case, get_fileinfo turns them    *)
(* back for f_readdir and f_stat.  Characters are their code points; of    *)
(* the 256 only the classes make_dirfile tells apart matter.               *)
(***************************************************************************)
EXTENDS Integers, SequencesExt

Space == 32
Dot   == 46
Upper(c)  == c \in 65 .. 90
Lower(c)  == c \in 97 .. 122
Double(c) == c \in 129 .. 159 \/ c \in 224 .. 252   \* first byte of an S-JIS pair
Kanji     == 229                                    \* 0xE5 marks a deleted entry
KanjiMark == 5                                      \* and is stored as 0x05

Invisible(c) == c <= Space \/ c = 127
Never(c)  == c = 34 \/ c \in 42 .. 44 \/ c \in 58 .. 63     \* "  * + ,  : ; < = > ?
Single(c) == c = 124 \/ c \in 91 .. 93                      \* | [ \ ]: not alone

-----------------------------------------------------------------------------
(* make_dirfile.  n is where the next byte goes, t the end of the part,    *)
(* second says that the byte before was the first of a pair; low holds the *)
(* parts with a lower case letter, mixed those with an upper case one.     *)

Start == [ok |-> TRUE, n |-> 0, t |-> 8, second |-> FALSE, low |-> {}, mixed |-> {},
          bytes |-> [i \in 1 .. 11 |-> Space]]
Refused(m) == [m EXCEPT !.ok = FALSE]

Put(m, c) ==
    IF m.n >= m.t THEN Refused(m)
    ELSE [m EXCEPT !.bytes[m.n + 1] = c, !.n = @ + 1]

\* A letter, as the first or only byte of a character.
Letter(m, c) ==
    CASE Upper(c) -> Put([m EXCEPT !.mixed = @ \cup {m.t}], c)
      [] Lower(c) -> Put([m EXCEPT !.low = @ \cup {m.t}], c - 32)
      [] OTHER    -> Put(m, c)

Refuses(m, c) ==
    \/ Invisible(c) \/ Never(c)
    \/ c = Dot /\ (m.second \/ m.n \notin 1 .. 8)
    \/ Single(c) /\ ~m.second

Take(m, c) ==
    IF ~m.ok \/ Refuses(m, c) THEN Refused(m)
    ELSE CASE c = Dot   -> [m EXCEPT !.n = 8, !.t = 11]
           [] Double(c) -> Put([m EXCEPT !.second = ~@],
                               IF m.n = 0 /\ c = Kanji THEN KanjiMark ELSE c)
           [] OTHER     -> IF m.second THEN Put([m EXCEPT !.second = FALSE], c)
                                       ELSE Letter(m, c)

\* The parts that are in lower case throughout, the flag in DIR_NTres.
make_dirfile(str) ==
    LET m == FoldLeft(Take, Start, str)
    IN  [ok |-> m.ok /\ m.n > 0, bytes |-> m.bytes, nt |-> m.low \ m.mixed]

-----------------------------------------------------------------------------
(* get_fileinfo.                                                           *)

Shown(e, part, c) ==
    IF c = KanjiMark /\ part = 8 THEN Kanji
    ELSE IF part \in e.nt /\ Upper(c) THEN c + 32 ELSE c

\* The bytes of a part up to the first space.
Part(e, first, last) ==
    LET Used(k) == \A i \in first .. k : e.bytes[i] # Space
        length  == Cardinality({k \in first .. last : Used(k)})
    IN  [i \in 1 .. length |-> Shown(e, last, e.bytes[first + i - 1])]

get_fileinfo(e) ==
    Part(e, 1, 8) \o (IF e.bytes[9] = Space THEN <<>> ELSE <<Dot>> \o Part(e, 9, 11))
=============================================================================
