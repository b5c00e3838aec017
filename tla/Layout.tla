------------------------------- MODULE Layout -------------------------------
(***************************************************************************)
(* The bytes of the records on the card: where ff.h puts the fields of the *)
(* partition table, the boot record, the FSInfo record and a directory     *)
(* entry, and how LD_ and ST_ read and write numbers there.  A field is    *)
(* [at, width], as the code stores it.                                     *)
(***************************************************************************)
EXTENDS Integers

Field(a, w) == [at |-> a, width |-> w]
Bytes(f)    == f.at .. f.at + f.width - 1

BS_55AA == Field(510, 2)

\* The boot record: what all volumes have, and what each sub type adds.
BPB == [jmpBoot |-> Field(0, 4),   \* three bytes and one of the name that follows
        bytsPerSec |-> Field(11, 2), secPerClus |-> Field(13, 1),
        rsvdSecCnt |-> Field(14, 2), numFATs |-> Field(16, 1),
        rootEntCnt |-> Field(17, 2), totSec16 |-> Field(19, 2),
        media |-> Field(21, 1), fatSz16 |-> Field(22, 2),
        secPerTrk |-> Field(24, 2), numHeads |-> Field(26, 2),
        hiddSec |-> Field(28, 4), totSec32 |-> Field(32, 4), sign |-> BS_55AA]
BS16 == [drvNum |-> Field(36, 1), bootSig |-> Field(38, 1), volID |-> Field(39, 4),
         volLab |-> Field(43, 19)]
BS32 == [fatSz32 |-> Field(36, 4), rootClus |-> Field(44, 4), fsInfo |-> Field(48, 2),
         bkBootSec |-> Field(50, 2), drvNum |-> Field(64, 1), bootSig |-> Field(66, 1),
         volID |-> Field(67, 4), volLab |-> Field(71, 19)]
ExtFlags == 40

\* The volume label is stored with the signature check_fs looks for behind it.
Label == 11
FilSysType   == Field(54, 3)
FilSysType32 == Field(82, 5)

FSI == [leadSig |-> Field(0, 4), strucSig |-> Field(484, 4),
        freeCount |-> Field(488, 4), nxtFree |-> Field(492, 4), sign |-> BS_55AA]

\* The first entry of the partition table, from MBR_Table on.
MBR == LET p(a, w) == Field(446 + a, w)
       IN  [first |-> p(0, 4), system |-> p(4, 1), head |-> p(5, 1), last |-> p(6, 2),
            start |-> p(8, 4), size |-> p(12, 4), sign |-> BS_55AA]

\* A directory entry.  The time and the date are stored as one DWORD.
DIR == [name |-> Field(0, 11), attr |-> Field(11, 1), nTres |-> Field(12, 1),
        crtTime |-> Field(14, 2), crtDate |-> Field(16, 2), fstClusHI |-> Field(20, 2),
        wrtTime |-> Field(22, 2), wrtDate |-> Field(24, 2), fstClusLO |-> Field(26, 2),
        fileSize |-> Field(28, 4)]
Stamp == Field(22, 4)

-----------------------------------------------------------------------------
(* Byte by byte, the lowest first.                                         *)

ST(bytes, f, val) ==
    [i \in DOMAIN bytes |->
        IF i \in Bytes(f) THEN (val \div 256^(i - f.at)) % 256 ELSE bytes[i]]

LD(bytes, f) ==
    LET upper[i \in Nat] == IF i >= f.at + f.width THEN 0
                            ELSE bytes[i] + 256 * upper[i + 1]
    IN  upper[f.at]

Apart(record) ==
    \A x, y \in DOMAIN record : x # y => Bytes(record[x]) \cap Bytes(record[y]) = {}
Within(record, size) == \A x \in DOMAIN record : Bytes(record[x]) \subseteq 0 .. size - 1
=============================================================================
