---------------------------- MODULE FatVolumeMC ----------------------------
(***************************************************************************)
(* Model values for FatVolume: file names and file objects are             *)
(* interchangeable (directory slots and clusters are not, they are scanned *)
(* in order).  And samples of what FatVolume takes for granted: where the  *)
(* table and the directory are, and what a name is.                        *)
(***************************************************************************)
EXTENDS FatVolume, TLC

Symmetry == Permutations(Names) \cup Permutations(Handles)

-----------------------------------------------------------------------------
Fmt == INSTANCE Format

\* Every card whose erase blocks are at most 16 MB meets Fits of Format.
ASSUME BlocksFit ==
    \A t \in {"MMC", "SDV1", "SDV2"}, e \in {0, 127}, w \in 9 .. 11,
       g \in {0, 31}, a \in 0 .. 11 :
        Fmt!BlockSize([type |-> t, erase |-> e, wlen |-> w,
                       group |-> g, gmult |-> g, au |-> a]) \in 1 .. 65280

Small == 2000 .. 2003
Capacities == Small \cup {65535, 65536, 65599, 250000, 4000000, 70000000}
Asked == {r \in UNION {{[sectors |-> s, block |-> b, partition |-> p,
                         csize |-> k, data |-> d] :
                           d \in {0, 1, b - 1}} :
                          s \in Capacities, b \in {1, 32, 1024, 8192},
                          p \in {0, 1}, k \in {1, 2, 8, 64}} :
            r.data < r.block}
\* The offset of the data from b_data, here, is a sample.
At(r) == [r EXCEPT !.data = Fmt!b_data(r) + @]
Done  == {q \in {At(r) : r \in Asked} : Fmt!Formats(q) /\ Fmt!Fits(q)}

\* f_mkfs makes volumes of every sub type, with and without a partition table.
ASSUME EverySubType ==
    \A t \in {"FAT12", "FAT16", "FAT32"}, p \in {0, 1} :
        \E q \in Done : Fmt!fmt(q) = t /\ q.partition = p

\* What f_mkfs wrote is what auto_mount finds; the last cluster of the volume
\* has an entry and lies inside.
ASSUME MountFindsVolume ==
    \A q \in Done :
        LET disk  == Fmt!Written(q, <<>>)
            start == Fmt!BootSector(disk)
            b     == disk[start].bpb
            last  == Fmt!max_clust(b) - 1
        IN  /\ Fmt!Aligned(q) /\ Fmt!Mountable(disk)
            /\ Fmt!fs_type(b) = Fmt!fmt(q) /\ Fmt!database(b, start) = q.data
            /\ Fmt!RootDir(b, start) = Fmt!Cleared(q)
            /\ Fmt!EntryEnd(Fmt!fs_type(b), last) <= Fmt!sects_fat(b) * Fmt!SS
            /\ Fmt!clust2sect(b, start, last) + q.csize <= start + Fmt!n_part(q)

\* The partition table is written over what the window held: after a volume
\* without one was mounted, a mount takes sector 0 for the boot record.
ASSUME OldRecordFound ==
    \A q \in Done : q.partition = 0 =>
        LET disk == Fmt!Written(q, <<Fmt!BootRecord([q EXCEPT !.partition = 1])>>)
        IN  Fmt!BootSector(disk) # Fmt!b_part(q)

-----------------------------------------------------------------------------
Dn == INSTANCE DirName

Strings(chars, n) == UNION {[1 .. k -> chars] : k \in 0 .. n}
Again(s) == Dn!make_dirfile(Dn!get_fileinfo(Dn!make_dirfile(s)))

\* A name as f_readdir shows it finds the entry it was read from, in capitals
\* and small letters, at the limits of both parts, with the byte that would
\* mark the entry deleted in front.
ASSUME ShownNameFindsEntry ==
    \A s \in Strings({65, 97, 49, Dn!Dot, 42}, 4) \cup Strings({97, Dn!Dot}, 10)
            \cup Strings({Dn!Kanji, 129, 49, Dn!Dot}, 4) :
        Dn!make_dirfile(s).ok => Again(s) = Dn!make_dirfile(s)

\* Not so with the letters that are second bytes of S-JIS pairs: get_fileinfo
\* turns them to lower case with the others.
ASSUME PairsChanged ==
    LET s == <<97, 129, 65>>
    IN  Dn!make_dirfile(s).ok /\ Again(s).bytes # Dn!make_dirfile(s).bytes

-----------------------------------------------------------------------------
Clk == INSTANCE Clock

Times == [sec : {0, 1, 29, 58, 59}, min : {0, 59}, hour : {0, 12, 23},
          mday : {1, 28, 29, 30, 31}, mon : {1, 2, 4, 12}, year : {1980, 1999, 2004, 2106}]
Calendar == {t \in Times : t.mday <= Clk!Days(t)}
Stamp(t, k) == Clk!get_fattime(Clk!RTCGetTime(t, k))    \* k = 6: at t

\* A stamp is never earlier than the time at which the call began, whenever the
\* clock moves on while its registers are read: the seconds are read first.
ASSUME NeverBehind ==
    \A t \in Calendar, k \in 0 .. 6 : Clk!NotAfter(Stamp(t, 6), Stamp(t, k))

\* But it may be later than the time at which the call ended, so that a file
\* written after it gets an earlier stamp.
ASSUME MayRunAhead ==
    \E t \in Calendar, k \in 1 .. 5 : ~Clk!NotAfter(Stamp(t, k), Stamp(t, 0))
-----------------------------------------------------------------------------
Lay == INSTANCE Layout

\* No field of a record is stored over another one, nor behind its end; the two
\* halves of a stamp land in the two fields f_utime and get_fileinfo use.
ASSUME FieldsApart ==
    /\ \A r \in {Lay!BPB, Lay!FSI, Lay!MBR} : Lay!Apart(r) /\ Lay!Within(r, 512)
    /\ Lay!Apart(Lay!BPB @@ Lay!BS16) /\ Lay!Within(Lay!BS16, 510)
    /\ Lay!Apart(Lay!BPB @@ Lay!BS32) /\ Lay!Within(Lay!BS32, 510)
    /\ Lay!Apart(Lay!DIR) /\ Lay!Within(Lay!DIR, 32)
    /\ Lay!Bytes(Lay!Stamp) = Lay!Bytes(Lay!DIR.wrtTime) \cup Lay!Bytes(Lay!DIR.wrtDate)

\* f_mkfs stores the signature of the sub type where check_fs looks for it, and
\* leaves the flags check_fs wants clear alone.  The partition table goes
\* behind it: a signature in the window stays, see OldRecordFound.
ASSUME SignatureFound ==
    /\ Lay!FilSysType.at = Lay!BS16.volLab.at + Lay!Label
    /\ Lay!FilSysType32.at = Lay!BS32.volLab.at + Lay!Label
    /\ \A x \in DOMAIN Lay!BS32 : Lay!ExtFlags \notin Lay!Bytes(Lay!BS32[x])
    /\ \A x \in DOMAIN Lay!MBR :
          Lay!Bytes(Lay!MBR[x]) \cap (Lay!Bytes(Lay!FilSysType) \cup Lay!Bytes(Lay!FilSysType32)) = {}

\* What ST_ stores LD_ loads, as far as the field is wide, and the bytes around
\* it stay.
ASSUME LoadedAsStored ==
    \A old \in {0, 170, 255}, w \in {1, 2, 4},
       v \in {0, 1, 255, 256, 65535, 65536, 16777215, 2130706432} :
        LET bytes == [i \in 0 .. 7 |-> old]
            f     == Lay!Field(2, w)
            new   == Lay!ST(bytes, f, v)
        IN  /\ Lay!LD(new, f) = IF w = 4 THEN v ELSE v % 256^w
            /\ \A i \in 0 .. 7 \ Lay!Bytes(f) : new[i] = old
=============================================================================
