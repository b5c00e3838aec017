------------------------------- MODULE Format -------------------------------
(***************************************************************************)
(* Where things are on a FAT volume.  f_mkfs divides the card into the     *)
(* boot record, the table, the root directory and the clusters and writes  *)
(* that down; auto_mount works it out again from what it reads.  Numbers   *)
(* are integers here; the DWORDs of the code hold them as long as Fits.    *)
(***************************************************************************)
EXTENDS Integers

SS         == 512        \* bytes of a sector
N_ROOTDIR  == 512
N_FATS     == 1
MIN_SECTOR == 2000
MAX_SECTOR == 64000000

-----------------------------------------------------------------------------
(* What disk_ioctl says of the card, from the registers it sent.           *)

Cards == [csd : {1, 2},                  \* version of the CSD
          type : {"MMC", "SDV1", "SDV2"},
          c_size : 0 .. 65535, mult : 0 .. 7, len : 9 .. 11,
          erase : 0 .. 127, wlen : 9 .. 11,     \* SDV1
          group : 0 .. 31, gmult : 0 .. 31,     \* MMC
          au : 0 .. 15]                         \* SDV2, from the SD status

SectorCount(c) ==
    IF c.csd = 2 THEN (c.c_size + 1) * 1024
                 ELSE (c.c_size + 1) * 2^(c.mult + c.len - 7)

BlockSize(c) ==
    CASE c.type = "SDV2" -> 16 * 2^c.au
      [] c.type = "SDV1" -> (c.erase + 1) * 2^(c.wlen - 9)
      [] OTHER           -> (c.group + 1) * (c.gmult + 1)

-----------------------------------------------------------------------------
(* f_mkfs.  The data area starts at the first block boundary; data is that *)
(* boundary, for a block size that is no power of two whatever the masking *)
(* gives: never more than block - 1 sectors behind b_data.                 *)

Requests == [sectors : Nat,              \* GET_SECTOR_COUNT
             block : Nat \ {0},          \* GET_BLOCK_SIZE
             partition : {0, 1},         \* 0: with a partition table, 1: without
             csize : {1, 2, 4, 8, 16, 32, 64},   \* allocsize / SS
             data : Nat]

n_disk(r) == IF r.sectors > MAX_SECTOR THEN MAX_SECTOR ELSE r.sectors
b_part(r) == IF r.partition = 0 THEN 63 ELSE 0
n_part(r) == n_disk(r) - b_part(r)

SubType(n) == IF n >= 65525 THEN "FAT32" ELSE IF n >= 4085 THEN "FAT16" ELSE "FAT12"
fmt(r) == SubType(n_part(r) \div r.csize)

TableBytes(t, n) ==
    CASE t = "FAT12" -> (n * 3 + 1) \div 2 + 3
      [] t = "FAT16" -> n * 2 + 4
      [] OTHER       -> n * 4 + 8
TableSectors(r) == (TableBytes(fmt(r), n_part(r) \div r.csize) + SS - 1) \div SS

n_rsv(r)  == IF fmt(r) = "FAT32" THEN 33 - r.partition ELSE 1 + r.partition
n_dir(r)  == IF fmt(r) = "FAT32" THEN 0 ELSE (N_ROOTDIR * 32) \div SS
b_fat(r)  == b_part(r) + n_rsv(r)
b_data(r) == b_fat(r) + TableSectors(r) * N_FATS + n_dir(r)

Aligned(r) == r.data \in b_data(r) .. b_data(r) + r.block - 1

n_fat(r)   == TableSectors(r) + (r.data - b_data(r)) \div N_FATS
n_clust(r) == (n_part(r) - n_rsv(r) - n_fat(r) * N_FATS - n_dir(r)) \div r.csize

Formats(r) ==
    /\ r.sectors >= MIN_SECTOR
    /\ ~(fmt(r) = "FAT16" /\ n_clust(r) < 4085)
    /\ ~(fmt(r) = "FAT32" /\ n_clust(r) < 65525)

\* The code does not look whether there is room for a block, and BPB_FATSz16
\* has 16 bits.  Every card whose blocks are not larger than 16 MB fits.
Fits(r) == r.data <= b_part(r) + n_part(r) /\ r.block <= 65280

BootRecord(r) ==
    [bytsPerSec |-> SS, secPerClus |-> r.csize, rsvdSecCnt |-> n_rsv(r),
     numFATs    |-> N_FATS, rootEntCnt |-> (SS \div 32) * n_dir(r),
     totSec16   |-> IF n_part(r) < 65536 THEN n_part(r) ELSE 0,
     totSec32   |-> IF n_part(r) < 65536 THEN 0 ELSE n_part(r),
     fatSz16    |-> IF fmt(r) = "FAT32" THEN 0 ELSE n_fat(r) % 65536,
     fatSz32    |-> IF fmt(r) = "FAT32" THEN n_fat(r) ELSE 0,
     rootClus   |-> 2]

\* The sectors a mount may look at.  The partition table is put into the
\* window as it was left: old is the record of the volume mounted before, if
\* its boot record was the last sector the window showed.
Boot(r) == [fat |-> TRUE, part |-> FALSE, start |-> 0, bpb |-> BootRecord(r)]
Mbr(old) ==
    [fat |-> old # <<>>, part |-> TRUE, start |-> 63,
     bpb |-> IF old = <<>> THEN [bytsPerSec |-> 0] ELSE old[1]]
Written(r, old) ==
    [s \in {0, b_part(r)} |-> IF s = b_part(r) THEN Boot(r) ELSE Mbr(old)]

\* The sectors cleared for the root directory follow the table.
Cleared(r) ==
    LET first == b_fat(r) + n_fat(r) * N_FATS
    IN  first .. first + (IF fmt(r) = "FAT32" THEN r.csize ELSE n_dir(r)) - 1

\* The entries of the table that are not free: two are reserved, and the root
\* directory of a FAT32 volume has cluster 2.
Taken(r)     == IF fmt(r) = "FAT32" THEN {0, 1, 2} ELSE {0, 1}
FreeCount(r) == n_clust(r) - 1           \* in the FSInfo record of FAT32

-----------------------------------------------------------------------------
(* auto_mount.                                                             *)

check_fs(sector) == IF sector.fat THEN 0 ELSE 1

BootSector(disk) ==
    IF check_fs(disk[0]) = 1 /\ disk[0].part THEN disk[0].start ELSE 0
Mountable(disk) ==
    LET b == disk[BootSector(disk)]
    IN  check_fs(b) = 0 /\ b.bpb.bytsPerSec = SS

sects_fat(b) == IF b.fatSz16 # 0 THEN b.fatSz16 ELSE b.fatSz32
totalsect(b) == IF b.totSec16 # 0 THEN b.totSec16 ELSE b.totSec32
DirSectors(b) == b.rootEntCnt \div (SS \div 32)
max_clust(b) ==
    (totalsect(b) - b.rsvdSecCnt - sects_fat(b) * b.numFATs - DirSectors(b))
        \div b.secPerClus + 2
fs_type(b) ==
    IF max_clust(b) >= 65527 THEN "FAT32"
    ELSE IF max_clust(b) >= 4087 THEN "FAT16" ELSE "FAT12"
fatbase(b, start)  == start + b.rsvdSecCnt
database(b, start) == fatbase(b, start) + sects_fat(b) * b.numFATs + DirSectors(b)
clust2sect(b, start, c) == (c - 2) * b.secPerClus + database(b, start)

\* The sectors of the root directory.
RootDir(b, start) ==
    IF fs_type(b) = "FAT32"
    THEN LET first == clust2sect(b, start, b.rootClus) IN first .. first + b.secPerClus - 1
    ELSE LET first == fatbase(b, start) + sects_fat(b) * b.numFATs
         IN  first .. first + DirSectors(b) - 1

\* The first byte behind entry c of the table, as get_cluster reads it.
EntryEnd(t, c) ==
    CASE t = "FAT12" -> (c * 3) \div 2 + 2
      [] t = "FAT16" -> c * 2 + 2
      [] OTHER       -> c * 4 + 4
=============================================================================
