---------------------------- MODULE FormatProofs ----------------------------
(***************************************************************************)
(* What f_mkfs writes down is what auto_mount finds, for every size of the *)
(* card, block and cluster: the numbers the two compute in their own ways  *)
(* agree, the table has an entry for every cluster, and the areas are      *)
(* inside the volume and apart from each other.                            *)
(***************************************************************************)
EXTENDS Format, FiniteSets, FiniteSetTheorems, TLAPS

\* Dividing by the sectors of a cluster, one of seven numbers.
LEMMA Quotient ==
  ASSUME NEW k \in {1, 2, 4, 8, 16, 32, 64}, NEW n \in Nat
  PROVE  n \div k \in Nat /\ (n \div k) * k <= n /\ n < (n \div k) * k + k
  <1>1. k = 1 \/ k = 2 \/ k = 4 \/ k = 8 \/ k = 16 \/ k = 32 \/ k = 64
    OBVIOUS
  <1> QED
    BY <1>1

LEMMA QuotientGrows ==
  ASSUME NEW k \in {1, 2, 4, 8, 16, 32, 64}, NEW m \in Nat, NEW n \in Nat, m <= n
  PROVE  m \div k <= n \div k
  <1>1. k = 1 \/ k = 2 \/ k = 4 \/ k = 8 \/ k = 16 \/ k = 32 \/ k = 64
    OBVIOUS
  <1> QED
    BY <1>1

\* The size of the volume and of what precedes the table.
LEMMA Sizes ==
  ASSUME NEW r \in Requests, Formats(r)
  PROVE  /\ b_part(r) \in {0, 63} /\ n_part(r) \in Nat \ {0}
         /\ r.csize \in {1, 2, 4, 8, 16, 32, 64} /\ r.data \in Nat
         /\ r.block \in Nat \ {0} /\ r.partition \in {0, 1}
         /\ fmt(r) \in {"FAT12", "FAT16", "FAT32"}
         /\ n_rsv(r) \in 1 .. 33
         /\ n_dir(r) = IF fmt(r) = "FAT32" THEN 0 ELSE 32
  <1>1. /\ r.sectors \in Nat /\ r.partition \in {0, 1} /\ r.block \in Nat \ {0}
        /\ r.csize \in {1, 2, 4, 8, 16, 32, 64} /\ r.data \in Nat
    BY DEF Requests
  <1>2. b_part(r) \in {0, 63} /\ n_part(r) \in Nat \ {0}
    BY SMT, <1>1 DEF Formats, b_part, n_part, n_disk, MIN_SECTOR, MAX_SECTOR
  <1>3. fmt(r) \in {"FAT12", "FAT16", "FAT32"}
    BY SMT DEF fmt, SubType
  <1>4. n_rsv(r) \in 1 .. 33
    BY <1>1 DEF n_rsv
  <1>5. n_dir(r) = IF fmt(r) = "FAT32" THEN 0 ELSE 32
    BY DEF n_dir, N_ROOTDIR, SS
  <1> QED
    BY <1>1, <1>2, <1>3, <1>4, <1>5

\* The clusters f_mkfs counts first, and what their table needs.
LEMMA TableSize ==
  ASSUME NEW r \in Requests, Formats(r)
  PROVE  LET n == n_part(r) \div r.csize
         IN  /\ n \in Nat
             /\ TableSectors(r) \in Nat \ {0}
             /\ TableBytes(fmt(r), n) <= TableSectors(r) * SS
             /\ fmt(r) # "FAT32" => TableSectors(r) <= 256
  <1> DEFINE n == n_part(r) \div r.csize
  <1>1. n \in Nat
    BY Sizes, Quotient
  <1>2. fmt(r) = SubType(n)
    BY DEF fmt
  <1>3. TableSectors(r) = (TableBytes(fmt(r), n) + SS - 1) \div SS
    BY DEF TableSectors
  <1> HIDE DEF n
  <1>4. /\ TableSectors(r) \in Nat \ {0}
        /\ TableBytes(fmt(r), n) <= TableSectors(r) * SS
        /\ fmt(r) # "FAT32" => TableSectors(r) <= 256
    <2>1. CASE n >= 65525
      BY SMT, <1>1, <1>2, <1>3, <2>1 DEF SubType, TableBytes, SS
    <2>2. CASE n < 65525 /\ n >= 4085
      BY SMT, <1>1, <1>2, <1>3, <2>2 DEF SubType, TableBytes, SS
    <2>3. CASE n < 4085
      BY SMT, <1>1, <1>2, <1>3, <2>3 DEF SubType, TableBytes, SS
    <2> QED
      BY SMT, <1>1, <2>1, <2>2, <2>3
  <1> QED
    BY <1>1, <1>4 DEF n

\* The clusters that are left are those behind the aligned start of the data,
\* and the sub type of the volume is that of the first count.
LEMMA Clusters ==
  ASSUME NEW r \in Requests, Formats(r), Fits(r), Aligned(r)
  PROVE  /\ b_fat(r) \in Nat /\ n_fat(r) \in Nat \ {0}
         /\ TableSectors(r) <= n_fat(r)
         /\ fmt(r) # "FAT32" => n_fat(r) < 65536
         /\ r.data = b_fat(r) + n_fat(r) + n_dir(r)
         /\ n_clust(r) \in Nat /\ n_clust(r) <= n_part(r) \div r.csize
         /\ r.data + n_clust(r) * r.csize <= b_part(r) + n_part(r)
         /\ fmt(r) = SubType(n_clust(r))
  <1> DEFINE k == r.csize
             left == b_part(r) + n_part(r) - r.data
  <1>1. TableSectors(r) \in Nat \ {0} /\ (fmt(r) # "FAT32" => TableSectors(r) <= 256)
    BY SMT, TableSize
  <1>2. b_fat(r) = b_part(r) + n_rsv(r) /\ b_fat(r) \in Nat
    BY SMT, Sizes DEF b_fat
  <1>3. b_data(r) = b_fat(r) + TableSectors(r) + n_dir(r) /\ b_data(r) \in Nat
    BY SMT, <1>1, <1>2, Sizes DEF b_data, N_FATS
  <1>4. r.data >= b_data(r) /\ r.data <= b_data(r) + r.block - 1
    BY SMT, <1>3, Sizes DEF Aligned
  <1>5. n_fat(r) = TableSectors(r) + (r.data - b_data(r))
    BY SMT, <1>3, <1>4, Sizes DEF n_fat, N_FATS
  <1>6. n_fat(r) \in Nat \ {0} /\ TableSectors(r) <= n_fat(r)
    BY SMT, <1>1, <1>3, <1>4, <1>5, Sizes
  <1>7. fmt(r) # "FAT32" => n_fat(r) < 65536
    BY SMT, <1>1, <1>3, <1>4, <1>5, Sizes DEF Fits
  <1>8. r.data = b_fat(r) + n_fat(r) + n_dir(r)
    BY SMT, <1>1, <1>2, <1>3, <1>5, Sizes
  <1>9. left \in Nat /\ left <= n_part(r)
    BY SMT, <1>2, <1>6, <1>8, Sizes DEF Fits
  <1>10. n_clust(r) = left \div k
    <2>1. n_part(r) - n_rsv(r) - n_fat(r) * N_FATS - n_dir(r) = left
      BY SMT, <1>2, <1>6, <1>8, Sizes DEF N_FATS
    <2> QED
      BY SMT, <2>1 DEF n_clust
  <1> HIDE DEF left
  <1>11. n_clust(r) \in Nat /\ n_clust(r) * k <= left
    BY SMT, <1>9, <1>10, Sizes, Quotient
  <1>12. n_clust(r) <= n_part(r) \div k
    BY SMT, <1>9, <1>10, Sizes, QuotientGrows
  <1>13. r.data + n_clust(r) * k <= b_part(r) + n_part(r)
    BY SMT, <1>11, Sizes DEF left
  <1>14. fmt(r) = SubType(n_clust(r))
    <2> DEFINE n == n_part(r) \div k
    <2>1. n \in Nat /\ fmt(r) = SubType(n)
      BY SMT, TableSize DEF fmt
    <2> HIDE DEF n
    <2>2. n_clust(r) <= n
      BY SMT, <1>12 DEF n
    <2>3. CASE n < 4085
      BY SMT, <1>11, <2>1, <2>2, <2>3 DEF SubType
    <2>4. CASE n >= 4085 /\ n < 65525
      BY SMT, <1>11, <2>1, <2>2, <2>4 DEF SubType, Formats
    <2>5. CASE n >= 65525
      BY SMT, <1>11, <2>1, <2>2, <2>5 DEF SubType, Formats
    <2> QED
      BY SMT, <2>1, <2>3, <2>4, <2>5
  <1> HIDE DEF k
  <1> QED
    BY SMT, <1>2, <1>6, <1>7, <1>8, <1>11, <1>12, <1>13, <1>14 DEF k

\* What auto_mount computes from the boot record.
LEMMA Mounted ==
  ASSUME NEW r \in Requests, Formats(r), Fits(r), Aligned(r)
  PROVE  LET b == BootRecord(r)
         IN  /\ sects_fat(b) = n_fat(r) /\ totalsect(b) = n_part(r)
             /\ DirSectors(b) = n_dir(r)
             /\ max_clust(b) = n_clust(r) + 2
             /\ fs_type(b) = fmt(r)
             /\ fatbase(b, b_part(r)) = b_fat(r)
             /\ database(b, b_part(r)) = r.data
             /\ b.secPerClus = r.csize /\ b.numFATs = 1 /\ b.rsvdSecCnt = n_rsv(r)
             /\ b.rootClus = 2 /\ b.bytsPerSec = SS
  <1> DEFINE b == BootRecord(r)
  <1>1. /\ b.secPerClus = r.csize /\ b.numFATs = 1 /\ b.rsvdSecCnt = n_rsv(r)
        /\ b.rootClus = 2 /\ b.bytsPerSec = SS /\ b.rootEntCnt = (SS \div 32) * n_dir(r)
        /\ b.totSec16 = (IF n_part(r) < 65536 THEN n_part(r) ELSE 0)
        /\ b.totSec32 = (IF n_part(r) < 65536 THEN 0 ELSE n_part(r))
        /\ b.fatSz16 = (IF fmt(r) = "FAT32" THEN 0 ELSE n_fat(r) % 65536)
        /\ b.fatSz32 = (IF fmt(r) = "FAT32" THEN n_fat(r) ELSE 0)
    BY DEF BootRecord, N_FATS
  <1> HIDE DEF b
  <1>2. sects_fat(b) = n_fat(r)
    BY SMT, <1>1, Clusters DEF sects_fat
  <1>3. totalsect(b) = n_part(r)
    BY SMT, <1>1, Sizes DEF totalsect
  <1>4. DirSectors(b) = n_dir(r)
    BY <1>1, Sizes DEF DirSectors, SS
  <1>5. max_clust(b) = n_clust(r) + 2
    <2>1. sects_fat(b) * b.numFATs = n_fat(r) * N_FATS
      BY <1>1, <1>2 DEF N_FATS
    <2> QED
      BY <1>1, <1>3, <1>4, <2>1 DEF max_clust, n_clust
  <1>6. fs_type(b) = fmt(r)
    BY SMT, <1>5, Clusters DEF fs_type, SubType
  <1>7. fatbase(b, b_part(r)) = b_fat(r)
    BY <1>1 DEF fatbase, b_fat
  <1>8. database(b, b_part(r)) = r.data
    <2>1. sects_fat(b) * b.numFATs = n_fat(r)
      BY <1>1, <1>2, Clusters
    <2> QED
      BY <1>4, <1>7, <2>1, Clusters DEF database
  <1> QED
    BY SMT, <1>1, <1>2, <1>3, <1>4, <1>5, <1>6, <1>7, <1>8 DEF b

\* auto_mount finds the boot record f_mkfs wrote, with and without a partition
\* table, and works out of it the sub type, the table, the number of clusters
\* and the start of the data that f_mkfs meant - if the window did not hold the
\* boot record of an older volume when the partition table was written.
THEOREM MountFindsTheVolume ==
  ASSUME NEW r \in Requests, Formats(r), Fits(r), Aligned(r)
  PROVE  LET disk  == Written(r, <<>>)
             start == BootSector(disk)
             b     == disk[start].bpb
         IN  /\ Mountable(disk) /\ start = b_part(r)
             /\ fs_type(b) = fmt(r)
             /\ sects_fat(b) = n_fat(r) /\ fatbase(b, start) = b_fat(r)
             /\ max_clust(b) = n_clust(r) + 2
             /\ database(b, start) = r.data
  <1> DEFINE disk == Written(r, <<>>)
  <1>1. disk[b_part(r)] = Boot(r) /\ (b_part(r) # 0 => disk[0] = Mbr(<<>>))
    BY DEF Written
  <1>2. /\ Boot(r).fat = TRUE /\ Boot(r).bpb = BootRecord(r)
        /\ Mbr(<<>>).fat = FALSE /\ Mbr(<<>>).part = TRUE /\ Mbr(<<>>).start = 63
    BY DEF Boot, Mbr
  <1> HIDE DEF disk
  <1>3. BootSector(disk) = b_part(r)
    BY <1>1, <1>2, Sizes DEF BootSector, check_fs
  <1>4. Mountable(disk)
    BY <1>1, <1>2, <1>3, Mounted DEF Mountable, check_fs
  <1>5. disk[BootSector(disk)].bpb = BootRecord(r)
    BY <1>1, <1>2, <1>3
  <1>6. /\ fs_type(BootRecord(r)) = fmt(r) /\ sects_fat(BootRecord(r)) = n_fat(r)
        /\ fatbase(BootRecord(r), b_part(r)) = b_fat(r)
        /\ max_clust(BootRecord(r)) = n_clust(r) + 2
        /\ database(BootRecord(r), b_part(r)) = r.data
    BY Mounted
  <1> QED
    BY <1>3, <1>4, <1>5, <1>6 DEF disk

\* The table of the mounted volume has room for the entry of every cluster:
\* f_mkfs rounds up the size for the clusters it counts before it knows how
\* large the table is.
THEOREM TableHoldsEveryCluster ==
  ASSUME NEW r \in Requests, Formats(r), Fits(r), Aligned(r),
         NEW c \in 2 .. max_clust(BootRecord(r)) - 1
  PROVE  EntryEnd(fs_type(BootRecord(r)), c) <= sects_fat(BootRecord(r)) * SS
  <1> DEFINE n == n_part(r) \div r.csize
  <1>1. n \in Nat /\ TableBytes(fmt(r), n) <= TableSectors(r) * SS /\ TableSectors(r) \in Nat
    BY TableSize
  <1>2. TableSectors(r) * SS <= n_fat(r) * SS
    BY <1>1, Clusters DEF SS
  <1>3. c \in Nat /\ c <= n + 1
    BY <1>1, Mounted, Clusters
  <1> HIDE DEF n
  <1>4. EntryEnd(fmt(r), c) <= TableBytes(fmt(r), n)
    <2>1. CASE fmt(r) = "FAT12"
      BY SMT, <1>1, <1>3, <2>1 DEF EntryEnd, TableBytes
    <2>2. CASE fmt(r) # "FAT12"
      BY SMT, <1>1, <1>3, <2>2, Sizes DEF EntryEnd, TableBytes
    <2> QED
      BY <2>1, <2>2
  <1>5. EntryEnd(fmt(r), c) \in Nat /\ TableBytes(fmt(r), n) \in Nat
    BY SMT, <1>1, <1>3 DEF EntryEnd, TableBytes
  <1>6. EntryEnd(fmt(r), c) <= n_fat(r) * SS
    BY <1>1, <1>2, <1>4, <1>5, Clusters DEF SS
  <1> QED
    BY <1>6, Mounted

\* Every cluster lies behind the root directory and inside the volume, and no
\* two clusters have a sector in common.
THEOREM ClustersApart ==
  ASSUME NEW r \in Requests, Formats(r), Fits(r), Aligned(r),
         NEW c \in 2 .. max_clust(BootRecord(r)) - 1
  PROVE  LET b == BootRecord(r)
             at(d) == clust2sect(b, b_part(r), d)
         IN  /\ b_fat(r) + sects_fat(b) + DirSectors(b) <= at(c)
             /\ at(c) + b.secPerClus <= b_part(r) + n_part(r)
             /\ \A d \in 2 .. c - 1 : at(d) + b.secPerClus <= at(c)
  <1> DEFINE b == BootRecord(r)
             at(d) == clust2sect(b, b_part(r), d)
  <1>1. c \in Nat /\ c >= 2 /\ c <= n_clust(r) + 1
    BY Mounted, Clusters
  <1>2. \A d \in 2 .. c : at(d) = (d - 2) * r.csize + r.data
    BY Mounted DEF clust2sect
  <1>3. r.csize \in {1, 2, 4, 8, 16, 32, 64} /\ r.data \in Nat
    BY SMT, Sizes
  <1>4. b_fat(r) + sects_fat(b) + DirSectors(b) = r.data
    BY Mounted, Clusters
  <1>5. at(c) = (c - 2) * r.csize + r.data
    BY <1>1, <1>2
  <1> HIDE DEF b, at
  <1>6. r.data <= at(c)
    BY <1>1, <1>3, <1>5
  <1>7. at(c) + r.csize <= b_part(r) + n_part(r)
    <2>1. (c - 2) * r.csize + r.csize <= n_clust(r) * r.csize
      BY <1>1, <1>3, Clusters
    <2> QED
      BY SMT, <1>1, <1>3, <1>5, <2>1, Clusters, Sizes
  <1>8. ASSUME NEW d \in 2 .. c - 1
        PROVE  at(d) + r.csize <= at(c)
    <2>1. at(d) = (d - 2) * r.csize + r.data
      BY <1>1, <1>2
    <2>2. (d - 2) * r.csize + r.csize <= (c - 2) * r.csize
      BY <1>1, <1>3
    <2> QED
      BY <1>1, <1>3, <1>5, <2>1, <2>2
  <1>9. b.secPerClus = r.csize
    BY Mounted DEF b
  <1> QED
    BY <1>4, <1>6, <1>7, <1>8, <1>9 DEF b, at

\* The sectors f_mkfs clears behind the table are the root directory that a
\* mount will read.
THEOREM RootDirCleared ==
  ASSUME NEW r \in Requests, Formats(r), Fits(r), Aligned(r)
  PROVE  RootDir(BootRecord(r), b_part(r)) = Cleared(r)
  <1> DEFINE b == BootRecord(r)
  <1> SUFFICES RootDir(b, b_part(r)) = Cleared(r)
    OBVIOUS
  <1>1. r.data = b_fat(r) + n_fat(r) + n_dir(r) /\ n_fat(r) \in Nat /\ b_fat(r) \in Nat
    BY Clusters
  <1>2. n_fat(r) * N_FATS = n_fat(r)
    BY <1>1 DEF N_FATS
  <1>3. /\ fs_type(b) = fmt(r) /\ b.rootClus = 2 /\ b.secPerClus = r.csize
        /\ DirSectors(b) = n_dir(r) /\ database(b, b_part(r)) = r.data
        /\ fatbase(b, b_part(r)) = b_fat(r) /\ sects_fat(b) * b.numFATs = n_fat(r)
    BY <1>1, Mounted
  <1> HIDE DEF b
  <1>4. CASE fmt(r) = "FAT32"
    <2>1. n_dir(r) = 0
      BY <1>4, Sizes
    <2>2. clust2sect(b, b_part(r), b.rootClus) = r.data
      BY <1>3, Sizes DEF clust2sect
    <2>3. r.data = b_fat(r) + n_fat(r) * N_FATS
      BY <1>1, <1>2, <2>1
    <2> QED
      BY <1>3, <1>4, <2>2, <2>3 DEF RootDir, Cleared
  <1>5. CASE fmt(r) # "FAT32"
    BY <1>2, <1>3, <1>5 DEF RootDir, Cleared
  <1> QED
    BY <1>4, <1>5

LEMMA Interval3 ==
  ASSUME NEW m \in Int, NEW n \in Int, m = n + 1, n >= 2
  PROVE  Cardinality(3 .. m) = n - 1
  <1>1. Cardinality(3 .. m) = IF 3 > m THEN 0 ELSE m - 3 + 1
    BY FS_Interval
  <1>2. ~(3 > m) /\ m - 3 + 1 = n - 1
    OBVIOUS
  <1> QED
    BY <1>1, <1>2

\* The free count in the FSInfo record of a new FAT32 volume is the number of
\* its free clusters.
THEOREM FreeCountRight ==
  ASSUME NEW r \in Requests, Formats(r), Fits(r), Aligned(r), fmt(r) = "FAT32"
  PROVE  Cardinality((2 .. max_clust(BootRecord(r)) - 1) \ Taken(r)) = FreeCount(r)
  <1> DEFINE n == n_clust(r)
             m == max_clust(BootRecord(r)) - 1
  <1>1. n \in Int /\ n >= 2
    BY SMT, Clusters DEF Formats
  <1>2. m \in Int /\ m = n + 1
    BY <1>1, Mounted
  <1>3. FreeCount(r) = n - 1
    BY DEF FreeCount
  <1> HIDE DEF n, m
  <1>4. (2 .. m) \ Taken(r) = 3 .. m
    BY <1>1, <1>2 DEF Taken
  <1>5. Cardinality(3 .. m) = n - 1
    BY <1>1, <1>2, Interval3
  <1>6. Cardinality((2 .. m) \ Taken(r)) = FreeCount(r)
    BY ONLY <1>3, <1>4, <1>5
  <1> QED
    BY <1>6 DEF m
=============================================================================
