--------------------------- MODULE FatFileProofs ---------------------------
(***************************************************************************)
(* Proofs about FatFile, for every size of a sector, of a cluster and of a *)
(* DWORD, every chain and every card that may refuse: the position, the    *)
(* buffer and the entry agree with each other whenever a call has ended,   *)
(* and the file object implements a file of bytes (ByteFile).              *)
(***************************************************************************)
EXTENDS FatFile, SequenceTheorems, TLAPS

Row(i) == i \div Cluster
Col(i) == (i % Cluster) \div SS

\* What div and mod are.
LEMMA DivMod ==
    ASSUME NEW n \in Nat, NEW k \in Nat \ {0}
    PROVE  /\ n \div k \in Nat /\ n % k \in 0 .. k - 1
           /\ n = k * (n \div k) + (n % k)
  OBVIOUS

\* The quotient and the remainder are the only ones.
LEMMA DivUnique ==
    ASSUME NEW k \in Nat \ {0}, NEW q \in Nat, NEW r \in 0 .. k - 1
    PROVE  (k * q + r) \div k = q /\ (k * q + r) % k = r
  <1> DEFINE n == k * q + r
             a == n \div k
             b == n % k
  <1>1. n \in Nat
    OBVIOUS
  <1>2. a \in Nat /\ b \in 0 .. k - 1 /\ n = k * a + b
    BY <1>1, DivMod
  <1>3. k * (a - q) = r - b
    BY <1>2
  <1> HIDE DEF a, b
  <1>4. a - q < 1
    <2> SUFFICES ASSUME a - q >= 1 PROVE FALSE
      BY <1>2
    <2>1. k * (a - q) >= k
      BY <1>2
    <2> QED
      BY <1>2, <1>3, <2>1
  <1>5. a - q > -1
    <2> SUFFICES ASSUME a - q <= -1 PROVE FALSE
      BY <1>2
    <2>1. k * (a - q) <= -k
      BY <1>2
    <2> QED
      BY <1>2, <1>3, <2>1
  <1>6. a = q /\ b = r
    BY <1>2, <1>3, <1>4, <1>5
  <1> QED
    BY <1>6 DEF a, b

\* The sizes of a sector and of a cluster.
LEMMA ClusterIs == Cluster \in Nat \ {0} /\ Cluster = SS * csize /\ SS \in Nat \ {0} /\ csize \in Nat \ {0}
  <1>1. SS \in Nat \ {0} /\ csize \in Nat \ {0}
    BY GeometryAssumption
  <1> QED
    BY <1>1 DEF Cluster

\* A position is a cluster, a sector of it and a byte of that.
LEMMA Split ==
    ASSUME NEW a \in Nat
    PROVE  /\ Row(a) \in Nat /\ Col(a) \in 0 .. csize - 1 /\ a % SS \in 0 .. SS - 1
           /\ a = Cluster * Row(a) + SS * Col(a) + (a % SS)
  <1> DEFINE q == a \div Cluster
             m == a % Cluster
             s == m \div SS
             r == m % SS
  <1>1. q \in Nat /\ m \in 0 .. Cluster - 1 /\ a = Cluster * q + m
    BY ClusterIs, DivMod
  <1> HIDE DEF q, m
  <1>2. s \in Nat /\ r \in 0 .. SS - 1 /\ m = SS * s + r
    <2>1. m \in Nat /\ SS \in Nat \ {0}
      BY <1>1, ClusterIs
    <2> QED
      BY <2>1, DivMod
  <1> HIDE DEF s, r
  <1>3. s < csize
    <2> SUFFICES ASSUME s >= csize PROVE FALSE
      BY <1>2, ClusterIs
    <2>1. SS * s >= SS * csize
      BY <1>2, ClusterIs
    <2> QED
      BY <1>1, <1>2, <2>1, ClusterIs
  <1>4. a = SS * (csize * q + s) + r
    <2>1. Cluster * q = SS * (csize * q)
      BY <1>1, ClusterIs
    <2>2. SS * (csize * q + s) = SS * (csize * q) + SS * s
      BY <1>1, <1>2, ClusterIs
    <2> QED
      BY <1>1, <1>2, <2>1, <2>2, ClusterIs
  <1>5. csize * q + s \in Nat
    BY <1>1, <1>2, ClusterIs
  <1>6. a % SS = r
    BY <1>2, <1>4, <1>5, DivUnique, ClusterIs
  <1>7. Row(a) = q /\ Col(a) = s
    BY DEF Row, Col, q, s, m
  <1> QED
    BY <1>1, <1>2, <1>3, <1>6, <1>7, ClusterIs

\* The position that a cluster, a sector and a byte make.
LEMMA Join ==
    ASSUME NEW q \in Nat, NEW s \in 0 .. csize - 1, NEW r \in 0 .. SS - 1,
           NEW a, a = Cluster * q + SS * s + r
    PROVE  a \in Nat /\ Row(a) = q /\ Col(a) = s /\ a % SS = r
  <1> DEFINE m == SS * s + r
  <1>1. m \in 0 .. Cluster - 1
    <2>1. SS * (s + 1) <= SS * csize
      BY ClusterIs
    <2>2. SS * (s + 1) = SS * s + SS
      BY ClusterIs
    <2>3. SS * s \in Nat
      BY ClusterIs
    <2> QED
      BY <2>1, <2>2, <2>3, ClusterIs
  <1>2. a = Cluster * q + m /\ m = SS * s + r /\ Cluster * q \in Nat
    BY ClusterIs
  <1>3. a \in Nat /\ a \div Cluster = q /\ a % Cluster = m
    <2> HIDE DEF m
    <2> QED
      BY <1>1, <1>2, DivUnique, ClusterIs
  <1>4. m \div SS = s /\ m % SS = r
    BY DivUnique, ClusterIs
  <1>5. a % SS = r
    <2>1. Cluster * q = SS * (csize * q)
      BY ClusterIs
    <2>2. SS * (csize * q + s) = SS * (csize * q) + SS * s
      BY ClusterIs
    <2>3. a = SS * (csize * q + s) + r
      BY <2>1, <2>2, ClusterIs, <1>2
    <2>4. csize * q + s \in Nat
      BY ClusterIs
    <2> QED
      BY <2>3, <2>4, DivUnique, ClusterIs
  <1> HIDE DEF m
  <1> QED
    BY <1>3, <1>4, <1>5 DEF Row, Col

\* The numbers a position is made of.
LEMMA Terms ==
    ASSUME NEW a \in Nat
    PROVE  /\ Row(a) \in Nat /\ Col(a) \in 0 .. csize - 1 /\ a % SS \in 0 .. SS - 1
           /\ Cluster * Row(a) \in Nat /\ SS * Col(a) \in Nat
  <1>1. Row(a) \in Nat /\ Col(a) \in 0 .. csize - 1 /\ a % SS \in 0 .. SS - 1
    BY Split
  <1>2. \A x, y \in Nat : x * y \in Nat
    OBVIOUS
  <1>3. Col(a) \in Nat /\ Cluster \in Nat /\ SS \in Nat
    BY <1>1, ClusterIs
  <1> QED
    BY <1>1, <1>2, <1>3

\* Bytes of the sector that a position is in.
LEMMA SameSector ==
    ASSUME NEW a \in Nat, NEW k \in Nat, (a % SS) + k < SS
    PROVE  Row(a + k) = Row(a) /\ Col(a + k) = Col(a) /\ (a + k) % SS = (a % SS) + k
  <1> DEFINE r == a % SS
             x == Cluster * Row(a)
             y == SS * Col(a)
  <1>1. r \in 0 .. SS - 1 /\ x \in Nat /\ y \in Nat
    BY Terms
  <1>2. a = x + y + r
    BY Split
  <1>3. r + k < SS
    OBVIOUS
  <1>4. Row(a) \in Nat /\ Col(a) \in 0 .. csize - 1
    BY Terms
  <1> HIDE DEF r, x, y
  <1>5. a + k = x + y + (r + k) /\ r + k \in 0 .. SS - 1
    BY <1>1, <1>2, <1>3, ClusterIs
  <1>6. a + k = Cluster * Row(a) + SS * Col(a) + (r + k)
    BY <1>5 DEF x, y
  <1>7. Row(a + k) = Row(a) /\ Col(a + k) = Col(a) /\ (a + k) % SS = r + k
    BY <1>4, <1>5, <1>6, Join
  <1> QED
    BY <1>7 DEF r

\* The byte after the last one of a sector.
LEMMA NextByte ==
    ASSUME NEW a \in Nat
    PROVE  /\ (a + 1) % SS = 0 <=> a % SS = SS - 1
           /\ a % SS = SS - 1 /\ Col(a) + 1 < csize =>
                  Row(a + 1) = Row(a) /\ Col(a + 1) = Col(a) + 1
           /\ a % SS = SS - 1 /\ Col(a) + 1 = csize =>
                  Row(a + 1) = Row(a) + 1 /\ Col(a + 1) = 0
  <1> DEFINE r == a % SS
             x == Cluster * Row(a)
             y == SS * Col(a)
  <1>1. r \in 0 .. SS - 1 /\ x \in Nat /\ y \in Nat
    BY Terms
  <1>2. a = x + y + r
    BY Split
  <1>3. Row(a) \in Nat /\ Col(a) \in 0 .. csize - 1 /\ 0 \in 0 .. SS - 1 /\ 0 \in 0 .. csize - 1
    BY Terms, ClusterIs
  <1>4. ASSUME r # SS - 1 PROVE (a + 1) % SS # 0 /\ r # SS - 1
    <2>1. (a % SS) + 1 < SS
      BY <1>1, <1>4, ClusterIs
    <2>2. (a + 1) % SS = (a % SS) + 1
      BY <2>1, SameSector
    <2> QED
      BY <1>1, <1>4, <2>2, ClusterIs
  <1>5. ASSUME r = SS - 1, Col(a) + 1 < csize
        PROVE  Row(a + 1) = Row(a) /\ Col(a + 1) = Col(a) + 1 /\ (a + 1) % SS = 0
    <2>1. SS * (Col(a) + 1) = y + SS
      BY <1>3, ClusterIs
    <2> HIDE DEF r, x, y
    <2>2. a + 1 = x + SS * (Col(a) + 1) + 0
      BY <1>1, <1>2, <1>5, <2>1, ClusterIs
    <2>3. Col(a) + 1 \in 0 .. csize - 1
      BY <1>3, <1>5, ClusterIs
    <2>4. a + 1 = Cluster * Row(a) + SS * (Col(a) + 1) + 0
      BY <2>2 DEF x
    <2> QED
      BY <1>3, <2>3, <2>4, Join
  <1>6. ASSUME r = SS - 1, Col(a) + 1 = csize
        PROVE  Row(a + 1) = Row(a) + 1 /\ Col(a + 1) = 0 /\ (a + 1) % SS = 0
    <2>1. SS * (Col(a) + 1) = y + SS
      BY <1>3, ClusterIs
    <2>2. Cluster * (Row(a) + 1) = x + Cluster
      BY <1>3, ClusterIs
    <2>3. SS * 0 = 0
      BY ClusterIs
    <2> HIDE DEF r, x, y
    <2>4. a + 1 = Cluster * (Row(a) + 1) + SS * 0 + 0
      BY <1>1, <1>2, <1>6, <2>1, <2>2, <2>3, ClusterIs
    <2> QED
      BY <1>3, <2>4, Join
  <1> HIDE DEF r, x, y
  <1>7. Col(a) + 1 < csize \/ Col(a) + 1 = csize
    BY <1>3, ClusterIs
  <1> QED
    BY <1>4, <1>5, <1>6, <1>7 DEF r

\* On a cluster boundary.
LEMMA Boundary ==
    ASSUME NEW a \in Nat
    PROVE  /\ a % Cluster = 0 <=> Col(a) = 0 /\ a % SS = 0
           /\ a % Cluster = 0 => a = Row(a) * Cluster
  <1> DEFINE q == Row(a)
             m == a % Cluster
  <1>1. q \in Nat /\ m \in 0 .. Cluster - 1 /\ a = Cluster * q + m
    BY ClusterIs, DivMod DEF Row
  <1>2. Col(a) = m \div SS
    BY DEF Col
  <1>3. Cluster * q = q * Cluster
    BY <1>1, ClusterIs
  <1>4. a = Cluster * q + SS * Col(a) + (a % SS)
    BY Split
  <1>5. Col(a) \in Nat /\ a % SS \in Nat /\ SS * Col(a) \in Nat /\ Cluster * q \in Nat
    BY Terms
  <1>6. SS * Col(a) = 0 <=> Col(a) = 0
    BY <1>5, ClusterIs
  <1>7. m = SS * Col(a) + (a % SS)
    <2> DEFINE x == Cluster * q
               y == SS * Col(a)
               r == a % SS
    <2>1. a = x + y + r /\ a = x + m /\ x \in Nat /\ y \in Nat /\ r \in Nat /\ m \in Nat
      BY <1>1, <1>4, <1>5, ClusterIs
    <2> HIDE DEF x, y, r, m
    <2>2. m = y + r
      BY <2>1
    <2> QED
      BY <2>2 DEF y, r
  <1>8. m = 0 <=> SS * Col(a) = 0 /\ a % SS = 0
    <2> DEFINE y == SS * Col(a)
               r == a % SS
    <2>1. m = y + r /\ y \in Nat /\ r \in Nat
      BY <1>5, <1>7
    <2> HIDE DEF y, r, m
    <2>2. m = 0 <=> y = 0 /\ r = 0
      BY <2>1
    <2> QED
      BY <2>2 DEF y, r
  <1>9. m = 0 => a = q * Cluster
    <2> HIDE DEF m
    <2> QED
      BY <1>1, <1>3, ClusterIs
  <1> QED
    BY <1>6, <1>8, <1>9

\* The k-th cluster.
LEMMA StartOfCluster ==
    ASSUME NEW k \in Nat
    PROVE  /\ k * Cluster \in Nat /\ (k * Cluster) % Cluster = 0
           /\ (k * Cluster) % SS = 0 /\ Row(k * Cluster) = k
           /\ (k + 1) * Cluster = k * Cluster + Cluster
  <1> DEFINE a == k * Cluster
  <1>1. a = Cluster * k + SS * 0 + 0
    BY ClusterIs
  <1>2. 0 \in 0 .. csize - 1 /\ 0 \in 0 .. SS - 1
    BY ClusterIs
  <1>3. (k + 1) * Cluster = k * Cluster + Cluster
    BY ClusterIs
  <1> HIDE DEF a
  <1>4. a \in Nat /\ Row(a) = k /\ Col(a) = 0 /\ a % SS = 0
    BY <1>1, <1>2, Join
  <1>5. a % Cluster = 0
    BY <1>4, Boundary
  <1> QED
    BY <1>3, <1>4, <1>5 DEF a

\* A position is in the first n clusters when its cluster is one of them.
LEMMA RowBound ==
    ASSUME NEW a \in Nat, NEW n \in Nat
    PROVE  a < n * Cluster <=> Row(a) < n
  <1> DEFINE q == Row(a)
             m == a % Cluster
  <1>1. q \in Nat /\ m \in 0 .. Cluster - 1 /\ a = Cluster * q + m
    BY ClusterIs, DivMod DEF Row
  <1>2. (q + 1) * Cluster = q * Cluster + Cluster /\ q * Cluster = Cluster * q /\ Cluster * q \in Nat
    BY <1>1, ClusterIs
  <1> HIDE DEF q, m
  <1>3. ASSUME q < n PROVE a < n * Cluster
    <2>1. (q + 1) * Cluster <= n * Cluster
      BY <1>1, <1>3, ClusterIs
    <2> QED
      BY <1>1, <1>2, <2>1, ClusterIs
  <1>4. ASSUME q >= n PROVE a >= n * Cluster
    <2>1. q * Cluster >= n * Cluster
      BY <1>1, <1>4, ClusterIs
    <2> QED
      BY <1>1, <1>2, <2>1, ClusterIs
  <1>5. n * Cluster \in Nat
    BY ClusterIs
  <1> QED
    BY <1>1, <1>3, <1>4, <1>5 DEF q

\* A later position is in a later cluster, or in the same.
LEMMA RowMonotone ==
    ASSUME NEW a \in Nat, NEW b \in Nat, a <= b
    PROVE  Row(a) <= Row(b)
  <1> DEFINE n == Row(b) + 1
  <1>1. Row(a) \in Nat /\ Row(b) \in Nat /\ n \in Nat /\ Row(b) < n
    BY Terms
  <1>2. Row(a) < n => Row(a) <= Row(b)
    BY <1>1
  <1> HIDE DEF n
  <1>3. b < n * Cluster
    BY <1>1, RowBound
  <1>4. n * Cluster \in Nat
    BY <1>1, ClusterIs
  <1>5. a < n * Cluster
    BY <1>3, <1>4
  <1> QED
    BY <1>1, <1>2, <1>5, RowBound

\* The sectors of a span.
LEMMA SpanOf ==
    ASSUME NEW a \in Nat, NEW w \in Nat, a % SS = 0, Col(a) + w <= csize,
           NEW j \in Nat, j < SS * w
    PROVE  /\ j \div SS \in 0 .. w - 1 /\ j % SS \in 0 .. SS - 1
           /\ Row(a + j) = Row(a) /\ Col(a + j) = Col(a) + j \div SS
           /\ (a + j) % SS = j % SS
  <1> DEFINE s == j \div SS
             r == j % SS
             x == Cluster * Row(a)
             y == SS * Col(a)
  <1>1. SS * w \in Nat /\ j \in Nat
    BY ClusterIs
  <1>2. s \in Nat /\ r \in 0 .. SS - 1 /\ j = SS * s + r
    BY <1>1, DivMod, ClusterIs
  <1>3. x \in Nat /\ y \in Nat /\ Row(a) \in Nat /\ Col(a) \in 0 .. csize - 1
    BY Terms
  <1>4. a = x + y + 0
    BY Split
  <1> HIDE DEF s, r
  <1>5. s < w
    <2> SUFFICES ASSUME s >= w PROVE FALSE
      BY <1>2
    <2>1. SS * s >= SS * w
      BY <1>2, ClusterIs
    <2> QED
      BY <1>1, <1>2, <2>1, ClusterIs
  <1>6. SS * (Col(a) + s) = y + SS * s /\ SS * s \in Nat
    BY <1>2, <1>3, ClusterIs
  <1>7. Col(a) + s \in 0 .. csize - 1
    BY <1>2, <1>3, <1>5, ClusterIs
  <1>8. a + j = Cluster * Row(a) + SS * (Col(a) + s) + r
    <2> HIDE DEF y
    <2>1. a + j = x + SS * (Col(a) + s) + r
      <3> HIDE DEF x
      <3> DEFINE z == SS * s
      <3>1. z \in Nat /\ j = z + r /\ SS * (Col(a) + s) = y + z
        BY <1>2, <1>6
      <3> HIDE DEF z
      <3> QED
        BY <1>2, <1>3, <1>4, <3>1
    <2> QED
      BY <2>1
  <1>9. Row(a + j) = Row(a) /\ Col(a + j) = Col(a) + s /\ (a + j) % SS = r
    BY <1>2, <1>3, <1>7, <1>8, Join
  <1> QED
    BY <1>2, <1>5, <1>9 DEF s, r

\* A remainder of a number below the divisor.
LEMMA Small == ASSUME NEW n \in Nat, NEW k \in Nat, n < k PROVE n % k = n
  <1>1. k \in Nat \ {0} /\ n \in 0 .. k - 1 /\ k * 0 + n = n
    OBVIOUS
  <1> QED
    BY <1>1, DivUnique

\* Nothing is below the first byte.
LEMMA FirstByte == Row(0) = 0 /\ Col(0) = 0 /\ 0 % SS = 0 /\ 0 % Cluster = 0
  <1>1. 0 \in 0 .. csize - 1 /\ 0 \in 0 .. SS - 1 /\ 0 = Cluster * 0 + SS * 0 + 0
    BY ClusterIs
  <1>2. Row(0) = 0 /\ Col(0) = 0 /\ 0 % SS = 0
    BY <1>1, Join
  <1> QED
    BY <1>2, Boundary

-----------------------------------------------------------------------------
(* The invariant.                                                          *)

\* There is no call without a file object.
Closed == ~fp.open => fp = NoFil /\ pc = "idle"

\* No cluster is linked twice.
Simple == \A i, j \in 1 .. Len(chain) : chain[i] = chain[j] => i = j

\* The chain is as long as the file, in memory and, where the file object has
\* nothing to add to it, by the entry.
LongEnough ==
    /\ fp.open => fp.fsize <= Len(chain) * Cluster
    /\ ~fp.open \/ ~fp.written =>
           IF entry.used THEN chain # <<>> /\ entry.size <= Len(chain) * Cluster
                         ELSE entry.size = 0

\* What each stage of a call says of its registers.
Calls ==
    /\ pc = "idle" => reg = [NoCall EXCEPT !.calls = reg.calls]
    /\ pc = "loop" => reg.op \in {"read", "write"}
    /\ pc = "written" => reg.op = "write"
    /\ pc \in {"walk", "land"} => reg.op = "seek"
    /\ pc = "sync" => reg.op \in {"sync", "close"} /\ fp.written
    /\ pc \in {"walk", "land", "sync"} =>
           reg.wbuff = <<>> /\ reg.rbuff = <<>> /\ reg.done = 0
    /\ fp.error => pc \in {"idle", "sync"} /\ ~sane

\* curr_clust and csect are those of the byte before the position ...
Placed ==
    IF fp.fptr = 0 THEN fp.csect = Top
    ELSE /\ fp.curr_clust = Row(fp.fptr - 1) + 1 /\ fp.curr_clust <= Len(chain)
         /\ fp.csect = Col(fp.fptr - 1) + 1

\* ... or those of the byte at the position, when the loop has come to a cluster.
Entered ==
    /\ fp.fptr % Cluster = 0 /\ fp.csect = 0
    /\ fp.curr_clust = Row(fp.fptr) + 1 /\ fp.curr_clust <= Len(chain)

\* Inside a sector the buffer has it.
Held == fp.fptr % SS # 0 => fp.curr_sect = <<chain[fp.curr_clust], fp.csect - 1>>

AtRest == pc \in {"idle", "sync"} => Placed /\ Held /\ fp.fptr <= fp.fsize
Moving ==
    pc \in {"loop", "written"} =>
        /\ Placed \/ (Entered /\ InLoop)
        /\ Held
        /\ fp.fptr = reg.from + reg.done /\ reg.done + reg.todo <= reg.n
        /\ Reading => fp.fptr + reg.todo <= fp.fsize /\ reg.wbuff = <<>>
        /\ Writing => /\ fp.fptr + reg.todo < Wrap
                      /\ Len(reg.wbuff) = reg.todo /\ reg.rbuff = <<>>
Walking ==
    pc = "walk" =>
        /\ fp.curr_clust \in 1 .. Len(chain) /\ fp.fptr = (fp.curr_clust - 1) * Cluster
        /\ reg.todo > 0 /\ fp.fptr + reg.todo <= reg.n /\ reg.n < Wrap
Landing ==
    pc = "land" =>
        /\ Placed /\ reg.n < Wrap
        /\ reg.nsect = IF fp.fptr % SS = 0 THEN NoSector
                       ELSE <<chain[fp.curr_clust], fp.csect - 1>>
Position == fp.open /\ ~fp.error => AtRest /\ Moving /\ Walking /\ Landing

\* A sector behind the end of the file, taken over without reading it.
Fresh ==
    /\ InLoop /\ Writing /\ OnSector /\ ~NewCluster /\ reg.todo \div SS = 0
    /\ fp.fptr >= fp.fsize /\ Here = fp.curr_sect

\* A buffer that is not dirty agrees with the card.
Coherent ==
    sane /\ ~fp.dirty /\ fp.curr_sect # NoSector => buffer = disk[fp.curr_sect] \/ Fresh

\* Outside of f_write, what the card and the entry do not have is marked.
Marked ==
    sane /\ ~(Writing /\ pc # "idle") =>
        /\ fp.dirty => fp.written
        /\ fp.open /\ ~fp.written =>
              /\ entry.size = fp.fsize
              /\ entry.used = (chain # <<>>) \/ pc = "walk" \/ (pc = "land" /\ fp.fptr > 0)

IInv ==
    /\ TypeOK /\ Closed /\ Simple /\ LongEnough /\ Calls
    /\ Position /\ Coherent /\ Marked

-----------------------------------------------------------------------------
(* What the invariant says of a position.                                  *)

\* What the types say of the numbers of a file object and a call.
LEMMA Typed ==
    ASSUME TypeOK
    PROVE  /\ fp.fptr \in Nat /\ fp.fptr < Wrap /\ fp.fsize \in Nat /\ fp.fsize < Wrap
           /\ fp.curr_clust \in Nat /\ fp.csect \in Nat
           /\ fp.csect <= csize \/ fp.csect = Top
           /\ reg.todo \in Nat /\ reg.done \in Nat /\ reg.from \in Nat /\ reg.n \in Nat
           /\ reg.calls \in Nat
           /\ Len(chain) \in Nat /\ Wrap \in Nat \ {0} /\ SS \in Nat \ {0} /\ csize \in 1 .. 128
  <1>1. fp \in Fil /\ reg \in Regs /\ chain \in Seq(Clusters)
    BY DEF TypeOK
  <1>2. Wrap \in Nat \ {0} /\ SS \in Nat \ {0} /\ csize \in 1 .. 128 /\ MaxCalls \in Nat
    BY GeometryAssumption, CallAssumption
  <1>3. /\ fp.fptr \in 0 .. Wrap - 1 /\ fp.fsize \in 0 .. Wrap - 1 /\ fp.curr_clust \in 0 .. Wrap
        /\ fp.csect \in 0 .. csize \cup {Top}
    BY <1>1 DEF Fil
  <1>4. /\ reg.todo \in 0 .. Wrap /\ reg.done \in 0 .. Wrap /\ reg.from \in 0 .. Wrap - 1
        /\ reg.n \in 0 .. Wrap /\ reg.calls \in 0 .. MaxCalls
    BY <1>1 DEF Regs
  <1>5. Len(chain) \in Nat
    BY <1>1
  <1>6. fp.csect \in Nat /\ (fp.csect <= csize \/ fp.csect = Top)
    BY <1>2, <1>3 DEF Top
  <1>7. /\ fp.fptr \in Nat /\ fp.fptr < Wrap /\ fp.fsize \in Nat /\ fp.fsize < Wrap
        /\ fp.curr_clust \in Nat
    BY <1>2, <1>3
  <1>8. reg.todo \in Nat /\ reg.done \in Nat /\ reg.from \in Nat /\ reg.n \in Nat /\ reg.calls \in Nat
    BY <1>2, <1>4
  <1> QED
    BY <1>2, <1>5, <1>6, <1>7, <1>8

\* The sector a byte is in, by its cluster and its sector.
LEMMA WhereIs == ASSUME NEW i \in Nat PROVE Where(i) = <<chain[Row(i) + 1], Col(i)>>
  BY DEF Where, Row, Col

\* There are no more clusters than bytes.
LEMMA RowSmall == ASSUME NEW a \in Nat PROVE Row(a) <= a
  <1> DEFINE q == Row(a)
             x == Cluster * q
  <1>1. q \in Nat /\ x \in Nat /\ SS * Col(a) \in Nat /\ a % SS \in Nat
    BY Terms, ClusterIs
  <1>2. a = x + SS * Col(a) + (a % SS)
    BY Split
  <1>3. x >= q
    <2> HIDE DEF q
    <2>1. Cluster \in Nat /\ Cluster >= 1
      BY ClusterIs
    <2> QED
      BY <1>1, <2>1
  <1> DEFINE y == SS * Col(a)
             z == a % SS
  <1> HIDE DEF q, x, y, z
  <1>4. a = x + y + z /\ y \in Nat /\ z \in Nat
    BY <1>1, <1>2 DEF y, z
  <1> QED
    BY <1>1, <1>3, <1>4 DEF q

\* A position that its cluster holds is within the chain.
LEMMA PlacedBound == ASSUME TypeOK, Placed PROVE fp.fptr <= Len(chain) * Cluster
  <1>1. fp.fptr \in Nat /\ Len(chain) \in Nat /\ Len(chain) * Cluster \in Nat
    BY Typed, ClusterIs
  <1>2. CASE fp.fptr = 0
    BY <1>1, <1>2
  <1>3. CASE fp.fptr # 0
    <2> DEFINE a == fp.fptr - 1
               n == Len(chain)
    <2>1. a \in Nat /\ fp.fptr = a + 1 /\ n \in Nat
      BY <1>1, <1>3
    <2>2. Row(a) \in Nat /\ Row(a) + 1 <= n
      BY <1>3, <2>1, Terms DEF Placed
    <2> HIDE DEF a
    <2>3. a < n * Cluster
      BY <2>1, <2>2, RowBound
    <2> QED
      BY <1>1, <2>1, <2>3
  <1> QED
    BY <1>2, <1>3

\* A longer chain holds more.
LEMMA LongerBound ==
    ASSUME NEW a \in Nat, NEW b \in Nat, a <= b
    PROVE  a * Cluster <= b * Cluster /\ a * Cluster \in Nat /\ b * Cluster \in Nat
  BY ClusterIs

\* The sector the loop is in.
LEMMA Inside ==
    ASSUME TypeOK, Placed \/ Entered, Held, ~NewCluster
    PROVE  /\ fp.curr_clust \in 1 .. Len(chain) /\ fp.curr_clust = Row(fp.fptr) + 1
           /\ fp.csect = IF OnSector THEN Col(fp.fptr) ELSE Col(fp.fptr) + 1
           /\ OnSector => fp.csect < csize /\ Here = Where(fp.fptr)
           /\ ~OnSector => fp.curr_sect = Where(fp.fptr)
  <1> DEFINE p == fp.fptr
  <1>1. p \in Nat /\ fp.csect \in Nat /\ csize \in 1 .. 128 /\ Len(chain) \in Nat
    BY Typed
  <1>2. OnSector => fp.csect < csize
    BY <1>1, Typed DEF NewCluster
  <1>3. CASE p = 0
    <2>1. OnSector /\ Entered
      BY <1>1, <1>2, <1>3, FirstByte DEF OnSector, Placed, Top
    <2> QED
      BY <1>2, <1>3, <2>1, FirstByte, WhereIs DEF Entered, Here
  <1>4. CASE p > 0 /\ OnSector
    <2>1. CASE Entered
      <3>1. Col(p) = 0
        BY <1>1, <2>1, Boundary DEF Entered
      <3>2. Row(p) \in Nat
        BY <1>1, Terms
      <3> QED
        BY <1>1, <1>2, <1>4, <2>1, <3>1, <3>2, WhereIs DEF Entered, Here
    <2>2. CASE Placed
      <3> DEFINE a == p - 1
      <3>1. a \in Nat /\ p = a + 1
        BY <1>1, <1>4
      <3>2. fp.curr_clust = Row(a) + 1 /\ fp.curr_clust <= Len(chain) /\ fp.csect = Col(a) + 1
        BY <2>2, <1>4 DEF Placed
      <3>3. Row(a) \in Nat /\ Col(a) \in Nat
        BY <3>1, Terms
      <3> HIDE DEF a
      <3>4. (a + 1) % SS = 0 /\ Col(a) + 1 < csize
        BY <1>2, <1>4, <3>1, <3>2 DEF OnSector
      <3>5. Row(p) = Row(a) /\ Col(p) = Col(a) + 1
        BY <3>1, <3>4, NextByte
      <3> QED
        BY <1>1, <1>2, <1>4, <3>2, <3>3, <3>5, WhereIs DEF Here
    <2> QED
      BY <2>1, <2>2
  <1>5. CASE p > 0 /\ ~OnSector
    <2>1. Placed
      BY <1>1, <1>5, Boundary DEF Entered, OnSector
    <2> DEFINE a == p - 1
    <2>2. a \in Nat /\ p = a + 1
      BY <1>1, <1>5
    <2>3. fp.curr_clust = Row(a) + 1 /\ fp.curr_clust <= Len(chain) /\ fp.csect = Col(a) + 1
      BY <2>1, <1>5 DEF Placed
    <2> HIDE DEF a
    <2>4. Row(a) \in Nat /\ Col(a) \in 0 .. csize - 1 /\ a % SS \in 0 .. SS - 1
      BY <2>2, Terms
    <2>5. (a + 1) % SS # 0
      BY <1>5, <2>2 DEF OnSector
    <2>6. (a % SS) + 1 < SS
      <3> DEFINE r == a % SS
      <3>1. r # SS - 1
        BY <2>2, <2>5, NextByte
      <3>2. r \in 0 .. SS - 1 /\ SS \in Nat
        BY <2>4, ClusterIs
      <3> HIDE DEF r
      <3>3. r + 1 < SS
        BY <3>1, <3>2
      <3> QED
        BY <3>3 DEF r
    <2>7. Row(p) = Row(a) /\ Col(p) = Col(a)
      BY <2>2, <2>6, SameSector
    <2> QED
      <3>1. fp.curr_sect = <<chain[fp.curr_clust], fp.csect - 1>>
        BY <1>5 DEF Held, OnSector
      <3> QED
        BY <1>1, <1>5, <2>3, <2>4, <2>7, <3>1, WhereIs
  <1> QED
    BY <1>1, <1>3, <1>4, <1>5

\* Where the loop needs a cluster.
LEMMA AtEnd ==
    ASSUME TypeOK, Placed \/ Entered, NewCluster
    PROVE  /\ Behind = Row(fp.fptr) /\ Behind <= Len(chain) /\ Behind \in Nat
           /\ fp.fptr % Cluster = 0 /\ fp.fptr % SS = 0 /\ Col(fp.fptr) = 0
  <1> DEFINE p == fp.fptr
  <1>1. p \in Nat /\ fp.csect \in Nat /\ csize \in 1 .. 128 /\ Len(chain) \in Nat
    BY Typed
  <1>2. p % SS = 0 /\ fp.csect >= csize
    BY DEF NewCluster, OnSector
  <1>3. CASE p = 0
    BY <1>1, <1>3, FirstByte DEF Behind
  <1>4. CASE p > 0
    <2>1. Placed
      BY <1>1, <1>2 DEF Entered
    <2> DEFINE a == p - 1
    <2>2. a \in Nat /\ p = a + 1
      BY <1>1, <1>4
    <2>3. fp.curr_clust = Row(a) + 1 /\ fp.curr_clust <= Len(chain) /\ fp.csect = Col(a) + 1
      BY <2>1, <1>4 DEF Placed
    <2>4. Row(a) \in Nat /\ Col(a) \in 0 .. csize - 1
      BY <2>2, Terms
    <2> HIDE DEF a
    <2>5. (a + 1) % SS = 0 /\ Col(a) + 1 = csize
      BY <1>1, <1>2, <2>2, <2>3, <2>4
    <2>6. Row(p) = Row(a) + 1 /\ Col(p) = 0
      BY <2>2, <2>5, NextByte
    <2>7. p % Cluster = 0
      BY <1>1, <1>2, <2>6, Boundary
    <2> QED
      BY <1>2, <1>4, <2>3, <2>4, <2>6, <2>7 DEF Behind
  <1> QED
    BY <1>1, <1>3, <1>4

-----------------------------------------------------------------------------
(* The invariant holds at first, and when a call grows the chain or fails. *)

-----------------------------------------------------------------------------
(* The ends of a call.                                                     *)

\* The card with its file, and no file object.
LEMMA InitOK == Init => IInv
  <1> SUFFICES ASSUME Init PROVE IInv
    OBVIOUS
  <1> USE DEF Init
  <1>0. Wrap \in Nat \ {0} /\ SS \in Nat \ {0} /\ csize \in 1 .. 128 /\ MaxCalls \in Nat /\ Old \in Values
    BY GeometryAssumption, CallAssumption, ValueAssumption
  <1>1. TypeOK
    <2>1. disk \in [Sector -> Content] /\ buffer \in Content
      BY <1>0 DEF Content
    <2>2. fp \in Fil
      BY <1>0 DEF Fil, NoFil
    <2>3. reg \in Regs
      BY <1>0 DEF Regs, NoCall, Ops
    <2>4. answer \in Answers
      BY <1>0 DEF Answers, NoAnswer, Ops
    <2> QED
      BY <1>0, <2>1, <2>2, <2>3, <2>4 DEF TypeOK
  <1>2. Closed /\ Simple /\ Calls /\ LongEnough
    BY DEF Closed, Simple, Calls, LongEnough, NoFil, NoCall
  <1>3. Position /\ Coherent /\ Marked
    BY DEF Position, Coherent, Marked, NoFil, NoCall, NoSector
  <1> QED
    BY <1>1, <1>2, <1>3 DEF IInv

\* The constants.
LEMMA Numbers ==
    /\ Wrap \in Nat \ {0} /\ SS \in Nat \ {0} /\ csize \in 1 .. 128 /\ MaxCalls \in Nat
    /\ Old \in Values /\ 0 .. 2 \subseteq Values
  BY GeometryAssumption, CallAssumption, ValueAssumption

\* The registers between two calls.
LEMMA NoCallTyped == \A c \in 0 .. MaxCalls : [NoCall EXCEPT !.calls = c] \in Regs
  <1> TAKE c \in 0 .. MaxCalls
  <1> DEFINE r == [op |-> "open", todo |-> 0, done |-> 0, from |-> 0, nsect |-> NoSector,
                   wbuff |-> <<>>, rbuff |-> <<>>, n |-> 0, calls |-> c]
  <1>1. [NoCall EXCEPT !.calls = c] = r
    BY DEF NoCall
  <1>2. r \in Regs
    BY Numbers DEF Regs, Ops
  <1> QED
    BY <1>1, <1>2

\* The registers and the answer when a call ends.
LEMMA ReturnTyped ==
    ASSUME TypeOK, NEW result \in {"ok", "denied", "error"}, Return(result)
    PROVE  reg' \in Regs /\ answer' \in Answers
  <1>1. reg \in Regs /\ reg.calls \in 0 .. MaxCalls
    BY DEF TypeOK, Regs
  <1>2. Wrap \in Nat \ {0}
    BY GeometryAssumption
  <1>3. reg' \in Regs
    <2>1. reg' = [NoCall EXCEPT !.calls = reg.calls]
      BY DEF Return
    <2> QED
      BY <1>1, <2>1, NoCallTyped
  <1>4. answer' \in Answers
    <2>1. answer' = [op |-> reg.op, result |-> result, n |-> reg.n,
                     done |-> reg.done, from |-> reg.from]
      BY DEF Return
    <2> QED
      BY <1>1, <1>2, <2>1 DEF Regs, Answers
  <1> QED
    BY <1>3, <1>4

\* ABORT: the call ends with an error, and the file object is marked.
LEMMA AbortKeeps ==
    ASSUME IInv, fp.open, Abort, UNCHANGED <<disk, entry, chain, buffer>>
    PROVE  IInv'
  <1> USE DEF IInv
  <1>1. fp' = [fp EXCEPT !.error = TRUE] /\ sane' = FALSE /\ pc' = "idle" /\ Return("error")
        /\ reg' = [NoCall EXCEPT !.calls = reg.calls]
    BY DEF Abort, Return
  <1>2. fp' \in Fil /\ fp'.open /\ fp'.error /\ fp'.fsize = fp.fsize /\ fp'.written = fp.written
    BY <1>1 DEF TypeOK, Fil
  <1>3. TypeOK'
    <2>0. TypeOK /\ Return("error")
      BY <1>1
    <2>1. reg' \in Regs /\ answer' \in Answers
      BY <2>0, ReturnTyped
    <2> QED
      BY <1>1, <1>2, <2>1 DEF TypeOK
  <1>4. Closed' /\ Simple' /\ Position' /\ Coherent' /\ Marked'
    BY <1>1, <1>2 DEF Closed, Simple, Position, Coherent, Marked
  <1>5. LongEnough'
    BY <1>2 DEF LongEnough
  <1>6. Calls'
    BY <1>1 DEF Calls, NoCall
  <1> QED
    BY <1>3, <1>4, <1>5, <1>6

\* A call that is refused.
LEMMA AnswerKeeps ==
    ASSUME IInv, pc = "idle", reg.calls < MaxCalls, fp.open,
           NEW op \in Ops, NEW n \in 0 .. Wrap, NEW result \in {"ok", "denied", "error"},
           Answer(op, n, result), UNCHANGED <<disk, entry, chain, buffer, fp, sane>>
    PROVE  IInv'
  <1> USE DEF IInv
  <1>0. /\ reg' = [NoCall EXCEPT !.calls = reg.calls + 1] /\ pc' = "idle"
        /\ answer' = [op |-> op, result |-> result, n |-> n, done |-> 0, from |-> fp.fptr]
    BY DEF Answer
  <1>1. TypeOK'
    <2>0. TypeOK
      OBVIOUS
    <2>1. reg.calls + 1 \in 0 .. MaxCalls /\ Wrap \in Nat \ {0} /\ fp.fptr \in 0 .. Wrap - 1
      <3>1. reg.calls \in Nat /\ fp.fptr \in Nat /\ fp.fptr < Wrap
        BY <2>0, Typed
      <3> QED
        BY <3>1, Numbers
    <2>2. reg' \in Regs
      <3>1. reg' = [NoCall EXCEPT !.calls = reg.calls + 1]
        BY <1>0
      <3> QED
        BY <2>1, <3>1, NoCallTyped
    <2>3. answer' \in Answers
      BY <1>0, <2>1 DEF Answers
    <2> QED
      BY <1>0, <2>2, <2>3 DEF TypeOK
  <1>2. Closed' /\ Simple' /\ LongEnough'
    BY <1>0 DEF Closed, Simple, LongEnough
  <1>3. Calls'
    BY <1>0 DEF Calls, NoCall
  <1>4. Position'
    BY <1>0 DEF Position, AtRest, Placed, Held, Moving, Walking, Landing
  <1>5. Coherent'
    BY <1>0 DEF Coherent, Fresh, InLoop
  <1>6. Marked'
    BY <1>0 DEF Marked, Writing
  <1> QED
    BY <1>1, <1>2, <1>3, <1>4, <1>5, <1>6

-----------------------------------------------------------------------------
(* The chain.                                                              *)

\* A link is followed or made at the end of the chain: the chain has no cluster
\* twice, and is no shorter.
LEMMA Grows ==
    ASSUME TypeOK, Simple, NEW c \in Nat, Follow(c) \/ Stretch(c)
    PROVE  /\ chain' \in Seq(Clusters) /\ Simple' /\ Len(chain') \in Nat
           /\ Len(chain) <= Len(chain') /\ c + 1 <= Len(chain')
           /\ \A i \in 1 .. Len(chain) : chain'[i] = chain[i]
  <1>1. chain \in Seq(Clusters) /\ Len(chain) \in Nat
    BY DEF TypeOK
  <1>2. CASE Follow(c)
    BY <1>1, <1>2 DEF Follow, Simple
  <1>3. CASE Stretch(c)
    <2>1. PICK new \in Free : chain' = Append(chain, new)
      BY <1>3 DEF Stretch
    <2>2. new \in Clusters /\ c = Len(chain)
      BY <1>3 DEF Free, Stretch
    <2>3. \A i \in 1 .. Len(chain) : chain[i] # new
      BY <1>1, <2>1 DEF Free, Range
    <2>4. /\ chain' \in Seq(Clusters) /\ Len(chain') = Len(chain) + 1
          /\ \A i \in 1 .. Len(chain) : chain'[i] = chain[i]
          /\ chain'[Len(chain) + 1] = new
      BY <1>1, <2>1, <2>2
    <2>5. Simple'
      BY <1>1, <2>3, <2>4 DEF Simple
    <2> QED
      BY <1>1, <2>2, <2>4, <2>5
  <1> QED
    BY <1>2, <1>3

\* A chain that has grown still holds the file.
LEMMA GrownLongEnough ==
    ASSUME TypeOK, LongEnough, chain' \in Seq(Clusters), Len(chain') \in Nat, Len(chain) <= Len(chain'), fp.open, fp'.open,
           fp'.fsize = fp.fsize, fp'.written = fp.written, entry' = entry
    PROVE  LongEnough'
  <1>1. Len(chain) \in Nat /\ fp.fsize \in Nat
    BY Typed
  <1>2. entry.size \in Nat
    BY Numbers DEF TypeOK
  <1>3. Len(chain) * Cluster <= Len(chain') * Cluster /\ Len(chain) * Cluster \in Nat
        /\ Len(chain') * Cluster \in Nat
    BY <1>1, LongerBound
  <1> DEFINE x == Len(chain) * Cluster
             y == Len(chain') * Cluster
  <1>4. /\ fp.fsize <= x
        /\ ~fp.written => IF entry.used THEN chain # <<>> /\ entry.size <= x ELSE entry.size = 0
    BY DEF LongEnough
  <1>5. x <= y /\ x \in Nat /\ y \in Nat
    BY <1>3
  <1>7. chain # <<>> => chain' # <<>>
    <2>1. chain \in Seq(Clusters)
      BY DEF TypeOK
    <2> QED
      BY <2>1
  <1> HIDE DEF x, y
  <1>6. /\ fp.fsize <= y
        /\ ~fp.written => IF entry.used THEN chain' # <<>> /\ entry.size <= y ELSE entry.size = 0
    BY <1>1, <1>2, <1>4, <1>5, <1>7
  <1> QED
    BY <1>6 DEF LongEnough, Cluster, y

-----------------------------------------------------------------------------
(* The loop of f_read and f_write.                                         *)

\* What holds of the loop.
LEMMA InTheLoop ==
    ASSUME IInv, pc \in {"loop", "written"}
    PROVE  /\ fp.open /\ ~fp.error /\ (Placed \/ (Entered /\ InLoop)) /\ Held
           /\ reg.op \in {"read", "write"} /\ Reading = ~Writing
           /\ fp.fptr = reg.from + reg.done /\ reg.done + reg.todo <= reg.n
           /\ Reading => fp.fptr + reg.todo <= fp.fsize /\ reg.wbuff = <<>>
           /\ Writing => /\ fp.fptr + reg.todo < Wrap
                         /\ Len(reg.wbuff) = reg.todo /\ reg.rbuff = <<>>
           /\ fp.fptr + reg.todo < Wrap
  <1>1. fp.open /\ ~fp.error
    BY DEF IInv, Closed, Calls
  <1>2. reg.op \in {"read", "write"}
    BY DEF IInv, Calls
  <1>3. Moving
    BY <1>1 DEF IInv, Position
  <1>4. fp.fptr \in Nat /\ fp.fsize \in Nat /\ fp.fsize < Wrap /\ reg.todo \in Nat /\ Wrap \in Nat
    BY Typed, Numbers DEF IInv
  <1> QED
    BY <1>1, <1>2, <1>3, <1>4 DEF Moving, Reading, Writing

\* The loop takes the next cluster of the chain, or stretches it.
LEMMA GetClusterKeeps == ASSUME IInv, GetCluster PROVE IInv'
  <1> USE DEF IInv
  <1>1. /\ fp.open /\ ~fp.error /\ (Placed \/ Entered) /\ pc = "loop" /\ NewCluster
        /\ UNCHANGED <<disk, entry, buffer>>
    BY InTheLoop DEF GetCluster, InLoop
  <1>2. /\ Behind = Row(fp.fptr) /\ Behind <= Len(chain) /\ Behind \in Nat
        /\ fp.fptr % Cluster = 0 /\ fp.fptr % SS = 0
    BY <1>1, AtEnd
  <1>3. ASSUME Follow(Behind) \/ (Writing /\ Stretch(Behind)),
               fp' = EnterCluster(Behind + 1), UNCHANGED <<pc, reg, answer, sane>>
        PROVE  IInv'
    <2>1. /\ chain' \in Seq(Clusters) /\ Simple' /\ Len(chain') \in Nat
          /\ Len(chain) <= Len(chain') /\ Behind + 1 <= Len(chain')
      BY <1>2, <1>3, Grows
    <2>2. fp' = [fp EXCEPT !.curr_clust = Behind + 1, !.csect = 0]
      BY <1>3 DEF EnterCluster
    <2>3. Behind + 1 \in 0 .. Wrap
      <3>1. fp.fptr \in Nat /\ fp.fptr < Wrap /\ Row(fp.fptr) <= fp.fptr
        BY Typed, RowSmall
      <3> QED
        BY <1>2, <3>1, Numbers
    <2>4. fp \in Fil /\ 0 \in 0 .. csize
      BY Numbers DEF TypeOK
    <2>5. /\ fp' \in Fil /\ fp'.open = fp.open /\ fp'.error = fp.error
          /\ fp'.written = fp.written /\ fp'.dirty = fp.dirty /\ fp'.fptr = fp.fptr
          /\ fp'.fsize = fp.fsize /\ fp'.curr_sect = fp.curr_sect
          /\ fp'.curr_clust = Behind + 1 /\ fp'.csect = 0
      BY <2>2, <2>3, <2>4 DEF Fil
    <2>6. TypeOK'
      BY <1>1, <1>3, <2>1, <2>5 DEF TypeOK
    <2>7. LongEnough'
      BY <1>1, <2>1, <2>5, GrownLongEnough
    <2>8. Closed' /\ Calls'
      BY <1>1, <1>3, <2>5 DEF Closed, Calls
    <2>9. Position'
      <3>1. Entered'
        BY <1>2, <2>1, <2>5 DEF Entered, Row, Cluster
      <3>2. Held'
        BY <1>2, <2>5 DEF Held
      <3>3. InLoop'
        BY <1>3 DEF GetCluster, InLoop
      <3> QED
        BY <1>1, <1>3, <2>5, <3>1, <3>2, <3>3, InTheLoop
           DEF Position, AtRest, Moving, Walking, Landing, Reading, Writing
    <2>10. Coherent'
      BY <1>1, <1>3, <2>5 DEF Coherent, Fresh
    <2>11. Marked'
      <3>1. CASE Writing
        BY <1>1, <1>3, <3>1 DEF Marked, Writing
      <3>2. CASE ~Writing
        BY <1>1, <1>3, <2>5, <3>2 DEF Marked, Writing, Follow
      <3> QED
        BY <3>1, <3>2
    <2> QED
      BY <2>1, <2>6, <2>7, <2>8, <2>9, <2>10, <2>11
  <1>4. ASSUME Writing, Full(Behind), pc' = "written", UNCHANGED <<fp, reg, answer, sane>>
        PROVE  IInv'
    <2>1. chain' = chain /\ ~Entered
      BY <1>1, <1>4, Numbers DEF Full, Entered, NewCluster
    <2>2. TypeOK' /\ Closed' /\ Simple' /\ LongEnough' /\ Calls'
      BY <1>1, <1>4, <2>1
         DEF TypeOK, Closed, Simple, LongEnough, Calls, Writing
    <2>3. Position'
      BY <1>1, <1>4, <2>1, InTheLoop
         DEF Position, AtRest, Moving, Walking, Landing, Reading, Writing, Placed, Held
    <2>4. Coherent' /\ Marked'
      BY <1>1, <1>4, <2>1 DEF Coherent, Marked, Fresh, Writing
    <2> QED
      BY <2>2, <2>3, <2>4
  <1>5. ASSUME Breaks, Abort PROVE IInv'
    BY <1>1, <1>5, AbortKeeps DEF Breaks
  <1> QED
    BY <1>3, <1>4, <1>5 DEF GetCluster

-----------------------------------------------------------------------------
(* The loop goes on.                                                       *)

\* The numbers of a loop that goes on by k bytes.
LEMMA MoveNumbers ==
    ASSUME IInv, InLoop, NEW k \in Nat, 0 < k, k <= reg.todo
    PROVE  /\ (fp.fptr + k) % Wrap = fp.fptr + k /\ fp.fptr + k \in 0 .. Wrap - 1
           /\ fp.fptr + k # 0 /\ fp.fptr + k - 1 \in Nat
           /\ reg.todo - k \in 0 .. Wrap /\ reg.done + k \in 0 .. Wrap /\ reg.todo - k \in Nat
           /\ fp.fptr + k = reg.from + (reg.done + k)
           /\ (reg.done + k) + (reg.todo - k) <= reg.n
           /\ Reading => (fp.fptr + k) + (reg.todo - k) <= fp.fsize
           /\ (fp.fptr + k) + (reg.todo - k) < Wrap
           /\ Writing => IF k < Len(reg.wbuff) THEN Len(reg.wbuff) - k = reg.todo - k
                                               ELSE reg.todo - k = 0
  <1> USE DEF IInv
  <1>1. /\ fp.fptr = reg.from + reg.done /\ reg.done + reg.todo <= reg.n
        /\ Reading => fp.fptr + reg.todo <= fp.fsize
        /\ Writing => Len(reg.wbuff) = reg.todo
        /\ fp.fptr + reg.todo < Wrap
    BY InTheLoop DEF InLoop
  <1>2. /\ fp.fptr \in Nat /\ fp.fsize \in Nat /\ reg.todo \in Nat /\ reg.done \in Nat
        /\ reg.from \in Nat /\ reg.n \in Nat /\ Wrap \in Nat \ {0}
    BY Typed, Numbers
  <1>3. reg.n \in 0 .. Wrap
    BY DEF TypeOK, Regs
  <1>4. fp.fptr + k \in Nat /\ fp.fptr + k < Wrap
    BY <1>1, <1>2
  <1>5. (fp.fptr + k) % Wrap = fp.fptr + k
    BY <1>2, <1>4, Small
  <1>6. fp.fptr + k \in 0 .. Wrap - 1 /\ fp.fptr + k # 0 /\ fp.fptr + k - 1 \in Nat
    BY <1>2, <1>4
  <1>7. /\ reg.todo - k \in 0 .. Wrap /\ reg.done + k \in 0 .. Wrap /\ reg.todo - k \in Nat
        /\ fp.fptr + k = reg.from + (reg.done + k)
        /\ (reg.done + k) + (reg.todo - k) <= reg.n
    <2> DEFINE t == reg.todo
               e == reg.done
               f == reg.from
               n == reg.n
               x == fp.fptr
    <2>1. /\ t \in Nat /\ e \in Nat /\ f \in Nat /\ n \in Nat /\ x \in Nat /\ Wrap \in Nat
          /\ n <= Wrap /\ x = f + e /\ e + t <= n /\ k <= t
      BY <1>1, <1>2, <1>3
    <2> HIDE DEF t, e, f, n, x
    <2>2. /\ t - k \in 0 .. Wrap /\ e + k \in 0 .. Wrap /\ t - k \in Nat
          /\ x + k = f + (e + k) /\ (e + k) + (t - k) <= n
      BY <2>1
    <2> QED
      BY <2>2 DEF t, e, f, n, x
  <1>8. (fp.fptr + k) + (reg.todo - k) = fp.fptr + reg.todo
    BY <1>2
  <1>9. Writing => IF k < Len(reg.wbuff) THEN Len(reg.wbuff) - k = reg.todo - k
                                         ELSE reg.todo - k = 0
    BY <1>1, <1>2
  <1> QED
    BY <1>1, <1>5, <1>6, <1>7, <1>8, <1>9

\* The loop goes on by k bytes, up to the end of the sector that csect is set to.
LEMMA MoveKeeps ==
    ASSUME IInv, InLoop, NEW k \in Nat, 0 < k, k <= reg.todo,
           NEW got \in Seq(Values), Writing => got = <<>>, Moved(k, got),
           UNCHANGED <<chain, entry, pc, answer>>,
           NEW c \in 1 .. csize, NEW d \in BOOLEAN, Reading => d = fp.dirty,
           fp' \in Fil, fp'.open = fp.open, fp'.error = fp.error, fp'.written = fp.written,
           fp'.dirty = d, fp'.fptr = fp.fptr + k, fp'.fsize = fp.fsize,
           fp'.curr_sect = fp.curr_sect, fp'.curr_clust = fp.curr_clust, fp'.csect = c,
           fp.curr_clust = Row(fp.fptr + k - 1) + 1, fp.curr_clust <= Len(chain),
           c = Col(fp.fptr + k - 1) + 1,
           (fp.fptr + k) % SS # 0 => fp.curr_sect = <<chain[fp.curr_clust], c - 1>>,
           sane' => sane
    PROVE  /\ reg' \in Regs /\ Closed' /\ Simple' /\ LongEnough' /\ Calls'
           /\ Position' /\ Marked' /\ Writing' = Writing
  <1> USE DEF IInv
  <1>1. /\ fp.open /\ ~fp.error /\ pc = "loop" /\ reg.op \in {"read", "write"}
        /\ Reading = ~Writing /\ fp.fptr = reg.from + reg.done /\ reg.done + reg.todo <= reg.n
        /\ Reading => fp.fptr + reg.todo <= fp.fsize /\ reg.wbuff = <<>>
        /\ Writing => /\ fp.fptr + reg.todo < Wrap
                      /\ Len(reg.wbuff) = reg.todo /\ reg.rbuff = <<>>
        /\ fp.fptr + reg.todo < Wrap
    BY InTheLoop DEF InLoop
  <1>2. /\ fp.fptr \in Nat /\ fp.fsize \in Nat /\ reg.todo \in Nat /\ reg.done \in Nat
        /\ reg.from \in Nat /\ reg.n \in Nat /\ Wrap \in Nat \ {0} /\ Len(chain) \in Nat
    BY Typed, Numbers
  <1>5. /\ fp' \in Fil /\ fp'.open = fp.open /\ fp'.error = fp.error
        /\ fp'.written = fp.written /\ fp'.dirty = d /\ fp'.fptr = fp.fptr + k
        /\ fp'.fsize = fp.fsize /\ fp'.curr_sect = fp.curr_sect
        /\ fp'.curr_clust = fp.curr_clust /\ fp'.csect = c
    OBVIOUS
  <1>6. /\ reg' = [reg EXCEPT !.todo = reg.todo - k, !.done = reg.done + k,
                              !.rbuff = reg.rbuff \o got,
                              !.wbuff = SubSeq(reg.wbuff, k + 1, Len(reg.wbuff))]
        /\ reg \in Regs
    BY DEF Moved, TypeOK
  <1>7. /\ reg.wbuff \in Seq(Values) /\ reg.rbuff \in Seq(Values)
        /\ reg.todo \in 0 .. Wrap /\ reg.done \in 0 .. Wrap /\ reg.n \in 0 .. Wrap
    BY <1>6 DEF Regs
  <1>8. /\ SubSeq(reg.wbuff, k + 1, Len(reg.wbuff)) \in Seq(Values)
        /\ Len(SubSeq(reg.wbuff, k + 1, Len(reg.wbuff)))
               = IF k < Len(reg.wbuff) THEN Len(reg.wbuff) - k ELSE 0
    <2>1. Len(reg.wbuff) \in Nat /\ k + 1 \in Int
      BY <1>7
    <2>2. \A i \in k + 1 .. Len(reg.wbuff) : reg.wbuff[i] \in Values
      BY <1>7, <2>1
    <2> DEFINE t == SubSeq(reg.wbuff, k + 1, Len(reg.wbuff))
    <2>3. /\ t \in Seq(Values)
          /\ Len(t) = IF k + 1 <= Len(reg.wbuff) THEN Len(reg.wbuff) - (k + 1) + 1 ELSE 0
      BY <2>1, <2>2, SubSeqProperties
    <2> HIDE DEF t
    <2>4. Len(t) = IF k < Len(reg.wbuff) THEN Len(reg.wbuff) - k ELSE 0
      BY <2>1, <2>3
    <2> QED
      BY <2>3, <2>4 DEF t
  <1>9. reg.rbuff \o got \in Seq(Values)
    BY <1>7, ConcatProperties
  <1>10. reg.todo - k \in 0 .. Wrap /\ reg.done + k \in 0 .. Wrap
    BY MoveNumbers
  <1>11. /\ reg' \in Regs /\ reg'.op = reg.op /\ reg'.todo = reg.todo - k
         /\ reg'.done = reg.done + k /\ reg'.from = reg.from /\ reg'.n = reg.n
         /\ reg'.rbuff = reg.rbuff \o got
         /\ reg'.wbuff = SubSeq(reg.wbuff, k + 1, Len(reg.wbuff))
    BY <1>6, <1>8, <1>9, <1>10 DEF Regs
  <1>12. Closed' /\ Simple' /\ LongEnough' /\ Calls'
    BY <1>1, <1>5, <1>11 DEF Closed, Simple, LongEnough, Calls
  <1>13. Position'
    <2>1. Placed'
      <3>1. fp'.fptr # 0 /\ fp'.fptr - 1 = fp.fptr + k - 1
        <4>1. fp.fptr + k # 0
          BY MoveNumbers
        <4>2. fp'.fptr = fp.fptr + k
          BY <1>5
        <4>3. fp'.fptr # 0
          BY <4>1, <4>2
        <4>4. (fp.fptr + k) - 1 = fp.fptr + (k - 1)
          BY <1>2
        <4> QED
          BY <4>2, <4>3, <4>4
      <3> QED
        BY <1>5, <3>1 DEF Placed, Row, Col, Cluster
    <2>2. Held'
      BY <1>5 DEF Held
    <2>3. /\ fp'.fptr = reg'.from + reg'.done /\ reg'.done + reg'.todo <= reg'.n
          /\ reg'.todo \in Nat
      BY <1>5, <1>11, MoveNumbers
    <2>4. Reading' => fp'.fptr + reg'.todo <= fp'.fsize /\ reg'.wbuff = <<>>
      <3> SUFFICES ASSUME Reading PROVE fp'.fptr + reg'.todo <= fp'.fsize /\ reg'.wbuff = <<>>
        BY <1>11 DEF Reading
      <3>1. SubSeq(<<>>, k + 1, 0) = <<>>
        BY SubSeqEmpty
      <3> QED
        <4>1. (fp.fptr + k) + (reg.todo - k) <= fp.fsize
          BY MoveNumbers
        <4>2. fp'.fptr + reg'.todo <= fp'.fsize
          BY <1>5, <1>11, <4>1
        <4>3. reg'.wbuff = <<>>
          BY <1>1, <1>11, <3>1
        <4> QED
          BY <4>2, <4>3
    <2>5. Writing' => /\ fp'.fptr + reg'.todo < Wrap
                      /\ Len(reg'.wbuff) = reg'.todo /\ reg'.rbuff = <<>>
      <3> SUFFICES ASSUME Writing
                   PROVE  /\ fp'.fptr + reg'.todo < Wrap
                          /\ Len(reg'.wbuff) = reg'.todo /\ reg'.rbuff = <<>>
        BY <1>11 DEF Writing
      <3>1. <<>> \o <<>> = <<>>
        OBVIOUS
      <3> QED
        <4>1. (fp.fptr + k) + (reg.todo - k) < Wrap
          BY MoveNumbers
        <4>2. fp'.fptr + reg'.todo < Wrap
          BY <1>5, <1>11, <4>1
        <4>3. IF k < Len(reg.wbuff) THEN Len(reg.wbuff) - k = reg.todo - k
                                    ELSE reg.todo - k = 0
          BY MoveNumbers
        <4>4. Len(reg'.wbuff) = reg'.todo
          BY <1>8, <1>11, <4>3
        <4>5. reg'.rbuff = <<>>
          BY <1>1, <1>11, <3>1
        <4> QED
          BY <4>2, <4>4, <4>5
    <2> QED
      BY <1>1, <1>5, <2>1, <2>2, <2>3, <2>4, <2>5
         DEF Position, AtRest, Moving, Walking, Landing
  <1>14. Marked'
    BY <1>1, <1>5, <1>11 DEF Marked, Writing
  <1>15. Writing' = Writing
    BY <1>11 DEF Writing
  <1> QED
    BY <1>1, <1>5, <1>11, <1>12, <1>13, <1>14, <1>15

\* Where a direct transfer begins and ends.
LEMMA DirectSpan ==
    ASSUME IInv, Direct
    PROVE  LET k == SS * Whole IN
           /\ Whole \in Nat /\ 0 < Whole /\ fp.csect + Whole \in 1 .. csize
           /\ k \in Nat /\ 0 < k /\ k <= reg.todo
           /\ fp.fptr % SS = 0 /\ fp.csect = Col(fp.fptr) /\ fp.curr_clust = Row(fp.fptr) + 1
           /\ fp.curr_clust \in 1 .. Len(chain)
           /\ Row(fp.fptr + k - 1) = Row(fp.fptr)
           /\ Col(fp.fptr + k - 1) = Col(fp.fptr) + Whole - 1
           /\ (fp.fptr + k) % SS = 0
  <1> USE DEF IInv
  <1> DEFINE k == SS * Whole
             p == fp.fptr
  <1>1. InLoop /\ OnSector /\ ~NewCluster /\ reg.todo \div SS > 0 /\ pc = "loop"
    BY DEF Direct, InLoop
  <1>2. /\ fp.curr_clust \in 1 .. Len(chain) /\ fp.curr_clust = Row(p) + 1
        /\ fp.csect = Col(p) /\ fp.csect < csize
    BY <1>1, Inside, InTheLoop
  <1>3. p \in Nat /\ reg.todo \in Nat /\ csize \in 1 .. 128 /\ SS \in Nat \ {0}
    BY Typed
  <1>4. Row(p) \in Nat /\ Col(p) \in 0 .. csize - 1
    BY <1>3, Terms
  <1> DEFINE t == reg.todo \div SS
  <1>5. t \in Nat /\ t * SS <= reg.todo /\ t > 0
    <2>1. t \in Nat /\ reg.todo % SS \in 0 .. SS - 1 /\ reg.todo = SS * t + (reg.todo % SS)
      BY <1>3, DivMod
    <2> DEFINE r == reg.todo % SS
    <2>2. t > 0
      BY <1>1
    <2> HIDE DEF t, r
    <2>3. SS * t = t * SS /\ SS * t \in Nat
      BY <1>3, <2>1
    <2>4. r \in Nat /\ reg.todo = SS * t + r
      BY <1>3, <2>1 DEF r
    <2> QED
      BY <1>3, <2>1, <2>2, <2>3, <2>4
  <1>6. Whole = IF fp.csect + t > csize THEN csize - fp.csect ELSE t
    BY DEF Whole
  <1> HIDE DEF t
  <1>7. Whole \in Nat /\ 0 < Whole /\ Whole <= t /\ fp.csect + Whole \in 1 .. csize
    BY <1>2, <1>3, <1>4, <1>5, <1>6
  <1>8. k \in Nat /\ 0 < k /\ k <= reg.todo
    <2> DEFINE w == Whole
    <2>1. w \in Nat /\ 0 < w /\ w <= t
      BY <1>7
    <2> HIDE DEF w
    <2>2. SS * w \in Nat /\ 0 < SS * w /\ SS * w <= t * SS
      BY <1>3, <1>5, <2>1
    <2>3. t * SS \in Nat
      BY <1>3, <1>5
    <2> QED
      BY <1>3, <1>5, <2>2, <2>3 DEF w
  <1> DEFINE j == k - 1
  <1>9. j \div SS = Whole - 1 /\ j % SS = SS - 1
    <2> DEFINE w == Whole
    <2>1. w \in Nat /\ 0 < w /\ j = SS * w - 1
      BY <1>7
    <2> HIDE DEF w, j
    <2>2. j = SS * (w - 1) + (SS - 1) /\ w - 1 \in Nat /\ SS - 1 \in 0 .. SS - 1
      BY <1>3, <2>1
    <2>3. j \div SS = w - 1 /\ j % SS = SS - 1
      BY <1>3, <2>2, DivUnique
    <2> QED
      BY <2>3 DEF w
  <1>10. p % SS = 0
    BY <1>1 DEF OnSector
  <1>11. /\ Row(p + j) = Row(p) /\ Col(p + j) = Col(p) + j \div SS /\ (p + j) % SS = j % SS
    <2>1. j \in Nat /\ j < SS * Whole
      BY <1>3, <1>7, <1>8
    <2>2. Col(p) + Whole <= csize
      BY <1>2, <1>7
    <2> DEFINE w == Whole
    <2>3. w \in Nat /\ j \in Nat /\ j < SS * w /\ Col(p) + w <= csize
      BY <1>7, <2>1, <2>2
    <2> HIDE DEF j, k, p, w
    <2> QED
      BY <1>3, <1>10, <2>3, SpanOf
  <1>12. p + j = p + k - 1 /\ p + j \in Nat /\ (p + j) + 1 = p + k
    BY <1>3, <1>8
  <1>13. (p + k) % SS = 0
    <2> HIDE DEF j, k, p
    <2>1. (p + j) % SS = SS - 1
      BY <1>9, <1>11
    <2>2. ((p + j) + 1) % SS = 0
      BY <1>12, <2>1, NextByte
    <2> QED
      BY <1>12, <2>2
  <1>14. Row(p + k - 1) = Row(p) /\ Col(p + k - 1) = Col(p) + Whole - 1
    <2> HIDE DEF j, k, p
    <2>1. Col(p + j) = Col(p) + (Whole - 1)
      BY <1>9, <1>11
    <2>2. Col(p) \in Int /\ Whole \in Int
      BY <1>4, <1>3, <1>7
    <2> QED
      BY <1>11, <1>12, <2>1, <2>2
  <1> QED
    BY <1>2, <1>7, <1>8, <1>10, <1>13, <1>14

-----------------------------------------------------------------------------
(* f_read past the buffer.                                                 *)

\* The file object after Advance.
LEMMA Advanced ==
    ASSUME IInv, InLoop, NEW k \in Nat, 0 < k, k <= reg.todo,
           NEW c \in 1 .. csize, NEW d \in BOOLEAN,
           fp' = [fp EXCEPT !.csect = c, !.dirty = d, !.fptr = (fp.fptr + k) % Wrap]
    PROVE  /\ fp' \in Fil /\ fp'.open = fp.open /\ fp'.error = fp.error
           /\ fp'.written = fp.written /\ fp'.dirty = d /\ fp'.fptr = fp.fptr + k
           /\ fp'.fsize = fp.fsize /\ fp'.curr_sect = fp.curr_sect
           /\ fp'.curr_clust = fp.curr_clust /\ fp'.csect = c
  <1> DEFINE x == (fp.fptr + k) % Wrap
  <1>1. x \in 0 .. Wrap - 1 /\ x = fp.fptr + k
    BY MoveNumbers
  <1>2. fp \in Fil /\ c \in 0 .. csize
    BY Numbers DEF TypeOK, IInv
  <1>3. fp' = [fp EXCEPT !.csect = c, !.dirty = d, !.fptr = x]
    OBVIOUS
  <1> HIDE DEF x
  <1> QED
    BY <1>1, <1>2, <1>3 DEF Fil

\* f_read hands whole sectors past the buffer.
LEMMA ReadDirectKeeps == ASSUME IInv, ReadDirect PROVE IInv'
  <1> USE DEF IInv
  <1> DEFINE k == SS * Whole
             got == [i \in 1 .. k |->
                        disk[<<Here[1], fp.csect + (i - 1) \div SS>>][(i - 1) % SS]]
  <1>1. /\ Direct /\ Reading /\ InLoop /\ pc = "loop" /\ UNCHANGED <<disk, entry, chain, buffer>>
        /\ fp.open
    BY InTheLoop DEF ReadDirect, Direct, InLoop
  <1>2. ASSUME fp' = Advance([fp EXCEPT !.csect = @ + Whole], SS * Whole), Moved(k, got),
               sane' = (sane /\ ~Overlaps), UNCHANGED <<pc, answer>>
        PROVE  IInv'
    <2> DEFINE c == fp.csect + Whole
    <2>1. /\ c \in 1 .. csize /\ k \in Nat /\ 0 < k /\ k <= reg.todo
          /\ fp.curr_clust = Row(fp.fptr) + 1 /\ fp.curr_clust \in 1 .. Len(chain)
          /\ Row(fp.fptr + k - 1) = Row(fp.fptr)
          /\ Col(fp.fptr + k - 1) = Col(fp.fptr) + Whole - 1 /\ fp.csect = Col(fp.fptr)
          /\ (fp.fptr + k) % SS = 0 /\ Whole \in Nat /\ fp.fptr % SS = 0
      BY <1>1, DirectSpan
    <2>2. fp \in Fil /\ fp.dirty \in BOOLEAN
      BY DEF TypeOK, Fil
    <2>3. fp' = [fp EXCEPT !.csect = c, !.dirty = fp.dirty, !.fptr = (fp.fptr + k) % Wrap]
      BY <1>2, <2>2 DEF Advance, Fil
    <2>4. got \in Seq(Values)
      <3>1. \A i \in 1 .. k : got[i] \in Values
        <4> SUFFICES ASSUME NEW i \in 1 .. k PROVE got[i] \in Values
          OBVIOUS
        <4> DEFINE j == i - 1
        <4>1. j \in Nat /\ j < SS * Whole /\ fp.fptr \in Nat
          BY <2>1, Typed
        <4>2. Col(fp.fptr) + Whole <= csize
          BY <2>1, Numbers
        <4> HIDE DEF j, k, c
        <4> DEFINE w == Whole
        <4>3. w \in Nat /\ j < SS * w /\ Col(fp.fptr) + w <= csize
          BY <2>1, <4>1, <4>2
        <4> HIDE DEF w
        <4>4. j \div SS \in 0 .. w - 1 /\ j % SS \in 0 .. SS - 1
          BY <2>1, <4>1, <4>3, SpanOf
        <4>5. fp.csect + j \div SS \in 0 .. csize - 1
          <5> DEFINE e == j \div SS
          <5>1. e \in 0 .. w - 1
            BY <4>4
          <5>2. fp.csect \in 0 .. csize - 1 /\ fp.csect + w <= csize
            BY <2>1, <4>1, <4>3, Terms
          <5> HIDE DEF e
          <5>3. fp.csect + e \in 0 .. csize - 1
            BY <4>3, <5>1, <5>2, Numbers
          <5> QED
            BY <5>3 DEF e
        <4>6. chain[fp.curr_clust] \in Clusters
          BY <2>1 DEF TypeOK
        <4>7. <<chain[fp.curr_clust], fp.csect + j \div SS>> \in Sector
          BY <4>5, <4>6 DEF Sector
        <4>8. disk[<<chain[fp.curr_clust], fp.csect + j \div SS>>][j % SS] \in Values
          <5> DEFINE s == <<chain[fp.curr_clust], fp.csect + j \div SS>>
                     m == j % SS
          <5>1. s \in Sector /\ m \in 0 .. SS - 1
            BY <4>4, <4>7
          <5> HIDE DEF s, m
          <5>2. disk \in [Sector -> Content]
            BY DEF TypeOK
          <5>3. disk[s] \in Content
            BY <5>1, <5>2
          <5>4. disk[s][m] \in Values
            BY <5>1, <5>3 DEF Content
          <5> QED
            BY <5>4 DEF s, m
        <4> QED
          BY <4>8 DEF Here, j
      <3>2. got \in [1 .. k -> Values]
        BY <3>1
      <3> HIDE DEF got, k
      <3> QED
        BY <2>1, <3>2
    <2>5. c = Col(fp.fptr + k - 1) + 1
      <3> DEFINE a == Col(fp.fptr)
                 b == Col(fp.fptr + k - 1)
                 w == Whole
      <3>1. a \in Nat /\ w \in Nat /\ b = a + w - 1 /\ c = a + w
        BY <2>1, Terms, Typed, Numbers
      <3> HIDE DEF a, b, w, c
      <3>2. c = b + 1
        BY <3>1
      <3> QED
        BY <3>2 DEF b
    <2>6. fp' \in Fil /\ fp'.open = fp.open /\ fp'.error = fp.error
          /\ fp'.written = fp.written /\ fp'.dirty = fp.dirty /\ fp'.fptr = fp.fptr + k
          /\ fp'.fsize = fp.fsize /\ fp'.curr_sect = fp.curr_sect
          /\ fp'.curr_clust = fp.curr_clust /\ fp'.csect = c
      <3> HIDE DEF c, k
      <3> QED
        BY <1>1, <2>1, <2>2, <2>3, Advanced
    <2>7. /\ reg' \in Regs /\ Closed' /\ Simple' /\ LongEnough' /\ Calls'
          /\ Position' /\ Marked'
      <3>1. (fp.fptr + k) % SS # 0 => fp.curr_sect = <<chain[fp.curr_clust], c - 1>>
        BY <2>1
      <3>2. fp.curr_clust = Row(fp.fptr + k - 1) + 1 /\ fp.curr_clust <= Len(chain)
        BY <2>1, Typed
      <3>3. Writing => got = <<>>
        BY <1>1 DEF Reading, Writing
      <3>4. UNCHANGED <<chain, entry, pc, answer>> /\ (sane' => sane)
        BY <1>1, <1>2
      <3> HIDE DEF c, k, got
      <3> QED
        BY <1>1, <1>2, <2>1, <2>2, <2>4, <2>5, <2>6, <3>1, <3>2, <3>3, <3>4, MoveKeeps
    <2>8. TypeOK'
      BY <1>1, <1>2, <2>6, <2>7 DEF TypeOK
    <2>9. Coherent'
      BY <1>1, <1>2, <2>6 DEF Coherent, Fresh, Reading, Writing
    <2> QED
      BY <2>7, <2>8, <2>9
  <1>3. ASSUME Abort PROVE IInv'
    BY <1>1, <1>3, AbortKeeps
  <1> QED
    BY <1>2, <1>3 DEF ReadDirect

-----------------------------------------------------------------------------
(* f_write past the buffer; copies into and out of it.                     *)

\* f_write writes whole sectors past the buffer.
LEMMA WriteDirectKeeps == ASSUME IInv, WriteDirect PROVE IInv'
  <1> USE DEF IInv
  <1> DEFINE k == SS * Whole
  <1>1. /\ Direct /\ Writing /\ InLoop /\ pc = "loop" /\ UNCHANGED <<entry, chain, buffer>>
        /\ fp.open /\ Len(reg.wbuff) = reg.todo
    BY InTheLoop DEF WriteDirect, Direct, InLoop
  <1>2. ASSUME fp' = Advance([fp EXCEPT !.csect = @ + Whole], SS * Whole), Moved(k, <<>>),
               disk' = [s \in Sector |->
                        IF s \in Span
                        THEN [i \in 0 .. SS - 1 |-> reg.wbuff[SS * (s[2] - fp.csect) + i + 1]]
                        ELSE disk[s]],
               sane' = (sane /\ ~Overlaps), UNCHANGED <<pc, answer>>
        PROVE  IInv'
    <2> DEFINE c == fp.csect + Whole
    <2>1. /\ c \in 1 .. csize /\ k \in Nat /\ 0 < k /\ k <= reg.todo
          /\ fp.curr_clust = Row(fp.fptr) + 1 /\ fp.curr_clust \in 1 .. Len(chain)
          /\ Row(fp.fptr + k - 1) = Row(fp.fptr)
          /\ Col(fp.fptr + k - 1) = Col(fp.fptr) + Whole - 1 /\ fp.csect = Col(fp.fptr)
          /\ (fp.fptr + k) % SS = 0 /\ Whole \in Nat /\ fp.fptr % SS = 0
      BY <1>1, DirectSpan
    <2>2. fp \in Fil /\ fp.dirty \in BOOLEAN
      BY DEF TypeOK, Fil
    <2>3. fp' = [fp EXCEPT !.csect = c, !.dirty = fp.dirty, !.fptr = (fp.fptr + k) % Wrap]
      BY <1>2, <2>2 DEF Advance, Fil
    <2>4. disk' \in [Sector -> Content]
      <3> DEFINE d(s) == [i \in 0 .. SS - 1 |-> reg.wbuff[SS * (s[2] - fp.csect) + i + 1]]
      <3>1. \A s \in Span : d(s) \in Content
        <4> SUFFICES ASSUME NEW s \in Span PROVE d(s) \in Content
          OBVIOUS
        <4>1. PICK t \in fp.csect .. fp.csect + Whole - 1 : s = <<chain[fp.curr_clust], t>>
          BY DEF Span
        <4>2. s[2] = t
          BY <4>1
        <4> DEFINE w == Whole
                   e == t - fp.csect
                   a == fp.csect
        <4>a. a \in Nat /\ w \in Nat /\ t \in a .. a + w - 1 /\ SS \in Nat \ {0}
          BY <2>1, <4>1, Typed
        <4>b. e = t - a
          OBVIOUS
        <4>3. e \in Nat /\ e + 1 <= w /\ w \in Nat /\ s[2] - a = e /\ SS \in Nat \ {0}
          <5> HIDE DEF a, e, w
          <5> QED
            BY <4>2, <4>a, <4>b
        <4> HIDE DEF w, e
        <4>4. SS * (e + 1) <= SS * w /\ SS * (e + 1) = SS * e + SS /\ SS * e \in Nat /\ SS * w \in Nat
          BY <4>3
        <4>5. ASSUME NEW i \in 0 .. SS - 1 PROVE reg.wbuff[SS * e + i + 1] \in Values
          <5> DEFINE x == SS * e
          <5>1. x \in Nat /\ x + SS <= k
            BY <4>4 DEF w
          <5>2. SS \in Nat /\ k \in Nat /\ k <= Len(reg.wbuff) /\ Len(reg.wbuff) \in Nat
            BY <1>1, <2>1, <4>3, Typed
          <5> HIDE DEF x, k
          <5>3. x + i + 1 \in 1 .. Len(reg.wbuff)
            BY <5>1, <5>2
          <5>4. reg.wbuff \in Seq(Values)
            BY DEF TypeOK, Regs
          <5>5. reg.wbuff[x + i + 1] \in Values
            BY <5>3, <5>4
          <5> QED
            BY <5>5 DEF x
        <4>6. d(s) = [i \in 0 .. SS - 1 |-> reg.wbuff[SS * e + i + 1]]
          BY <4>3
        <4> QED
          BY <4>5, <4>6 DEF Content
      <3>2. disk' = [s \in Sector |-> IF s \in Span THEN d(s) ELSE disk[s]]
        BY <1>2
      <3> HIDE DEF d
      <3>3. disk \in [Sector -> Content]
        BY DEF TypeOK
      <3> QED
        BY <3>1, <3>2, <3>3
    <2>5. c = Col(fp.fptr + k - 1) + 1
      <3> DEFINE a == Col(fp.fptr)
                 b == Col(fp.fptr + k - 1)
                 w == Whole
      <3>1. a \in Nat /\ w \in Nat /\ b = a + w - 1 /\ c = a + w
        BY <2>1, Terms, Typed, Numbers
      <3> HIDE DEF a, b, w, c
      <3>2. c = b + 1
        BY <3>1
      <3> QED
        BY <3>2 DEF b
    <2>6. fp' \in Fil /\ fp'.open = fp.open /\ fp'.error = fp.error
          /\ fp'.written = fp.written /\ fp'.dirty = fp.dirty /\ fp'.fptr = fp.fptr + k
          /\ fp'.fsize = fp.fsize /\ fp'.curr_sect = fp.curr_sect
          /\ fp'.curr_clust = fp.curr_clust /\ fp'.csect = c
      <3> HIDE DEF c, k
      <3> QED
        BY <1>1, <2>1, <2>2, <2>3, Advanced
    <2>7. /\ reg' \in Regs /\ Closed' /\ Simple' /\ LongEnough' /\ Calls'
          /\ Position' /\ Marked'
      <3>1. (fp.fptr + k) % SS # 0 => fp.curr_sect = <<chain[fp.curr_clust], c - 1>>
        BY <2>1
      <3>2. fp.curr_clust = Row(fp.fptr + k - 1) + 1 /\ fp.curr_clust <= Len(chain)
        BY <2>1, Typed
      <3>3. <<>> \in Seq(Values)
        OBVIOUS
      <3>4. UNCHANGED <<chain, entry, pc, answer>> /\ (sane' => sane)
        BY <1>1, <1>2
      <3> HIDE DEF c, k
      <3> QED
        BY <1>1, <1>2, <2>1, <2>2, <2>5, <2>6, <3>1, <3>2, <3>3, <3>4, MoveKeeps
    <2>8. TypeOK'
      BY <1>1, <1>2, <2>4, <2>6, <2>7 DEF TypeOK
    <2>9. Coherent'
      <3> SUFFICES ASSUME sane', ~fp'.dirty, fp'.curr_sect # NoSector
                   PROVE  buffer' = disk'[fp'.curr_sect]
        BY DEF Coherent
      <3>1. fp.curr_sect \notin Span /\ fp.curr_sect \in Sector /\ sane
        BY <1>1, <1>2, <2>6 DEF Overlaps, TypeOK, Fil
      <3>2. disk'[fp.curr_sect] = disk[fp.curr_sect]
        BY <1>2, <3>1
      <3>3. ~Fresh
        BY <1>1, Typed DEF Fresh, Direct
      <3>4. buffer = disk[fp.curr_sect]
        BY <2>6, <3>1, <3>3 DEF Coherent
      <3> QED
        BY <1>1, <2>6, <3>2, <3>4
    <2> QED
      BY <2>7, <2>8, <2>9
  <1>3. ASSUME UNCHANGED disk, Abort PROVE IInv'
    BY <1>1, <1>3, AbortKeeps
  <1> QED
    BY <1>2, <1>3 DEF WriteDirect

\* Where a copy begins and ends.
LEMMA CopySpan ==
    ASSUME IInv, Copying
    PROVE  /\ Part \in Nat /\ 0 < Part /\ Part <= reg.todo /\ (fp.fptr % SS) + Part <= SS
           /\ fp.fptr % SS \in 0 .. SS - 1
           /\ fp.curr_clust = Row(fp.fptr) + 1 /\ fp.curr_clust \in 1 .. Len(chain)
           /\ Row(fp.fptr + Part - 1) = Row(fp.fptr) /\ Col(fp.fptr + Part - 1) = Col(fp.fptr)
           /\ Stepped = [fp EXCEPT !.csect = Col(fp.fptr) + 1]
           /\ Col(fp.fptr) + 1 \in 1 .. csize /\ (Col(fp.fptr) + 1) - 1 = Col(fp.fptr)
           /\ fp.curr_sect = Where(fp.fptr)
           /\ Where(fp.fptr) = <<chain[fp.curr_clust], Col(fp.fptr)>>
           /\ Where(fp.fptr) \in Sector
  <1> USE DEF IInv
  <1> DEFINE p == fp.fptr
             m == p % SS
  <1>1. InLoop /\ pc = "loop" /\ reg.todo > 0 /\ ~NewCluster
    BY DEF Copying, InLoop, NewCluster
  <1>2. /\ p \in Nat /\ reg.todo \in Nat /\ csize \in 1 .. 128 /\ SS \in Nat \ {0}
        /\ fp.csect \in Nat
    BY Typed
  <1>3. m \in 0 .. SS - 1 /\ Col(p) \in 0 .. csize - 1 /\ Row(p) \in Nat
    BY <1>2, Terms
  <1>4. Part \in Nat /\ 0 < Part /\ Part <= reg.todo /\ m + Part <= SS
    <2>1. Part = IF SS - m > reg.todo THEN reg.todo ELSE SS - m
      BY DEF Part, Room
    <2> HIDE DEF m
    <2> QED
      BY <1>1, <1>2, <1>3, <2>1
  <1>5. /\ fp.curr_clust \in 1 .. Len(chain) /\ fp.curr_clust = Row(p) + 1
        /\ fp.csect = IF OnSector THEN Col(p) ELSE Col(p) + 1
        /\ OnSector => Here = Where(p)
        /\ ~OnSector => fp.curr_sect = Where(p)
    BY <1>1, Inside, InTheLoop
  <1>6. fp.curr_sect = Where(p)
    BY <1>5 DEF Copying
  <1>7. Row(p + (Part - 1)) = Row(p) /\ Col(p + (Part - 1)) = Col(p)
    <2> DEFINE e == Part - 1
    <2>1. e \in Nat /\ m + e < SS
      <3> HIDE DEF m
      <3> QED
        BY <1>2, <1>3, <1>4
    <2> HIDE DEF e, p
    <2>2. Row(p + e) = Row(p) /\ Col(p + e) = Col(p)
      BY <1>2, <2>1, SameSector
    <2> QED
      BY <2>2 DEF e
  <1>8. p + Part - 1 = p + (Part - 1)
    BY <1>2, <1>4
  <1>9. Where(p) = <<chain[fp.curr_clust], Col(p)>>
    BY <1>2, <1>5, WhereIs
  <1>10. chain[fp.curr_clust] \in Clusters
    BY <1>5 DEF TypeOK
  <1>11. Where(p) \in Sector
    BY <1>3, <1>9, <1>10 DEF Sector
  <1>12. Stepped = [fp EXCEPT !.csect = Col(p) + 1]
    <2>1. fp \in Fil
      BY DEF TypeOK
    <2>2. CASE OnSector
      BY <1>5, <2>1, <2>2 DEF Stepped, Fil
    <2>3. CASE ~OnSector
      <3>1. fp.csect = Col(p) + 1
        BY <1>5, <2>3
      <3>2. fp = [fp EXCEPT !.csect = fp.csect]
        BY <2>1 DEF Fil
      <3> QED
        BY <2>3, <3>1, <3>2 DEF Stepped
    <2> QED
      BY <2>2, <2>3
  <1>13. Col(p) + 1 \in 1 .. csize /\ (Col(p) + 1) - 1 = Col(p)
    BY <1>2, <1>3
  <1> QED
    BY <1>3, <1>4, <1>5, <1>6, <1>7, <1>8, <1>9, <1>11, <1>12, <1>13

\* What CopyOut and CopyIn share.
LEMMA CopyKeeps ==
    ASSUME IInv, Copying, NEW d \in BOOLEAN, Reading => d = fp.dirty,
           NEW got \in Seq(Values), Writing => got = <<>>, Moved(Part, got),
           fp' = Advance([Stepped EXCEPT !.dirty = d], Part),
           UNCHANGED <<chain, entry, pc, answer, sane>>
    PROVE  /\ reg' \in Regs /\ Closed' /\ Simple' /\ LongEnough' /\ Calls'
           /\ Position' /\ Marked' /\ Writing' = Writing
           /\ fp' \in Fil /\ fp'.dirty = d /\ fp'.fptr = fp.fptr + Part
           /\ fp'.fsize = fp.fsize /\ fp'.curr_sect = fp.curr_sect /\ fp'.open = fp.open
  <1> USE DEF IInv
  <1> DEFINE k == Part
             c == Col(fp.fptr) + 1
  <1>1. /\ k \in Nat /\ 0 < k /\ k <= reg.todo
        /\ fp.curr_clust = Row(fp.fptr) + 1 /\ fp.curr_clust \in 1 .. Len(chain)
        /\ Row(fp.fptr + k - 1) = Row(fp.fptr) /\ Col(fp.fptr + k - 1) = Col(fp.fptr)
        /\ Stepped = [fp EXCEPT !.csect = Col(fp.fptr) + 1]
        /\ Col(fp.fptr) + 1 \in 1 .. csize /\ (Col(fp.fptr) + 1) - 1 = Col(fp.fptr)
        /\ fp.curr_sect = <<chain[fp.curr_clust], Col(fp.fptr)>>
    BY CopySpan
  <1>2. c \in 1 .. csize /\ c - 1 = Col(fp.fptr)
    BY <1>1
  <1>3. InLoop
    BY DEF Copying
  <1>4. fp' = [fp EXCEPT !.csect = c, !.dirty = d, !.fptr = (fp.fptr + k) % Wrap]
    <2>1. fp \in Fil
      BY DEF TypeOK
    <2>2. fp' = Advance([[fp EXCEPT !.csect = c] EXCEPT !.dirty = d], k)
      BY <1>1
    <2> QED
      BY <2>1, <2>2 DEF Advance, Fil
  <1>5. /\ fp' \in Fil /\ fp'.open = fp.open /\ fp'.error = fp.error
        /\ fp'.written = fp.written /\ fp'.dirty = d /\ fp'.fptr = fp.fptr + k
        /\ fp'.fsize = fp.fsize /\ fp'.curr_sect = fp.curr_sect
        /\ fp'.curr_clust = fp.curr_clust /\ fp'.csect = c
    <2>1. k \in Nat /\ 0 < k /\ k <= reg.todo /\ c \in 1 .. csize
      BY <1>1, <1>2
    <2> HIDE DEF c, k
    <2> QED
      BY <1>3, <1>4, <2>1, Advanced
  <1>6. /\ reg' \in Regs /\ Closed' /\ Simple' /\ LongEnough' /\ Calls'
        /\ Position' /\ Marked' /\ Writing' = Writing
    <2>1. (fp.fptr + k) % SS # 0 => fp.curr_sect = <<chain[fp.curr_clust], c - 1>>
      BY <1>1, <1>2
    <2>2. fp.curr_clust = Row(fp.fptr + k - 1) + 1 /\ fp.curr_clust <= Len(chain)
          /\ c = Col(fp.fptr + k - 1) + 1
      BY <1>1, Typed
    <2> HIDE DEF c, k
    <2>3. Moved(k, got) /\ (sane' => sane)
      BY DEF k
    <2> QED
      BY <1>1, <1>2, <1>3, <1>5, <2>1, <2>2, <2>3, MoveKeeps
  <1> QED
    BY <1>5, <1>6

\* f_read copies out of the buffer.
LEMMA CopyOutKeeps == ASSUME IInv, CopyOut PROVE IInv'
  <1> USE DEF IInv
  <1> DEFINE got == [i \in 1 .. Part |-> buffer[(fp.fptr % SS) + i - 1]]
  <1>1. /\ Copying /\ Reading /\ ~Writing /\ fp' = Advance(Stepped, Part) /\ Moved(Part, got)
        /\ UNCHANGED <<disk, entry, chain, buffer, pc, answer, sane>>
    BY DEF CopyOut, Reading, Writing
  <1>2. /\ Part \in Nat /\ (fp.fptr % SS) + Part <= SS /\ fp.fptr % SS \in 0 .. SS - 1
        /\ Stepped = [fp EXCEPT !.csect = Col(fp.fptr) + 1]
    BY <1>1, CopySpan
  <1>3. fp.dirty \in BOOLEAN /\ fp \in Fil
    BY DEF TypeOK, Fil
  <1>4. fp' = Advance([Stepped EXCEPT !.dirty = fp.dirty], Part)
    <2>1. [Stepped EXCEPT !.dirty = fp.dirty] = Stepped
      BY <1>2, <1>3 DEF Fil
    <2> QED
      BY <1>1, <2>1
  <1>5. got \in Seq(Values)
    <2> DEFINE m == fp.fptr % SS
    <2>1. \A i \in 1 .. Part : m + i - 1 \in 0 .. SS - 1
      <3>1. m \in 0 .. SS - 1 /\ m + Part <= SS /\ SS \in Nat
        BY <1>2, Typed
      <3> HIDE DEF m
      <3> QED
        BY <1>2, <3>1
    <2>2. buffer \in [0 .. SS - 1 -> Values]
      BY DEF TypeOK, Content
    <2>3. got \in [1 .. Part -> Values]
      BY <2>1, <2>2
    <2> HIDE DEF got
    <2> QED
      BY <1>2, <2>3
  <1>6. /\ reg' \in Regs /\ Closed' /\ Simple' /\ LongEnough' /\ Calls'
        /\ Position' /\ Marked' /\ Writing' = Writing
        /\ fp' \in Fil /\ fp'.dirty = fp.dirty /\ fp'.curr_sect = fp.curr_sect
    <2> HIDE DEF got
    <2> QED
      BY <1>1, <1>3, <1>4, <1>5, CopyKeeps
  <1>7. TypeOK'
    BY <1>1, <1>6 DEF TypeOK
  <1>8. Coherent'
    BY <1>1, <1>6 DEF Coherent, Fresh
  <1> QED
    BY <1>6, <1>7, <1>8

\* f_write copies into the buffer.
LEMMA CopyInKeeps == ASSUME IInv, CopyIn PROVE IInv'
  <1> USE DEF IInv
  <1>1. /\ Copying /\ Writing /\ ~Reading /\ InLoop
        /\ fp' = Advance([Stepped EXCEPT !.dirty = TRUE], Part) /\ Moved(Part, <<>>)
        /\ buffer' = [i \in 0 .. SS - 1 |->
                        IF i >= fp.fptr % SS /\ i < (fp.fptr % SS) + Part
                        THEN reg.wbuff[i - (fp.fptr % SS) + 1] ELSE buffer[i]]
        /\ UNCHANGED <<disk, entry, chain, pc, answer, sane>>
    BY DEF CopyIn, Reading, Writing, Copying
  <1>2. /\ Part \in Nat /\ Part <= reg.todo /\ fp.fptr % SS \in 0 .. SS - 1
    BY <1>1, CopySpan
  <1>3. Len(reg.wbuff) = reg.todo /\ reg.todo \in Nat /\ SS \in Nat
    BY <1>1, InTheLoop, Typed DEF InLoop
  <1>4. buffer' \in Content
    <2> DEFINE m == fp.fptr % SS
    <2>1. reg.wbuff \in Seq(Values) /\ buffer \in [0 .. SS - 1 -> Values]
      BY DEF TypeOK, Regs, Content
    <2>2. \A i \in 0 .. SS - 1 : i >= m /\ i < m + Part => i - m + 1 \in 1 .. Len(reg.wbuff)
      <3>1. m \in Nat
        BY <1>2, <1>3
      <3> HIDE DEF m
      <3> QED
        BY <1>2, <1>3, <3>1
    <2>3. \A i \in 0 .. SS - 1 : i >= m /\ i < m + Part => reg.wbuff[i - m + 1] \in Values
      BY <2>1, <2>2
    <2>4. buffer' = [i \in 0 .. SS - 1 |-> IF i >= m /\ i < m + Part
                                           THEN reg.wbuff[i - m + 1] ELSE buffer[i]]
      BY <1>1
    <2> HIDE DEF m
    <2> QED
      BY <2>1, <2>3, <2>4 DEF Content
  <1>5. /\ reg' \in Regs /\ Closed' /\ Simple' /\ LongEnough' /\ Calls'
        /\ Position' /\ Marked' /\ Writing' = Writing
        /\ fp' \in Fil /\ fp'.dirty = TRUE /\ fp'.curr_sect = fp.curr_sect
    <2>1. <<>> \in Seq(Values) /\ TRUE \in BOOLEAN
      OBVIOUS
    <2> QED
      BY <1>1, <2>1, CopyKeeps
  <1>6. TypeOK'
    BY <1>1, <1>4, <1>5 DEF TypeOK
  <1>7. Coherent'
    BY <1>5 DEF Coherent
  <1> QED
    BY <1>5, <1>6, <1>7

\* A dirty buffer is written before it turns to another sector.
LEMMA FlushBufferKeeps == ASSUME IInv, FlushBuffer PROVE IInv'
  <1> USE DEF IInv
  <1>1. /\ fp.dirty /\ UNCHANGED <<entry, chain, buffer>> /\ pc \in {"loop", "land"} /\ fp.open
    BY DEF FlushBuffer, Turning, Turns, InLoop, Closed
  <1>2. ASSUME disk' = [disk EXCEPT ![fp.curr_sect] = buffer],
               fp' = [fp EXCEPT !.dirty = FALSE], UNCHANGED <<pc, reg, answer, sane>>
        PROVE  IInv'
    <2>1. fp \in Fil /\ fp.curr_sect \in Sector \cup {NoSector}
      BY DEF TypeOK, Fil
    <2>2. /\ fp' \in Fil /\ fp'.open = fp.open /\ fp'.error = fp.error /\ fp'.written = fp.written
          /\ ~fp'.dirty /\ fp'.fptr = fp.fptr /\ fp'.fsize = fp.fsize /\ fp'.csect = fp.csect
          /\ fp'.curr_sect = fp.curr_sect /\ fp'.curr_clust = fp.curr_clust
      BY <1>2, <2>1 DEF Fil
    <2>3. disk' \in [Sector -> Content]
      BY <1>2 DEF TypeOK
    <2>4. TypeOK'
      BY <1>1, <1>2, <2>2, <2>3 DEF TypeOK
    <2>5. Closed' /\ Simple' /\ LongEnough' /\ Calls'
      BY <1>1, <1>2, <2>2 DEF Closed, Simple, LongEnough, Calls
    <2>6. Position'
      <3>1. fp.error = FALSE /\ Moving /\ Landing
        BY <1>1 DEF Position, Calls, TypeOK, Fil
      <3>2. Placed' = Placed /\ Entered' = Entered /\ Held' = Held /\ InLoop' = InLoop
        BY <1>1, <1>2, <2>2 DEF Placed, Entered, Held, InLoop
      <3>3. Moving' /\ Landing'
        BY <1>1, <1>2, <2>2, <3>1, <3>2 DEF Moving, Landing, Reading, Writing
      <3> QED
        BY <1>1, <1>2, <3>3 DEF Position, AtRest, Walking
    <2>7. Coherent'
      <3> SUFFICES ASSUME fp.curr_sect # NoSector PROVE buffer' = disk'[fp'.curr_sect]
        BY <2>2 DEF Coherent
      <3>1. fp.curr_sect \in Sector
        BY <2>1
      <3> QED
        BY <1>1, <1>2, <2>2, <3>1 DEF TypeOK
    <2>8. Marked'
      BY <1>1, <1>2, <2>2 DEF Marked, Writing
    <2> QED
      BY <2>4, <2>5, <2>6, <2>7, <2>8
  <1>3. ASSUME UNCHANGED disk, Abort PROVE IInv'
    BY <1>1, <1>3, AbortKeeps
  <1> QED
    BY <1>2, <1>3 DEF FlushBuffer

\* The buffer turns to another sector: it is read, or taken over unread behind the
\* end of the file.
LEMMA FillBufferKeeps == ASSUME IInv, FillBuffer PROVE IInv'
  <1> USE DEF IInv
  <1>0. PICK s \in Sector :
           /\ Turning(s) /\ ~fp.dirty
           /\ \/ /\ buffer' = IF Behindhand THEN buffer ELSE disk[s]
                 /\ fp' = [fp EXCEPT !.curr_sect = s]
                 /\ UNCHANGED <<pc, reg, answer, sane>>
              \/ "read" \in Faults /\ ~Behindhand /\ UNCHANGED buffer /\ Abort
    BY DEF FillBuffer
  <1>1. /\ ~fp.dirty /\ UNCHANGED <<disk, entry, chain>> /\ pc \in {"loop", "land"} /\ fp.open
        /\ ~fp.error
    BY <1>0 DEF FillBuffer, Turning, Turns, InLoop, Closed, Calls
  <1>2. ASSUME buffer' = IF Behindhand THEN buffer ELSE disk[s],
               fp' = [fp EXCEPT !.curr_sect = s], UNCHANGED <<pc, reg, answer, sane>>
        PROVE  IInv'
    <2>1. fp \in Fil
      BY DEF TypeOK
    <2>2. /\ fp' \in Fil /\ fp'.open = fp.open /\ fp'.error = fp.error /\ fp'.written = fp.written
          /\ fp'.dirty = fp.dirty /\ fp'.fptr = fp.fptr /\ fp'.fsize = fp.fsize
          /\ fp'.csect = fp.csect /\ fp'.curr_sect = s /\ fp'.curr_clust = fp.curr_clust
      BY <1>2, <2>1 DEF Fil
    <2>3. buffer' \in Content
      BY <1>2 DEF TypeOK
    <2>4. TypeOK'
      BY <1>1, <1>2, <2>2, <2>3 DEF TypeOK
    <2>5. Closed' /\ Simple' /\ LongEnough' /\ Calls'
      BY <1>1, <1>2, <2>2 DEF Closed, Simple, LongEnough, Calls
    <2>6. Placed' = Placed /\ Entered' = Entered /\ InLoop' = InLoop
      BY <1>1, <1>2, <2>2 DEF Placed, Entered, InLoop
    <2>7. Position'
      <3>1. Moving /\ Landing
        BY <1>1 DEF Position
      <3>2. CASE pc = "loop"
        <4>1. fp.fptr % SS = 0
          BY <1>0, <3>2 DEF Turning, Turns, OnSector
        <4>2. Held'
          BY <2>2, <4>1 DEF Held
        <4>3. Moving'
          BY <1>1, <1>2, <2>2, <2>6, <3>1, <4>2 DEF Moving, Reading, Writing
        <4> QED
          BY <1>2, <3>2, <4>3 DEF Position, AtRest, Walking, Landing
      <3>3. CASE pc = "land"
        BY <1>1, <1>2, <2>2, <2>6, <3>1, <3>3 DEF Position, AtRest, Walking, Landing, Moving
      <3> QED
        BY <1>1, <3>2, <3>3
    <2>8. Coherent'
      <3>1. CASE ~Behindhand
        BY <1>1, <1>2, <2>2, <3>1 DEF Coherent
      <3>2. CASE Behindhand
        <4>1. Writing /\ fp.fptr >= fp.fsize
          BY <3>2 DEF Behindhand
        <4>2. InLoop /\ OnSector /\ ~NewCluster /\ reg.todo \div SS = 0 /\ s = Here
          BY <1>0, <4>1 DEF Turning, Turns, Calls, Writing
        <4>3. Fresh'
          BY <1>1, <1>2, <2>2, <2>6, <4>1, <4>2 DEF Fresh, OnSector, NewCluster, Here, Writing
        <4> QED
          BY <4>3 DEF Coherent
      <3> QED
        BY <3>1, <3>2
    <2>9. Marked'
      BY <1>1, <1>2, <2>2 DEF Marked, Writing
    <2> QED
      BY <2>4, <2>5, <2>7, <2>8, <2>9
  <1>3. ASSUME UNCHANGED buffer, Abort PROVE IInv'
    BY <1>1, <1>3, AbortKeeps
  <1> QED
    BY <1>0, <1>2, <1>3

-----------------------------------------------------------------------------
(* The end of a loop; f_lseek.                                             *)

\* The loop of f_read or f_write ends.
LEMMA EndLoopKeeps == ASSUME IInv, EndLoop PROVE IInv'
  <1> USE DEF IInv
  <1>1. /\ pc \in {"loop", "written"} /\ ~InLoop /\ pc' = "idle"
        /\ UNCHANGED <<disk, entry, chain, buffer, sane>>
        /\ reg' = [NoCall EXCEPT !.calls = reg.calls]
        /\ answer' = [op |-> reg.op, result |-> "ok",
                      n |-> reg.n, done |-> reg.done, from |-> reg.from]
        /\ reg' \in Regs /\ answer' \in Answers
    <2>1. TypeOK /\ Return("ok")
      BY DEF EndLoop
    <2>2. reg' \in Regs /\ answer' \in Answers
      BY <2>1, ReturnTyped
    <2> QED
      BY <2>2, Typed DEF EndLoop, InLoop, Return
  <1>2. /\ fp.open /\ ~fp.error /\ Placed /\ Held
        /\ reg.op \in {"read", "write"} /\ Reading = ~Writing
        /\ fp.fptr = reg.from + reg.done /\ reg.done + reg.todo <= reg.n
        /\ Reading => fp.fptr + reg.todo <= fp.fsize
    BY <1>1, InTheLoop
  <1>3. fp.fptr \in Nat /\ fp.fsize \in Nat /\ reg.todo \in Nat /\ reg.done \in Nat
    BY Typed
  <1>4. fp.fptr <= Len(chain) * Cluster
    BY <1>2, PlacedBound
  <1>5. /\ fp' \in Fil /\ fp'.open = fp.open /\ fp'.error = fp.error
        /\ fp'.dirty = fp.dirty /\ fp'.fptr = fp.fptr /\ fp'.csect = fp.csect
        /\ fp'.curr_sect = fp.curr_sect /\ fp'.curr_clust = fp.curr_clust
        /\ fp'.fsize = IF Writing /\ fp.fptr > fp.fsize THEN fp.fptr ELSE fp.fsize
        /\ fp'.written = IF Writing THEN TRUE ELSE fp.written
    <2>1. fp \in Fil
      BY DEF TypeOK
    <2>2. CASE Writing /\ fp.fptr > fp.fsize
      <3>1. fp' = [fp EXCEPT !.fsize = fp.fptr, !.written = TRUE]
        BY <2>1, <2>2 DEF EndLoop, Longer, Fil
      <3> QED
        BY <2>1, <2>2, <3>1 DEF Fil
    <2>3. CASE Writing /\ ~(fp.fptr > fp.fsize)
      <3>1. fp' = [fp EXCEPT !.written = TRUE]
        BY <2>1, <2>3 DEF EndLoop, Longer, Fil
      <3> QED
        BY <2>1, <2>3, <3>1 DEF Fil
    <2>4. CASE ~Writing
      BY <2>1, <2>4 DEF EndLoop
    <2> QED
      BY <2>2, <2>3, <2>4
  <1>6. TypeOK'
    BY <1>1, <1>5 DEF TypeOK
  <1>7. Closed' /\ Simple'
    BY <1>1, <1>2, <1>5 DEF Closed, Simple
  <1>8. LongEnough'
    <2> DEFINE x == Len(chain) * Cluster
    <2>1. x = Len(chain') * Cluster'
      BY <1>1 DEF Cluster
    <2>2. fp'.fsize <= x
      <3> HIDE DEF x
      <3> QED
        BY <1>4, <1>5, <1>2 DEF LongEnough, x
    <2>3. ~fp'.written => IF entry.used THEN chain # <<>> /\ entry.size <= x ELSE entry.size = 0
      BY <1>5 DEF LongEnough
    <2> HIDE DEF x
    <2> QED
      BY <1>1, <1>2, <1>5, <2>1, <2>2, <2>3 DEF LongEnough
  <1>9. Calls'
    BY <1>1, <1>2, <1>5 DEF Calls, NoCall
  <1>10. Position'
    <2>1. Placed' /\ Held'
      BY <1>1, <1>2, <1>5 DEF Placed, Held
    <2>2. fp'.fptr <= fp'.fsize
      <3>1. ~Writing => fp.fptr <= fp.fsize
        <4>1. ~Writing => fp.fptr + reg.todo <= fp.fsize
          BY <1>2
        <4> QED
          BY <1>3, <4>1
      <3>2. Writing => fp'.fptr <= fp'.fsize
        BY <1>3, <1>5
      <3> QED
        BY <1>5, <3>1, <3>2
    <2> QED
      BY <1>1, <2>1, <2>2 DEF Position, AtRest, Moving, Walking, Landing
  <1>11. Coherent'
    BY <1>1, <1>5 DEF Coherent, Fresh
  <1>12. Marked'
    BY <1>1, <1>2, <1>5 DEF Marked, Writing, Reading
  <1> QED
    BY <1>6, <1>7, <1>8, <1>9, <1>10, <1>11, <1>12

-----------------------------------------------------------------------------
(* f_lseek.                                                                *)

\* f_lseek goes to the next cluster of the chain.
LEMMA WalkKeeps == ASSUME IInv, Walk PROVE IInv'
  <1> USE DEF IInv
  <1>1. /\ pc = "walk" /\ reg.todo > Cluster /\ UNCHANGED <<disk, entry, buffer>>
        /\ fp.open /\ ~fp.error
    BY DEF Walk, Closed, Calls
  <1>2. /\ fp.curr_clust \in 1 .. Len(chain)
        /\ reg.todo > 0 /\ fp.fptr + reg.todo <= reg.n /\ reg.n < Wrap
        /\ reg.op = "seek" /\ reg.wbuff = <<>> /\ reg.rbuff = <<>> /\ reg.done = 0
        /\ ~Reading /\ ~Writing
    BY <1>1 DEF Position, Walking, Calls, Reading, Writing
  <1>8. fp.fptr = (fp.curr_clust - 1) * Cluster
    BY <1>1 DEF Position, Walking
  <1>9. fp.fptr + Cluster \in Nat /\ fp.fptr + Cluster < Wrap
        /\ reg.todo - Cluster > 0
        /\ (fp.fptr + Cluster) + (reg.todo - Cluster) <= reg.n
        /\ fp.fptr + Cluster <= reg.n
    <2> DEFINE p == fp.fptr
               t == reg.todo
               n == reg.n
               b == Cluster
    <2>1. /\ p \in Nat /\ t \in Nat /\ n \in Nat /\ Wrap \in Nat /\ b \in Nat \ {0}
          /\ t > b /\ p + t <= n /\ n < Wrap
      BY <1>1, <1>2, Typed, ClusterIs
    <2> HIDE DEF p, t, n, b
    <2>2. p + b \in Nat /\ p + b < Wrap /\ t - b > 0 /\ (p + b) + (t - b) <= n /\ p + b <= n
      BY <2>1
    <2> QED
      BY <2>2 DEF p, t, n, b
  <1>3. /\ fp.fptr \in Nat /\ fp.fsize \in Nat /\ reg.todo \in Nat /\ reg.n \in Nat
        /\ Wrap \in Nat \ {0} /\ Len(chain) \in Nat /\ fp.curr_clust \in Nat
        /\ Cluster \in Nat \ {0}
    BY Typed, ClusterIs
  <1>4. reg \in Regs /\ fp \in Fil /\ reg.todo \in 0 .. Wrap
    BY DEF TypeOK, Regs
  <1>5. ASSUME Follow(fp.curr_clust) \/ Stretch(fp.curr_clust),
               fp' = Advance([fp EXCEPT !.curr_clust = @ + 1], Cluster),
               reg' = [reg EXCEPT !.todo = @ - Cluster], UNCHANGED <<pc, answer, sane>>
        PROVE  IInv'
    <2>1. /\ chain' \in Seq(Clusters) /\ Simple' /\ Len(chain') \in Nat
          /\ Len(chain) <= Len(chain') /\ fp.curr_clust + 1 <= Len(chain')
      BY <1>3, <1>5, Grows
    <2> DEFINE x == (fp.fptr + Cluster) % Wrap
    <2>2. x = fp.fptr + Cluster /\ x \in 0 .. Wrap - 1
      <3> DEFINE y == fp.fptr + Cluster
      <3>1. y \in Nat /\ y < Wrap /\ x = y % Wrap /\ Wrap \in Nat
        BY <1>3, <1>9
      <3> HIDE DEF x, y
      <3>2. x = y /\ x \in 0 .. Wrap - 1
        BY <3>1, Small
      <3> QED
        BY <3>2 DEF y
    <2>3. fp.fptr + Cluster = ((fp.curr_clust + 1) - 1) * Cluster
      <3> DEFINE q == fp.curr_clust - 1
      <3>1. q \in Nat /\ fp.curr_clust = q + 1 /\ fp.fptr = q * Cluster
        BY <1>2, <1>3, <1>8
      <3> HIDE DEF q
      <3>2. (q + 1) * Cluster = q * Cluster + Cluster
        BY <3>1, StartOfCluster
      <3> QED
        BY <3>1, <3>2
    <2>4. fp.curr_clust + 1 \in 0 .. Wrap
      <3> DEFINE q == fp.curr_clust - 1
      <3>1. q \in Nat /\ fp.curr_clust = q + 1 /\ fp.fptr = q * Cluster /\ fp.fptr + Cluster < Wrap
        <4>1. q \in Nat /\ fp.curr_clust = q + 1
          BY <1>2, <1>3
        <4>2. fp.fptr = q * Cluster
          BY <1>8
        <4> QED
          BY <1>9, <4>1, <4>2
      <3> HIDE DEF q
      <3>2. q * Cluster >= q
        BY <1>3, <3>1
      <3> QED
        BY <1>3, <3>1, <3>2
    <2>5. fp' = [fp EXCEPT !.curr_clust = fp.curr_clust + 1, !.fptr = x]
      BY <1>4, <1>5 DEF Advance, Fil
    <2> HIDE DEF x
    <2>6. /\ fp' \in Fil /\ fp'.open = fp.open /\ fp'.error = fp.error /\ fp'.dirty = fp.dirty
          /\ fp'.written = fp.written /\ fp'.fptr = fp.fptr + Cluster /\ fp'.fsize = fp.fsize
          /\ fp'.curr_sect = fp.curr_sect /\ fp'.curr_clust = fp.curr_clust + 1
      BY <1>4, <2>2, <2>4, <2>5 DEF Fil
    <2>7. /\ reg' \in Regs /\ reg'.op = reg.op /\ reg'.todo = reg.todo - Cluster
          /\ reg'.n = reg.n /\ reg'.wbuff = <<>> /\ reg'.rbuff = <<>> /\ reg'.done = 0
      <3>1. reg.todo - Cluster \in 0 .. Wrap
        BY <1>1, <1>3, <1>4
      <3> QED
        BY <1>2, <1>4, <1>5, <3>1 DEF Regs
    <2>8. TypeOK'
      BY <1>1, <1>5, <2>1, <2>6, <2>7 DEF TypeOK
    <2>9. LongEnough'
      BY <1>1, <2>1, <2>6, GrownLongEnough
    <2>10. Closed' /\ Calls'
      BY <1>1, <1>2, <1>5, <2>6, <2>7 DEF Closed, Calls
    <2>11. Position'
      <3>1. fp'.curr_clust \in 1 .. Len(chain')
        BY <1>3, <2>1, <2>6
      <3>2. fp'.fptr = (fp'.curr_clust - 1) * Cluster
        BY <2>3, <2>6
      <3>3. reg'.todo > 0 /\ fp'.fptr + reg'.todo <= reg'.n
        BY <1>9, <2>6, <2>7
      <3>4. Walking'
        BY <1>2, <2>7, <3>1, <3>2, <3>3 DEF Walking, Cluster
      <3> QED
        BY <1>1, <1>5, <3>4 DEF Position, AtRest, Moving, Landing
    <2>12. Coherent'
      BY <1>1, <1>5, <2>6 DEF Coherent, Fresh, InLoop
    <2>13. Marked'
      BY <1>1, <1>2, <1>5, <2>6, <2>7 DEF Marked, Writing
    <2> QED
      BY <2>1, <2>8, <2>9, <2>10, <2>11, <2>12, <2>13
  <1>6. ASSUME chain' = chain, reg' = [reg EXCEPT !.todo = Cluster],
               UNCHANGED <<fp, pc, answer, sane>>
        PROVE  IInv'
    <2>1. /\ reg' \in Regs /\ reg'.op = reg.op /\ reg'.todo = Cluster
          /\ reg'.n = reg.n /\ reg'.wbuff = <<>> /\ reg'.rbuff = <<>> /\ reg'.done = 0
      <3>1. Cluster \in 0 .. Wrap
        BY <1>1, <1>3, <1>4
      <3> QED
        BY <1>2, <1>4, <1>6, <3>1 DEF Regs
    <2>2. TypeOK'
      BY <1>1, <1>6, <2>1 DEF TypeOK
    <2>3. Closed' /\ Simple' /\ LongEnough' /\ Calls'
      BY <1>1, <1>2, <1>6, <2>1 DEF Closed, Simple, LongEnough, Calls
    <2>4. Position'
      <3>1. reg'.todo > 0 /\ fp.fptr + reg'.todo <= reg'.n
        BY <1>3, <1>9, <2>1
      <3>2. Walking'
        BY <1>2, <1>6, <1>8, <2>1, <3>1 DEF Walking, Cluster
      <3> QED
        BY <1>1, <1>6, <3>2 DEF Position, AtRest, Moving, Landing
    <2>5. Coherent' /\ Marked'
      BY <1>1, <1>2, <1>6, <2>1 DEF Coherent, Marked, Fresh, InLoop, Writing
    <2> QED
      BY <2>2, <2>3, <2>4, <2>5
  <1>7. ASSUME Breaks, Abort PROVE IInv'
    BY <1>1, <1>7, AbortKeeps DEF Breaks
  <1> QED
    BY <1>5, <1>6, <1>7 DEF Walk, Full

\* The sector of the last of t bytes, counted from the start of a cluster.
LEMMA CeilSector ==
    ASSUME NEW t \in Nat, 0 < t, t <= Cluster
    PROVE  LET j == t - 1 IN
           /\ j \div SS \in 0 .. csize - 1
           /\ t % SS = 0 => t \div SS = j \div SS + 1
           /\ t % SS # 0 => t \div SS = j \div SS
           /\ t % SS = 0 <=> j % SS = SS - 1
  <1> DEFINE j == t - 1
             q == j \div SS
             r == j % SS
  <1>1. j \in Nat /\ SS \in Nat \ {0} /\ csize \in Nat \ {0} /\ Cluster = SS * csize /\ t = j + 1
        /\ j < SS * csize
    BY ClusterIs
  <1> HIDE DEF j
  <1>2. q \in Nat /\ r \in 0 .. SS - 1 /\ j = SS * q + r
    BY <1>1, DivMod
  <1> HIDE DEF q, r
  <1>3. q < csize
    <2> SUFFICES ASSUME q >= csize PROVE FALSE
      BY <1>1, <1>2
    <2>1. SS * q >= SS * csize
      BY <1>1, <1>2
    <2> QED
      BY <1>1, <1>2, <2>1
  <1>4. CASE r = SS - 1
    <2>1. SS * (q + 1) = SS * q + SS
      BY <1>1, <1>2
    <2>2. t = SS * (q + 1) + 0 /\ q + 1 \in Nat /\ 0 \in 0 .. SS - 1
      <3> DEFINE x == SS * q
                 y == SS * (q + 1)
      <3>1. y = x + SS /\ x \in Nat /\ j = x + r
        BY <1>1, <1>2, <2>1
      <3> HIDE DEF x, y
      <3>2. t = y + 0 /\ q + 1 \in Nat /\ 0 \in 0 .. SS - 1
        BY <1>1, <1>2, <1>4, <3>1
      <3> QED
        BY <3>2 DEF y
    <2>3. t \div SS = q + 1 /\ t % SS = 0
      <3> DEFINE u == q + 1
      <3>1. u \in Nat /\ t = SS * u + 0 /\ 0 \in 0 .. SS - 1
        BY <2>2
      <3> HIDE DEF u
      <3>2. t \div SS = u /\ t % SS = 0
        BY <1>1, <3>1, DivUnique
      <3> QED
        BY <3>2 DEF u
    <2> QED
      BY <1>1, <1>2, <1>3, <1>4, <2>3 DEF q, r, j
  <1>5. CASE r # SS - 1
    <2>1. t = SS * q + (r + 1) /\ r + 1 \in 0 .. SS - 1 /\ r + 1 # 0
      BY <1>1, <1>2, <1>5
    <2>2. t \div SS = q /\ t % SS = r + 1
      BY <1>1, <1>2, <2>1, DivUnique
    <2> QED
      BY <1>1, <1>2, <1>3, <1>5, <2>1, <2>2 DEF q, r, j
  <1> QED
    BY <1>4, <1>5

\* A sector is not the empty tuple.
LEMMA TupleNotEmpty == \A a, b : <<a, b>> # <<>>
  OBVIOUS

\* f_lseek has come to the cluster it looks for, or to the end of the chain.
LEMMA ArriveKeeps == ASSUME IInv, Arrive PROVE IInv'
  <1> USE DEF IInv
  <1> DEFINE t == reg.todo
             q == fp.curr_clust - 1
             j == t - 1
             inside == t % SS # 0
             sect == t \div SS
             a == q * Cluster
             x == (fp.fptr + t) % Wrap
             c == IF inside THEN sect + 1 ELSE sect
             s == IF inside THEN <<chain[fp.curr_clust], sect>> ELSE NoSector
  <1>1. /\ pc = "walk" /\ t <= Cluster /\ pc' = "land"
        /\ UNCHANGED <<disk, entry, chain, buffer, answer, sane>>
        /\ fp.open /\ ~fp.error
    BY DEF Arrive, Closed, Calls
  <1>2. /\ fp.curr_clust \in 1 .. Len(chain)
        /\ t > 0 /\ fp.fptr + t <= reg.n /\ reg.n < Wrap
        /\ reg.op = "seek" /\ reg.wbuff = <<>> /\ reg.rbuff = <<>> /\ reg.done = 0
        /\ ~Reading /\ ~Writing
    BY <1>1 DEF Position, Walking, Calls, Reading, Writing
  <1>3. fp.fptr = a
    BY <1>1 DEF Position, Walking
  <1>4. /\ fp.fptr \in Nat /\ fp.fsize \in Nat /\ t \in Nat /\ reg.n \in Nat
        /\ Wrap \in Nat \ {0} /\ Len(chain) \in Nat /\ fp.curr_clust \in Nat
        /\ SS \in Nat \ {0} /\ csize \in Nat \ {0} /\ j \in Nat /\ t = j + 1
        /\ q \in Nat /\ fp.curr_clust = q + 1
    <2> DEFINE b == fp.curr_clust
               n == Len(chain)
    <2>1. /\ fp.fptr \in Nat /\ fp.fsize \in Nat /\ t \in Nat /\ reg.n \in Nat
          /\ Wrap \in Nat \ {0} /\ n \in Nat /\ b \in Nat /\ SS \in Nat \ {0}
      BY Typed
    <2>2. csize \in Nat \ {0} /\ b \in 1 .. n /\ t > 0
      BY <1>2, ClusterIs
    <2> HIDE DEF t, b, n
    <2>3. t - 1 \in Nat /\ t = (t - 1) + 1 /\ b - 1 \in Nat /\ b = (b - 1) + 1
      BY <2>1, <2>2
    <2> QED
      BY <2>1, <2>2, <2>3 DEF b, n
  <1>5. reg \in Regs /\ fp \in Fil
    BY DEF TypeOK
  <1>6. /\ fp' = Advance([fp EXCEPT !.csect = c], t) /\ reg' = [reg EXCEPT !.nsect = s]
    BY DEF Arrive
  <1>7. x = fp.fptr + t /\ x \in 0 .. Wrap - 1 /\ x # 0 /\ x <= reg.n /\ x = (fp.fptr + j) + 1
    <2> DEFINE p == fp.fptr
               n == reg.n
    <2> HIDE DEF t, j
    <2>1. /\ p \in Nat /\ n \in Nat /\ p + t <= n /\ n < Wrap /\ t \in Nat /\ t > 0 /\ t = j + 1
          /\ j \in Nat /\ Wrap \in Nat /\ x = (p + t) % Wrap
      BY <1>2, <1>4
    <2> HIDE DEF p, n, x
    <2>2. (p + t) % Wrap = p + t
      <3> DEFINE y == p + t
      <3>1. y \in Nat /\ y < Wrap
        BY <2>1
      <3> HIDE DEF y
      <3>2. y % Wrap = y
        BY <2>1, <3>1, Small
      <3> QED
        BY <3>2 DEF y
    <2>3. x = p + t
      BY <2>1, <2>2
    <2> QED
      BY <2>1, <2>3 DEF p, n
  <1>8. /\ j \div SS \in 0 .. csize - 1
        /\ ~inside => sect = j \div SS + 1
        /\ inside => sect = j \div SS
        /\ ~inside <=> j % SS = SS - 1
    BY <1>1, <1>2, <1>4, CeilSector
  <1>9. a \in Nat /\ a % SS = 0 /\ Row(a) = q /\ Col(a) = 0
    <2> HIDE DEF q
    <2>1. a \in Nat /\ a % Cluster = 0 /\ a % SS = 0 /\ Row(a) = q
      BY <1>4, StartOfCluster
    <2> HIDE DEF a
    <2> QED
      BY <2>1, Boundary
  <1>10. Row(a + j) = q /\ Col(a + j) = j \div SS /\ (a + j) % SS = j % SS
    <2>0. t \in Nat /\ t <= SS * csize /\ SS * csize \in Nat
      BY <1>1, <1>4, ClusterIs
    <2>1. j < SS * csize
      <3> DEFINE y == SS * csize
      <3> HIDE DEF y, t
      <3>1. j < y
        BY <1>4, <2>0 DEF y
      <3> QED
        BY <3>1 DEF y
    <2> DEFINE w == csize
               z == Col(a)
    <2>2. /\ w \in Nat /\ z + w <= csize /\ j \in Nat /\ j < SS * w /\ a \in Nat /\ a % SS = 0
          /\ z = Col(a)
      BY <1>4, <1>9, <2>1
    <2> HIDE DEF w
    <2>3. j \div SS \in Nat
      BY <1>4, DivMod
    <2> HIDE DEF a, j, q
    <2>4. Col(a) + w <= csize
      BY <2>2
    <2> HIDE DEF z
    <2>5. Row(a + j) = Row(a) /\ Col(a + j) = Col(a) + j \div SS /\ (a + j) % SS = j % SS
      BY <2>2, <2>4, SpanOf
    <2>6. Col(a + j) = j \div SS
      <3> DEFINE e == j \div SS
      <3> HIDE DEF e
      <3>1. Col(a + j) = 0 + e /\ e \in Nat
        BY <1>9, <2>3, <2>5 DEF e
      <3> QED
        BY <3>1 DEF e
    <2> QED
      BY <1>9, <2>5, <2>6
  <1>11. c \in 0 .. csize /\ c = j \div SS + 1 /\ (inside => c - 1 = sect)
    <2> DEFINE e == j \div SS
    <2>1. e \in 0 .. csize - 1 /\ (~inside => sect = e + 1) /\ (inside => sect = e)
      BY <1>8
    <2>0. c = IF inside THEN sect + 1 ELSE sect
      OBVIOUS
    <2> HIDE DEF e, sect, inside, c
    <2>2. c \in 0 .. csize /\ c = e + 1 /\ (inside => c - 1 = sect)
      <3>1. csize \in Nat
        BY <1>4
      <3>2. CASE inside
        <4>1. c = e + 1 /\ sect = e
          BY <2>0, <2>1, <3>2
        <4> QED
          BY <2>1, <3>1, <4>1
      <3>3. CASE ~inside
        <4>1. c = e + 1
          BY <2>0, <2>1, <3>3
        <4> QED
          BY <2>1, <3>1, <3>3, <4>1
      <3> QED
        BY <3>2, <3>3
    <2> QED
      BY <2>2 DEF e
  <1>12. s \in Sector \cup {NoSector}
    <2>1. inside => sect \in 0 .. csize - 1
      BY <1>8
    <2>2. chain[fp.curr_clust] \in Clusters
      BY <1>2 DEF TypeOK
    <2> HIDE DEF sect, inside
    <2> QED
      BY <2>1, <2>2 DEF Sector
  <1>13. x % SS = 0 <=> ~inside
    <2>1. fp.fptr + j = a + j
      BY <1>3
    <2>2. (a + j) \in Nat
      BY <1>4, <1>9
    <2>3. ((a + j) + 1) % SS = 0 <=> (a + j) % SS = SS - 1
      BY <2>2, NextByte
    <2>4. x = (a + j) + 1
      BY <1>7, <2>1
    <2> HIDE DEF x, a, j, inside
    <2> QED
      BY <1>8, <1>10, <2>3, <2>4
  <1>14. Row(x - 1) = q /\ Col(x - 1) = j \div SS
    <2>1. x - 1 = a + j
      <3> HIDE DEF x, a, j
      <3> QED
        BY <1>3, <1>4, <1>7, <1>9
    <2> HIDE DEF x, a, j
    <2> QED
      BY <1>10, <2>1
  <1> HIDE DEF c, s
  <1>15. fp' = [fp EXCEPT !.csect = c, !.fptr = x]
    BY <1>5, <1>6 DEF Advance, Fil
  <1> HIDE DEF x, a, j
  <1>16. /\ fp' \in Fil /\ fp'.open = fp.open /\ fp'.error = fp.error /\ fp'.dirty = fp.dirty
         /\ fp'.written = fp.written /\ fp'.fptr = x /\ fp'.fsize = fp.fsize /\ fp'.csect = c
         /\ fp'.curr_sect = fp.curr_sect /\ fp'.curr_clust = fp.curr_clust
    BY <1>5, <1>7, <1>11, <1>15 DEF Fil
  <1>17. /\ reg' \in Regs /\ reg'.op = reg.op /\ reg'.nsect = s
         /\ reg'.n = reg.n /\ reg'.wbuff = <<>> /\ reg'.rbuff = <<>> /\ reg'.done = 0
    BY <1>2, <1>5, <1>6, <1>12 DEF Regs
  <1>18. TypeOK'
    BY <1>1, <1>16, <1>17 DEF TypeOK
  <1>19. Closed' /\ Simple' /\ LongEnough' /\ Calls'
    BY <1>1, <1>2, <1>16, <1>17 DEF Closed, Simple, LongEnough, Calls
  <1>20. Position'
    <2>1. fp'.curr_clust = Row(fp'.fptr - 1) + 1 /\ fp'.csect = Col(fp'.fptr - 1) + 1
      BY <1>4, <1>11, <1>14, <1>16
    <2>2. fp'.fptr # 0 /\ fp'.curr_clust <= Len(chain)
      BY <1>2, <1>4, <1>7, <1>16
    <2>3. Placed'
      BY <1>1, <2>1, <2>2 DEF Placed, Row, Col, Cluster
    <2>4. reg'.nsect = IF fp'.fptr % SS = 0 THEN NoSector
                       ELSE <<chain[fp'.curr_clust], fp'.csect - 1>>
      <3> HIDE DEF sect, inside
      <3>1. s = IF inside THEN <<chain[fp.curr_clust], sect>> ELSE NoSector
        BY DEF s, inside, sect
      <3> QED
        BY <1>11, <1>13, <1>16, <1>17, <3>1
    <2>5. Landing'
      BY <1>1, <1>2, <1>17, <2>3, <2>4 DEF Landing
    <2> QED
      BY <1>1, <2>5 DEF Position, AtRest, Moving, Walking
  <1>21. Coherent'
    BY <1>1, <1>16 DEF Coherent, Fresh, InLoop
  <1>22. Marked'
    <2>1. fp'.fptr > 0
      BY <1>7, <1>16
    <2> QED
      BY <1>1, <1>2, <1>16, <1>17, <2>1 DEF Marked, Writing
  <1> QED
    BY <1>18, <1>19, <1>20, <1>21, <1>22

\* f_lseek ends: the file is no shorter than the position.
LEMMA LandKeeps == ASSUME IInv, Land PROVE IInv'
  <1> USE DEF IInv
  <1>1. /\ pc = "land" /\ pc' = "idle" /\ reg.nsect \in {NoSector, fp.curr_sect}
        /\ UNCHANGED <<disk, entry, chain, buffer, sane>>
        /\ reg' = [NoCall EXCEPT !.calls = reg.calls]
        /\ reg' \in Regs /\ answer' \in Answers /\ fp.open /\ ~fp.error
    <2>1. TypeOK /\ Return("ok")
      BY DEF Land
    <2>2. reg' \in Regs /\ answer' \in Answers
      BY <2>1, ReturnTyped
    <2>3. fp.open /\ ~fp.error /\ reg.op = "seek"
      BY DEF Land, Closed, Calls
    <2> QED
      BY <2>2, <2>3 DEF Land, Return
  <1>2. /\ Placed /\ ~Writing
        /\ reg.nsect = IF fp.fptr % SS = 0 THEN NoSector
                       ELSE <<chain[fp.curr_clust], fp.csect - 1>>
    BY <1>1 DEF Position, Landing, Calls, Writing
  <1>3. fp.fptr \in Nat /\ fp.fsize \in Nat
    BY Typed
  <1>4. fp.fptr <= Len(chain) * Cluster
    BY <1>2, PlacedBound
  <1>5. /\ fp' \in Fil /\ fp'.open = fp.open /\ fp'.error = fp.error
        /\ fp'.dirty = fp.dirty /\ fp'.fptr = fp.fptr /\ fp'.csect = fp.csect
        /\ fp'.curr_sect = fp.curr_sect /\ fp'.curr_clust = fp.curr_clust
        /\ fp'.fsize = IF fp.fptr > fp.fsize THEN fp.fptr ELSE fp.fsize
        /\ fp'.written = IF fp.fptr > fp.fsize THEN TRUE ELSE fp.written
    <2>1. fp \in Fil
      BY DEF TypeOK
    <2>2. CASE fp.fptr > fp.fsize
      <3>1. fp' = [fp EXCEPT !.fsize = fp.fptr, !.written = TRUE]
        BY <2>2 DEF Land, Longer
      <3> QED
        BY <2>1, <2>2, <3>1 DEF Fil
    <2>3. CASE ~(fp.fptr > fp.fsize)
      BY <2>1, <2>3 DEF Land, Longer
    <2> QED
      BY <2>2, <2>3
  <1>6. TypeOK'
    BY <1>1, <1>5 DEF TypeOK
  <1>7. Closed' /\ Simple'
    BY <1>1, <1>5 DEF Closed, Simple
  <1>8. LongEnough'
    <2> DEFINE y == Len(chain) * Cluster
    <2>1. y = Len(chain') * Cluster'
      BY <1>1 DEF Cluster
    <2>2. fp'.fsize <= y
      <3> HIDE DEF y
      <3> QED
        BY <1>1, <1>4, <1>5 DEF LongEnough, y
    <2>3. ~fp'.written => IF entry.used THEN chain # <<>> /\ entry.size <= y ELSE entry.size = 0
      BY <1>5 DEF LongEnough
    <2> HIDE DEF y
    <2> QED
      BY <1>1, <1>5, <2>1, <2>2, <2>3 DEF LongEnough
  <1>9. Calls'
    BY <1>1, <1>5 DEF Calls, NoCall
  <1>10. Position'
    <2>1. Placed'
      BY <1>1, <1>2, <1>5 DEF Placed
    <2>2. Held'
      <3> SUFFICES ASSUME fp.fptr % SS # 0
                   PROVE  fp.curr_sect = <<chain[fp.curr_clust], fp.csect - 1>>
        BY <1>1, <1>5 DEF Held
      <3> QED
        BY <1>1, <1>2, TupleNotEmpty DEF NoSector
    <2>3. fp'.fptr <= fp'.fsize
      BY <1>3, <1>5
    <2> QED
      BY <1>1, <2>1, <2>2, <2>3 DEF Position, AtRest, Moving, Walking, Landing
  <1>11. Coherent'
    BY <1>1, <1>5 DEF Coherent, Fresh, InLoop
  <1>12. Marked'
    <2>1. ASSUME sane, ~fp'.written
          PROVE  entry.size = fp'.fsize /\ entry.used = (chain # <<>>)
      <3>1. fp.fptr <= fp.fsize /\ ~fp.written
        BY <1>3, <1>5, <2>1
      <3>2. /\ entry.size = fp.fsize
            /\ entry.used = (chain # <<>>) \/ fp.fptr > 0
        BY <1>1, <1>2, <2>1, <3>1 DEF Marked
      <3>3. CASE fp.fptr > 0
        <4>1. entry.used /\ chain # <<>>
          BY <1>3, <3>1, <3>2, <3>3 DEF LongEnough
        <4>2. entry.used \in BOOLEAN
          BY DEF TypeOK
        <4>3. fp'.fsize = fp.fsize
          BY <1>3, <1>5, <3>1
        <4> QED
          BY <3>2, <4>1, <4>2, <4>3, Zenon
      <3> QED
        BY <1>3, <1>5, <3>1, <3>2, <3>3
    <2> QED
      BY <1>1, <1>2, <1>5, <2>1 DEF Marked
  <1> QED
    BY <1>6, <1>7, <1>8, <1>9, <1>10, <1>11, <1>12

-----------------------------------------------------------------------------
(* The beginning of the calls.                                             *)

-----------------------------------------------------------------------------
(* Opening, and the beginning of a transfer.                               *)

\* f_open fills a file object from the entry.
LEMMA f_openKeeps ==
    ASSUME IInv, pc = "idle", reg.calls < MaxCalls, NEW mode \in Modes, f_open(mode)
    PROVE  IInv'
  <1> USE DEF IInv
  <1>1. /\ fp = NoFil /\ fp' = [NoFil EXCEPT !.open = TRUE, !.mode = mode, !.fsize = entry.size]
        /\ chain' = IF entry.used THEN chain ELSE <<>>
        /\ reg' = [NoCall EXCEPT !.calls = reg.calls + 1] /\ answer' = NoAnswer
        /\ pc' = "idle" /\ UNCHANGED <<disk, entry, buffer, sane>>
    BY DEF f_open, Closed
  <1>2. /\ entry.size \in 0 .. Wrap - 1 /\ entry.used \in BOOLEAN /\ chain \in Seq(Clusters)
        /\ reg.calls \in Nat
    BY Typed DEF TypeOK
  <1>3. /\ fp' = [open |-> TRUE, mode |-> mode, error |-> FALSE, written |-> FALSE,
                  dirty |-> FALSE, fptr |-> 0, fsize |-> entry.size,
                  curr_clust |-> 0, csect |-> Top, curr_sect |-> NoSector]
    BY <1>1 DEF NoFil
  <1>4. fp' \in Fil
    <2>1. 0 \in 0 .. Wrap - 1 /\ 0 \in 0 .. Wrap
      BY Numbers
    <2> QED
      BY <1>2, <1>3, <2>1 DEF Fil
  <1>5. chain' \in Seq(Clusters)
    BY <1>1, <1>2
  <1>6. TypeOK'
    <2>1. reg.calls + 1 \in 0 .. MaxCalls
      BY <1>2, Numbers
    <2>2. reg' \in Regs
      BY <1>1, <2>1, NoCallTyped
    <2>3. answer' \in Answers
      <3>1. 0 \in 0 .. Wrap - 1 /\ 0 \in 0 .. Wrap
        BY Numbers
      <3> QED
        BY <1>1, <3>1 DEF Answers, NoAnswer, Ops
    <2> QED
      BY <1>1, <1>4, <1>5, <2>2, <2>3 DEF TypeOK
  <1>7. Closed' /\ Simple'
    BY <1>1, <1>2, <1>3 DEF Closed, Simple
  <1>8. IF entry.used THEN chain' = chain /\ chain # <<>> /\ entry.size <= Len(chain) * Cluster
                      ELSE chain' = <<>> /\ entry.size = 0
    <2>1. ~fp.open
      BY DEF f_open
    <2> QED
      BY <1>1, <2>1 DEF LongEnough
  <1>9. LongEnough'
    <2>1. CASE entry.used
      <3> DEFINE y == Len(chain) * Cluster
      <3>1. y = Len(chain') * Cluster' /\ entry.size <= y /\ chain' # <<>>
        BY <1>8, <2>1 DEF Cluster
      <3> HIDE DEF y
      <3> QED
        BY <1>1, <1>3, <2>1, <3>1 DEF LongEnough
    <2>2. CASE ~entry.used
      <3> DEFINE y == Len(chain') * Cluster'
      <3>1. y \in Nat
        BY <1>5, ClusterIs DEF Cluster
      <3>2. entry.size = 0 /\ 0 <= y
        BY <1>8, <2>2, <3>1
      <3> HIDE DEF y
      <3> QED
        BY <1>1, <1>3, <2>2, <3>2 DEF LongEnough, y
    <2> QED
      BY <2>1, <2>2
  <1>10. Calls'
    BY <1>1, <1>3 DEF Calls, NoCall
  <1>11. Position'
    <2>1. fp'.fptr = 0 /\ fp'.csect = Top /\ fp'.fsize = entry.size
      BY <1>3
    <2>2. fp'.fptr <= fp'.fsize
      BY <1>2, <2>1, Numbers
    <2>3. fp'.fptr % SS = 0
      BY <2>1, FirstByte
    <2>4. Placed' /\ Held'
      BY <2>1, <2>3 DEF Placed, Held
    <2> QED
      BY <1>1, <2>2, <2>4 DEF Position, AtRest, Moving, Walking, Landing
  <1>12. Coherent'
    BY <1>3 DEF Coherent
  <1>13. Marked'
    <2>1. entry.used = (chain' # <<>>)
      <3>1. CASE entry.used
        BY <1>8, <3>1
      <3>2. CASE ~entry.used
        BY <1>2, <1>8, <3>2
      <3> QED
        BY <3>1, <3>2
    <2>2. fp'.dirty = FALSE /\ fp'.fsize = entry.size
      BY <1>3
    <2> QED
      BY <1>1, <2>1, <2>2 DEF Marked
  <1> QED
    BY <1>6, <1>7, <1>9, <1>10, <1>11, <1>12, <1>13

\* A loop of f_read or f_write begins.
LEMMA LoopBegins ==
    ASSUME IInv, pc = "idle", reg.calls < MaxCalls, fp.open, ~fp.error,
           NEW op \in {"read", "write"}, NEW w \in Seq(Values),
           NEW n \in 0 .. Wrap - 1, NEW t \in 0 .. Wrap - 1, t <= n,
           op = "read" => fp.fptr + t <= fp.fsize /\ w = <<>>,
           op = "write" => fp.fptr + t < Wrap /\ Len(w) = t,
           reg' = [op |-> op, todo |-> t, done |-> 0, from |-> fp.fptr, nsect |-> NoSector,
                   wbuff |-> w, rbuff |-> <<>>, n |-> n, calls |-> reg.calls + 1],
           pc' = "loop", UNCHANGED <<disk, entry, chain, fp, buffer, answer, sane>>
    PROVE  IInv'
  <1> USE DEF IInv
  <1>1. /\ fp.fptr \in 0 .. Wrap - 1 /\ reg.calls \in Nat /\ Wrap \in Nat /\ MaxCalls \in Nat
        /\ fp.fptr \in Nat /\ t \in Nat /\ n \in Nat
    BY Numbers, Typed DEF TypeOK, Fil
  <1>2. reg' \in Regs
    <2>1. reg.calls + 1 \in 0 .. MaxCalls /\ t \in 0 .. Wrap /\ n \in 0 .. Wrap /\ 0 \in 0 .. Wrap
      BY <1>1
    <2>2. <<>> \in Seq(Values)
      OBVIOUS
    <2> QED
      BY <1>1, <2>1, <2>2 DEF Regs, Ops
  <1>3. /\ reg'.op = op /\ reg'.todo = t /\ reg'.done = 0 /\ reg'.from = fp.fptr
        /\ reg'.wbuff = w /\ reg'.rbuff = <<>> /\ reg'.n = n
    OBVIOUS
  <1>4. TypeOK'
    BY <1>2 DEF TypeOK
  <1>5. Closed' /\ Simple' /\ LongEnough'
    BY DEF Closed, Simple, LongEnough
  <1>6. Calls'
    BY <1>3 DEF Calls
  <1>7. Position'
    <2>1. Placed' /\ Held'
      BY DEF Position, AtRest, Placed, Held
    <2>2. fp'.fptr = reg'.from + reg'.done /\ reg'.done + reg'.todo <= reg'.n
      <3>1. fp.fptr = fp.fptr + 0 /\ 0 + t <= n
        BY <1>1
      <3> QED
        BY <1>3, <3>1
    <2>3. /\ Reading' => fp'.fptr + reg'.todo <= fp'.fsize /\ reg'.wbuff = <<>>
          /\ Writing' => /\ fp'.fptr + reg'.todo < Wrap
                         /\ Len(reg'.wbuff) = reg'.todo /\ reg'.rbuff = <<>>
      BY <1>3 DEF Reading, Writing
    <2> QED
      BY <2>1, <2>2, <2>3 DEF Position, AtRest, Moving, Walking, Landing
  <1>8. Coherent'
    BY DEF Coherent, Fresh, InLoop
  <1>9. Marked'
    BY <1>3 DEF Marked, Writing
  <1> QED
    BY <1>4, <1>5, <1>6, <1>7, <1>8, <1>9

\* Between calls the position is not behind the end of the file.
LEMMA RestAtMost ==
    ASSUME IInv, pc \in {"idle", "sync"}, fp.open, ~fp.error
    PROVE  /\ Placed /\ Held /\ fp.fptr <= fp.fsize
           /\ fp.fptr \in Nat /\ fp.fsize \in Nat /\ fp.fsize < Wrap
  BY Typed DEF IInv, Position, AtRest

\* f_read begins, or answers at once.
LEMMA f_readKeeps ==
    ASSUME IInv, pc = "idle", reg.calls < MaxCalls, NEW n \in Sizes, f_read(n)
    PROVE  IInv'
  <1>1. fp.open /\ UNCHANGED <<disk, entry, chain, buffer, sane>> /\ n \in 0 .. Wrap - 1
    BY CallAssumption DEF f_read
  <1>2. ASSUME NEW result \in {"error", "denied"}, Refuse("read", n, result) PROVE IInv'
    <2>1. n \in 0 .. Wrap /\ "read" \in Ops
      BY <1>1, Numbers DEF Ops
    <2> QED
      BY <1>1, <1>2, <2>1, AnswerKeeps DEF Refuse
  <1>3. ASSUME ~fp.error, Begin("read", "loop", [NoCall EXCEPT !.todo = Clipped(n), !.n = n]),
               UNCHANGED <<fp, answer>>
        PROVE  IInv'
    <2>1. fp.fptr <= fp.fsize /\ fp.fptr \in Nat /\ fp.fsize \in Nat /\ fp.fsize < Wrap
      BY <1>1, <1>3, RestAtMost
    <2>2. Clipped(n) \in 0 .. Wrap - 1 /\ Clipped(n) <= n /\ fp.fptr + Clipped(n) <= fp.fsize
      BY <1>1, <2>1, Numbers DEF Clipped
    <2> DEFINE t == Clipped(n)
    <2>3. reg' = [op |-> "read", todo |-> t, done |-> 0, from |-> fp.fptr, nsect |-> NoSector,
                  wbuff |-> <<>>, rbuff |-> <<>>, n |-> n, calls |-> reg.calls + 1]
      BY <1>3 DEF Begin, NoCall
    <2>4. <<>> \in Seq(Values) /\ pc' = "loop"
      BY <1>3 DEF Begin
    <2>5. t \in 0 .. Wrap - 1 /\ t <= n /\ fp.fptr + t <= fp.fsize
      BY <2>2
    <2> HIDE DEF t
    <2> QED
      BY <1>1, <1>3, <2>3, <2>4, <2>5, LoopBegins
  <1>4. CASE fp.error
    BY <1>2, <1>4 DEF f_read
  <1>5. CASE ~fp.error /\ "read" \notin fp.mode
    BY <1>2, <1>5 DEF f_read
  <1>6. CASE ~fp.error /\ "read" \in fp.mode
    BY <1>3, <1>6 DEF f_read
  <1> QED
    BY <1>4, <1>5, <1>6

\* The sum of two DWORDs that has not wrapped.
LEMMA NoWrap ==
    ASSUME NEW a \in 0 .. Wrap - 1, NEW b \in 0 .. Wrap - 1, ~((a + b) % Wrap < a)
    PROVE  a + b < Wrap
  <1> SUFFICES ASSUME a + b >= Wrap PROVE FALSE
    BY Numbers
  <1> DEFINE r == a + b - Wrap
             s == a + b
  <1>1. r \in 0 .. Wrap - 1 /\ r < a /\ s = Wrap * 1 + r /\ 1 \in Nat
    BY Numbers
  <1>2. ~(s % Wrap < a)
    OBVIOUS
  <1> HIDE DEF r, s
  <1>3. s % Wrap = r
    BY <1>1, Numbers, DivUnique
  <1> QED
    BY <1>1, <1>2, <1>3

\* f_write begins, or answers at once.
LEMMA f_writeKeeps ==
    ASSUME IInv, pc = "idle", reg.calls < MaxCalls, NEW n \in Sizes, f_write(n)
    PROVE  IInv'
  <1>1. fp.open /\ UNCHANGED <<disk, entry, chain, buffer, sane>> /\ n \in 0 .. Wrap - 1
    BY CallAssumption DEF f_write
  <1>8. n <= n
    BY <1>1, Numbers
  <1>2. ASSUME NEW result \in {"error", "denied", "ok"}, Refuse("write", n, result) PROVE IInv'
    <2>1. n \in 0 .. Wrap /\ "write" \in Ops
      BY <1>1, Numbers DEF Ops
    <2> QED
      BY <1>1, <1>2, <2>1, AnswerKeeps DEF Refuse
  <1>3. ASSUME ~fp.error, ~TooLong(n),
               Begin("write", "loop", [NoCall EXCEPT !.todo = n, !.n = n, !.wbuff = Bytes(n)]),
               UNCHANGED <<fp, answer>>
        PROVE  IInv'
    <2>1. fp.fptr <= fp.fsize /\ fp.fptr \in Nat /\ fp.fsize \in Nat /\ fp.fsize < Wrap
      BY <1>1, <1>3, RestAtMost
    <2>2. fp.fsize + n < Wrap
      <3> DEFINE a == fp.fsize
      <3>1. a \in 0 .. Wrap - 1
        BY <2>1, Numbers
      <3>2. ~((a + n) % Wrap < a)
        BY <1>3 DEF TooLong
      <3> HIDE DEF a
      <3>3. a + n < Wrap
        BY <1>1, <3>1, <3>2, NoWrap
      <3> QED
        BY <3>3 DEF a
    <2>3. fp.fptr + n < Wrap
      BY <1>1, <2>1, <2>2, Numbers
    <2> DEFINE w == Bytes(n)
    <2>4. w \in Seq(Values) /\ Len(w) = n
      <3>1. \A i \in 1 .. n : w[i] \in Values
        <4> SUFFICES ASSUME NEW i \in 1 .. n PROVE (reg.calls + i) % 3 \in Values
          BY DEF Bytes
        <4>1. reg.calls + i \in Nat
          <5>1. reg.calls \in Nat
            BY <1>1, Typed DEF IInv
          <5>2. \A u, v : u \in Nat /\ v \in 1 .. n => u + v \in Nat
            BY <1>1
          <5> QED
            BY <5>1, <5>2
        <4> DEFINE y == reg.calls + i
        <4> HIDE DEF y
        <4>2. y % 3 \in 0 .. 2
          BY <4>1 DEF y
        <4> QED
          BY <4>2, Numbers DEF y
      <3>2. w \in [1 .. n -> Values]
        BY <3>1 DEF Bytes
      <3> HIDE DEF w
      <3>3. n \in Nat
        BY <1>1
      <3> QED
        BY <3>2, <3>3
    <2>5. reg' = [op |-> "write", todo |-> n, done |-> 0, from |-> fp.fptr, nsect |-> NoSector,
                  wbuff |-> w, rbuff |-> <<>>, n |-> n, calls |-> reg.calls + 1]
      BY <1>3 DEF Begin, NoCall
    <2>6. pc' = "loop"
      BY <1>3 DEF Begin
    <2> HIDE DEF w
    <2> QED
      BY <1>1, <1>3, <2>3, <2>4, <2>5, <2>6, <1>8, LoopBegins
  <1>4. CASE fp.error
    BY <1>2, <1>4 DEF f_write
  <1>5. CASE ~fp.error /\ "write" \notin fp.mode
    BY <1>2, <1>5 DEF f_write
  <1>6. CASE ~fp.error /\ "write" \in fp.mode /\ TooLong(n)
    BY <1>2, <1>6 DEF f_write
  <1>7. CASE ~fp.error /\ "write" \in fp.mode /\ ~TooLong(n)
    BY <1>3, <1>7 DEF f_write
  <1> QED
    BY <1>4, <1>5, <1>6, <1>7

\* The registers when a call begins.
LEMMA CallsTyped ==
    ASSUME TypeOK, reg.calls < MaxCalls
    PROVE  fp.fptr \in 0 .. Wrap - 1 /\ reg.calls + 1 \in 0 .. MaxCalls /\ 0 \in 0 .. Wrap
  <1>1. reg.calls \in Nat /\ fp.fptr \in Nat /\ fp.fptr < Wrap
    BY Typed
  <1> QED
    BY <1>1, Numbers

\* f_lseek begins at a place of the chain it knows.
LEMMA SeekBegins ==
    ASSUME IInv, pc = "idle", reg.calls < MaxCalls, fp.open, ~fp.error,
           NEW ofs \in 0 .. Wrap - 1, NEW t \in 0 .. Wrap - 1, NEW l \in {"walk", "land"},
           reg' = [op |-> "seek", todo |-> t, done |-> 0, from |-> fp.fptr, nsect |-> NoSector,
                   wbuff |-> <<>>, rbuff |-> <<>>, n |-> ofs, calls |-> reg.calls + 1],
           pc' = l, UNCHANGED <<disk, entry, buffer, answer, sane>>,
           NEW p \in 0 .. Wrap - 1, NEW c \in 0 .. Wrap,
           fp' = [fp EXCEPT !.fptr = p, !.curr_clust = c, !.csect = Top],
           chain' \in Seq(Clusters), Simple', Len(chain') \in Nat, Len(chain) <= Len(chain'),
           l = "walk" => c \in 1 .. Len(chain') /\ p = (c - 1) * Cluster /\ t > 0 /\ p + t <= ofs,
           l = "land" => chain' = chain /\ p = 0
    PROVE  IInv'
  <1> USE DEF IInv
  <1>1. fp \in Fil
    BY DEF TypeOK
  <1>2. /\ fp' \in Fil /\ fp'.open = fp.open /\ fp'.error = fp.error /\ fp'.dirty = fp.dirty
        /\ fp'.written = fp.written /\ fp'.fptr = p /\ fp'.fsize = fp.fsize /\ fp'.csect = Top
        /\ fp'.curr_sect = fp.curr_sect /\ fp'.curr_clust = c
    BY <1>1 DEF Fil
  <1>3. reg' \in Regs
    <2>1. /\ reg.calls \in Nat /\ Wrap \in Nat /\ MaxCalls \in Nat /\ Wrap > 0
          /\ fp.fptr \in 0 .. Wrap - 1
      BY <1>1, Numbers, Typed DEF Fil
    <2>2. /\ reg.calls + 1 \in 0 .. MaxCalls /\ t \in 0 .. Wrap /\ ofs \in 0 .. Wrap
          /\ 0 \in 0 .. Wrap
      BY <2>1
    <2>3. <<>> \in Seq(Values)
      OBVIOUS
    <2> QED
      BY <2>1, <2>2, <2>3 DEF Regs, Ops
  <1>4. /\ reg'.op = "seek" /\ reg'.todo = t /\ reg'.done = 0 /\ reg'.n = ofs
        /\ reg'.wbuff = <<>> /\ reg'.rbuff = <<>> /\ reg'.nsect = NoSector
    OBVIOUS
  <1>5. TypeOK'
    BY <1>2, <1>3 DEF TypeOK
  <1>6. LongEnough'
    BY <1>2, GrownLongEnough
  <1>7. Closed' /\ Calls'
    BY <1>2, <1>4 DEF Closed, Calls
  <1>8. Position'
    <2>1. CASE l = "walk"
      <3>1. Walking'
        <4>1. ofs < Wrap
          BY Numbers
        <4>2. fp'.curr_clust \in 1 .. Len(chain') /\ fp'.fptr = (fp'.curr_clust - 1) * Cluster
          BY <1>2, <2>1
        <4>3. reg'.todo > 0 /\ fp'.fptr + reg'.todo <= reg'.n /\ reg'.n < Wrap
          BY <1>2, <1>4, <2>1, <4>1
        <4> QED
          BY <4>2, <4>3 DEF Walking, Cluster
      <3> QED
        BY <2>1, <3>1 DEF Position, AtRest, Moving, Landing
    <2>2. CASE l = "land"
      <3>1. Landing'
        <4>1. ofs < Wrap
          BY Numbers
        <4>2. fp'.fptr = 0 /\ fp'.csect = Top
          BY <1>2, <2>2
        <4>3. fp'.fptr % SS = 0
          BY <4>2, FirstByte
        <4> QED
          BY <1>4, <4>1, <4>2, <4>3 DEF Landing, Placed
      <3> QED
        BY <2>2, <3>1 DEF Position, AtRest, Moving, Walking
    <2> QED
      BY <2>1, <2>2
  <1>9. Coherent'
    BY <1>2 DEF Coherent, Fresh, InLoop
  <1>10. Marked'
    BY <1>2, <1>4 DEF Marked, Writing
  <1> QED
    BY <1>5, <1>6, <1>7, <1>8, <1>9, <1>10

\* A call of f_lseek or f_truncate that fails.
LEMMA BrokenKeeps ==
    ASSUME IInv, pc = "idle", reg.calls < MaxCalls, fp.open,
           NEW op \in Ops, NEW n \in 0 .. Wrap, Answer(op, n, "error"),
           UNCHANGED <<disk, entry, chain, buffer>>, sane' = FALSE,
           fp' \in Fil, fp'.open, fp'.error, fp.written => fp'.written,
           fp'.fsize <= Len(chain) * Cluster
    PROVE  IInv'
  <1> USE DEF IInv
  <1>1. /\ reg' = [NoCall EXCEPT !.calls = reg.calls + 1] /\ pc' = "idle"
        /\ answer' = [op |-> op, result |-> "error", n |-> n, done |-> 0, from |-> fp.fptr]
    BY DEF Answer
  <1>2. TypeOK'
    <2>0. TypeOK
      OBVIOUS
    <2>1. /\ fp.fptr \in 0 .. Wrap - 1 /\ reg.calls + 1 \in 0 .. MaxCalls /\ 0 \in 0 .. Wrap
      BY <2>0, CallsTyped
    <2>2. reg' \in Regs
      BY <1>1, <2>1, NoCallTyped
    <2>3. answer' \in Answers
      BY <1>1, <2>1 DEF Answers
    <2> QED
      BY <1>1, <2>2, <2>3 DEF TypeOK
  <1>3. Closed' /\ Simple' /\ Position' /\ Coherent' /\ Marked'
    BY <1>1 DEF Closed, Simple, Position, Coherent, Marked
  <1>4. LongEnough'
    BY DEF LongEnough, Cluster
  <1>5. Calls'
    BY <1>1 DEF Calls, NoCall
  <1> QED
    BY <1>2, <1>3, <1>4, <1>5

\* The walk begins at the cluster that curr_clust is in.
LEMMA WalkBegins ==
    ASSUME TypeOK, Placed, NEW ofs \in Nat, ofs > 0, OnTheWay(ofs)
    PROVE  LET p == StartOf(fp.fptr - 1) IN
           /\ p \in Nat /\ p = (fp.curr_clust - 1) * Cluster /\ p < ofs /\ p < Wrap
           /\ fp.curr_clust \in 1 .. Len(chain)
  <1> DEFINE a == fp.fptr - 1
             b == ofs - 1
  <1>1. a \in Nat /\ b \in Nat /\ a < Wrap /\ b < ofs
    <2>1. fp.fptr \in Nat /\ fp.fptr < Wrap /\ fp.fptr > 0 /\ Wrap \in Nat
      BY Typed DEF OnTheWay
    <2> QED
      BY <2>1
  <1>2. Row(a) <= Row(b)
    BY DEF OnTheWay, Row
  <1>3. fp.curr_clust = Row(a) + 1 /\ fp.curr_clust <= Len(chain)
    BY DEF Placed, OnTheWay
  <1>4. StartOf(fp.fptr - 1) = Row(a) * Cluster
    BY DEF StartOf, Row
  <1> HIDE DEF a, b
  <1>5. Row(a) \in Nat /\ Row(b) \in Nat
    BY <1>1, Terms
  <1> DEFINE q == Row(a)
             r == Row(b)
  <1>6. ~(a < q * Cluster) /\ ~(b < r * Cluster)
    BY <1>1, <1>5, RowBound
  <1>7. q * Cluster <= r * Cluster /\ q * Cluster \in Nat /\ r * Cluster \in Nat
    BY <1>2, <1>5, LongerBound
  <1>8. fp.curr_clust \in 1 .. Len(chain) /\ fp.curr_clust - 1 = q
    BY <1>3, <1>5, Typed
  <1> DEFINE x == q * Cluster
             y == r * Cluster
  <1>9. x <= y /\ x \in Nat /\ y \in Nat /\ ~(a < x) /\ ~(b < y)
    BY <1>6, <1>7
  <1> HIDE DEF q, r, x, y
  <1>10. x < ofs /\ x < Wrap
    BY <1>1, <1>9, Numbers
  <1> QED
    BY <1>4, <1>8, <1>9, <1>10 DEF q, x

\* f_lseek begins, or fails.
LEMMA f_lseekKeeps ==
    ASSUME IInv, pc = "idle", reg.calls < MaxCalls, NEW o \in Offsets, f_lseek(o)
    PROVE  IInv'
  <1> USE DEF IInv
  <1>1. fp.open /\ UNCHANGED <<disk, entry, buffer>> /\ o \in 0 .. Wrap - 1
    BY CallAssumption DEF f_lseek
  <1>2. CASE fp.error
    <2>1. Answer("seek", o, "error") /\ UNCHANGED <<chain, fp, sane>>
      BY <1>2 DEF f_lseek, Refuse
    <2>2. o \in 0 .. Wrap /\ "seek" \in Ops
      BY <1>1, Numbers DEF Ops
    <2> QED
      BY <1>1, <2>1, <2>2, AnswerKeeps
  <1>3. CASE ~fp.error
    <2> DEFINE ofs == Goal(o)
               top == [fp EXCEPT !.fptr = 0, !.csect = Top]
               call == [NoCall EXCEPT !.n = o]
    <2>1. /\ Placed /\ fp.fptr \in Nat /\ fp \in Fil /\ fp.curr_clust \in 0 .. Wrap
          /\ chain \in Seq(Clusters) /\ Len(chain) \in Nat
      BY <1>1, <1>3, RestAtMost DEF TypeOK, Fil
    <2>2. ofs \in 0 .. Wrap - 1 /\ ofs \in Nat /\ ofs <= o
      BY <1>1, Numbers DEF Goal, TypeOK, Fil
    <2>3. 0 \in 0 .. Wrap - 1 /\ 1 \in 0 .. Wrap
      BY Numbers
    <2>4. ASSUME fp' = top, Begin("seek", "land", call), UNCHANGED <<chain, answer, sane>>
          PROVE  IInv'
      <3>1. fp' = [fp EXCEPT !.fptr = 0, !.curr_clust = fp.curr_clust, !.csect = Top]
        BY <2>1, <2>4 DEF Fil
      <3>2. reg' = [op |-> "seek", todo |-> 0, done |-> 0, from |-> fp.fptr,
                    nsect |-> NoSector, wbuff |-> <<>>, rbuff |-> <<>>, n |-> o,
                    calls |-> reg.calls + 1] /\ pc' = "land"
        BY <2>4 DEF Begin, NoCall
      <3>3. Simple' /\ chain' \in Seq(Clusters) /\ Len(chain') \in Nat /\ Len(chain) <= Len(chain')
        BY <2>1, <2>4 DEF Simple
      <3> HIDE DEF ofs
      <3> QED
        BY <1>1, <1>3, <2>1, <2>2, <2>3, <2>4, <3>1, <3>2, <3>3, SeekBegins
    <2>5. ASSUME ofs > 0, OnTheWay(ofs), fp' = [top EXCEPT !.fptr = StartOf(fp.fptr - 1)],
                 Begin("seek", "walk", [call EXCEPT !.todo = ofs - StartOf(fp.fptr - 1)]),
                 UNCHANGED <<chain, answer, sane>>
          PROVE  IInv'
      <3> DEFINE p == StartOf(fp.fptr - 1)
                 t == ofs - p
      <3>1. /\ p \in Nat /\ p = (fp.curr_clust - 1) * Cluster /\ p < ofs /\ p < Wrap
            /\ fp.curr_clust \in 1 .. Len(chain)
        BY <2>1, <2>2, <2>5, WalkBegins
      <3>2. reg' = [op |-> "seek", todo |-> t, done |-> 0, from |-> fp.fptr,
                    nsect |-> NoSector, wbuff |-> <<>>, rbuff |-> <<>>, n |-> o,
                    calls |-> reg.calls + 1] /\ pc' = "walk"
        BY <2>5 DEF Begin, NoCall
      <3>3. fp' = [fp EXCEPT !.fptr = p, !.curr_clust = fp.curr_clust, !.csect = Top]
        BY <2>1, <2>5 DEF Fil
      <3>4. Simple' /\ chain' \in Seq(Clusters) /\ Len(chain') \in Nat /\ Len(chain) <= Len(chain')
        BY <2>1, <2>5 DEF Simple
      <3>5. p \in 0 .. Wrap - 1 /\ t \in 0 .. Wrap - 1 /\ t > 0 /\ p + t <= o
        <4> HIDE DEF p, ofs
        <4> QED
          BY <1>1, <2>2, <3>1, Numbers
      <3>6. fp.curr_clust \in 1 .. Len(chain')
        BY <2>5, <3>1
      <3> HIDE DEF ofs, p, t
      <3> QED
        BY <1>1, <1>3, <2>1, <2>2, <2>5, <3>1, <3>2, <3>3, <3>4, <3>5, <3>6, SeekBegins
    <2>6. ASSUME ofs > 0, Follow(0) \/ Stretch(0), fp' = [top EXCEPT !.curr_clust = 1],
                 Begin("seek", "walk", [call EXCEPT !.todo = ofs]), UNCHANGED <<answer, sane>>
          PROVE  IInv'
      <3>1. /\ chain' \in Seq(Clusters) /\ Simple' /\ Len(chain') \in Nat
            /\ Len(chain) <= Len(chain') /\ 0 + 1 <= Len(chain')
        <4>1. 0 \in Nat
          OBVIOUS
        <4> QED
          BY <2>6, <4>1, Grows
      <3>2. reg' = [op |-> "seek", todo |-> ofs, done |-> 0, from |-> fp.fptr,
                    nsect |-> NoSector, wbuff |-> <<>>, rbuff |-> <<>>, n |-> o,
                    calls |-> reg.calls + 1] /\ pc' = "walk"
        BY <2>6 DEF Begin, NoCall
      <3>3. fp' = [fp EXCEPT !.fptr = 0, !.curr_clust = 1, !.csect = Top]
        BY <2>1, <2>6 DEF Fil
      <3>4. 1 \in 1 .. Len(chain') /\ 0 = (1 - 1) * Cluster /\ 0 + ofs <= o
        BY <1>1, <2>2, <3>1, ClusterIs
      <3> HIDE DEF ofs
      <3> QED
        BY <1>1, <1>3, <2>1, <2>2, <2>3, <2>6, <3>1, <3>2, <3>3, <3>4, SeekBegins
    <2>7. ASSUME Breaks, fp' = [top EXCEPT !.error = TRUE], sane' = FALSE,
                 Answer("seek", o, "error")
          PROVE  IInv'
      <3>1. /\ fp' \in Fil /\ fp'.open /\ fp'.error /\ fp'.written = fp.written
            /\ fp'.fsize = fp.fsize
        <4>1. Top \in 0 .. csize \cup {Top}
          OBVIOUS
        <4> QED
          BY <1>1, <2>1, <2>3, <2>7 DEF Fil
      <3>2. fp'.fsize <= Len(chain) * Cluster
        BY <1>1, <3>1 DEF LongEnough
      <3>3. o \in 0 .. Wrap /\ "seek" \in Ops /\ chain' = chain
        BY <1>1, <2>7, Numbers DEF Ops, Breaks
      <3> QED
        BY <1>1, <2>7, <3>1, <3>2, <3>3, BrokenKeeps
    <2> QED
      BY <1>3, <2>4, <2>5, <2>6, <2>7 DEF f_lseek, Full
  <1> QED
    BY <1>2, <1>3

-----------------------------------------------------------------------------
(* f_truncate.                                                             *)

\* f_truncate cuts the chain behind the position.
LEMMA f_truncateKeeps ==
    ASSUME IInv, pc = "idle", reg.calls < MaxCalls, f_truncate
    PROVE  IInv'
  <1> USE DEF IInv
  <1>1. fp.open /\ UNCHANGED <<disk, entry, buffer>>
    BY DEF f_truncate
  <1>2. ASSUME NEW result \in {"error", "denied", "ok"}, Refuse("truncate", 0, result),
               UNCHANGED <<chain, sane>>
        PROVE  IInv'
    <2>1. 0 \in 0 .. Wrap /\ "truncate" \in Ops
      BY Numbers DEF Ops
    <2> QED
      BY <1>1, <1>2, <2>1, AnswerKeeps DEF Refuse
  <1>3. ASSUME ~fp.error, fp.fsize > fp.fptr, chain' = CutAfter(Behind),
               fp' = [fp EXCEPT !.fsize = fp.fptr, !.written = TRUE],
               Answer("truncate", 0, "ok"), UNCHANGED sane
        PROVE  IInv'
    <2>1. /\ Placed /\ Held /\ fp.fptr \in Nat /\ fp \in Fil /\ chain \in Seq(Clusters)
          /\ Len(chain) \in Nat
      BY <1>1, <1>3, RestAtMost DEF TypeOK
    <2>2. /\ Behind \in Nat /\ Behind <= Len(chain) /\ fp.fptr <= Behind * Cluster
          /\ fp.fptr # 0 => fp.curr_clust = Behind /\ Behind > 0
      <3>1. CASE fp.fptr = 0
        <4>1. Behind = 0 /\ 0 * Cluster = 0
          BY <3>1, ClusterIs DEF Behind
        <4> QED
          BY <2>1, <3>1, <4>1
      <3>2. CASE fp.fptr # 0
        <4> DEFINE a == fp.fptr - 1
                   b == Behind
        <4>1. a \in Nat /\ fp.fptr = a + 1 /\ b = fp.curr_clust
          BY <2>1, <3>2 DEF Behind
        <4>2. b = Row(a) + 1 /\ b <= Len(chain)
          BY <2>1, <3>2, <4>1 DEF Placed
        <4> HIDE DEF a, b
        <4>3. Row(a) \in Nat
          BY <4>1, Terms
        <4>4. b \in Nat /\ Row(a) < b /\ b > 0
          BY <4>2, <4>3
        <4>5. a < b * Cluster /\ b * Cluster \in Nat
          BY <4>1, <4>4, RowBound, ClusterIs
        <4>6. fp.fptr <= b * Cluster
          BY <4>1, <4>5
        <4> QED
          BY <4>1, <4>2, <4>4, <4>6 DEF b
      <3> QED
        BY <3>1, <3>2
    <2> DEFINE n == Behind
    <2>3. /\ chain' \in Seq(Clusters) /\ Len(chain') = n
          /\ \A i \in 1 .. n : chain'[i] = chain[i]
      <3>1. chain' = SubSeq(chain, 1, n)
        BY <1>3 DEF CutAfter
      <3>2. n \in Nat /\ n <= Len(chain)
        BY <2>2
      <3> HIDE DEF n
      <3>3. \A i \in 1 .. n : chain[i] \in Clusters
        BY <2>1, <3>2
      <3> QED
        BY <2>1, <3>1, <3>2, <3>3, SubSeqProperties
    <2>4. /\ fp' \in Fil /\ fp'.open = fp.open /\ fp'.error = fp.error /\ fp'.dirty = fp.dirty
          /\ fp'.written = TRUE /\ fp'.fptr = fp.fptr /\ fp'.fsize = fp.fptr
          /\ fp'.csect = fp.csect /\ fp'.curr_sect = fp.curr_sect
          /\ fp'.curr_clust = fp.curr_clust
      BY <1>3, <2>1 DEF Fil
    <2>5. /\ reg' = [NoCall EXCEPT !.calls = reg.calls + 1] /\ pc' = "idle"
          /\ answer' = [op |-> "truncate", result |-> "ok", n |-> 0, done |-> 0,
                        from |-> fp.fptr]
      BY <1>3 DEF Answer
    <2>6. TypeOK'
      <3>0. TypeOK
        OBVIOUS
      <3>1. fp.fptr \in 0 .. Wrap - 1 /\ reg.calls + 1 \in 0 .. MaxCalls /\ 0 \in 0 .. Wrap
        BY <3>0, CallsTyped
      <3>2. reg' \in Regs
        BY <2>5, <3>1, NoCallTyped
      <3>3. answer' \in Answers
        BY <2>5, <3>1 DEF Answers, Ops
      <3> QED
        BY <1>1, <1>3, <2>3, <2>4, <2>5, <3>2, <3>3 DEF TypeOK
    <2>7. Closed'
      BY <1>1, <2>4, <2>5 DEF Closed
    <2>8. Simple'
      <3> HIDE DEF n
      <3>1. n \in Nat /\ n <= Len(chain)
        BY <2>2 DEF n
      <3> QED
        BY <2>1, <2>3, <3>1 DEF Simple
    <2>9. LongEnough'
      BY <1>1, <2>2, <2>3, <2>4 DEF LongEnough, Cluster
    <2>10. Calls'
      BY <1>3, <2>4, <2>5 DEF Calls, NoCall
    <2>11. Position'
      <3>1. Placed'
        <4>1. CASE fp.fptr = 0
          BY <2>1, <2>4, <4>1 DEF Placed
        <4>2. CASE fp.fptr # 0
          <5>1. fp.curr_clust <= Len(chain')
            BY <2>2, <2>3, <4>2
          <5> QED
            BY <2>1, <2>4, <4>2, <5>1 DEF Placed, Row, Col, Cluster
        <4> QED
          BY <4>1, <4>2
      <3>2. Held'
        <4> SUFFICES ASSUME fp.fptr % SS # 0
                     PROVE  fp.curr_sect = <<chain'[fp.curr_clust], fp.csect - 1>>
          BY <2>4 DEF Held
        <4>1. fp.fptr # 0
          BY FirstByte
        <4>2. fp.curr_clust \in 1 .. n
          BY <2>2, <4>1
        <4> QED
          BY <2>1, <2>3, <4>2 DEF Held
      <3>3. fp'.fptr <= fp'.fsize
        BY <2>1, <2>4
      <3> QED
        BY <2>5, <3>1, <3>2, <3>3 DEF Position, AtRest, Moving, Walking, Landing
    <2>12. Coherent' /\ Marked'
      BY <1>1, <1>3, <2>4, <2>5 DEF Coherent, Marked, Fresh, InLoop
    <2> QED
      BY <2>6, <2>7, <2>8, <2>9, <2>10, <2>11, <2>12
  <1>4. ASSUME fp.fsize > fp.fptr, Breaks,
               fp' = [fp EXCEPT !.fsize = fp.fptr, !.written = TRUE, !.error = TRUE],
               sane' = FALSE, Answer("truncate", 0, "error")
        PROVE  IInv'
    <2>1. /\ fp' \in Fil /\ fp'.open /\ fp'.error /\ fp'.written /\ fp'.fsize = fp.fptr
      BY <1>1, <1>4 DEF TypeOK, Fil
    <2>2. fp'.fsize <= Len(chain) * Cluster
      <3> DEFINE y == Len(chain) * Cluster
      <3>1. fp.fsize <= y /\ y \in Nat
        BY <1>1, Typed, ClusterIs DEF LongEnough
      <3>2. fp.fptr \in Nat /\ fp.fsize \in Nat
        BY Typed
      <3> HIDE DEF y
      <3>3. fp'.fsize <= y
        BY <1>4, <2>1, <3>1, <3>2
      <3> QED
        BY <3>3 DEF y
    <2>3. 0 \in 0 .. Wrap /\ "truncate" \in Ops /\ chain' = chain
      BY <1>4, Numbers DEF Ops, Breaks
    <2> QED
      BY <1>1, <1>4, <2>1, <2>2, <2>3, BrokenKeeps
  <1> QED
    BY <1>2, <1>3, <1>4 DEF f_truncate

-----------------------------------------------------------------------------
(* f_sync and f_close.                                                     *)

\* The file object of a closed file.
LEMMA NoFilTyped == NoFil \in Fil
  BY Numbers DEF NoFil, Fil

\* What a closed file object leaves to the invariant.
LEMMA ClosedKeeps ==
    ASSUME TypeOK', Simple', fp' = NoFil, pc' = "idle",
           reg' = [NoCall EXCEPT !.calls = reg'.calls],
           entry'.used \in BOOLEAN,
           IF entry'.used THEN chain' # <<>> /\ entry'.size <= Len(chain') * Cluster
                          ELSE entry'.size = 0
    PROVE  IInv'
  <1>1. Closed' /\ Position' /\ Coherent' /\ Marked'
    BY DEF Closed, Position, Coherent, Marked, NoFil
  <1>2. LongEnough'
    BY DEF LongEnough, NoFil, Cluster
  <1>3. Calls'
    BY DEF Calls, NoFil, NoCall
  <1> QED
    BY <1>1, <1>2, <1>3 DEF IInv

\* f_sync and f_close begin, or have nothing to write.
LEMMA SyncsKeeps ==
    ASSUME IInv, pc = "idle", reg.calls < MaxCalls, NEW op \in {"sync", "close"}, Syncs(op)
    PROVE  IInv'
  <1> USE DEF IInv
  <1>1. fp.open /\ UNCHANGED <<disk, entry, chain, buffer, sane>>
    BY DEF Syncs
  <1>2. CASE fp.written
    <2>1. /\ pc' = "sync" /\ fp' = fp /\ answer' = answer
          /\ reg' = [op |-> op, todo |-> 0, done |-> 0, from |-> fp.fptr, nsect |-> NoSector,
                     wbuff |-> <<>>, rbuff |-> <<>>, n |-> 0, calls |-> reg.calls + 1]
      BY <1>2 DEF Syncs, Begin, NoCall
    <2>2. reg' \in Regs
      <3>1. TypeOK
        OBVIOUS
      <3>2. fp.fptr \in 0 .. Wrap - 1 /\ reg.calls + 1 \in 0 .. MaxCalls /\ 0 \in 0 .. Wrap
        BY <3>1, CallsTyped
      <3>3. <<>> \in Seq(Values)
        OBVIOUS
      <3> QED
        BY <2>1, <3>2, <3>3 DEF Regs, Ops
    <2>3. TypeOK'
      BY <1>1, <2>1, <2>2 DEF TypeOK
    <2>4. Closed' /\ Simple' /\ LongEnough'
      BY <1>1, <2>1 DEF Closed, Simple, LongEnough
    <2>5. Calls'
      BY <1>1, <1>2, <2>1 DEF Calls
    <2>6. Position'
      BY <1>1, <2>1 DEF Position, AtRest, Placed, Held, Moving, Walking, Landing
    <2>7. Coherent' /\ Marked'
      BY <1>1, <1>2, <2>1 DEF Coherent, Marked, Fresh, InLoop, Writing
    <2> QED
      BY <2>3, <2>4, <2>5, <2>6, <2>7
  <1>3. CASE ~fp.written
    <2>1. fp' = Closes(op, fp) /\ Answer(op, 0, "ok")
      BY <1>3 DEF Syncs
    <2>2. 0 \in 0 .. Wrap /\ op \in Ops /\ "ok" \in {"ok", "denied", "error"}
      BY Numbers DEF Ops
    <2>3. CASE op = "sync"
      <3>1. fp' = fp
        BY <2>1, <2>3 DEF Closes
      <3> QED
        BY <1>1, <2>1, <2>2, <2>3, <3>1, AnswerKeeps
    <2>4. CASE op = "close"
      <3>1. fp' = NoFil
        BY <2>1, <2>4 DEF Closes
      <3>2. /\ reg' = [NoCall EXCEPT !.calls = reg.calls + 1] /\ pc' = "idle"
            /\ answer' = [op |-> op, result |-> "ok", n |-> 0, done |-> 0, from |-> fp.fptr]
        BY <2>1 DEF Answer
      <3>3. TypeOK'
        <4>1. TypeOK
          OBVIOUS
        <4>2. fp.fptr \in 0 .. Wrap - 1 /\ reg.calls + 1 \in 0 .. MaxCalls /\ 0 \in 0 .. Wrap
          BY <4>1, CallsTyped
        <4>3. reg' \in Regs
          BY <3>2, <4>2, NoCallTyped
        <4>4. answer' \in Answers
          BY <2>2, <3>2, <4>2 DEF Answers
        <4> QED
          BY <1>1, <3>1, <3>2, <4>3, <4>4, NoFilTyped DEF TypeOK
      <3>4. IF entry.used THEN chain # <<>> /\ entry.size <= Len(chain) * Cluster
                          ELSE entry.size = 0
        BY <1>3 DEF LongEnough
      <3>5. Simple' /\ entry'.used \in BOOLEAN
        BY <1>1 DEF Simple, TypeOK
      <3>6. reg' = [NoCall EXCEPT !.calls = reg'.calls]
        BY <3>2 DEF NoCall
      <3> QED
        BY <1>1, <3>1, <3>2, <3>3, <3>4, <3>5, <3>6, ClosedKeeps
    <2> QED
      BY <2>3, <2>4
  <1> QED
    BY <1>2, <1>3

\* A step that ends f_sync or f_close with an error.
LEMMA SyncFailsKeeps ==
    ASSUME IInv, pc = "sync", Return("error"),
           UNCHANGED <<disk, entry, chain, buffer, fp, sane>>
    PROVE  IInv'
  <1> USE DEF IInv
  <1>1. /\ reg' = [NoCall EXCEPT !.calls = reg.calls] /\ pc' = "idle" /\ answer'.op = reg.op
        /\ reg.op \in {"sync", "close"} /\ fp.open
    BY DEF Return, Calls, Closed
  <1>2. TypeOK'
    <2>1. TypeOK /\ "error" \in {"ok", "denied", "error"}
      OBVIOUS
    <2>2. reg' \in Regs /\ answer' \in Answers
      BY <2>1, ReturnTyped
    <2> QED
      BY <1>1, <2>2 DEF TypeOK
  <1>3. Closed' /\ Simple' /\ LongEnough'
    BY <1>1 DEF Closed, Simple, LongEnough
  <1>4. Calls'
    BY <1>1 DEF Calls, NoCall
  <1>5. Position'
    BY <1>1 DEF Position, AtRest, Placed, Held, Moving, Walking, Landing
  <1>6. Coherent' /\ Marked'
    BY <1>1 DEF Coherent, Marked, Fresh, InLoop, Writing
  <1> QED
    BY <1>2, <1>3, <1>4, <1>5, <1>6

\* f_sync writes the dirty buffer.
LEMMA SyncBufferKeeps == ASSUME IInv, SyncBuffer PROVE IInv'
  <1> USE DEF IInv
  <1>1. /\ pc = "sync" /\ fp.dirty /\ UNCHANGED <<entry, chain, buffer, sane>> /\ fp.open
    BY DEF SyncBuffer, Closed
  <1>2. ASSUME disk' = [disk EXCEPT ![fp.curr_sect] = buffer],
               fp' = [fp EXCEPT !.dirty = FALSE], UNCHANGED <<pc, reg, answer>>
        PROVE  IInv'
    <2>1. fp \in Fil /\ fp.curr_sect \in Sector \cup {NoSector}
      BY DEF TypeOK, Fil
    <2>2. /\ fp' \in Fil /\ fp'.open = fp.open /\ fp'.error = fp.error /\ fp'.written = fp.written
          /\ ~fp'.dirty /\ fp'.fptr = fp.fptr /\ fp'.fsize = fp.fsize /\ fp'.csect = fp.csect
          /\ fp'.curr_sect = fp.curr_sect /\ fp'.curr_clust = fp.curr_clust
      BY <1>2, <2>1 DEF Fil
    <2>3. disk' \in [Sector -> Content]
      BY <1>2 DEF TypeOK
    <2>4. TypeOK'
      BY <1>1, <1>2, <2>2, <2>3 DEF TypeOK
    <2>5. Closed' /\ Simple' /\ LongEnough' /\ Calls'
      BY <1>1, <1>2, <2>2 DEF Closed, Simple, LongEnough, Calls
    <2>6. Position'
      BY <1>1, <1>2, <2>2 DEF Position, AtRest, Placed, Held, Moving, Walking, Landing
    <2>7. Coherent'
      <3> SUFFICES ASSUME fp.curr_sect # NoSector PROVE buffer' = disk'[fp'.curr_sect]
        BY <2>2 DEF Coherent
      <3>1. fp.curr_sect \in Sector
        BY <2>1
      <3> QED
        BY <1>1, <1>2, <2>2, <3>1 DEF TypeOK
    <2>8. Marked'
      BY <1>1, <1>2, <2>2 DEF Marked, Writing
    <2> QED
      BY <2>4, <2>5, <2>6, <2>7, <2>8
  <1>3. ASSUME Return("error"), UNCHANGED <<disk, fp>> PROVE IInv'
    BY <1>1, <1>3, SyncFailsKeeps
  <1> QED
    BY <1>2, <1>3 DEF SyncBuffer

\* f_sync writes the entry, and f_close lets go of the file object.
LEMMA SyncEntryKeeps == ASSUME IInv, SyncEntry PROVE IInv'
  <1> USE DEF IInv
  <1>1. /\ pc = "sync" /\ ~fp.dirty /\ UNCHANGED <<disk, chain, buffer, sane>> /\ fp.open
        /\ reg.op \in {"sync", "close"}
    BY DEF SyncEntry, Closed, Calls
  <1>2. /\ chain \in Seq(Clusters) /\ fp.fsize \in 0 .. Wrap - 1 /\ fp.fsize <= Len(chain) * Cluster
        /\ fp.fsize \in Nat /\ fp \in Fil
    BY <1>1, Typed DEF TypeOK, Fil, LongEnough
  <1>3. chain = <<>> => fp.fsize = 0
    <2> SUFFICES ASSUME chain = <<>> PROVE fp.fsize = 0
      OBVIOUS
    <2>1. Len(chain) * Cluster = 0
      BY ClusterIs
    <2> QED
      BY <1>2, <2>1
  <1>4. ASSUME entry' = EntryOf(fp), NEW result \in {"ok", "error"}, Return(result),
               fp' \in {NoFil, [fp EXCEPT !.written = FALSE]}
        PROVE  IInv'
    <2>1. /\ entry' = [used |-> chain # <<>>, size |-> fp.fsize]
          /\ entry' \in [used : BOOLEAN, size : 0 .. Wrap - 1]
      BY <1>2, <1>4 DEF EntryOf
    <2>2. /\ reg' = [NoCall EXCEPT !.calls = reg.calls] /\ pc' = "idle" /\ answer'.op = reg.op
      BY <1>4 DEF Return
    <2>3. reg' \in Regs /\ answer' \in Answers
      <3>1. TypeOK /\ result \in {"ok", "denied", "error"}
        OBVIOUS
      <3> QED
        BY <1>4, <3>1, ReturnTyped
    <2>4. IF entry'.used THEN chain' # <<>> /\ entry'.size <= Len(chain') * Cluster
                         ELSE entry'.size = 0
      BY <1>1, <1>2, <1>3, <2>1
    <2>5. Simple'
      BY <1>1 DEF Simple
    <2>6. CASE fp' = NoFil
      <3>1. TypeOK'
        BY <1>1, <2>1, <2>2, <2>3, <2>6, NoFilTyped DEF TypeOK
      <3>2. reg' = [NoCall EXCEPT !.calls = reg'.calls] /\ entry'.used \in BOOLEAN
        BY <2>1, <2>2 DEF NoCall
      <3> QED
        BY <2>2, <2>4, <2>5, <2>6, <3>1, <3>2, ClosedKeeps
    <2>7. CASE fp' = [fp EXCEPT !.written = FALSE]
      <3>1. /\ fp' \in Fil /\ fp'.open /\ fp'.error = fp.error /\ fp'.dirty = fp.dirty
            /\ fp'.written = FALSE /\ fp'.fptr = fp.fptr /\ fp'.fsize = fp.fsize
            /\ fp'.csect = fp.csect /\ fp'.curr_sect = fp.curr_sect
            /\ fp'.curr_clust = fp.curr_clust
        BY <1>1, <1>2, <2>7 DEF Fil
      <3>2. TypeOK'
        BY <1>1, <2>1, <2>2, <2>3, <3>1 DEF TypeOK
      <3>3. Closed'
        BY <1>1, <2>2, <3>1 DEF Closed
      <3>4. LongEnough'
        BY <1>1, <1>2, <2>4, <3>1 DEF LongEnough, Cluster
      <3>5. Calls'
        BY <1>1, <2>2, <3>1 DEF Calls, NoCall
      <3>6. Position'
        BY <1>1, <2>2, <3>1 DEF Position, AtRest, Placed, Held, Moving, Walking, Landing
      <3>7. Coherent'
        BY <1>1, <3>1 DEF Coherent, Fresh, InLoop
      <3>8. Marked'
        BY <1>1, <2>1, <3>1 DEF Marked
      <3> QED
        BY <2>5, <3>2, <3>3, <3>4, <3>5, <3>6, <3>7, <3>8
    <2> QED
      BY <1>4, <2>6, <2>7
  <1>5. ASSUME Return("error"), UNCHANGED <<entry, fp>> PROVE IInv'
    BY <1>1, <1>5, SyncFailsKeeps
  <1> QED
    BY <1>4, <1>5 DEF SyncEntry, Closes

-----------------------------------------------------------------------------
(* The invariant holds.                                                    *)

\* Every step keeps the invariant.
LEMMA NextKeeps == ASSUME IInv, [Next]_vars PROVE IInv'
  <1>1. CASE Call
    <2>1. pc = "idle" /\ reg.calls < MaxCalls
      BY <1>1 DEF Call
    <2>2. ASSUME NEW mode \in Modes, f_open(mode) PROVE IInv'
      BY <2>1, <2>2, f_openKeeps
    <2>3. ASSUME NEW n \in Sizes, f_read(n) PROVE IInv'
      BY <2>1, <2>3, f_readKeeps
    <2>4. ASSUME NEW n \in Sizes, f_write(n) PROVE IInv'
      BY <2>1, <2>4, f_writeKeeps
    <2>5. ASSUME NEW o \in Offsets, f_lseek(o) PROVE IInv'
      BY <2>1, <2>5, f_lseekKeeps
    <2>6. CASE f_truncate
      BY <2>1, <2>6, f_truncateKeeps
    <2>7. CASE f_sync \/ f_close
      BY <2>1, <2>7, SyncsKeeps DEF f_sync, f_close
    <2> QED
      BY <1>1, <2>2, <2>3, <2>4, <2>5, <2>6, <2>7 DEF Call
  <1>2. CASE GetCluster
    BY <1>2, GetClusterKeeps
  <1>3. CASE ReadDirect
    BY <1>3, ReadDirectKeeps
  <1>4. CASE WriteDirect
    BY <1>4, WriteDirectKeeps
  <1>5. CASE FlushBuffer
    BY <1>5, FlushBufferKeeps
  <1>6. CASE FillBuffer
    BY <1>6, FillBufferKeeps
  <1>7. CASE CopyOut
    BY <1>7, CopyOutKeeps
  <1>8. CASE CopyIn
    BY <1>8, CopyInKeeps
  <1>9. CASE EndLoop
    BY <1>9, EndLoopKeeps
  <1>10. CASE Walk
    BY <1>10, WalkKeeps
  <1>11. CASE Arrive
    BY <1>11, ArriveKeeps
  <1>12. CASE Land
    BY <1>12, LandKeeps
  <1>13. CASE SyncBuffer
    BY <1>13, SyncBufferKeeps
  <1>14. CASE SyncEntry
    BY <1>14, SyncEntryKeeps
  <1>15. CASE UNCHANGED vars
    <2> USE <1>15 DEF vars, IInv
    <2>1. TypeOK' /\ Closed' /\ Simple' /\ LongEnough' /\ Calls'
      BY DEF TypeOK, Closed, Simple, LongEnough, Calls
    <2>2. Position'
      BY DEF Position, AtRest, Moving, Walking, Landing, Placed, Entered, Held, InLoop,
             Reading, Writing
    <2>3. Coherent' /\ Marked'
      BY DEF Coherent, Marked, Fresh, InLoop, Writing, OnSector, NewCluster, Here
    <2> QED
      BY <2>1, <2>2, <2>3
  <1> QED
    BY <1>1, <1>2, <1>3, <1>4, <1>5, <1>6, <1>7, <1>8, <1>9, <1>10, <1>11, <1>12, <1>13,
       <1>14, <1>15 DEF Next, Step

\* The inductive invariant holds of f_open, f_read, f_write, f_lseek, f_truncate,
\* f_sync and f_close, whatever the sizes of a sector, a cluster and a DWORD, and
\* whatever the card refuses.
THEOREM FileInductive == Spec => []IInv
  <1>1. Init => IInv
    BY InitOK
  <1>2. IInv /\ [Next]_vars => IInv'
    BY NextKeeps
  <1> QED
    BY <1>1, <1>2, PTL DEF Spec

\* Type correctness: the registers of every call, the file object, the chain and
\* the card stay in their types.
THEOREM FileTypeOK == Spec => []TypeOK
  <1>1. IInv => TypeOK
    BY DEF IInv
  <1> QED
    BY <1>1, FileInductive, PTL

\* Between calls the position is inside the file, and curr_clust, csect and the
\* buffered sector are the ones the position is in: what the next call of f_read or
\* f_write starts from.
THEOREM FilePositionRight == Spec => []PositionRight
  <1>1. IInv => PositionRight
    <2> SUFFICES ASSUME IInv, pc = "idle", fp.open, sane
                 PROVE  /\ fp.fptr <= fp.fsize /\ fp.fsize <= Len(chain) * Cluster
                        /\ fp.fptr = 0 => fp.csect = Top
                        /\ fp.fptr > 0 =>
                               /\ fp.curr_clust = (fp.fptr - 1) \div Cluster + 1
                               /\ fp.csect = ((fp.fptr - 1) % Cluster) \div SS + 1
                               /\ fp.fptr % SS # 0 =>
                                      fp.curr_sect = <<chain[fp.curr_clust], fp.csect - 1>>
      BY DEF PositionRight
    <2>1. ~fp.error /\ fp.fsize <= Len(chain) * Cluster
      BY DEF IInv, Calls, LongEnough
    <2>2. Placed /\ Held /\ fp.fptr <= fp.fsize /\ fp.fptr \in Nat
      BY <2>1, RestAtMost
    <2>3. fp.fptr > 0 => fp.fptr # 0
      BY <2>2
    <2> QED
      BY <2>1, <2>2, <2>3 DEF Placed, Held, Row, Col
  <1> QED
    BY <1>1, FileInductive, PTL

-----------------------------------------------------------------------------
(* What a call owes its caller.                                            *)

\* While f_read and f_write are in their loop nothing has been dropped but what
\* lies behind the end of a file that is read; they leave it early only where the
\* chain ends; and f_lseek is on its way to its goal, or to the end it is cut to.
CutTo(x) ==
    x < reg.n /\ (IF "write" \in fp.mode THEN x = Len(chain) * Cluster ELSE x = fp.fsize)
LoopOwes ==
    \/ reg.done + reg.todo = reg.n
    \/ reg.op = "read" /\ fp.fptr + reg.todo = fp.fsize
WalkOwes ==
    \/ fp.fptr + reg.todo = reg.n
    \/ CutTo(fp.fptr + reg.todo) /\ ("write" \in fp.mode => reg.todo = Cluster)
LandOwes == fp.fptr = reg.n \/ CutTo(fp.fptr)
Owing ==
    fp.open /\ sane =>
        /\ pc = "loop" => LoopOwes
        /\ pc = "written" => Filled
        /\ pc = "walk" => WalkOwes
        /\ pc = "land" => LandOwes

Owes == Owing /\ AnswerRight

\* A call that ends without FR_OK, or that is none of the three, owes nothing.
LEMMA OwesNothing ==
    ASSUME pc' = "idle",
           answer'.result # "ok" \/ answer'.op \notin {"read", "write", "seek"} \/ ~sane'
    PROVE  Owes'
  BY DEF Owes, Owing, AnswerRight

\* An error owes nothing.
LEMMA AbortOwes == ASSUME Abort PROVE Owes'
  <1>1. pc' = "idle" /\ ~sane'
    BY DEF Abort, Return
  <1> QED
    BY <1>1, OwesNothing

\* f_read begins.
LEMMA f_readOwes ==
    ASSUME IInv, pc = "idle", NEW n \in Sizes, f_read(n)
    PROVE  Owes'
  <1>1. ASSUME NEW result, result # "ok", Refuse("read", n, result) PROVE Owes'
    <2>1. pc' = "idle" /\ answer'.result # "ok"
      BY <1>1 DEF Refuse, Answer
    <2> QED
      BY <2>1, OwesNothing
  <1>2. ASSUME ~fp.error, Begin("read", "loop", [NoCall EXCEPT !.todo = Clipped(n), !.n = n]),
               UNCHANGED fp
        PROVE  Owes'
    <2> DEFINE t == Clipped(n)
    <2>1. /\ pc' = "loop" /\ reg'.op = "read" /\ reg'.todo = t /\ reg'.done = 0 /\ reg'.n = n
          /\ fp' = fp
      BY <1>2 DEF Begin, NoCall
    <2>2. fp.open /\ fp.fptr \in Nat /\ fp.fsize \in Nat /\ n \in Nat
      BY Typed, Numbers, CallAssumption DEF IInv, f_read
    <2>3. t = n \/ t = fp.fsize - fp.fptr
      BY DEF Clipped
    <2> HIDE DEF t
    <2>4. 0 + t = n \/ fp.fptr + t = fp.fsize
      BY <2>2, <2>3
    <2>5. LoopOwes'
      BY <2>1, <2>4 DEF LoopOwes
    <2> QED
      BY <2>1, <2>5 DEF Owes, Owing, AnswerRight
  <1>3. CASE fp.error
    BY <1>1, <1>3 DEF f_read
  <1>4. CASE ~fp.error /\ "read" \notin fp.mode
    BY <1>1, <1>4 DEF f_read
  <1>5. CASE ~fp.error /\ "read" \in fp.mode
    BY <1>2, <1>5 DEF f_read
  <1> QED
    BY <1>3, <1>4, <1>5

\* f_write begins, or finds that the file would reach 4 GB.
LEMMA f_writeOwes ==
    ASSUME IInv, pc = "idle", NEW n \in Sizes, f_write(n)
    PROVE  Owes'
  <1>0. n \in 0 .. Wrap - 1 /\ Wrap \in Nat \ {0} /\ fp.fptr \in Nat /\ fp.fsize \in Nat
    BY Typed, Numbers, CallAssumption DEF IInv
  <1>1. ASSUME NEW result, result # "ok", Refuse("write", n, result) PROVE Owes'
    <2>1. pc' = "idle" /\ answer'.result # "ok"
      BY <1>1 DEF Refuse, Answer
    <2> QED
      BY <2>1, OwesNothing
  <1>2. ASSUME TooLong(n), Refuse("write", n, "ok") PROVE Owes'
    <2>1. /\ pc' = "idle" /\ fp' = fp
          /\ answer'.op = "write" /\ answer'.n = n /\ answer'.done = 0 /\ answer'.from = fp.fptr
      BY <1>2 DEF Refuse, Answer
    <2>2. fp.fsize + n >= Wrap
      <3> SUFFICES ASSUME fp.fsize + n < Wrap PROVE FALSE
        BY <1>0
      <3> DEFINE s == fp.fsize + n
      <3>1. s \in Nat /\ s < Wrap /\ s >= fp.fsize
        BY <1>0
      <3>2. s % Wrap < fp.fsize
        BY <1>2 DEF TooLong
      <3> HIDE DEF s
      <3>3. s % Wrap = s
        BY <1>0, <3>1, Small
      <3> QED
        BY <1>0, <3>1, <3>2, <3>3
    <2>3. fp.fptr = fp.fptr + 0
      BY <1>0
    <2> QED
      BY <2>1, <2>2, <2>3 DEF Owes, Owing, AnswerRight
  <1>3. ASSUME Begin("write", "loop", [NoCall EXCEPT !.todo = n, !.n = n, !.wbuff = Bytes(n)])
        PROVE  Owes'
    <2>1. pc' = "loop" /\ reg'.todo = n /\ reg'.done = 0 /\ reg'.n = n
      BY <1>3 DEF Begin, NoCall
    <2>2. LoopOwes'
      BY <1>0, <2>1 DEF LoopOwes
    <2> QED
      BY <2>1, <2>2 DEF Owes, Owing, AnswerRight
  <1>4. CASE fp.error
    BY <1>1, <1>4 DEF f_write
  <1>5. CASE ~fp.error /\ "write" \notin fp.mode
    BY <1>1, <1>5 DEF f_write
  <1>6. CASE ~fp.error /\ "write" \in fp.mode /\ TooLong(n)
    BY <1>2, <1>6 DEF f_write
  <1>7. CASE ~fp.error /\ "write" \in fp.mode /\ ~TooLong(n)
    BY <1>3, <1>7 DEF f_write
  <1> QED
    BY <1>4, <1>5, <1>6, <1>7

\* f_lseek begins: its goal is cut to the end of a file that is only read.
LEMMA f_lseekOwes ==
    ASSUME IInv, pc = "idle", NEW o \in Offsets, f_lseek(o)
    PROVE  Owes'
  <1>1. CASE fp.error
    <2>1. pc' = "idle" /\ answer'.result # "ok"
      BY <1>1 DEF f_lseek, Refuse, Answer
    <2> QED
      BY <2>1, OwesNothing
  <1>2. CASE ~fp.error
    <2> DEFINE ofs == Goal(o)
               top == [fp EXCEPT !.fptr = 0, !.csect = Top]
               call == [NoCall EXCEPT !.n = o]
    <2>1. /\ fp.open /\ Placed /\ fp.fptr \in Nat /\ fp.fsize \in Nat /\ fp \in Fil
          /\ Len(chain) \in Nat /\ o \in Nat /\ chain \in Seq(Clusters)
          /\ fp.fsize <= Len(chain) * Cluster
      <3>1. fp.open /\ LongEnough /\ TypeOK
        BY DEF f_lseek, IInv
      <3> QED
        BY <1>2, <3>1, RestAtMost, Typed, CallAssumption, Numbers DEF LongEnough, TypeOK
    <2>2. /\ ofs \in Nat
          /\ ofs = o \/ (ofs = fp.fsize /\ ofs < o /\ "write" \notin fp.mode)
      BY <2>1 DEF Goal
    <2> HIDE DEF ofs
    <2>3. ASSUME NEW p \in Nat, NEW t \in Nat, p + t = ofs, pc' = "walk",
                 fp'.fptr = p, fp'.fsize = fp.fsize, fp'.mode = fp.mode,
                 reg'.todo = t, reg'.n = o
          PROVE  Owes'
      <3>1. p + t = o \/ (p + t < o /\ "write" \notin fp.mode /\ p + t = fp.fsize)
        BY <2>2, <2>3
      <3>2. WalkOwes'
        BY <2>3, <3>1 DEF WalkOwes, CutTo
      <3> QED
        BY <2>3, <3>2 DEF Owes, Owing, AnswerRight
    <2>4. ASSUME ofs = 0 \/ (ofs > 0 /\ Full(0)), fp' = top, Begin("seek", "land", call),
                 UNCHANGED chain
          PROVE  Owes'
      <3>1. /\ pc' = "land" /\ reg'.n = o /\ fp'.fptr = 0 /\ fp'.fsize = fp.fsize
            /\ fp'.mode = fp.mode /\ chain' = chain
        BY <2>1, <2>4 DEF Begin, NoCall, Fil
      <3>2. LandOwes'
        <4>1. CASE ofs = 0
          BY <2>2, <3>1, <4>1 DEF LandOwes, CutTo
        <4>2. CASE ofs > 0 /\ Full(0)
          <5>1. Len(chain) = 0
            BY <4>2 DEF Full
          <5>2. 0 * Cluster = 0
            BY ClusterIs
          <5>3. fp.fsize = 0
            BY <2>1, <5>1, <5>2
          <5>4. ofs = o
            BY <2>2, <4>2, <5>3
          <5>5. 0 < o /\ Len(chain') = 0 /\ 0 = 0 * Cluster'
            BY <3>1, <4>2, <5>1, <5>2, <5>4 DEF Cluster
          <5>6. fp'.fsize = 0
            BY <3>1, <5>3
          <5> QED
            BY <3>1, <5>5, <5>6 DEF LandOwes, CutTo
        <4> QED
          BY <2>4, <4>1, <4>2
      <3> QED
        BY <3>1, <3>2 DEF Owes, Owing, AnswerRight
    <2>5. ASSUME ofs > 0, OnTheWay(ofs), fp' = [top EXCEPT !.fptr = StartOf(fp.fptr - 1)],
                 Begin("seek", "walk", [call EXCEPT !.todo = ofs - StartOf(fp.fptr - 1)])
          PROVE  Owes'
      <3> DEFINE p == StartOf(fp.fptr - 1)
                 t == ofs - p
      <3>1. p \in Nat /\ p < ofs
        BY <2>1, <2>2, <2>5, WalkBegins DEF IInv
      <3>2. /\ pc' = "walk" /\ reg'.todo = t /\ reg'.n = o /\ fp'.fptr = p
            /\ fp'.fsize = fp.fsize /\ fp'.mode = fp.mode
        BY <2>1, <2>5 DEF Begin, NoCall, Fil
      <3> HIDE DEF p
      <3>3. t \in Nat /\ p + t = ofs
        BY <2>2, <3>1
      <3> HIDE DEF t
      <3> QED
        BY <2>3, <3>1, <3>2, <3>3
    <2>6. ASSUME ofs > 0, fp' = [top EXCEPT !.curr_clust = 1],
                 Begin("seek", "walk", [call EXCEPT !.todo = ofs])
          PROVE  Owes'
      <3>1. /\ pc' = "walk" /\ reg'.todo = ofs /\ reg'.n = o /\ fp'.fptr = 0
            /\ fp'.fsize = fp.fsize /\ fp'.mode = fp.mode
        BY <2>1, <2>6 DEF Begin, NoCall, Fil
      <3>2. 0 + ofs = ofs /\ 0 \in Nat
        BY <2>2
      <3> QED
        BY <2>2, <2>3, <3>1, <3>2
    <2>7. ASSUME sane' = FALSE, Answer("seek", o, "error") PROVE Owes'
      <3>1. pc' = "idle"
        BY <2>7 DEF Answer
      <3> QED
        BY <2>7, <3>1, OwesNothing
    <2> QED
      BY <1>2, <2>4, <2>5, <2>6, <2>7 DEF f_lseek, Full, ofs
  <1> QED
    BY <1>1, <1>2

\* The loop takes a cluster; without one the file fills its clusters.
LEMMA GetClusterOwes == ASSUME IInv, Owes, GetCluster PROVE Owes'
  <1>1. fp.open /\ pc = "loop" /\ fp \in Fil /\ TypeOK /\ (Placed \/ Entered) /\ NewCluster
    BY InTheLoop DEF GetCluster, InLoop, IInv, TypeOK
  <1>2. ASSUME fp' = EnterCluster(Behind + 1), UNCHANGED <<pc, reg, answer, sane>> PROVE Owes'
    <2>1. fp'.open = fp.open /\ fp'.fptr = fp.fptr /\ fp'.fsize = fp.fsize
      BY <1>1, <1>2 DEF EnterCluster, Fil
    <2> QED
      BY <1>1, <1>2, <2>1 DEF Owes, Owing, LoopOwes, AnswerRight
  <1>3. ASSUME Full(Behind), pc' = "written", UNCHANGED fp PROVE Owes'
    <2>1. /\ Behind = Row(fp.fptr) /\ fp.fptr % Cluster = 0 /\ Behind = Len(chain)
          /\ chain' = chain
      BY <1>1, <1>3, AtEnd DEF Full
    <2> DEFINE x == fp.fptr
    <2>2. x = Cluster * (x \div Cluster) + (x % Cluster) /\ x \div Cluster \in Nat
      BY Typed, ClusterIs, DivMod DEF IInv
    <2>3. x = Len(chain) * Cluster
      <3> DEFINE q == x \div Cluster
                 m == x % Cluster
      <3>1. x = Cluster * q + m /\ q \in Nat /\ m = 0 /\ q = Len(chain)
        BY <2>1, <2>2 DEF Row
      <3> HIDE DEF q, m, x
      <3>2. Cluster * q = q * Cluster /\ Cluster * q \in Nat
        BY <3>1, ClusterIs
      <3> QED
        BY <3>1, <3>2
    <2>4. Filled'
      BY <1>3, <2>1, <2>3 DEF Filled, Cluster
    <2> QED
      BY <1>3, <2>4 DEF Owes, Owing, AnswerRight
  <1> QED
    BY <1>2, <1>3, AbortOwes DEF GetCluster

\* The loop goes on by k bytes.
LEMMA MoveOwes ==
    ASSUME IInv, Owes, InLoop, NEW k \in Nat, 0 < k, k <= reg.todo, NEW got, Moved(k, got),
           fp'.open = fp.open, fp'.fptr = fp.fptr + k, fp'.fsize = fp.fsize, pc' = pc, sane' => sane
    PROVE  Owes'
  <1>1. reg \in Regs /\ pc = "loop"
    BY DEF IInv, TypeOK, InLoop
  <1>2. /\ reg'.op = reg.op /\ reg'.todo = reg.todo - k /\ reg'.done = reg.done + k
        /\ reg'.n = reg.n
    BY <1>1 DEF Moved, Regs
  <1>3. /\ reg.todo \in Nat /\ reg.done \in Nat /\ fp.fptr \in Nat
    BY Typed DEF IInv
  <1>4. /\ (reg.done + k) + (reg.todo - k) = reg.done + reg.todo
        /\ (fp.fptr + k) + (reg.todo - k) = fp.fptr + reg.todo
    BY <1>3
  <1>5. LoopOwes => LoopOwes'
    BY <1>2, <1>4 DEF LoopOwes
  <1> QED
    BY <1>1, <1>5 DEF Owes, Owing, AnswerRight

\* Whole sectors go past the buffer.
LEMMA DirectOwes ==
    ASSUME IInv, Owes, Direct, NEW got, Moved(SS * Whole, got), pc' = pc, sane' => sane,
           fp' = Advance([fp EXCEPT !.csect = @ + Whole], SS * Whole)
    PROVE  Owes'
  <1> DEFINE k == SS * Whole
  <1>1. k \in Nat /\ 0 < k /\ k <= reg.todo /\ InLoop /\ fp \in Fil
    BY DirectSpan DEF Direct, IInv, TypeOK
  <1>2. fp'.open = fp.open /\ fp'.fptr = (fp.fptr + k) % Wrap /\ fp'.fsize = fp.fsize
    BY <1>1 DEF Advance, Fil
  <1> HIDE DEF k
  <1>3. (fp.fptr + k) % Wrap = fp.fptr + k
    BY <1>1, MoveNumbers
  <1>4. Moved(k, got)
    BY DEF k
  <1> QED
    BY <1>1, <1>2, <1>3, <1>4, MoveOwes

\* A part of a sector goes through the buffer.
LEMMA CopyOwes ==
    ASSUME IInv, Owes, Copying, NEW d \in BOOLEAN, NEW got, Moved(Part, got), UNCHANGED <<pc, sane>>,
           fp' = Advance(Stepped, Part) \/ fp' = Advance([Stepped EXCEPT !.dirty = d], Part)
    PROVE  Owes'
  <1> DEFINE k == Part
  <1>1. /\ k \in Nat /\ 0 < k /\ k <= reg.todo /\ InLoop /\ fp \in Fil
        /\ Stepped = [fp EXCEPT !.csect = Col(fp.fptr) + 1]
    BY CopySpan DEF Copying, IInv, TypeOK
  <1>2. fp'.open = fp.open /\ fp'.fptr = (fp.fptr + k) % Wrap /\ fp'.fsize = fp.fsize
    BY <1>1 DEF Advance, Fil
  <1> HIDE DEF k
  <1>3. (fp.fptr + k) % Wrap = fp.fptr + k
    BY <1>1, MoveNumbers
  <1>4. Moved(k, got)
    BY DEF k
  <1> QED
    BY <1>1, <1>2, <1>3, <1>4, MoveOwes

\* The buffer turns; nothing moves.
LEMMA BufferOwes == ASSUME IInv, Owes, FlushBuffer \/ FillBuffer PROVE Owes'
  <1>1. pc \in {"loop", "land"} /\ fp \in Fil /\ UNCHANGED chain
    BY DEF FlushBuffer, FillBuffer, Turning, Turns, InLoop, IInv, TypeOK
  <1>2. ASSUME NEW s, fp' = [fp EXCEPT !.dirty = FALSE] \/ fp' = [fp EXCEPT !.curr_sect = s],
               UNCHANGED <<pc, reg, answer, sane>>
        PROVE  Owes'
    <2>1. fp'.open = fp.open /\ fp'.fptr = fp.fptr /\ fp'.fsize = fp.fsize /\ fp'.mode = fp.mode
      BY <1>1, <1>2 DEF Fil
    <2>2. (LoopOwes => LoopOwes') /\ (LandOwes => LandOwes')
      BY <1>1, <1>2, <2>1 DEF LoopOwes, LandOwes, CutTo, Cluster
    <2> QED
      BY <1>1, <1>2, <2>1, <2>2 DEF Owes, Owing, AnswerRight
  <1> QED
    BY <1>2, AbortOwes DEF FlushBuffer, FillBuffer

\* The loop ends.
LEMMA EndLoopOwes == ASSUME IInv, Owes, EndLoop PROVE Owes'
  <1>1. /\ pc \in {"loop", "written"} /\ pc' = "idle" /\ chain' = chain /\ sane' = sane
        /\ (pc = "loop" => reg.todo = 0)
        /\ answer'.op = reg.op /\ answer'.n = reg.n /\ answer'.done = reg.done
        /\ answer'.from = reg.from
    BY DEF EndLoop, Return
  <1>2. /\ fp.open /\ reg.op \in {"read", "write"} /\ fp.fptr = reg.from + reg.done
        /\ (pc = "written" => reg.op = "write") /\ fp \in Fil
    BY <1>1, InTheLoop DEF IInv, Calls, TypeOK
  <1>3. fp'.fptr = fp.fptr /\ (reg.op = "read" => fp'.fsize = fp.fsize)
    <2>1. CASE Writing /\ fp.fptr > fp.fsize
      <3>1. fp' = [fp EXCEPT !.fsize = fp.fptr, !.written = TRUE]
        BY <1>2, <2>1 DEF EndLoop, Longer, Fil
      <3> QED
        BY <1>2, <2>1, <3>1 DEF Fil, Writing
    <2>2. CASE Writing /\ ~(fp.fptr > fp.fsize)
      <3>1. fp' = [fp EXCEPT !.written = TRUE]
        BY <1>2, <2>2 DEF EndLoop, Longer, Fil
      <3> QED
        BY <1>2, <2>2, <3>1 DEF Fil, Writing
    <2>3. CASE ~Writing
      BY <2>3 DEF EndLoop
    <2> QED
      BY <2>1, <2>2, <2>3
  <1>4. reg.todo \in Nat /\ reg.done \in Nat /\ fp.fptr \in Nat
    BY Typed DEF IInv
  <1>5. ASSUME sane
        PROVE  /\ reg.op = "read" => reg.done = reg.n \/ fp'.fptr = fp'.fsize
               /\ reg.op = "write" => reg.done = reg.n \/ Filled'
    <2>1. CASE pc = "loop"
      <3>1. LoopOwes
        BY <1>2, <1>5, <2>1 DEF Owes, Owing
      <3>2. reg.done + 0 = reg.done /\ fp.fptr + 0 = fp.fptr /\ reg.todo = 0
        BY <1>1, <1>4, <2>1
      <3> QED
        BY <1>3, <3>1, <3>2 DEF LoopOwes
    <2>2. CASE pc = "written"
      <3>1. Filled
        BY <1>2, <1>5, <2>2 DEF Owes, Owing
      <3>2. Filled'
        BY <1>1, <1>3, <3>1 DEF Filled, Cluster
      <3> QED
        BY <1>2, <2>2, <3>2
    <2> QED
      BY <1>1, <2>1, <2>2
  <1> QED
    BY <1>1, <1>2, <1>3, <1>5 DEF Owes, Owing, AnswerRight

\* One more cluster, or the end of the chain, where the goal is cut.
LEMMA WalkStepOwes == ASSUME IInv, Owes, Walk PROVE Owes'
  <1>1. pc = "walk" /\ reg.todo > Cluster /\ fp.open /\ ~fp.error /\ fp \in Fil /\ reg \in Regs
    BY DEF Walk, IInv, Closed, Calls, TypeOK
  <1>2. /\ fp.curr_clust \in 1 .. Len(chain) /\ fp.fptr = (fp.curr_clust - 1) * Cluster
        /\ fp.fptr + reg.todo <= reg.n /\ reg.n < Wrap
    BY <1>1 DEF IInv, Position, Walking
  <1>3. /\ fp.fptr \in Nat /\ reg.todo \in Nat /\ reg.n \in Nat /\ Wrap \in Nat \ {0}
        /\ Cluster \in Nat \ {0} /\ Len(chain) \in Nat /\ fp.fsize \in Nat /\ fp.curr_clust \in Nat
    BY Typed, ClusterIs DEF IInv
  <1>4. sane => /\ "write" \in fp.mode => fp.fptr + reg.todo = reg.n
                /\ "write" \notin fp.mode =>
                       \/ fp.fptr + reg.todo = reg.n
                       \/ fp.fptr + reg.todo < reg.n /\ fp.fptr + reg.todo = fp.fsize
    <2>1. ~(reg.todo = Cluster)
      BY <1>1, <1>3
    <2> QED
      BY <1>1, <2>1 DEF Owes, Owing, WalkOwes, CutTo
  <1>5. ASSUME fp' = Advance([fp EXCEPT !.curr_clust = @ + 1], Cluster),
               reg' = [reg EXCEPT !.todo = @ - Cluster], UNCHANGED <<pc, sane>>
        PROVE  Owes'
    <2> DEFINE x == fp.fptr + Cluster
    <2>1. x \in Nat /\ x < Wrap /\ x + (reg.todo - Cluster) = fp.fptr + reg.todo
      <3> DEFINE f == fp.fptr
                 t == reg.todo
                 n == reg.n
                 c == Cluster
      <3>1. f \in Nat /\ t \in Nat /\ n \in Nat /\ c \in Nat /\ Wrap \in Nat /\ t > c /\ f + t <= n /\ n < Wrap
        BY <1>1, <1>2, <1>3
      <3> HIDE DEF f, t, n, c
      <3>2. f + c \in Nat /\ f + c < Wrap /\ (f + c) + (t - c) = f + t
        BY <3>1
      <3> QED
        BY <3>2 DEF f, t, c
    <2>2. /\ fp'.open = fp.open /\ fp'.fptr = x % Wrap /\ fp'.fsize = fp.fsize /\ fp'.mode = fp.mode
          /\ reg'.todo = reg.todo - Cluster /\ reg'.n = reg.n
      BY <1>1, <1>5 DEF Advance, Fil, Regs
    <2> HIDE DEF x
    <2>3. fp'.fptr + reg'.todo = fp.fptr + reg.todo
      BY <1>3, <2>1, <2>2, Small
    <2>4. sane => WalkOwes'
      BY <1>4, <2>2, <2>3 DEF WalkOwes, CutTo
    <2> QED
      BY <1>1, <1>5, <2>4 DEF Owes, Owing, AnswerRight
  <1>6. ASSUME "write" \in fp.mode, Full(fp.curr_clust), reg' = [reg EXCEPT !.todo = Cluster],
               UNCHANGED <<fp, pc, sane>>
        PROVE  Owes'
    <2>1. /\ fp.curr_clust = Len(chain) /\ chain' = chain /\ reg'.todo = Cluster /\ reg'.n = reg.n
          /\ Cluster' = Cluster
      BY <1>1, <1>6 DEF Full, Regs, Cluster
    <2>2. fp.fptr + Cluster = Len(chain) * Cluster
      <3> DEFINE q == fp.curr_clust - 1
      <3>1. q \in Nat /\ q + 1 = Len(chain) /\ fp.fptr = q * Cluster
        BY <1>2, <1>3, <2>1
      <3> HIDE DEF q
      <3>2. (q + 1) * Cluster = q * Cluster + Cluster
        BY <3>1, StartOfCluster
      <3> QED
        BY <3>1, <3>2
    <2>3. fp.fptr + Cluster < reg.n
      <3> DEFINE x == fp.fptr
                 t == reg.todo
                 n == reg.n
                 c == Cluster
      <3>1. x \in Nat /\ t \in Nat /\ n \in Nat /\ c \in Nat /\ t > c /\ x + t <= n
        BY <1>1, <1>2, <1>3
      <3> HIDE DEF x, t, n, c
      <3>2. x + c < n
        BY <3>1
      <3> QED
        BY <3>2 DEF x, n, c
    <2>4. WalkOwes'
      <3>1. CutTo(fp.fptr + reg.todo)'
        BY <1>6, <2>1, <2>2, <2>3 DEF CutTo
      <3> QED
        BY <2>1, <3>1 DEF WalkOwes
    <2> QED
      BY <1>1, <1>6, <2>4 DEF Owes, Owing, AnswerRight
  <1> QED
    BY <1>5, <1>6, AbortOwes DEF Walk

\* The walk has reached the cluster of its goal.
LEMMA ArriveOwes == ASSUME IInv, Owes, Arrive PROVE Owes'
  <1>1. /\ pc = "walk" /\ pc' = "land" /\ fp.open /\ ~fp.error /\ fp \in Fil /\ reg \in Regs
        /\ chain' = chain /\ sane' = sane
    BY DEF Arrive, IInv, Closed, Calls, TypeOK
  <1>2. fp.fptr + reg.todo <= reg.n /\ reg.n < Wrap
    BY <1>1 DEF IInv, Position, Walking
  <1>3. fp.fptr \in Nat /\ reg.todo \in Nat /\ reg.n \in Nat /\ Wrap \in Nat \ {0}
    BY Typed DEF IInv
  <1> DEFINE x == fp.fptr + reg.todo
  <1>4. x \in Nat /\ x < Wrap
    BY <1>2, <1>3
  <1>5. /\ fp'.open = fp.open /\ fp'.fptr = x % Wrap /\ fp'.fsize = fp.fsize /\ fp'.mode = fp.mode
        /\ reg'.n = reg.n
    BY <1>1 DEF Arrive, Advance, Fil, Regs
  <1>6. WalkOwes => x = reg.n \/ CutTo(x)
    BY DEF WalkOwes
  <1> HIDE DEF x
  <1>7. fp'.fptr = x
    BY <1>3, <1>4, <1>5, Small
  <1>8. WalkOwes => LandOwes'
    BY <1>1, <1>5, <1>6, <1>7 DEF LandOwes, CutTo, Cluster
  <1> QED
    BY <1>1, <1>5, <1>8 DEF Owes, Owing, AnswerRight

\* f_lseek ends.
LEMMA LandOwesNoMore == ASSUME IInv, Owes, Land PROVE Owes'
  <1>1. /\ pc = "land" /\ pc' = "idle" /\ fp.open /\ fp \in Fil /\ chain' = chain /\ sane' = sane
        /\ answer'.op = "seek" /\ answer'.n = reg.n
    BY DEF Land, Return, IInv, Closed, Calls, TypeOK
  <1>2. /\ fp'.fptr = fp.fptr /\ fp'.mode = fp.mode
        /\ fp'.fsize = IF fp.fptr > fp.fsize THEN fp.fptr ELSE fp.fsize
    <2>1. CASE fp.fptr > fp.fsize
      <3>1. fp' = [fp EXCEPT !.fsize = fp.fptr, !.written = TRUE]
        BY <2>1 DEF Land, Longer
      <3> QED
        BY <1>1, <2>1, <3>1 DEF Fil
    <2>2. CASE ~(fp.fptr > fp.fsize)
      BY <1>1, <2>2 DEF Land, Longer
    <2> QED
      BY <2>1, <2>2
  <1>3. fp.fptr \in Nat /\ fp.fsize \in Nat
    BY Typed DEF IInv
  <1>4. ASSUME sane
        PROVE  \/ fp'.fptr = reg.n
               \/ fp'.fptr < reg.n /\ (IF "write" \in fp'.mode THEN Filled' ELSE fp'.fptr = fp'.fsize)
    <2>1. LandOwes
      BY <1>1, <1>4 DEF Owes, Owing
    <2>2. fp.fptr = fp.fsize => fp'.fptr = fp'.fsize
      BY <1>2, <1>3
    <2>3. fp.fptr = Len(chain) * Cluster => Filled'
      BY <1>1, <1>2 DEF Filled, Cluster
    <2> QED
      BY <1>2, <2>1, <2>2, <2>3 DEF LandOwes, CutTo
  <1> QED
    BY <1>1, <1>4 DEF Owes, Owing, AnswerRight

\* Every step keeps it.
LEMMA NextOwes == ASSUME IInv, Owes, [Next]_vars PROVE Owes'
  <1>1. CASE Call
    <2>1. pc = "idle"
      BY <1>1 DEF Call
    <2>2. ASSUME NEW mode \in Modes, f_open(mode) PROVE Owes'
      BY <2>1, <2>2, OwesNothing DEF f_open, NoAnswer
    <2>3. ASSUME NEW n \in Sizes, f_read(n) PROVE Owes'
      BY <2>1, <2>3, f_readOwes
    <2>4. ASSUME NEW n \in Sizes, f_write(n) PROVE Owes'
      BY <2>1, <2>4, f_writeOwes
    <2>5. ASSUME NEW o \in Offsets, f_lseek(o) PROVE Owes'
      BY <2>1, <2>5, f_lseekOwes
    <2>6. CASE f_truncate
      <3>1. pc' = "idle" /\ answer'.op = "truncate"
        BY <2>1, <2>6 DEF f_truncate, Refuse, Answer
      <3> QED
        BY <3>1, OwesNothing
    <2>7. ASSUME NEW op \in {"sync", "close"}, Syncs(op) PROVE Owes'
      <3>1. pc' = "sync" \/ (pc' = "idle" /\ answer'.op = op)
        BY <2>1, <2>7 DEF Syncs, Begin, Answer
      <3> QED
        BY <3>1, OwesNothing DEF Owes, Owing, AnswerRight
    <2> QED
      BY <1>1, <2>2, <2>3, <2>4, <2>5, <2>6, <2>7 DEF Call, f_sync, f_close
  <1>2. CASE GetCluster
    BY <1>2, GetClusterOwes
  <1>3. CASE ReadDirect
    BY <1>3, DirectOwes, AbortOwes DEF ReadDirect
  <1>4. CASE WriteDirect
    BY <1>4, DirectOwes, AbortOwes DEF WriteDirect
  <1>5. CASE FlushBuffer \/ FillBuffer
    BY <1>5, BufferOwes
  <1>6. CASE CopyOut
    <2>1. TRUE \in BOOLEAN
      OBVIOUS
    <2> QED
      BY <1>6, <2>1, CopyOwes DEF CopyOut
  <1>7. CASE CopyIn
    <2>1. TRUE \in BOOLEAN
      OBVIOUS
    <2> QED
      BY <1>7, <2>1, CopyOwes DEF CopyIn
  <1>8. CASE EndLoop
    BY <1>8, EndLoopOwes
  <1>9. CASE Walk
    BY <1>9, WalkStepOwes
  <1>10. CASE Arrive
    BY <1>10, ArriveOwes
  <1>11. CASE Land
    BY <1>11, LandOwesNoMore
  <1>12. CASE SyncBuffer \/ SyncEntry
    <2>1. reg.op \in {"sync", "close"}
      BY <1>12 DEF SyncBuffer, SyncEntry, IInv, Calls
    <2>2. ASSUME NEW result, Return(result) PROVE pc' = "idle" /\ answer'.op = reg.op
      BY <2>2 DEF Return
    <2>3. pc' = "sync" \/ (pc' = "idle" /\ answer'.op = reg.op)
      BY <1>12, <2>2 DEF SyncBuffer, SyncEntry
    <2> QED
      BY <2>1, <2>3, OwesNothing DEF Owes, Owing, AnswerRight
  <1>13. CASE UNCHANGED vars
    BY <1>13 DEF vars, Owes, Owing, AnswerRight, LoopOwes, WalkOwes, LandOwes, CutTo, Filled, Cluster
  <1> QED
    BY <1>1, <1>2, <1>3, <1>4, <1>5, <1>6, <1>7, <1>8, <1>9, <1>10, <1>11, <1>12, <1>13
       DEF Next, Step

\* What FR_OK says, for every geometry, card and sequence of calls: f_read gives
\* less than it was asked for only up to the end of the file, f_write takes less
\* only where the file fills its clusters or would reach 4 GB, and f_lseek stops
\* short only at the end of a file that is read or where a written one fills its
\* clusters; and the position is behind the bytes that were counted.
THEOREM FileAnswerRight == Spec => []AnswerRight
  <1>1. Init => Owes
    BY DEF Init, NoFil, Owes, Owing, AnswerRight
  <1>2. IInv /\ Owes /\ [Next]_vars => Owes'
    BY NextOwes
  <1>3. Owes => AnswerRight
    BY DEF Owes
  <1> QED
    BY <1>1, <1>2, <1>3, FileInductive, PTL DEF Spec

\* A file object that f_sync has cleaned has nothing the card lacks: the entry is
\* right, the bytes are on the card.
THEOREM FileSaved == Spec => []Saved
  <1>1. IInv => Saved
    <2> SUFFICES ASSUME IInv, pc = "idle", fp.open, sane, ~fp.written
                 PROVE  entry = EntryOf(fp) /\ OnCard(entry.size) = Through(fp.fsize)
      BY DEF Saved
    <2> USE DEF IInv
    <2>1. ~fp.dirty /\ entry.size = fp.fsize /\ entry.used = (chain # <<>>)
      BY DEF Marked
    <2>2. entry \in [used : BOOLEAN, size : 0 .. Wrap - 1]
      BY DEF TypeOK
    <2>3. entry = EntryOf(fp)
      BY <2>1, <2>2 DEF EntryOf
    <2>4. ASSUME NEW i \in 1 .. fp.fsize
          PROVE  disk[Where(i - 1)] = IF Where(i - 1) = fp.curr_sect THEN buffer
                                                                   ELSE disk[Where(i - 1)]
      <3> SUFFICES ASSUME Where(i - 1) = fp.curr_sect PROVE disk[fp.curr_sect] = buffer
        OBVIOUS
      <3>1. fp.curr_sect # NoSector
        BY TupleNotEmpty DEF Where, NoSector
      <3>2. ~Fresh
        BY DEF Fresh, InLoop
      <3> QED
        BY <2>1, <3>1, <3>2 DEF Coherent
    <2>5. OnCard(fp.fsize) = Through(fp.fsize)
      <3>1. ASSUME NEW i \in 1 .. fp.fsize
            PROVE  disk[Where(i - 1)][(i - 1) % SS]
                     = IF Where(i - 1) = fp.curr_sect THEN buffer[(i - 1) % SS]
                                                      ELSE disk[Where(i - 1)][(i - 1) % SS]
        BY <2>4, <3>1, Zenon
      <3> QED
        BY <3>1 DEF OnCard, Through
    <2> QED
      BY <2>1, <2>3, <2>5
  <1> QED
    BY <1>1, FileInductive, PTL

-----------------------------------------------------------------------------
(* The file object implements a file of bytes.                             *)

FileBytes == IF sane THEN (IF fp.open THEN Through(Size) ELSE OnCard(Size)) ELSE <<>>
FilePos == IF pc \in {"walk", "land"} THEN reg.from ELSE fp.fptr

\* The byte at a place of the file, through the buffer.
ByteAt(i) == IF Where(i) = fp.curr_sect THEN buffer[i % SS] ELSE disk[Where(i)][i % SS]

FileStep == File!Next \/ UNCHANGED File!vars

\* A file object that is out of order promises nothing.
LEMMA Insane == ASSUME ~sane' PROVE FileStep
  BY DEF FileStep, File!Next

\* A step that the file of bytes does not see.
LEMMA Stutters ==
    ASSUME TypeOK, TypeOK', sane, sane', fp'.open = fp.open,
           FileBytes' = FileBytes, FilePos' = FilePos,
           reg'.wbuff = reg.wbuff, reg'.rbuff = reg.rbuff
    PROVE  FileStep
  <1>1. sane' = sane
    BY DEF TypeOK
  <1> QED
    BY <1>1 DEF FileStep, File!vars, FileBytes, FilePos

\* The file of bytes takes a request.
LEMMA Asks ==
    ASSUME sane, sane', fp.open, fp'.open = fp.open, reg'.wbuff \in Seq(Values),
           reg'.rbuff = <<>>, FileBytes' = FileBytes, FilePos' = FilePos
    PROVE  FileStep
  BY DEF FileStep, File!Next, File!Ask, FileBytes, FilePos

\* The file of bytes takes a piece of what is to be written.
LEMMA Puts ==
    ASSUME sane, sane', fp.open, fp'.open = fp.open, reg.wbuff # <<>>,
           NEW k \in 1 .. Len(reg.wbuff),
           FileBytes' = SubSeq(FileBytes, 1, FilePos) \o SubSeq(reg.wbuff, 1, k)
                        \o SubSeq(FileBytes, FilePos + k + 1, Len(FileBytes)),
           FilePos' = FilePos + k,
           reg'.wbuff = SubSeq(reg.wbuff, k + 1, Len(reg.wbuff)), reg'.rbuff = reg.rbuff
    PROVE  FileStep
  <1>1. File!Put
    BY DEF File!Put, FileBytes, FilePos
  <1> QED
    BY <1>1 DEF FileStep, File!Next

\* The file of bytes gives a piece of what is to be read.
LEMMA Takes ==
    ASSUME sane, sane', fp.open, fp'.open = fp.open,
           NEW k \in 1 .. Len(FileBytes) - FilePos,
           reg'.rbuff = reg.rbuff \o SubSeq(FileBytes, FilePos + 1, FilePos + k),
           FilePos' = FilePos + k, FileBytes' = FileBytes, reg'.wbuff = reg.wbuff
    PROVE  FileStep
  <1>1. File!Take
    BY DEF File!Take, FileBytes, FilePos
  <1> QED
    BY <1>1 DEF FileStep, File!Next

\* The file of bytes moves its position.
LEMMA Seeks ==
    ASSUME sane, sane', fp.open, fp'.open = fp.open, FilePos' \in 0 .. Wrap - 1,
           Len(FileBytes') = IF FilePos' > Len(FileBytes) THEN FilePos' ELSE Len(FileBytes),
           IsPrefix(FileBytes, FileBytes'),
           reg'.wbuff = reg.wbuff, reg'.rbuff = reg.rbuff
    PROVE  FileStep
  <1>1. File!Seek
    BY DEF File!Seek, FileBytes, FilePos, IsPrefix, File!IsPrefix
  <1> QED
    BY <1>1 DEF FileStep, File!Next

\* The file of bytes is cut at its position.
LEMMA Cuts ==
    ASSUME sane, sane', fp.open, fp'.open = fp.open, FilePos' = FilePos,
           FileBytes' = SubSeq(FileBytes, 1, FilePos),
           reg'.wbuff = reg.wbuff, reg'.rbuff = reg.rbuff
    PROVE  FileStep
  <1>1. File!Cut
    BY DEF File!Cut, FileBytes, FilePos
  <1> QED
    BY <1>1 DEF FileStep, File!Next

\* The file of bytes is opened or closed.
LEMMA OpensOrCloses ==
    ASSUME sane, sane', fp.open = ~fp'.open, fp'.open \in BOOLEAN, FilePos' = 0,
           FileBytes' = FileBytes, reg'.wbuff = reg.wbuff, reg'.rbuff = reg.rbuff
    PROVE  FileStep
  <1>1. File!Open \/ File!Close
    BY DEF File!Open, File!Close, FileBytes, FilePos
  <1> QED
    BY <1>1 DEF FileStep, File!Next

-----------------------------------------------------------------------------
(* Where the bytes are.                                                    *)

\* A byte of the chain is in a sector of the card.
LEMMA WhereTyped ==
    ASSUME TypeOK, NEW i \in Nat, Row(i) < Len(chain)
    PROVE  Where(i) \in Sector /\ ByteAt(i) \in Values /\ Where(i) # NoSector
  <1> DEFINE k == Row(i) + 1
  <1>1. Row(i) \in Nat /\ Col(i) \in 0 .. csize - 1 /\ i % SS \in 0 .. SS - 1
    BY Terms
  <1>2. k \in 1 .. Len(chain)
    BY <1>1, Typed
  <1>3. chain[k] \in Clusters
    BY <1>2 DEF TypeOK
  <1>4. Where(i) = <<chain[k], Col(i)>>
    BY WhereIs
  <1>5. Where(i) \in Sector
    BY <1>1, <1>3, <1>4 DEF Sector
  <1>6. disk[Where(i)] \in Content /\ buffer \in Content
    BY <1>5 DEF TypeOK
  <1>7. disk[Where(i)][i % SS] \in Values /\ buffer[i % SS] \in Values
    BY <1>1, <1>6 DEF Content
  <1> QED
    BY <1>4, <1>5, <1>7, TupleNotEmpty DEF ByteAt, NoSector

\* Two bytes of the chain in the same sector have the same cluster and sector.
LEMMA WhereInjective ==
    ASSUME TypeOK, Simple, NEW i \in Nat, NEW j \in Nat, Row(i) < Len(chain), Row(j) < Len(chain),
           Where(i) = Where(j)
    PROVE  Row(i) = Row(j) /\ Col(i) = Col(j)
  <1> DEFINE k == Row(i) + 1
             l == Row(j) + 1
  <1>1. Row(i) \in Nat /\ Row(j) \in Nat
    BY Terms
  <1>2. k \in 1 .. Len(chain) /\ l \in 1 .. Len(chain)
    <2>1. Len(chain) \in Nat
      BY Typed
    <2> QED
      BY <1>1, <2>1
  <1>3. <<chain[k], Col(i)>> = <<chain[l], Col(j)>>
    BY WhereIs
  <1>4. k = l
    BY <1>2, <1>3 DEF Simple
  <1> QED
    BY <1>1, <1>3, <1>4

\* How far two bytes of one sector are apart.
LEMMA InSector ==
    ASSUME NEW i \in Nat, NEW j \in Nat, Row(i) = Row(j), Col(i) = Col(j)
    PROVE  i - j = (i % SS) - (j % SS)
  <1> DEFINE x == Cluster * Row(i)
             y == SS * Col(i)
             r == i % SS
             s == j % SS
  <1>1. x \in Nat /\ y \in Nat /\ r \in 0 .. SS - 1 /\ s \in 0 .. SS - 1
    BY Terms
  <1>2. i = x + y + r
    BY Split
  <1>3. j = x + y + s
    BY Split
  <1>4. r \in Int /\ s \in Int
    BY <1>1, ClusterIs
  <1> HIDE DEF x, y, r, s
  <1>5. i - j = r - s
    BY <1>1, <1>2, <1>3, <1>4
  <1> QED
    BY <1>5 DEF r, s

\* The first n bytes of the file, in this state ...
LEMMA ThroughIs == \A n \in Nat : Through(n) = [i \in 1 .. n |-> ByteAt(i - 1)]
  BY DEF Through, ByteAt

\* ... and in the next.
LEMMA ThroughIsPrimed == \A n \in Nat : Through(n)' = [i \in 1 .. n |-> ByteAt(i - 1)']
  BY DEF Through, ByteAt

\* The first n bytes of the file are n bytes.
LEMMA ThroughTyped ==
    ASSUME TypeOK, NEW n \in Nat, n <= Len(chain) * Cluster
    PROVE  Through(n) \in Seq(Values) /\ Len(Through(n)) = n
  <1>1. ASSUME NEW i \in 1 .. n PROVE ByteAt(i - 1) \in Values
    <2> DEFINE j == i - 1
               m == Len(chain)
    <2>1. j \in Nat /\ m \in Nat /\ m * Cluster \in Nat
      BY Typed, ClusterIs
    <2>2. j < m * Cluster
      <3> DEFINE y == m * Cluster
      <3>1. y \in Nat /\ n <= y
        BY <2>1
      <3> HIDE DEF y
      <3>2. j < y
        BY <3>1
      <3> QED
        BY <3>2 DEF y
    <2> HIDE DEF j
    <2>3. Row(j) < m
      BY <2>1, <2>2, RowBound
    <2>4. ByteAt(j) \in Values
      BY <2>1, <2>3, WhereTyped
    <2> QED
      BY <2>4 DEF j
  <1>2. Through(n) = [i \in 1 .. n |-> ByteAt(i - 1)]
    BY ThroughIs
  <1>3. Through(n) \in [1 .. n -> Values]
    BY <1>1, <1>2
  <1> QED
    BY <1>3

\* Bytes that stay where they are.
LEMMA SameThrough ==
    ASSUME NEW n \in Nat, \A i \in Nat : i < n => ByteAt(i)' = ByteAt(i)
    PROVE  Through(n)' = Through(n)
  <1>1. \A i \in 1 .. n : ByteAt(i - 1)' = ByteAt(i - 1)
    <2> TAKE i \in 1 .. n
    <2>1. i - 1 \in Nat /\ i - 1 < n
      OBVIOUS
    <2> QED
      BY <2>1
  <1> QED
    BY <1>1, ThroughIs, ThroughIsPrimed

\* The chain where the bytes below n are.
LEMMA SameWhere ==
    ASSUME NEW m \in Nat, \A k \in 1 .. m : chain'[k] = chain[k],
           NEW i \in Nat, Row(i) < m
    PROVE  Where(i)' = Where(i)
  <1>1. Row(i) + 1 \in 1 .. m
    BY Terms
  <1>2. Where(i)' = <<chain'[Row(i) + 1], Col(i)>>
    BY DEF Where, Row, Col, Cluster
  <1>3. Where(i) = <<chain[Row(i) + 1], Col(i)>>
    BY WhereIs
  <1> QED
    BY <1>1, <1>2, <1>3

\* A chain that is kept up to m clusters keeps their bytes.
LEMMA QuietThrough ==
    ASSUME NEW m \in Nat, \A k \in 1 .. m : chain'[k] = chain[k],
           UNCHANGED <<disk, buffer>>, fp'.curr_sect = fp.curr_sect,
           NEW n \in Nat, n <= m * Cluster
    PROVE  Through(n)' = Through(n)
  <1>1. ASSUME NEW i \in Nat, i < n PROVE ByteAt(i)' = ByteAt(i)
    <2>1. i < m * Cluster
      <3> DEFINE y == m * Cluster
      <3>1. y \in Nat /\ n <= y
        BY ClusterIs
      <3> HIDE DEF y
      <3>2. i < y
        BY <1>1, <3>1
      <3> QED
        BY <3>2 DEF y
    <2>2. Row(i) < m
      BY <2>1, RowBound
    <2>3. Where(i)' = Where(i)
      BY <2>2, SameWhere
    <2> QED
      BY <2>3 DEF ByteAt
  <1> QED
    BY <1>1, SameThrough

\* How long the file is while its file object is open.
LEMMA SizeOf ==
    ASSUME IInv, fp.open
    PROVE  /\ Size = (IF Writing /\ pc # "idle" /\ fp.fptr > fp.fsize THEN fp.fptr ELSE fp.fsize)
           /\ Size \in Nat /\ Size <= Len(chain) * Cluster
           /\ Writing /\ pc # "idle" => pc \in {"loop", "written"} /\ ~fp.error
  <1> USE DEF IInv
  <1>1. Size = (IF Writing /\ pc # "idle" /\ fp.fptr > fp.fsize THEN fp.fptr ELSE fp.fsize)
    BY DEF Size
  <1>2. fp.fptr \in Nat /\ fp.fsize \in Nat /\ fp.fsize <= Len(chain) * Cluster
    BY Typed DEF LongEnough
  <1>3. ASSUME Writing, pc # "idle" PROVE pc \in {"loop", "written"} /\ ~fp.error
    BY <1>3 DEF TypeOK, Calls, Writing
  <1>4. ASSUME pc \in {"loop", "written"} PROVE fp.fptr <= Len(chain) * Cluster
    <2>1. Placed \/ Entered
      BY <1>4, InTheLoop
    <2>2. CASE Placed
      BY <2>2, PlacedBound
    <2>3. CASE Entered
      <3> DEFINE p == fp.fptr
                 n == Len(chain)
      <3>1. p \in Nat /\ n \in Nat /\ Row(p) + 1 <= n
        BY <2>3, Typed DEF Entered
      <3> HIDE DEF p, n
      <3>2. Row(p) \in Nat
        BY <3>1, Terms
      <3>3. p < n * Cluster
        BY <3>1, <3>2, RowBound
      <3>4. n * Cluster \in Nat
        BY <3>1, ClusterIs
      <3>5. p <= n * Cluster
        BY <3>1, <3>3, <3>4
      <3> QED
        BY <3>5 DEF p, n
    <2> QED
      BY <2>1, <2>2, <2>3
  <1> QED
    BY <1>1, <1>2, <1>3, <1>4

\* A closed file has its bytes on the card.
LEMMA ClosedSize ==
    ASSUME TypeOK, NEW n \in Nat PROVE OnCard(n) = [i \in 1 .. n |-> disk[Where(i - 1)][(i - 1) % SS]]
  BY DEF OnCard

-----------------------------------------------------------------------------
(* Steps that a reader of the file does not see.                           *)

\* The bytes of an open file, in this state ...
LEMMA BytesOpen ==
    ASSUME sane, fp.open, NEW n, Size = n
    PROVE  FileBytes = Through(n)
  BY DEF FileBytes

\* ... and in the next.
LEMMA BytesOpenPrimed ==
    ASSUME sane', fp'.open, NEW n, Size' = n
    PROVE  FileBytes' = Through(n)'
  <1>1. FileBytes' = Through(Size)'
    BY DEF FileBytes
  <1>2. Through(Size)' = Through(n)'
    BY DEF Through
  <1> QED
    BY <1>1, <1>2

\* The caller's buffers are empty in a call that does not move bytes.
LEMMA NothingGiven ==
    ASSUME IInv, pc \notin {"loop", "written"}
    PROVE  reg.wbuff = <<>> /\ reg.rbuff = <<>>
  <1>1. pc \in {"idle", "walk", "land", "sync"}
    BY DEF IInv, TypeOK
  <1> QED
    BY <1>1 DEF IInv, Calls, NoCall

\* Neither a byte nor the position changes.
LEMMA QuietStep ==
    ASSUME IInv, IInv', sane, sane', fp.open, fp'.open, Size' = Size,
           UNCHANGED <<disk, buffer>>, fp'.curr_sect = fp.curr_sect,
           \A k \in 1 .. Len(chain) : chain'[k] = chain[k],
           FilePos' = FilePos, reg'.wbuff = reg.wbuff, reg'.rbuff = reg.rbuff
    PROVE  FileStep
  <1>1. Size \in Nat /\ Size <= Len(chain) * Cluster /\ Len(chain) \in Nat
    BY SizeOf, Typed DEF IInv
  <1>2. PICK n \in Nat : n = Size
    BY <1>1
  <1>3. FileBytes = Through(n)
    BY <1>2, BytesOpen
  <1>4. Size' = n /\ n <= Len(chain) * Cluster
    BY <1>1, <1>2
  <1>5. fp'.open = fp.open
    BY DEF IInv, TypeOK, Fil
  <1>6. FileBytes' = Through(n)'
    BY <1>4, BytesOpenPrimed
  <1>7. Through(n)' = Through(n)
    BY <1>1, <1>4, QuietThrough
  <1>8. TypeOK /\ TypeOK'
    BY DEF IInv
  <1> QED
    BY <1>3, <1>5, <1>6, <1>7, <1>8, Stutters

\* The sector buffer is written to the card, and stays.
LEMMA FlushStep ==
    ASSUME IInv, IInv', sane, sane', fp.open, fp'.open,
           disk' = [disk EXCEPT ![fp.curr_sect] = buffer],
           fp' = [fp EXCEPT !.dirty = FALSE], UNCHANGED <<chain, buffer, pc, reg>>
    PROVE  FileStep
  <1>1. Size \in Nat /\ Size <= Len(chain) * Cluster /\ Len(chain) \in Nat /\ fp \in Fil
    BY SizeOf, Typed DEF IInv, TypeOK
  <1>2. /\ fp'.fptr = fp.fptr /\ fp'.fsize = fp.fsize /\ fp'.curr_sect = fp.curr_sect
        /\ fp'.open = fp.open
    BY <1>1 DEF Fil
  <1>3. Size' = Size /\ FilePos' = FilePos
    BY <1>2 DEF Size, Writing, FilePos
  <1>10. PICK n \in Nat : n = Size
    BY <1>1
  <1>4. n \in Nat /\ Size' = n
    BY <1>3, <1>10
  <1>5. FileBytes = Through(n)
    BY <1>10, BytesOpen
  <1>6. FileBytes' = Through(n)'
    BY <1>4, BytesOpenPrimed
  <1>7. ASSUME NEW i \in Nat PROVE ByteAt(i)' = ByteAt(i)
    <2>1. Where(i)' = Where(i)
      BY DEF Where, Cluster
    <2>2. CASE Where(i) = fp.curr_sect
      BY <1>2, <2>1, <2>2 DEF ByteAt
    <2>3. CASE Where(i) # fp.curr_sect
      <3>1. disk'[Where(i)] = disk[Where(i)]
        <4>1. disk \in [Sector -> Content]
          BY DEF IInv, TypeOK
        <4> DEFINE s == Where(i)
        <4>2. s # fp.curr_sect
          BY <2>3
        <4> HIDE DEF s
        <4>3. disk'[s] = disk[s]
          BY <4>1, <4>2
        <4> QED
          BY <4>3 DEF s
      <3> QED
        BY <1>2, <2>1, <2>3, <3>1 DEF ByteAt
    <2> QED
      BY <2>2, <2>3
  <1>8. Through(n)' = Through(n)
    BY <1>4, <1>7, SameThrough
  <1>9. TypeOK /\ TypeOK'
    BY DEF IInv
  <1> QED
    BY <1>2, <1>3, <1>5, <1>6, <1>8, <1>9, Stutters

\* A dirty buffer is written before it turns to another sector.
LEMMA FlushBufferFile ==
    ASSUME IInv, IInv', sane, sane', FlushBuffer PROVE FileStep
  <1>1. /\ pc \in {"loop", "land"} /\ fp.open
    BY DEF FlushBuffer, Turning, Turns, InLoop, IInv, Closed
  <1>2. /\ disk' = [disk EXCEPT ![fp.curr_sect] = buffer] /\ fp' = [fp EXCEPT !.dirty = FALSE]
        /\ UNCHANGED <<chain, buffer, pc, reg>>
    BY DEF FlushBuffer, Abort
  <1>3. fp'.open
    BY <1>1, <1>2 DEF IInv, TypeOK, Fil
  <1> QED
    BY <1>1, <1>2, <1>3, FlushStep

\* A write of f_sync fails.
LEMMA SyncFailsFile ==
    ASSUME IInv, IInv', sane, sane', pc = "sync", Return("error"),
           UNCHANGED <<disk, chain, buffer, fp>>
    PROVE  FileStep
  <1>1. fp.open /\ fp'.open
    BY DEF IInv, Closed
  <1>2. /\ pc' = "idle" /\ reg'.wbuff = <<>> /\ reg'.rbuff = <<>>
    BY DEF Return, NoCall
  <1>3. reg.wbuff = <<>> /\ reg.rbuff = <<>> /\ ~Writing
    BY NothingGiven DEF IInv, Calls, Writing
  <1>4. Size' = Size /\ FilePos' = FilePos
    BY <1>1, <1>2, <1>3 DEF Size, FilePos
  <1> QED
    BY <1>1, <1>2, <1>3, <1>4, QuietStep

\* f_sync writes the dirty buffer.
LEMMA SyncBufferFile ==
    ASSUME IInv, IInv', sane, sane', SyncBuffer PROVE FileStep
  <1>1. /\ pc = "sync" /\ fp.open /\ UNCHANGED <<chain, buffer>>
    BY DEF SyncBuffer, IInv, Closed
  <1>2. ASSUME disk' = [disk EXCEPT ![fp.curr_sect] = buffer],
               fp' = [fp EXCEPT !.dirty = FALSE], UNCHANGED <<pc, reg>>
        PROVE  FileStep
    <2>1. fp'.open
      BY <1>1, <1>2 DEF IInv, TypeOK, Fil
    <2> QED
      BY <1>1, <1>2, <2>1, FlushStep
  <1>3. ASSUME Return("error"), UNCHANGED <<disk, fp>> PROVE FileStep
    BY <1>1, <1>3, SyncFailsFile
  <1> QED
    BY <1>2, <1>3 DEF SyncBuffer

\* Another sector comes into the buffer.  What was there is on the card, and a
\* sector that is not read has no byte of the file.
LEMMA FillBufferFile ==
    ASSUME IInv, IInv', sane, sane', FillBuffer PROVE FileStep
  <1>0. PICK s \in Sector :
           /\ Turning(s) /\ ~fp.dirty
           /\ \/ /\ buffer' = IF Behindhand THEN buffer ELSE disk[s]
                 /\ fp' = [fp EXCEPT !.curr_sect = s]
                 /\ UNCHANGED <<pc, reg, answer, sane>>
              \/ "read" \in Faults /\ ~Behindhand /\ UNCHANGED buffer /\ Abort
    BY DEF FillBuffer
  <1>1. /\ UNCHANGED <<disk, chain, pc, reg>> /\ pc \in {"loop", "land"} /\ fp.open
        /\ buffer' = IF Behindhand THEN buffer ELSE disk[s]
        /\ fp' = [fp EXCEPT !.curr_sect = s] /\ s # fp.curr_sect
    BY <1>0 DEF FillBuffer, Turning, Turns, InLoop, Abort, IInv, Closed
  <1>2. /\ Size \in Nat /\ Size <= Len(chain) * Cluster /\ Len(chain) \in Nat /\ fp \in Fil
        /\ fp.fptr \in Nat /\ fp.fsize \in Nat
    BY <1>1, SizeOf, Typed DEF IInv, TypeOK
  <1>3. /\ fp'.fptr = fp.fptr /\ fp'.fsize = fp.fsize /\ fp'.curr_sect = s /\ fp'.open = fp.open
    BY <1>1, <1>2 DEF Fil
  <1>4. Size' = Size /\ FilePos' = FilePos
    BY <1>1, <1>3 DEF Size, Writing, FilePos
  <1>12. PICK n \in Nat : n = Size
    BY <1>2
  <1>5. n \in Nat /\ Size' = n /\ n <= Len(chain) * Cluster
    BY <1>2, <1>4, <1>12
  <1>6. FileBytes = Through(n)
    BY <1>1, <1>12, BytesOpen
  <1>7. Behindhand => n = fp.fptr /\ OnSector /\ s = Where(fp.fptr) /\ Row(fp.fptr) < Len(chain)
    <2> SUFFICES ASSUME Behindhand
                 PROVE  n = fp.fptr /\ OnSector /\ s = Where(fp.fptr) /\ Row(fp.fptr) < Len(chain)
      OBVIOUS
    <2>1. Writing /\ fp.fptr >= fp.fsize
      BY DEF Behindhand
    <2>2. InLoop /\ OnSector /\ ~NewCluster /\ s = Here
      BY <1>0, <2>1 DEF Turning, Turns, IInv, Calls, Writing
    <2>3. n = fp.fptr
      BY <1>1, <1>2, <1>12, <2>1, <2>2 DEF Size, InLoop
    <2>4. Placed \/ Entered
      BY <2>2, InTheLoop DEF InLoop
    <2>5. TypeOK /\ Held
      BY <2>2, InTheLoop DEF IInv, InLoop
    <2>6. s = Where(fp.fptr) /\ fp.curr_clust = Row(fp.fptr) + 1 /\ fp.curr_clust \in 1 .. Len(chain)
      BY <2>2, <2>4, <2>5, Inside
    <2>7. Row(fp.fptr) < Len(chain)
      <3> DEFINE q == Row(fp.fptr)
      <3>1. q \in Nat /\ q + 1 \in 1 .. Len(chain)
        BY <1>2, <2>6, Terms
      <3> HIDE DEF q
      <3>2. q < Len(chain)
        BY <1>2, <3>1
      <3> QED
        BY <3>2 DEF q
    <2> QED
      BY <2>2, <2>3, <2>6, <2>7
  <1>8. FileBytes' = Through(n)'
    BY <1>1, <1>3, <1>5, BytesOpenPrimed
  <1>9. ASSUME NEW i \in Nat, i < n PROVE ByteAt(i)' = ByteAt(i)
    <2>1. Where(i)' = Where(i)
      BY <1>1 DEF Where, Cluster
    <2>2. Row(i) < Len(chain)
      <3> DEFINE y == Len(chain) * Cluster
      <3>1. y \in Nat /\ n <= y
        BY <1>2, <1>5, ClusterIs
      <3> HIDE DEF y
      <3>2. i < y
        BY <1>5, <1>9, <3>1
      <3>3. i < Len(chain) * Cluster
        BY <3>2 DEF y
      <3> QED
        BY <1>2, <3>3, RowBound
    <2>3. Where(i) # NoSector
      BY <2>2, WhereTyped DEF IInv
    <2>4. CASE Where(i) = s
      <3>1. ~Behindhand
        <4> SUFFICES ASSUME Behindhand PROVE FALSE
          OBVIOUS
        <4> DEFINE p == fp.fptr
        <4>1. Row(i) = Row(p) /\ Col(i) = Col(p)
          BY <1>2, <1>7, <2>2, <2>4, WhereInjective DEF IInv
        <4>2. i - p = (i % SS) - (p % SS) /\ p \in Nat /\ i < p /\ p % SS = 0
          BY <1>2, <1>7, <1>9, <4>1, InSector DEF OnSector
        <4>3. i % SS \in 0 .. SS - 1 /\ SS \in Nat
          BY Terms, ClusterIs
        <4> DEFINE r == i % SS
                   e == p % SS
        <4>4. i - p = r - e /\ e = 0 /\ r \in 0 .. SS - 1
          BY <4>2, <4>3
        <4> HIDE DEF p, r, e
        <4> QED
          BY <4>2, <4>3, <4>4
      <3> QED
        BY <1>1, <1>3, <2>1, <2>4, <3>1 DEF ByteAt
    <2>5. CASE Where(i) # s /\ Where(i) = fp.curr_sect
      <3>1. ~Fresh
        BY <1>0, <1>1 DEF Fresh, Turning, Turns, InLoop
      <3>2. buffer = disk[fp.curr_sect]
        BY <1>0, <2>3, <2>5, <3>1 DEF IInv, Coherent
      <3>3. ByteAt(i) = buffer[i % SS]
        BY <2>5 DEF ByteAt
      <3>4. ByteAt(i)' = disk[Where(i)][i % SS]
        BY <1>1, <1>3, <2>1, <2>5 DEF ByteAt
      <3> QED
        BY <2>5, <3>2, <3>3, <3>4
    <2>6. CASE Where(i) # s /\ Where(i) # fp.curr_sect
      BY <1>1, <1>3, <2>1, <2>6 DEF ByteAt
    <2> QED
      BY <2>4, <2>5, <2>6
  <1>10. Through(n)' = Through(n)
    BY <1>5, <1>9, SameThrough
  <1>11. TypeOK /\ TypeOK'
    BY DEF IInv
  <1> QED
    BY <1>1, <1>3, <1>4, <1>6, <1>8, <1>10, <1>11, Stutters

\* The loop takes the next cluster: no byte of the file moves.
LEMMA GetClusterFile ==
    ASSUME IInv, IInv', sane, sane', GetCluster PROVE FileStep
  <1>1. /\ pc = "loop" /\ fp.open /\ (Placed \/ Entered) /\ NewCluster
        /\ UNCHANGED <<disk, buffer, reg>> /\ pc' \in {"loop", "written"}
    BY InTheLoop DEF GetCluster, InLoop, Abort
  <1>2. Behind \in Nat /\ TypeOK /\ Simple
    BY <1>1, AtEnd DEF IInv
  <1>3. \A k \in 1 .. Len(chain) : chain'[k] = chain[k]
    <2>1. CASE Follow(Behind) \/ Stretch(Behind)
      BY <1>2, <2>1, Grows
    <2>2. CASE chain' = chain
      BY <2>2
    <2> QED
      BY <2>1, <2>2 DEF GetCluster, Full, Breaks
  <1>4. /\ fp'.open /\ fp'.fptr = fp.fptr /\ fp'.fsize = fp.fsize
        /\ fp'.curr_sect = fp.curr_sect
    <2>1. fp \in Fil
      BY <1>2 DEF TypeOK
    <2>2. fp' = fp \/ fp' = EnterCluster(Behind + 1)
      BY DEF GetCluster, Abort
    <2> QED
      BY <1>1, <2>1, <2>2 DEF EnterCluster, Fil
  <1>5. Size' = Size /\ FilePos' = FilePos
    BY <1>1, <1>4 DEF Size, Writing, FilePos
  <1> QED
    BY <1>1, <1>3, <1>4, <1>5, QuietStep

\* f_lseek goes along the chain: the file is longer only when it has landed.
LEMMA WalkFile ==
    ASSUME IInv, IInv', sane, sane', Walk PROVE FileStep
  <1>1. /\ pc = "walk" /\ fp.open /\ UNCHANGED <<disk, buffer>> /\ pc' = "walk" /\ reg.op = "seek"
    BY DEF Walk, Abort, IInv, Closed, Calls
  <1>2. fp.curr_clust \in Nat /\ TypeOK /\ Simple /\ fp \in Fil /\ reg \in Regs
    BY Typed DEF IInv, TypeOK
  <1>3. \A k \in 1 .. Len(chain) : chain'[k] = chain[k]
    <2>1. CASE Follow(fp.curr_clust) \/ Stretch(fp.curr_clust)
      BY <1>2, <2>1, Grows
    <2>2. CASE chain' = chain
      BY <2>2
    <2> QED
      BY <2>1, <2>2 DEF Walk, Full, Breaks
  <1>4. /\ fp'.open /\ fp'.fsize = fp.fsize /\ fp'.curr_sect = fp.curr_sect
    <2>1. fp' = fp \/ fp' = Advance([fp EXCEPT !.curr_clust = @ + 1], Cluster)
      BY DEF Walk, Abort
    <2> QED
      BY <1>1, <1>2, <2>1 DEF Advance, Fil
  <1>5. /\ reg'.op = "seek" /\ reg'.from = reg.from /\ reg'.wbuff = reg.wbuff
        /\ reg'.rbuff = reg.rbuff
    <2>1. reg' = [reg EXCEPT !.todo = @ - Cluster] \/ reg' = [reg EXCEPT !.todo = Cluster]
      BY DEF Walk, Abort
    <2> QED
      BY <1>1, <1>2, <2>1 DEF Regs
  <1>6. Size' = Size /\ FilePos' = FilePos
    BY <1>1, <1>4, <1>5 DEF Size, Writing, FilePos
  <1> QED
    BY <1>1, <1>3, <1>4, <1>5, <1>6, QuietStep

\* f_lseek has come to the cluster it looks for: nothing is seen of it yet.
LEMMA ArriveFile ==
    ASSUME IInv, IInv', sane, sane', Arrive PROVE FileStep
  <1>1. /\ pc = "walk" /\ fp.open /\ UNCHANGED <<disk, buffer, chain>> /\ pc' = "land"
        /\ reg.op = "seek" /\ fp \in Fil /\ reg \in Regs
    BY DEF Arrive, IInv, Closed, Calls, TypeOK
  <1>2. /\ fp'.open /\ fp'.fsize = fp.fsize /\ fp'.curr_sect = fp.curr_sect
    <2>1. \E c : fp' = Advance([fp EXCEPT !.csect = c], reg.todo)
      BY DEF Arrive
    <2> QED
      BY <1>1, <2>1 DEF Advance, Fil
  <1>3. /\ reg'.op = "seek" /\ reg'.from = reg.from /\ reg'.wbuff = reg.wbuff
        /\ reg'.rbuff = reg.rbuff
    <2>1. \E s : reg' = [reg EXCEPT !.nsect = s]
      BY DEF Arrive
    <2> QED
      BY <1>1, <2>1 DEF Regs
  <1>4. Size' = Size /\ FilePos' = FilePos
    BY <1>1, <1>2, <1>3 DEF Size, Writing, FilePos
  <1> QED
    BY <1>1, <1>2, <1>3, <1>4, QuietStep

\* A call that is refused, or that has nothing to do.
LEMMA AnswerFile ==
    ASSUME IInv, IInv', sane, sane', fp.open, pc = "idle", NEW op, NEW n, NEW result,
           Answer(op, n, result), UNCHANGED <<disk, chain, buffer, fp>>
    PROVE  FileStep
  <1>1. /\ pc' = "idle" /\ reg'.wbuff = <<>> /\ reg'.rbuff = <<>> /\ fp'.open
    BY DEF Answer, NoCall
  <1>2. reg.wbuff = <<>> /\ reg.rbuff = <<>>
    BY NothingGiven
  <1>3. Size' = Size /\ FilePos' = FilePos
    BY <1>1 DEF Size, FilePos
  <1> QED
    BY <1>1, <1>2, <1>3, QuietStep

\* f_read and f_write begin and end: the caller asks.
LEMMA AskStep ==
    ASSUME IInv, sane, sane', fp.open, fp'.open, pc \notin {"walk", "land"},
           pc' \notin {"walk", "land"}, Size' = Size, UNCHANGED <<disk, chain, buffer>>,
           fp'.curr_sect = fp.curr_sect, fp'.fptr = fp.fptr, fp'.open = fp.open,
           reg'.wbuff \in Seq(Values), reg'.rbuff = <<>>
    PROVE  FileStep
  <1>1. Size \in Nat /\ Size <= Len(chain) * Cluster /\ Len(chain) \in Nat
    BY SizeOf, Typed DEF IInv
  <1>2. PICK n \in Nat : n = Size
    BY <1>1
  <1>3. FileBytes = Through(n)
    BY <1>2, BytesOpen
  <1>4. Size' = n /\ n <= Len(chain) * Cluster
    BY <1>1, <1>2
  <1>5. FileBytes' = Through(n)'
    BY <1>4, BytesOpenPrimed
  <1>6. Through(n)' = Through(n)
    <2>1. \A k \in 1 .. Len(chain) : chain'[k] = chain[k]
      OBVIOUS
    <2> QED
      BY <1>1, <1>4, <2>1, QuietThrough
  <1>7. FilePos' = FilePos
    BY DEF FilePos
  <1> QED
    BY <1>3, <1>5, <1>6, <1>7, Asks

\* f_read begins: the caller asks for bytes.
LEMMA f_readFile ==
    ASSUME IInv, IInv', sane, sane', pc = "idle", NEW n \in Sizes, f_read(n) PROVE FileStep
  <1>1. fp.open /\ UNCHANGED <<disk, entry, chain, buffer>>
    BY DEF f_read
  <1>2. ASSUME NEW result, Refuse("read", n, result) PROVE FileStep
    BY <1>1, <1>2, AnswerFile DEF Refuse
  <1>3. ASSUME Begin("read", "loop", [NoCall EXCEPT !.todo = Clipped(n), !.n = n]),
               UNCHANGED <<fp, answer>>
        PROVE  FileStep
    <2>1. pc' = "loop" /\ reg'.op = "read" /\ reg'.wbuff = <<>> /\ reg'.rbuff = <<>>
      BY <1>3 DEF Begin, NoCall
    <2>2. Size' = Size
      BY <1>1, <1>3, <2>1 DEF Size, Writing
    <2>3. <<>> \in Seq(Values)
      OBVIOUS
    <2> QED
      BY <1>1, <1>3, <2>1, <2>2, <2>3, AskStep
  <1>4. CASE fp.error
    BY <1>2, <1>4 DEF f_read
  <1>5. CASE ~fp.error /\ "read" \notin fp.mode
    BY <1>2, <1>5 DEF f_read
  <1>6. CASE ~fp.error /\ "read" \in fp.mode
    BY <1>3, <1>6 DEF f_read
  <1> QED
    BY <1>4, <1>5, <1>6

\* f_write begins: the caller gives bytes.
LEMMA f_writeFile ==
    ASSUME IInv, IInv', sane, sane', pc = "idle", NEW n \in Sizes, f_write(n) PROVE FileStep
  <1>1. fp.open /\ UNCHANGED <<disk, entry, chain, buffer>>
    BY DEF f_write
  <1>2. ASSUME NEW result, Refuse("write", n, result) PROVE FileStep
    BY <1>1, <1>2, AnswerFile DEF Refuse
  <1>3. ASSUME ~fp.error,
               Begin("write", "loop", [NoCall EXCEPT !.todo = n, !.n = n, !.wbuff = Bytes(n)]),
               UNCHANGED <<fp, answer>>
        PROVE  FileStep
    <2>1. pc' = "loop" /\ reg'.wbuff = Bytes(n) /\ reg'.rbuff = <<>>
      BY <1>3 DEF Begin, NoCall
    <2>2. Size' = Size
      <3>1. ~(fp.fptr > fp.fsize)
        <4>1. fp.fptr \in Nat /\ fp.fsize \in Nat /\ fp.fptr <= fp.fsize
          BY <1>1, <1>3, RestAtMost
        <4> QED
          BY <4>1
      <3> QED
        BY <1>1, <1>3, <3>1 DEF Size
    <2>3. reg'.wbuff \in Seq(Values)
      BY DEF IInv, TypeOK, Regs
    <2> QED
      BY <1>1, <1>3, <2>1, <2>2, <2>3, AskStep
  <1>4. CASE fp.error
    BY <1>2, <1>4 DEF f_write
  <1>5. CASE ~fp.error /\ "write" \notin fp.mode
    BY <1>2, <1>5 DEF f_write
  <1>6. CASE ~fp.error /\ "write" \in fp.mode /\ TooLong(n)
    BY <1>2, <1>6 DEF f_write
  <1>7. CASE ~fp.error /\ "write" \in fp.mode /\ ~TooLong(n)
    BY <1>3, <1>7 DEF f_write
  <1> QED
    BY <1>4, <1>5, <1>6, <1>7

\* f_read or f_write ends.
LEMMA EndLoopFile ==
    ASSUME IInv, IInv', sane, sane', EndLoop PROVE FileStep
  <1>1. /\ pc \in {"loop", "written"} /\ pc' = "idle" /\ UNCHANGED <<disk, chain, buffer>>
        /\ reg'.wbuff = <<>> /\ reg'.rbuff = <<>> /\ fp.open /\ fp \in Fil
    BY DEF EndLoop, Return, NoCall, IInv, TypeOK, Closed
  <1>2. /\ fp'.open /\ fp'.fptr = fp.fptr /\ fp'.curr_sect = fp.curr_sect /\ fp'.open = fp.open
        /\ fp'.fsize = IF Writing /\ fp.fptr > fp.fsize THEN fp.fptr ELSE fp.fsize
    <2>1. CASE Writing /\ fp.fptr > fp.fsize
      <3>1. fp' = [fp EXCEPT !.fsize = fp.fptr, !.written = TRUE]
        BY <1>1, <2>1 DEF EndLoop, Longer, Fil
      <3> QED
        BY <1>1, <2>1, <3>1 DEF Fil
    <2>2. CASE Writing /\ ~(fp.fptr > fp.fsize)
      <3>1. fp' = [fp EXCEPT !.written = TRUE]
        BY <1>1, <2>2 DEF EndLoop, Longer, Fil
      <3> QED
        BY <1>1, <2>2, <3>1 DEF Fil
    <2>3. CASE ~Writing
      BY <1>1, <2>3 DEF EndLoop
    <2> QED
      BY <2>1, <2>2, <2>3
  <1>3. Size' = Size
    BY <1>1, <1>2 DEF Size
  <1>4. <<>> \in Seq(Values)
    OBVIOUS
  <1> QED
    BY <1>1, <1>2, <1>3, <1>4, AskStep

-----------------------------------------------------------------------------
(* f_open, f_sync and f_close.                                             *)

\* What a file object with a clean buffer shows is what the card has.
LEMMA CleanThrough ==
    ASSUME IInv, sane, ~fp.dirty, ~InLoop, NEW n \in Nat
    PROVE  OnCard(n) = Through(n)
  <1>1. ASSUME NEW i \in 1 .. n
        PROVE  disk[Where(i - 1)][(i - 1) % SS]
                 = IF Where(i - 1) = fp.curr_sect THEN buffer[(i - 1) % SS]
                                                  ELSE disk[Where(i - 1)][(i - 1) % SS]
    <2> SUFFICES ASSUME Where(i - 1) = fp.curr_sect PROVE disk[fp.curr_sect] = buffer
      BY Zenon
    <2>1. fp.curr_sect # NoSector
      BY TupleNotEmpty DEF Where, NoSector
    <2>2. ~Fresh
      BY DEF Fresh
    <2> QED
      BY <2>1, <2>2 DEF Coherent, IInv
  <1> QED
    BY <1>1 DEF OnCard, Through

\* f_open: the file has the bytes that the entry and the card have.
LEMMA f_openFile ==
    ASSUME IInv, IInv', sane, sane', pc = "idle", NEW mode \in Modes, f_open(mode)
    PROVE  FileStep
  <1>1. /\ fp = NoFil /\ fp' = [NoFil EXCEPT !.open = TRUE, !.mode = mode, !.fsize = entry.size]
        /\ chain' = (IF entry.used THEN chain ELSE <<>>)
        /\ reg' = [NoCall EXCEPT !.calls = reg.calls + 1]
        /\ pc' = "idle" /\ UNCHANGED <<disk, entry, buffer>>
    BY DEF f_open, IInv, Closed
  <1>2. /\ fp.open = FALSE /\ fp'.open = TRUE /\ fp'.fsize = entry.size /\ fp'.fptr = 0
        /\ fp'.curr_sect = NoSector
    BY <1>1 DEF NoFil
  <1>3. Size = entry.size /\ Size' = entry.size
    BY <1>1, <1>2 DEF Size
  <1>4. entry.size \in Nat /\ entry.used \in BOOLEAN
    BY Numbers DEF IInv, TypeOK
  <1>5. PICK n \in Nat : n = entry.size
    BY <1>4
  <1>6. FileBytes = OnCard(n)
    BY <1>2, <1>3, <1>5 DEF FileBytes
  <1>7. FileBytes' = Through(n)'
    BY <1>2, <1>3, <1>5, BytesOpenPrimed
  <1>8. Through(n)' = OnCard(n)
    <2>1. ASSUME NEW i \in 1 .. n PROVE Where(i - 1)' = Where(i - 1) /\ Where(i - 1)' # NoSector
      <3>1. chain' = chain
        <4>1. entry.used
          <5>1. ~entry.used => n = 0
            BY <1>2, <1>5 DEF IInv, LongEnough
          <5> QED
            BY <1>4, <5>1
        <4> QED
          BY <1>1, <4>1
      <3> QED
        BY <3>1, TupleNotEmpty DEF Where, NoSector, Cluster
    <2>2. Through(n)' = [i \in 1 .. n |-> disk[Where(i - 1)][(i - 1) % SS]]
      BY <1>1, <1>2, <2>1 DEF Through
    <2> QED
      BY <2>2 DEF OnCard
  <1>9. reg'.wbuff = reg.wbuff /\ reg'.rbuff = reg.rbuff
    BY <1>1, NothingGiven DEF NoCall
  <1>10. FilePos' = 0
    BY <1>1, <1>2 DEF FilePos
  <1> QED
    BY <1>2, <1>6, <1>7, <1>8, <1>9, <1>10, OpensOrCloses

\* The file object goes, when the entry and the card have the file.
LEMMA CloseStep ==
    ASSUME IInv, sane, sane', fp.open, ~fp.dirty, ~InLoop, ~Writing \/ pc = "idle",
           fp' = NoFil, pc' = "idle", entry'.size = fp.fsize,
           UNCHANGED <<disk, chain>>,
           reg'.wbuff = reg.wbuff, reg'.rbuff = reg.rbuff
    PROVE  FileStep
  <1>1. Size = fp.fsize /\ fp.fsize \in Nat
    BY Typed DEF Size, IInv
  <1>2. fp'.open = FALSE /\ fp'.fptr = 0
    BY DEF NoFil
  <1>3. PICK n \in Nat : n = fp.fsize
    BY <1>1
  <1>4. FileBytes = Through(n)
    BY <1>1, <1>3, BytesOpen
  <1>5. FileBytes' = OnCard(n)'
    <2>1. Size' = n
      BY <1>2, <1>3 DEF Size
    <2>2. FileBytes' = OnCard(Size)'
      BY <1>2 DEF FileBytes
    <2> QED
      BY <2>1, <2>2 DEF OnCard
  <1>6. OnCard(n)' = OnCard(n)
    BY DEF OnCard, Where, Cluster
  <1>7. OnCard(n) = Through(n)
    BY CleanThrough
  <1>8. FilePos' = 0
    BY <1>2 DEF FilePos
  <1>9. fp.open = TRUE
    BY DEF IInv, TypeOK, Fil
  <1> QED
    BY <1>2, <1>4, <1>5, <1>6, <1>7, <1>8, <1>9, OpensOrCloses

\* f_sync and f_close begin, or have nothing to write.
LEMMA SyncsFile ==
    ASSUME IInv, IInv', sane, sane', pc = "idle", NEW op \in {"sync", "close"}, Syncs(op)
    PROVE  FileStep
  <1>1. fp.open /\ UNCHANGED <<disk, entry, chain, buffer, sane>>
    BY DEF Syncs
  <1>2. CASE fp.written
    <2>1. /\ pc' = "sync" /\ fp' = fp /\ reg'.op = op /\ reg'.wbuff = <<>> /\ reg'.rbuff = <<>>
      BY <1>2 DEF Syncs, Begin, NoCall
    <2>2. reg.wbuff = <<>> /\ reg.rbuff = <<>>
      BY NothingGiven
    <2>3. Size' = Size /\ FilePos' = FilePos
      BY <1>1, <2>1 DEF Size, Writing, FilePos
    <2> QED
      BY <1>1, <2>1, <2>2, <2>3, QuietStep
  <1>3. CASE ~fp.written
    <2>1. fp' = Closes(op, fp) /\ Answer(op, 0, "ok")
      BY <1>3 DEF Syncs
    <2>2. CASE op = "sync"
      <3>1. fp' = fp
        BY <2>1, <2>2 DEF Closes
      <3> QED
        BY <1>1, <2>1, <3>1, AnswerFile
    <2>3. CASE op = "close"
      <3>1. fp' = NoFil
        BY <2>1, <2>3 DEF Closes
      <3>2. ~fp.dirty /\ entry.size = fp.fsize
        BY <1>1, <1>3 DEF IInv, Marked
      <3>3. ~InLoop /\ pc' = "idle" /\ reg'.wbuff = reg.wbuff /\ reg'.rbuff = reg.rbuff
        BY <2>1, NothingGiven DEF InLoop, Answer, NoCall
      <3> QED
        BY <1>1, <3>1, <3>2, <3>3, CloseStep
    <2> QED
      BY <2>2, <2>3
  <1> QED
    BY <1>2, <1>3

\* f_sync writes the entry; f_close ends.
LEMMA SyncEntryFile ==
    ASSUME IInv, IInv', sane, sane', SyncEntry PROVE FileStep
  <1>1. /\ pc = "sync" /\ ~fp.dirty /\ UNCHANGED <<disk, chain, buffer>> /\ fp.open
        /\ ~Writing /\ ~InLoop /\ reg.wbuff = <<>> /\ reg.rbuff = <<>> /\ fp \in Fil
    BY NothingGiven DEF SyncEntry, IInv, Closed, Calls, Writing, InLoop, TypeOK
  <1>2. /\ pc' = "idle" /\ reg'.wbuff = <<>> /\ reg'.rbuff = <<>>
    BY DEF SyncEntry, Return, NoCall
  <1>3. ASSUME entry' = EntryOf(fp), fp' = NoFil PROVE FileStep
    <2>1. entry'.size = fp.fsize
      BY <1>3 DEF EntryOf
    <2> QED
      BY <1>1, <1>2, <1>3, <2>1, CloseStep
  <1>4. ASSUME fp' = [fp EXCEPT !.written = FALSE] PROVE FileStep
    <2>1. /\ fp'.open /\ fp'.fptr = fp.fptr /\ fp'.fsize = fp.fsize
          /\ fp'.curr_sect = fp.curr_sect
      BY <1>1, <1>4 DEF Fil
    <2>2. Size' = Size /\ FilePos' = FilePos
      BY <1>1, <1>2, <2>1 DEF Size, FilePos
    <2> QED
      BY <1>1, <1>2, <2>1, <2>2, QuietStep
  <1>5. ASSUME Return("error"), fp' = fp PROVE FileStep
    BY <1>1, <1>5, SyncFailsFile
  <1> QED
    BY <1>3, <1>4, <1>5 DEF SyncEntry, Closes

-----------------------------------------------------------------------------
(* Sequences.                                                              *)

-----------------------------------------------------------------------------
(* Pieces of sequences.                                                    *)

\* A piece of a sequence.
LEMMA Piece ==
    ASSUME NEW S, NEW b \in Seq(S), NEW p \in Nat, NEW k \in Nat, p + k <= Len(b)
    PROVE  /\ SubSeq(b, p + 1, p + k) \in Seq(S) /\ Len(SubSeq(b, p + 1, p + k)) = k
           /\ \A i \in 1 .. k : SubSeq(b, p + 1, p + k)[i] = b[p + i]
  <1> DEFINE m == p + 1
             n == p + k
             c == SubSeq(b, m, n)
  <1>1. m \in Int /\ n \in Int /\ n - m + 1 = k /\ (IF m <= n THEN n - m + 1 ELSE 0) = k
    OBVIOUS
  <1>2. \A i \in m .. n : b[i] \in S
    <2> TAKE i \in m .. n
    <2>1. i \in 1 .. Len(b)
      OBVIOUS
    <2> QED
      BY <2>1, ElementOfSeq
  <1>3. \A i \in 1 .. k : m + i - 1 = p + i
    OBVIOUS
  <1> HIDE DEF m, n
  <1>4. /\ c \in Seq(S) /\ Len(c) = (IF m <= n THEN n - m + 1 ELSE 0)
        /\ \A i \in 1 .. n - m + 1 : c[i] = b[m + i - 1]
    BY <1>1, <1>2, SubSeqProperties
  <1>5. /\ c \in Seq(S) /\ Len(c) = k /\ \A i \in 1 .. k : c[i] = b[m + i - 1]
    BY <1>1, <1>4
  <1>6. \A i \in 1 .. k : c[i] = b[p + i]
    BY <1>3, <1>5
  <1> QED
    BY <1>5, <1>6 DEF m, n

\* What makes a sequence a piece of another ...
LEMMA PieceIs ==
    ASSUME NEW S, NEW b \in Seq(S), NEW p \in Nat, NEW k \in Nat, p + k <= Len(b),
           NEW c \in Seq(S), Len(c) = k, \A i \in 1 .. k : c[i] = b[p + i]
    PROVE  c = SubSeq(b, p + 1, p + k)
  <1> DEFINE d == SubSeq(b, p + 1, p + k)
  <1>1. d \in Seq(S) /\ Len(d) = k /\ \A i \in 1 .. k : d[i] = b[p + i]
    BY Piece
  <1> HIDE DEF d
  <1>2. c = d
    BY <1>1, SeqEqual
  <1> QED
    BY <1>2 DEF d

\* ... the first piece of another ...
LEMMA StartIs ==
    ASSUME NEW S, NEW b \in Seq(S), NEW k \in Nat, k <= Len(b),
           NEW c \in Seq(S), Len(c) = k, \A i \in 1 .. k : c[i] = b[i]
    PROVE  c = SubSeq(b, 1, k)
  <1>1. 0 \in Nat /\ 0 + k <= Len(b) /\ 0 + 1 = 1 /\ 0 + k = k /\ \A i \in 1 .. k : 0 + i = i
    OBVIOUS
  <1>2. \A i \in 1 .. k : c[i] = b[0 + i]
    BY <1>1
  <1>3. c = SubSeq(b, 0 + 1, 0 + k)
    BY <1>1, <1>2, PieceIs
  <1> QED
    BY <1>1, <1>3

\* ... a prefix of another.
LEMMA PrefixIs ==
    ASSUME NEW b, NEW c, Len(b) <= Len(c), SubSeq(b, 1, Len(b)) = SubSeq(c, 1, Len(b))
    PROVE  IsPrefix(b, c)
  BY Zenon DEF IsPrefix

\* The whole of a sequence is a piece of it.
LEMMA WholeIs ==
    ASSUME NEW S, NEW b \in Seq(S), NEW k \in Nat, Len(b) = k
    PROVE  SubSeq(b, 1, k) = b
  <1>1. k <= Len(b)
    OBVIOUS
  <1> QED
    BY <1>1, StartIs

\* A sequence that a longer one begins with.
LEMMA StartsLike ==
    ASSUME NEW S, NEW b \in Seq(S), NEW c \in Seq(S), NEW k \in Nat, Len(b) = k, k <= Len(c),
           \A i \in 1 .. k : c[i] = b[i]
    PROVE  IsPrefix(b, c)
  <1>1. b = SubSeq(c, 1, k)
    <2>1. \A i \in 1 .. k : b[i] = c[i]
      OBVIOUS
    <2> QED
      BY <2>1, StartIs
  <1>2. SubSeq(b, 1, k) = b
    BY WholeIs
  <1>3. SubSeq(b, 1, Len(b)) = SubSeq(c, 1, Len(b)) /\ Len(b) <= Len(c)
    BY <1>1, <1>2
  <1> QED
    BY <1>3, PrefixIs

\* Three pieces one after the other.
LEMMA Glued ==
    ASSUME NEW S, NEW x \in Seq(S), NEW y \in Seq(S), NEW z \in Seq(S), NEW v, v = x \o y \o z
    PROVE  /\ v \in Seq(S) /\ Len(v) = Len(x) + Len(y) + Len(z)
           /\ \A i \in 1 .. Len(x) : v[i] = x[i]
           /\ \A i \in 1 .. Len(y) : v[Len(x) + i] = y[i]
           /\ \A i \in 1 .. Len(z) : v[Len(x) + Len(y) + i] = z[i]
  <1> PICK p \in Nat, k \in Nat, l \in Nat : Len(x) = p /\ Len(y) = k /\ Len(z) = l
    BY LenProperties
  <1> DEFINE u == x \o y
             q == p + k
  <1>1. /\ u \in Seq(S) /\ Len(u) = p + k
        /\ \A i \in 1 .. p + k : u[i] = IF i <= p THEN x[i] ELSE y[i - p]
    <2>1. /\ u \in Seq(S) /\ Len(u) = Len(x) + Len(y)
          /\ \A i \in 1 .. Len(x) + Len(y) : u[i] = IF i <= Len(x) THEN x[i] ELSE y[i - Len(x)]
      BY ConcatProperties
    <2> QED
      BY <2>1, Zenon
  <1>v. v = u \o z
    OBVIOUS
  <1> HIDE DEF u
  <1>2. q \in Nat /\ u \in Seq(S) /\ Len(u) = q
    BY <1>1
  <1> HIDE DEF q
  <1>3. /\ v \in Seq(S) /\ Len(v) = q + l
        /\ \A i \in 1 .. q + l : v[i] = IF i <= q THEN u[i] ELSE z[i - q]
    <2>1. /\ v \in Seq(S) /\ Len(v) = Len(u) + Len(z)
          /\ \A i \in 1 .. Len(u) + Len(z) : v[i] = IF i <= Len(u) THEN u[i] ELSE z[i - Len(u)]
      <3>1. u \in Seq(S) /\ z \in Seq(S)
        BY <1>1
      <3> QED
        BY <3>1, <1>v, ConcatProperties
    <2> QED
      BY <1>2, <2>1, Zenon
  <1>4. \A i \in 1 .. p : v[i] = x[i]
    <2> TAKE i \in 1 .. p
    <2>1. i \in 1 .. q + l /\ i <= q /\ i \in 1 .. p + k /\ i <= p
      BY <1>2 DEF q
    <2> QED
      BY <1>1, <1>3, <2>1, Zenon
  <1>5. \A i \in 1 .. k : v[p + i] = y[i]
    <2> TAKE i \in 1 .. k
    <2> DEFINE j == p + i
    <2>1. j \in 1 .. q + l /\ j <= q /\ j \in 1 .. p + k /\ ~(j <= p) /\ j - p = i
      BY <1>2 DEF q
    <2> HIDE DEF j
    <2>2. v[j] = y[i]
      BY <1>1, <1>3, <2>1, Zenon
    <2> QED
      BY <2>2 DEF j
  <1>6. \A i \in 1 .. l : v[q + i] = z[i]
    <2> TAKE i \in 1 .. l
    <2> DEFINE j == q + i
    <2>1. j \in 1 .. q + l /\ ~(j <= q) /\ j - q = i
      BY <1>2
    <2> HIDE DEF j
    <2>2. v[j] = z[i]
      BY <1>3, <2>1, Zenon
    <2> QED
      BY <2>2 DEF j
  <1> QED
    BY <1>3, <1>4, <1>5, <1>6 DEF q

\* A sequence with the places after p taken from another one.
Patches(c, b, g, p, k) ==
    /\ Len(c) = IF p + k > Len(b) THEN p + k ELSE Len(b)
    /\ \A i \in 1 .. Len(c) : c[i] = IF i > p /\ i <= p + k THEN g[i - p] ELSE b[i]

\* A sequence that is patched is put together from three pieces.
LEMMA Patch ==
    ASSUME NEW S, NEW b \in Seq(S), NEW g \in Seq(S), NEW p \in Nat, p <= Len(b),
           NEW k \in 1 .. Len(g), NEW c \in Seq(S), Patches(c, b, g, p, k)
    PROVE  c = SubSeq(b, 1, p) \o SubSeq(g, 1, k) \o SubSeq(b, p + k + 1, Len(b))
  <1>p. /\ Len(c) = IF p + k > Len(b) THEN p + k ELSE Len(b)
        /\ \A i \in 1 .. Len(c) : c[i] = IF i > p /\ i <= p + k THEN g[i - p] ELSE b[i]
    BY DEF Patches
  <1> DEFINE x == SubSeq(b, 1, p)
             y == SubSeq(g, 1, k)
             z == SubSeq(b, p + k + 1, Len(b))
             n == Len(b)
             l == IF p + k > n THEN 0 ELSE n - (p + k)
  <1>0. n \in Nat /\ k \in Nat /\ k > 0 /\ l \in Nat /\ Len(g) \in Nat /\ k <= Len(g)
    OBVIOUS
  <1>1. x \in Seq(S) /\ Len(x) = p /\ \A i \in 1 .. p : x[i] = b[i]
    <2>1. 0 \in Nat /\ 0 + p <= Len(b) /\ 0 + 1 = 1 /\ 0 + p = p /\ \A i \in 1 .. p : 0 + i = i
      OBVIOUS
    <2>2. /\ SubSeq(b, 0 + 1, 0 + p) \in Seq(S) /\ Len(SubSeq(b, 0 + 1, 0 + p)) = p
          /\ \A i \in 1 .. p : SubSeq(b, 0 + 1, 0 + p)[i] = b[0 + i]
      BY <2>1, Piece
    <2> QED
      BY <2>1, <2>2
  <1>2. y \in Seq(S) /\ Len(y) = k /\ \A i \in 1 .. k : y[i] = g[i]
    <2>1. 0 \in Nat /\ 0 + k <= Len(g) /\ 0 + 1 = 1 /\ 0 + k = k /\ \A i \in 1 .. k : 0 + i = i
      BY <1>0
    <2>2. /\ SubSeq(g, 0 + 1, 0 + k) \in Seq(S) /\ Len(SubSeq(g, 0 + 1, 0 + k)) = k
          /\ \A i \in 1 .. k : SubSeq(g, 0 + 1, 0 + k)[i] = g[0 + i]
      BY <1>0, <2>1, Piece
    <2> QED
      BY <2>1, <2>2
  <1>3. z \in Seq(S) /\ Len(z) = l /\ \A i \in 1 .. l : z[i] = b[p + k + i]
    <2>1. CASE p + k > n
      <3>1. z = <<>>
        BY <1>0, <2>1, SubSeqEmpty
      <3>2. l = 0
        BY <2>1
      <3> HIDE DEF l, z
      <3> QED
        BY <3>1, <3>2
    <2>2. CASE ~(p + k > n)
      <3> DEFINE q == p + k
      <3>0. q \in Nat /\ q <= n /\ l = n - q
        BY <1>0, <2>2
      <3> HIDE DEF q, l
      <3>4. q \in Nat /\ l \in Nat /\ q + l <= n /\ q + l = n
        BY <1>0, <3>0
      <3>1. q \in Nat /\ l \in Nat /\ q + l <= Len(b) /\ q + l = Len(b)
        BY <3>4
      <3> HIDE DEF n
      <3>2. /\ SubSeq(b, q + 1, q + l) \in Seq(S) /\ Len(SubSeq(b, q + 1, q + l)) = l
            /\ \A i \in 1 .. l : SubSeq(b, q + 1, q + l)[i] = b[q + i]
        BY <3>1, Piece
      <3>3. z = SubSeq(b, q + 1, q + l)
        BY <3>1 DEF q
      <3> HIDE DEF z
      <3> QED
        BY <3>2, <3>3 DEF q
    <2> QED
      BY <2>1, <2>2
  <1> HIDE DEF x, y, z
  <1> DEFINE v == x \o y \o z
  <1>4. l \in Nat /\ p \in Nat /\ k \in Nat
    BY <1>0
  <1>6. Len(c) = p + k + l
    <2>1. CASE p + k > n
      <3>1. l = 0 /\ Len(c) = p + k
        BY <1>p, <2>1
      <3> HIDE DEF l, n
      <3>2. p + k + 0 = p + k
        BY <1>4
      <3> QED
        BY <3>1, <3>2, Zenon
    <2>2. CASE ~(p + k > n)
      <3>1. l = n - (p + k) /\ Len(c) = n
        BY <1>p, <2>2
      <3> HIDE DEF l, n
      <3> QED
        BY <1>0, <3>1
    <2> QED
      BY <2>1, <2>2
  <1> HIDE DEF l
  <1>5. /\ v \in Seq(S) /\ Len(v) = p + k + l
        /\ \A i \in 1 .. p : v[i] = x[i]
        /\ \A i \in 1 .. k : v[p + i] = y[i]
        /\ \A i \in 1 .. l : v[p + k + i] = z[i]
    <2>1. x \in Seq(S) /\ y \in Seq(S) /\ z \in Seq(S) /\ Len(x) = p /\ Len(y) = k /\ Len(z) = l
      BY <1>1, <1>2, <1>3
    <2>2. v = x \o y \o z
      OBVIOUS
    <2> HIDE DEF v
    <2>3. x \in Seq(S) /\ y \in Seq(S) /\ z \in Seq(S)
      BY <2>1
    <2>4. /\ v \in Seq(S) /\ Len(v) = Len(x) + Len(y) + Len(z)
          /\ \A i \in 1 .. Len(x) : v[i] = x[i]
          /\ \A i \in 1 .. Len(y) : v[Len(x) + i] = y[i]
          /\ \A i \in 1 .. Len(z) : v[Len(x) + Len(y) + i] = z[i]
      BY <2>2, <2>3, Glued
    <2> QED
      BY <2>1, <2>4, Zenon
  <1> HIDE DEF v
  <1>7. ASSUME NEW i \in 1 .. Len(c) PROVE c[i] = v[i]
    <2>1. i \in 1 .. p + k + l /\ c[i] = IF i > p /\ i <= p + k THEN g[i - p] ELSE b[i]
      BY <1>p, <1>6, Zenon
    <2>2. CASE i <= p
      <3>1. i \in 1 .. p /\ ~(i > p)
        BY <2>1, <2>2
      <3>2. v[i] = x[i] /\ x[i] = b[i]
        BY <1>1, <1>5, <3>1, Zenon
      <3>3. c[i] = b[i]
        BY <2>1, <3>1, Zenon
      <3> QED
        BY <3>2, <3>3
    <2>3. CASE i > p /\ i <= p + k
      <3> DEFINE e == i - p
      <3>1. e \in 1 .. k /\ p + e = i
        BY <1>4, <2>3
      <3>2. c[i] = g[e]
        BY <2>1, <2>3
      <3> HIDE DEF e
      <3>3. v[p + e] = y[e] /\ y[e] = g[e]
        BY <1>2, <1>5, <3>1, Zenon
      <3> QED
        BY <3>1, <3>2, <3>3
    <2>4. CASE i > p + k
      <3> DEFINE e == i - (p + k)
      <3>1. e \in 1 .. l /\ p + k + e = i /\ ~(i <= p + k)
        BY <1>4, <2>1, <2>4
      <3> HIDE DEF e
      <3>2. v[p + k + e] = z[e] /\ z[e] = b[p + k + e]
        BY <1>3, <1>5, <3>1, Zenon
      <3>3. c[i] = b[i]
        BY <2>1, <3>1, Zenon
      <3> QED
        BY <3>1, <3>2, <3>3
    <2> QED
      BY <1>4, <2>2, <2>3, <2>4
  <1>8. c = v
    BY <1>5, <1>6, <1>7, SeqEqual
  <1> QED
    BY <1>8 DEF v, x, y, z

-----------------------------------------------------------------------------
(* f_lseek and f_truncate.                                                 *)

-----------------------------------------------------------------------------
(* f_lseek and f_truncate.                                                 *)

\* f_lseek begins, or fails.
LEMMA f_lseekFile ==
    ASSUME IInv, IInv', sane, sane', pc = "idle", NEW o \in Offsets, f_lseek(o)
    PROVE  FileStep
  <1>1. fp.open /\ UNCHANGED <<disk, entry, buffer>> /\ TypeOK /\ Simple /\ fp \in Fil
    BY DEF f_lseek, IInv, TypeOK
  <1>2. CASE fp.error
    <2>1. Answer("seek", o, "error") /\ UNCHANGED <<chain, fp, sane>>
      BY <1>2 DEF f_lseek, Refuse
    <2> QED
      BY <1>1, <2>1, AnswerFile
  <1>3. CASE ~fp.error
    <2> DEFINE ofs == Goal(o)
               top == [fp EXCEPT !.fptr = 0, !.csect = Top]
               call == [NoCall EXCEPT !.n = o]
    <2>1. ASSUME NEW l \in {"walk", "land"}, pc' = l, reg'.op = "seek", reg'.from = fp.fptr,
                 reg'.wbuff = <<>>, reg'.rbuff = <<>>,
                 fp'.open, fp'.fsize = fp.fsize, fp'.curr_sect = fp.curr_sect,
                 \A k \in 1 .. Len(chain) : chain'[k] = chain[k]
          PROVE  FileStep
      <3>2. reg.wbuff = <<>> /\ reg.rbuff = <<>>
        BY NothingGiven
      <3>3. Size' = Size /\ FilePos' = FilePos
        BY <1>1, <2>1 DEF Size, FilePos, Writing
      <3> QED
        BY <1>1, <2>1, <3>2, <3>3, QuietStep
    <2>3. ASSUME fp' = top, Begin("seek", "land", call),
                 \A k \in 1 .. Len(chain) : chain'[k] = chain[k]
          PROVE  FileStep
      <3>1. fp'.open /\ fp'.fsize = fp.fsize /\ fp'.curr_sect = fp.curr_sect
        BY <1>1, <2>3 DEF Fil
      <3>2. pc' = "land" /\ reg'.op = "seek" /\ reg'.from = fp.fptr
            /\ reg'.wbuff = <<>> /\ reg'.rbuff = <<>>
        BY <2>3 DEF Begin, NoCall
      <3> QED
        BY <2>1, <2>3, <3>1, <3>2
    <2>4. ASSUME fp' = [top EXCEPT !.fptr = StartOf(fp.fptr - 1)],
                 Begin("seek", "walk", [call EXCEPT !.todo = ofs - StartOf(fp.fptr - 1)]),
                 UNCHANGED chain
          PROVE  FileStep
      <3>1. fp'.open /\ fp'.fsize = fp.fsize /\ fp'.curr_sect = fp.curr_sect
        BY <1>1, <2>4 DEF Fil
      <3>2. pc' = "walk" /\ reg'.op = "seek" /\ reg'.from = fp.fptr
            /\ reg'.wbuff = <<>> /\ reg'.rbuff = <<>>
        BY <2>4 DEF Begin, NoCall
      <3> QED
        BY <2>1, <2>4, <3>1, <3>2
    <2>5. ASSUME Follow(0) \/ Stretch(0), fp' = [top EXCEPT !.curr_clust = 1],
                 Begin("seek", "walk", [call EXCEPT !.todo = ofs])
          PROVE  FileStep
      <3>1. fp'.open /\ fp'.fsize = fp.fsize /\ fp'.curr_sect = fp.curr_sect
        BY <1>1, <2>5 DEF Fil
      <3>2. \A k \in 1 .. Len(chain) : chain'[k] = chain[k]
        <4>1. 0 \in Nat
          OBVIOUS
        <4> QED
          BY <1>1, <2>5, <4>1, Grows
      <3>3. pc' = "walk" /\ reg'.op = "seek" /\ reg'.from = fp.fptr
            /\ reg'.wbuff = <<>> /\ reg'.rbuff = <<>>
        BY <2>5 DEF Begin, NoCall
      <3> QED
        BY <2>1, <2>5, <3>1, <3>2, <3>3
    <2>6. ASSUME fp' = top, Begin("seek", "land", call), UNCHANGED chain PROVE FileStep
      <3>1. \A k \in 1 .. Len(chain) : chain'[k] = chain[k]
        BY <2>6
      <3> QED
        BY <2>3, <2>6, <3>1
    <2> QED
      BY <1>3, <2>4, <2>5, <2>6 DEF f_lseek, Full
  <1> QED
    BY <1>2, <1>3

\* f_lseek has landed: the file is at least as long as its position.
LEMMA LandFile ==
    ASSUME IInv, IInv', sane, sane', Land PROVE FileStep
  <1>1. /\ pc = "land" /\ pc' = "idle" /\ UNCHANGED <<disk, chain, buffer>>
        /\ reg'.wbuff = <<>> /\ reg'.rbuff = <<>> /\ fp.open /\ ~fp.error
        /\ reg.op = "seek" /\ fp \in Fil /\ TypeOK /\ TypeOK'
    BY DEF Land, Return, NoCall, IInv, Closed, Calls, TypeOK
  <1>2. reg.wbuff = <<>> /\ reg.rbuff = <<>>
    BY <1>1, NothingGiven
  <1>3. /\ fp'.open = fp.open /\ fp'.fptr = fp.fptr /\ fp'.curr_sect = fp.curr_sect
        /\ fp'.fsize = IF fp.fptr > fp.fsize THEN fp.fptr ELSE fp.fsize
    <2>1. CASE fp.fptr > fp.fsize
      <3>1. fp' = [fp EXCEPT !.fsize = fp.fptr, !.written = TRUE]
        BY <2>1 DEF Land, Longer
      <3> QED
        BY <1>1, <2>1, <3>1 DEF Fil
    <2>2. CASE ~(fp.fptr > fp.fsize)
      BY <1>1, <2>2 DEF Land, Longer
    <2> QED
      BY <2>1, <2>2
  <1>4. /\ fp.fptr \in Nat /\ fp.fsize \in Nat /\ fp.fptr < Wrap /\ Wrap \in Nat
        /\ Len(chain) \in Nat
    BY <1>1, Typed
  <1>5. fp.fptr <= Len(chain) * Cluster /\ fp.fsize <= Len(chain) * Cluster
    BY <1>1, PlacedBound DEF IInv, Position, Landing, LongEnough
  <1>6. PICK a \in Nat : a = fp.fsize
    BY <1>4
  <1>7. PICK b \in Nat : b = IF fp.fptr > fp.fsize THEN fp.fptr ELSE fp.fsize
    BY <1>4
  <1>8. Size = a /\ Size' = b
    BY <1>1, <1>3, <1>6, <1>7 DEF Size, Writing
  <1>9. a <= b /\ a <= Len(chain) * Cluster /\ b <= Len(chain) * Cluster
    BY <1>4, <1>5, <1>6, <1>7
  <1>10. FileBytes = Through(a)
    BY <1>1, <1>8, BytesOpen
  <1>11. FileBytes' = Through(b)'
    BY <1>1, <1>3, <1>8, BytesOpenPrimed
  <1>12. Through(b)' = Through(b)
    <2>1. \A k \in 1 .. Len(chain) : chain'[k] = chain[k]
      BY <1>1
    <2> QED
      BY <1>1, <1>3, <1>4, <1>9, <2>1, QuietThrough
  <1>13. /\ Through(a) \in Seq(Values) /\ Len(Through(a)) = a
         /\ Through(b) \in Seq(Values) /\ Len(Through(b)) = b
    BY <1>1, <1>9, ThroughTyped
  <1>14. IsPrefix(Through(a), Through(b))
    <2>1. \A i \in 1 .. a : Through(b)[i] = Through(a)[i]
      <3>1. \A i \in 1 .. a : i \in 1 .. b
        BY <1>9
      <3> QED
        BY <3>1, ThroughIs
    <2> HIDE DEF Through
    <2> QED
      BY <1>9, <1>13, <2>1, StartsLike
  <1>15. FilePos' = fp.fptr /\ FilePos' \in 0 .. Wrap - 1
    BY <1>1, <1>3, <1>4 DEF FilePos
  <1>16. Len(FileBytes') = IF FilePos' > Len(FileBytes) THEN FilePos' ELSE Len(FileBytes)
    BY <1>6, <1>7, <1>10, <1>11, <1>12, <1>13, <1>15
  <1> QED
    BY <1>1, <1>2, <1>3, <1>10, <1>11, <1>12, <1>14, <1>15, <1>16, Seeks

\* What is left of the chain when f_truncate has cut it.
LEMMA CutChain ==
    ASSUME IInv, pc = "idle", fp.open, ~fp.error, chain' = CutAfter(Behind)
    PROVE  /\ Behind \in Nat /\ Behind <= Len(chain) /\ fp.fptr <= Behind * Cluster
           /\ \A k \in 1 .. Behind : chain'[k] = chain[k]
  <1>1. Placed /\ fp.fptr \in Nat /\ chain \in Seq(Clusters) /\ Len(chain) \in Nat
    BY RestAtMost DEF IInv, TypeOK
  <1>2. /\ Behind \in Nat /\ Behind <= Len(chain) /\ fp.fptr <= Behind * Cluster
    <2>1. CASE fp.fptr = 0
      <3>1. Behind = 0 /\ 0 * Cluster = 0
        BY <2>1, ClusterIs DEF Behind
      <3> QED
        BY <1>1, <2>1, <3>1
    <2>2. CASE fp.fptr # 0
      <3> DEFINE a == fp.fptr - 1
                 b == Behind
      <3>1. a \in Nat /\ fp.fptr = a + 1 /\ b = fp.curr_clust
        BY <1>1, <2>2 DEF Behind
      <3>2. b = Row(a) + 1 /\ b <= Len(chain)
        BY <1>1, <2>2, <3>1 DEF Placed
      <3> HIDE DEF a, b
      <3>3. Row(a) \in Nat
        BY <3>1, Terms
      <3>4. b \in Nat /\ Row(a) < b
        BY <3>2, <3>3
      <3>5. a < b * Cluster /\ b * Cluster \in Nat
        BY <3>1, <3>4, RowBound, ClusterIs
      <3>6. fp.fptr <= b * Cluster
        BY <3>1, <3>5
      <3> QED
        BY <3>1, <3>2, <3>4, <3>6 DEF b
    <2> QED
      BY <2>1, <2>2
  <1> DEFINE n == Behind
  <1>3. \A k \in 1 .. n : chain'[k] = chain[k]
    <2>1. chain' = SubSeq(chain, 1, n)
      BY DEF CutAfter
    <2>2. n \in Nat /\ n <= Len(chain)
      BY <1>2
    <2> HIDE DEF n
    <2>3. \A k \in 1 .. n : chain[k] \in Clusters
      BY <1>1, <2>2
    <2> QED
      BY <1>1, <2>1, <2>2, <2>3, SubSeqProperties
  <1> QED
    BY <1>2, <1>3

\* f_truncate: the file keeps the bytes before its position.
LEMMA f_truncateFile ==
    ASSUME IInv, IInv', sane, sane', pc = "idle", f_truncate
    PROVE  FileStep
  <1>1. fp.open /\ UNCHANGED <<disk, entry, buffer>> /\ fp \in Fil /\ TypeOK /\ TypeOK'
    BY DEF f_truncate, IInv, TypeOK
  <1>2. ASSUME NEW result, Refuse("truncate", 0, result), UNCHANGED chain PROVE FileStep
    BY <1>1, <1>2, AnswerFile DEF Refuse
  <1>3. ASSUME ~fp.error, fp.fsize > fp.fptr, chain' = CutAfter(Behind),
               fp' = [fp EXCEPT !.fsize = fp.fptr, !.written = TRUE], Answer("truncate", 0, "ok")
        PROVE  FileStep
    <2>1. /\ fp'.open = fp.open /\ fp'.fptr = fp.fptr /\ fp'.fsize = fp.fptr
          /\ fp'.curr_sect = fp.curr_sect
      BY <1>1, <1>3 DEF Fil
    <2>2. /\ pc' = "idle" /\ reg'.wbuff = <<>> /\ reg'.rbuff = <<>>
          /\ reg.wbuff = <<>> /\ reg.rbuff = <<>>
      BY <1>3, NothingGiven DEF Answer, NoCall
    <2>3. /\ Behind \in Nat /\ Behind <= Len(chain) /\ fp.fptr <= Behind * Cluster
          /\ \A k \in 1 .. Behind : chain'[k] = chain[k]
      BY <1>1, <1>3, CutChain
    <2>4. fp.fptr \in Nat /\ fp.fsize \in Nat /\ fp.fsize <= Len(chain) * Cluster
      BY <1>1, Typed DEF IInv, LongEnough
    <2>5. PICK a \in Nat, b \in Nat : a = fp.fptr /\ b = fp.fsize
      BY <2>4
    <2>6. Size = b /\ Size' = a /\ FilePos = a /\ FilePos' = a
      BY <1>1, <2>1, <2>2, <2>5 DEF Size, FilePos
    <2>7. FileBytes = Through(b)
      BY <1>1, <2>6, BytesOpen
    <2>8. FileBytes' = Through(a)'
      BY <1>1, <2>1, <2>6, BytesOpenPrimed
    <2>9. Through(a)' = Through(a)
      BY <1>1, <2>1, <2>3, <2>5, QuietThrough
    <2>10. a <= b /\ b <= Len(chain) * Cluster /\ a <= Len(chain) * Cluster
      <3> DEFINE y == Len(chain) * Cluster
      <3>1. b <= y /\ y \in Nat /\ a < b
        BY <1>1, <1>3, <2>4, <2>5, Typed, ClusterIs
      <3> HIDE DEF y
      <3>2. a <= b /\ b <= y /\ a <= y
        BY <3>1
      <3> QED
        BY <3>2 DEF y
    <2>11. /\ Through(a) \in Seq(Values) /\ Len(Through(a)) = a
           /\ Through(b) \in Seq(Values) /\ Len(Through(b)) = b
      BY <1>1, <2>10, ThroughTyped
    <2>12. \A i \in 1 .. a : Through(a)[i] = Through(b)[i]
      <3>1. \A i \in 1 .. a : i \in 1 .. b
        BY <2>10
      <3> QED
        BY <3>1, ThroughIs
    <2>13. Through(a) = SubSeq(Through(b), 1, a)
      <3> HIDE DEF Through
      <3> QED
        BY <2>10, <2>11, <2>12, StartIs
    <2> QED
      BY <1>1, <2>1, <2>2, <2>6, <2>7, <2>8, <2>9, <2>13, Cuts
  <1>4. ~(sane' = FALSE)
    OBVIOUS
  <1> QED
    BY <1>2, <1>3, <1>4 DEF f_truncate

-----------------------------------------------------------------------------
(* f_read moves bytes.                                                     *)

-----------------------------------------------------------------------------
(* f_read: the bytes at the position go to the caller.                     *)

\* The cluster the loop is in belongs to the chain.
LEMMA RowInside ==
    ASSUME TypeOK, NEW a \in Nat, fp.curr_clust = Row(a) + 1, fp.curr_clust \in 1 .. Len(chain)
    PROVE  Row(a) < Len(chain)
  <1>1. Row(a) \in Nat /\ Len(chain) \in Nat
    BY Terms, Typed
  <1> QED
    BY <1>1

\* The loop of f_read moves k bytes to the caller.
LEMMA TakeStep ==
    ASSUME IInv, IInv', sane, sane', InLoop, Reading,
           NEW k \in Nat, 0 < k, k <= reg.todo,
           NEW got \in Seq(Values), Len(got) = k, Moved(k, got),
           \A i \in 1 .. k : got[i] = ByteAt(fp.fptr + (i - 1)),
           UNCHANGED <<disk, chain, buffer, pc>>,
           fp'.open = fp.open, fp'.fptr = fp.fptr + k, fp'.fsize = fp.fsize,
           fp'.curr_sect = fp.curr_sect
    PROVE  FileStep
  <1>1. /\ fp.open /\ pc = "loop" /\ ~Writing /\ fp.fptr + reg.todo <= fp.fsize
        /\ reg.wbuff = <<>> /\ reg \in Regs /\ TypeOK
    BY InTheLoop DEF InLoop, Reading, Writing, IInv, TypeOK
  <1>2. /\ fp.fptr \in Nat /\ fp.fsize \in Nat /\ reg.todo \in Nat /\ Len(chain) \in Nat
        /\ fp.fsize <= Len(chain) * Cluster
    BY <1>1, Typed DEF IInv, LongEnough
  <1>3. PICK p \in Nat, n \in Nat : p = fp.fptr /\ n = fp.fsize
    BY <1>2
  <1>4. /\ reg' = [reg EXCEPT !.todo = reg.todo - k, !.done = reg.done + k,
                              !.rbuff = reg.rbuff \o got,
                              !.wbuff = SubSeq(reg.wbuff, k + 1, Len(reg.wbuff))]
    BY DEF Moved
  <1>5. /\ reg'.op = reg.op /\ reg'.rbuff = reg.rbuff \o got
        /\ reg'.wbuff = SubSeq(reg.wbuff, k + 1, Len(reg.wbuff))
    BY <1>1, <1>4 DEF Regs
  <1>6. reg'.wbuff = reg.wbuff
    <2>1. SubSeq(<<>>, k + 1, 0) = <<>>
      BY SubSeqEmpty
    <2> QED
      BY <1>1, <1>5, <2>1
  <1>7. Size = n /\ Size' = n /\ FilePos = p /\ FilePos' = p + k
    BY <1>1, <1>3, <1>5 DEF Size, FilePos, Writing
  <1>8. FileBytes = Through(n)
    BY <1>1, <1>7, BytesOpen
  <1>9. FileBytes' = Through(n)'
    BY <1>1, <1>7, BytesOpenPrimed
  <1>10. Through(n)' = Through(n)
    <2>1. \A c \in 1 .. Len(chain) : chain'[c] = chain[c]
      OBVIOUS
    <2> QED
      BY <1>2, <1>3, <2>1, QuietThrough
  <1>11. Through(n) \in Seq(Values) /\ Len(Through(n)) = n
    BY <1>1, <1>2, <1>3, ThroughTyped
  <1>12. p + k <= n /\ k \in 1 .. n - p
    <2> DEFINE t == reg.todo
    <2>1. t \in Nat /\ k <= t /\ p + t <= n
      BY <1>1, <1>2, <1>3
    <2> HIDE DEF t
    <2> QED
      BY <2>1
  <1>13. \A i \in 1 .. k : got[i] = Through(n)[p + i]
    <2> TAKE i \in 1 .. k
    <2>1. p + i \in 1 .. n /\ (p + i) - 1 = p + (i - 1)
      BY <1>12
    <2>2. Through(n)[p + i] = ByteAt((p + i) - 1)
      BY <2>1, ThroughIs
    <2> QED
      BY <1>3, <2>1, <2>2
  <1>14. got = SubSeq(Through(n), p + 1, p + k)
    <2> HIDE DEF Through
    <2> QED
      BY <1>11, <1>12, <1>13, PieceIs
  <1>15. k \in 1 .. Len(FileBytes) - FilePos
    BY <1>7, <1>8, <1>11, <1>12
  <1>16. reg'.rbuff = reg.rbuff \o SubSeq(FileBytes, FilePos + 1, FilePos + k)
    BY <1>5, <1>7, <1>8, <1>14
  <1>17. FileBytes' = FileBytes /\ FilePos' = FilePos + k
    BY <1>7, <1>8, <1>9, <1>10
  <1> QED
    BY <1>1, <1>6, <1>15, <1>16, <1>17, Takes

\* A whole sector that is read past the buffer is not newer in the buffer.
LEMMA ReadDirectFile ==
    ASSUME IInv, IInv', sane, sane', ReadDirect PROVE FileStep
  <1> DEFINE k == SS * Whole
             got == [i \in 1 .. k |->
                        disk[<<Here[1], fp.csect + (i - 1) \div SS>>][(i - 1) % SS]]
             c == fp.csect + Whole
             p == fp.fptr
  <1>1. /\ Direct /\ Reading /\ InLoop /\ UNCHANGED <<disk, entry, chain, buffer>>
        /\ fp' = Advance([fp EXCEPT !.csect = @ + Whole], SS * Whole) /\ Moved(k, got)
        /\ ~Overlaps /\ UNCHANGED pc /\ ~Writing /\ TypeOK
    BY DEF ReadDirect, Direct, Abort, Reading, Writing, IInv
  <1>2. /\ c \in 1 .. csize /\ k \in Nat /\ 0 < k /\ k <= reg.todo
        /\ fp.curr_clust = Row(p) + 1 /\ fp.curr_clust \in 1 .. Len(chain)
        /\ fp.csect = Col(p) /\ Whole \in Nat /\ p % SS = 0
    BY <1>1, DirectSpan
  <1>3. fp \in Fil /\ fp.dirty \in BOOLEAN /\ p \in Nat /\ SS \in Nat \ {0} /\ csize \in 1 .. 128
    BY <1>1, Typed DEF TypeOK, Fil
  <1>4. fp' = [fp EXCEPT !.csect = c, !.dirty = fp.dirty, !.fptr = (p + k) % Wrap]
    BY <1>1, <1>3 DEF Advance, Fil
  <1>5. /\ fp'.open = fp.open /\ fp'.fptr = p + k /\ fp'.fsize = fp.fsize
        /\ fp'.curr_sect = fp.curr_sect
    <2> HIDE DEF c, k
    <2> QED
      BY <1>1, <1>2, <1>3, <1>4, Advanced
  <1>6. ASSUME NEW i \in 1 .. k
        PROVE  /\ got[i] = ByteAt(p + (i - 1))
               /\ got[i] \in Values
    <2> DEFINE j == i - 1
               s == <<chain[fp.curr_clust], fp.csect + j \div SS>>
    <2>1. j \in Nat /\ j < SS * Whole /\ p + j \in Nat
      BY <1>2, <1>3
    <2>2. Col(p) + Whole <= csize
      BY <1>2, <1>3
    <2>3. /\ j \div SS \in 0 .. Whole - 1 /\ j % SS \in 0 .. SS - 1
          /\ Row(p + j) = Row(p) /\ Col(p + j) = Col(p) + j \div SS /\ (p + j) % SS = j % SS
      <3>1. /\ Whole \in Nat /\ j \in Nat /\ j < SS * Whole /\ Col(p) + Whole <= csize
            /\ p \in Nat /\ p % SS = 0
        BY <1>2, <1>3, <2>1, <2>2
      <3> HIDE DEF j, k, p
      <3> QED
        BY <3>1, SpanOf
    <2>4. Where(p + j) = s
      BY <1>2, <2>1, <2>3, WhereIs
    <2>5. s \in Span
      <3> DEFINE e == j \div SS
      <3>1. e \in 0 .. Whole - 1 /\ fp.csect \in Nat
        BY <1>1, <2>3, Typed
      <3> HIDE DEF e
      <3>2. fp.csect + e \in fp.csect .. fp.csect + Whole - 1
        BY <1>2, <3>1
      <3> QED
        BY <3>2 DEF Span, e
    <2>6. got[i] = disk[s][j % SS]
      BY <1>2 DEF Here
    <2>7. ByteAt(p + j) = disk[s][j % SS]
      <3>1. CASE s = fp.curr_sect
        <4>1. ~fp.dirty
          BY <1>1, <2>5, <3>1 DEF Overlaps
        <4>2. fp.curr_sect # NoSector
          BY <3>1, TupleNotEmpty DEF NoSector
        <4>3. buffer = disk[fp.curr_sect]
          BY <1>1, <4>1, <4>2 DEF IInv, Coherent, Fresh
        <4> QED
          BY <2>3, <2>4, <3>1, <4>3 DEF ByteAt
      <3>2. CASE s # fp.curr_sect
        BY <2>3, <2>4, <3>2 DEF ByteAt
      <3> QED
        BY <3>1, <3>2
    <2>8. ByteAt(p + j) \in Values
      <3>1. Row(p + j) < Len(chain)
        BY <1>1, <1>2, <1>3, <2>3, RowInside
      <3> QED
        BY <1>1, <2>1, <3>1, WhereTyped
    <2> QED
      BY <2>6, <2>7, <2>8
  <1>7. got \in Seq(Values) /\ Len(got) = k /\ \A i \in 1 .. k : got[i] = ByteAt(p + (i - 1))
    <2>1. got = [i \in 1 .. k |-> got[i]]
      OBVIOUS
    <2> HIDE DEF got, k
    <2>2. got \in [1 .. k -> Values]
      BY <1>6, <2>1
    <2> QED
      BY <1>2, <1>6, <2>2
  <1> HIDE DEF got, k, c
  <1> QED
    BY <1>1, <1>2, <1>5, <1>7, TakeStep

\* f_read copies out of the buffer.
LEMMA CopyOutFile ==
    ASSUME IInv, IInv', sane, sane', CopyOut PROVE FileStep
  <1> DEFINE got == [i \in 1 .. Part |-> buffer[(fp.fptr % SS) + i - 1]]
             k == Part
             p == fp.fptr
  <1>1. /\ Copying /\ Reading /\ ~Writing /\ fp' = Advance(Stepped, Part) /\ Moved(Part, got)
        /\ UNCHANGED <<disk, entry, chain, buffer, pc, answer, sane>> /\ InLoop /\ TypeOK
    BY DEF CopyOut, Copying, Reading, Writing, IInv
  <1>2. /\ k \in Nat /\ 0 < k /\ k <= reg.todo /\ (p % SS) + k <= SS /\ p % SS \in 0 .. SS - 1
        /\ fp.curr_clust = Row(p) + 1 /\ fp.curr_clust \in 1 .. Len(chain)
        /\ Stepped = [fp EXCEPT !.csect = Col(p) + 1] /\ Col(p) + 1 \in 1 .. csize
        /\ fp.curr_sect = Where(p)
    BY <1>1, CopySpan
  <1>3. fp \in Fil /\ fp.dirty \in BOOLEAN /\ p \in Nat /\ SS \in Nat \ {0}
    BY <1>1, Typed DEF TypeOK, Fil
  <1>4. /\ fp'.open = fp.open /\ fp'.fptr = p + k /\ fp'.fsize = fp.fsize
        /\ fp'.curr_sect = fp.curr_sect
    <2> DEFINE c == Col(p) + 1
    <2>1. fp' = [fp EXCEPT !.csect = c, !.dirty = fp.dirty, !.fptr = (p + k) % Wrap]
      BY <1>1, <1>2, <1>3 DEF Advance, Fil
    <2>2. c \in 1 .. csize
      BY <1>2
    <2> HIDE DEF c, k
    <2> QED
      BY <1>1, <1>2, <1>3, <2>1, <2>2, Advanced
  <1>5. ASSUME NEW i \in 1 .. k
        PROVE  got[i] = ByteAt(p + (i - 1)) /\ got[i] \in Values
    <2> DEFINE j == i - 1
               m == p % SS
    <2>1. j \in Nat /\ m + j < SS /\ p + j \in Nat /\ m + i - 1 = m + j
      <3>1. m \in Nat /\ m + k <= SS /\ k \in Nat /\ p \in Nat /\ i \in 1 .. k
        BY <1>2, <1>3
      <3> HIDE DEF m, p, k
      <3> QED
        BY <1>3, <3>1
    <2> HIDE DEF j
    <2>2. Row(p + j) = Row(p) /\ Col(p + j) = Col(p) /\ (p + j) % SS = m + j
      BY <1>3, <2>1, SameSector
    <2>3. Where(p + j) = fp.curr_sect
      BY <1>2, <1>3, <2>1, <2>2, WhereIs
    <2>4. ByteAt(p + j) = buffer[m + j]
      BY <2>2, <2>3 DEF ByteAt
    <2>5. got[i] = buffer[m + j]
      BY <2>1
    <2>6. Row(p + j) < Len(chain)
      BY <1>1, <1>2, <1>3, <2>2, RowInside
    <2>7. ByteAt(p + j) \in Values
      BY <1>1, <2>1, <2>6, WhereTyped
    <2> QED
      BY <2>4, <2>5, <2>7 DEF j
  <1>6. got \in Seq(Values) /\ Len(got) = k /\ \A i \in 1 .. k : got[i] = ByteAt(p + (i - 1))
    <2>1. got = [i \in 1 .. k |-> got[i]]
      OBVIOUS
    <2> HIDE DEF got, k
    <2>2. got \in [1 .. k -> Values]
      BY <1>5, <2>1
    <2> QED
      BY <1>2, <1>5, <2>2
  <1>7. Moved(k, got)
    BY <1>1
  <1> HIDE DEF got, k
  <1> QED
    BY <1>1, <1>2, <1>4, <1>6, <1>7, TakeStep

-----------------------------------------------------------------------------
(* f_write moves bytes.                                                    *)

-----------------------------------------------------------------------------
(* f_write: the bytes of the caller go to the position.                    *)

\* How long a file is that k bytes are written into.
LEMMA Spliced ==
    ASSUME NEW p \in Nat, NEW k \in Nat, NEW f \in Nat, 0 < k,
           NEW n \in Nat, n = IF p > f THEN p ELSE f,
           NEW m \in Nat, m = IF p + k > f THEN p + k ELSE f
    PROVE  /\ p <= n /\ p + k <= m /\ m = IF p + k > n THEN p + k ELSE n
           /\ \A i \in 1 .. m : (i > p /\ i <= p + k) \/ i \in 1 .. n
  OBVIOUS

\* The loop of f_write moves k bytes of the caller into the file.
LEMMA PutStep ==
    ASSUME IInv, IInv', sane, sane', InLoop, Writing,
           NEW k \in Nat, 0 < k, k <= reg.todo, Moved(k, <<>>),
           UNCHANGED <<chain, pc>>, Row(fp.fptr + (k - 1)) < Len(chain),
           \A j \in Nat : Row(j) < Len(chain) =>
               ByteAt(j)' = IF fp.fptr <= j /\ j < fp.fptr + k
                            THEN reg.wbuff[j - fp.fptr + 1] ELSE ByteAt(j),
           fp'.open = fp.open, fp'.fptr = fp.fptr + k, fp'.fsize = fp.fsize
    PROVE  FileStep
  <1>1. /\ fp.open /\ pc = "loop" /\ Len(reg.wbuff) = reg.todo /\ reg.rbuff = <<>>
        /\ reg \in Regs /\ TypeOK /\ reg.wbuff \in Seq(Values)
    BY InTheLoop DEF InLoop, IInv, TypeOK, Regs
  <1>2. fp.fptr \in Nat /\ fp.fsize \in Nat /\ reg.todo \in Nat /\ Len(chain) \in Nat
    BY <1>1, Typed
  <1>3. PICK p \in Nat, f \in Nat : p = fp.fptr /\ f = fp.fsize
    BY <1>2
  <1>4. /\ reg' = [reg EXCEPT !.todo = reg.todo - k, !.done = reg.done + k,
                              !.rbuff = reg.rbuff \o <<>>,
                              !.wbuff = SubSeq(reg.wbuff, k + 1, Len(reg.wbuff))]
    BY DEF Moved
  <1>5. /\ reg'.op = reg.op /\ reg'.rbuff = reg.rbuff
        /\ reg'.wbuff = SubSeq(reg.wbuff, k + 1, Len(reg.wbuff))
    <2>1. <<>> \o <<>> = <<>>
      OBVIOUS
    <2> QED
      BY <1>1, <1>4, <2>1 DEF Regs
  <1>6. PICK n \in Nat, m \in Nat : /\ n = IF p > f THEN p ELSE f
                                    /\ m = IF p + k > f THEN p + k ELSE f
    OBVIOUS
  <1>7. Size = n /\ Size' = m /\ FilePos = p /\ FilePos' = p + k
    BY <1>1, <1>3, <1>5, <1>6 DEF Size, FilePos, Writing
  <1>8. FileBytes = Through(n)
    BY <1>1, <1>7, BytesOpen
  <1>9. FileBytes' = Through(m)'
    BY <1>1, <1>7, BytesOpenPrimed
  <1>10. /\ p <= n /\ p + k <= m /\ m = IF p + k > n THEN p + k ELSE n
         /\ \A i \in 1 .. m : (i > p /\ i <= p + k) \/ i \in 1 .. n
    BY <1>6, Spliced
  <1>11. n <= Len(chain) * Cluster
    BY <1>1, <1>7, SizeOf
  <1>12. Through(n) \in Seq(Values) /\ Len(Through(n)) = n
    BY <1>1, <1>11, ThroughTyped
  <1>13. m <= Len(chain) * Cluster
    <2> DEFINE y == Len(chain) * Cluster
               j == p + (k - 1)
    <2>1. j \in Nat /\ j + 1 = p + k
      OBVIOUS
    <2>2. Row(j) < Len(chain)
      BY <1>3
    <2> HIDE DEF j
    <2>3. j < y
      BY <1>2, <2>1, <2>2, RowBound
    <2>4. y \in Nat /\ n <= y
      BY <1>2, <1>11, ClusterIs
    <2> HIDE DEF y
    <2>5. m <= y
      BY <1>10, <2>1, <2>3, <2>4
    <2> QED
      BY <2>5 DEF y
  <1>14. ASSUME NEW i \in 1 .. m
         PROVE  /\ ByteAt(i - 1)' = IF i > p /\ i <= p + k THEN reg.wbuff[i - p]
                                    ELSE Through(n)[i]
                /\ ByteAt(i - 1)' \in Values
    <2> DEFINE j == i - 1
               y == Len(chain) * Cluster
    <2>1. j \in Nat /\ j < m /\ y \in Nat
      BY <1>2, ClusterIs
    <2>2. j < y
      <3>1. m <= y
        BY <1>13
      <3> HIDE DEF y, j
      <3> QED
        BY <2>1, <3>1
    <2> HIDE DEF j
    <2>3. Row(j) < Len(chain)
      BY <1>2, <2>1, <2>2, RowBound
    <2>4. ByteAt(j)' = IF p <= j /\ j < p + k THEN reg.wbuff[j - p + 1] ELSE ByteAt(j)
      BY <1>3, <2>1, <2>3
    <2>5. CASE i > p /\ i <= p + k
      <3>1. p <= j /\ j < p + k /\ j - p + 1 = i - p /\ i - p \in 1 .. k
        BY <2>5 DEF j
      <3>2. i - p \in 1 .. Len(reg.wbuff)
        BY <1>1, <1>2, <3>1
      <3>3. reg.wbuff[i - p] \in Values
        BY <1>1, <3>2, ElementOfSeq
      <3> QED
        BY <2>4, <2>5, <3>1, <3>3 DEF j
    <2>6. CASE ~(i > p /\ i <= p + k)
      <3>1. ~(p <= j /\ j < p + k)
        BY <2>6 DEF j
      <3>2. i \in 1 .. n
        BY <1>10, <2>6
      <3>3. Through(n)[i] = ByteAt(j)
        BY <3>2, ThroughIs DEF j
      <3>4. ByteAt(j) \in Values
        BY <1>1, <2>1, <2>3, WhereTyped
      <3> QED
        BY <2>4, <2>6, <3>1, <3>3, <3>4 DEF j
    <2> QED
      BY <2>5, <2>6
  <1> DEFINE c == Through(m)'
  <1>15. c = [i \in 1 .. m |-> ByteAt(i - 1)']
    BY ThroughIsPrimed
  <1>16. c \in Seq(Values) /\ Len(c) = m
    <2>1. c \in [1 .. m -> Values]
      BY <1>14, <1>15
    <2> HIDE DEF c
    <2> QED
      BY <2>1
  <1>17. \A i \in 1 .. Len(c) : c[i] = IF i > p /\ i <= p + k THEN reg.wbuff[i - p]
                                       ELSE Through(n)[i]
    <2> HIDE DEF c
    <2> QED
      BY <1>14, <1>15, <1>16
  <1>18. k \in 1 .. Len(reg.wbuff)
    BY <1>1, <1>2
  <1> DEFINE b == Through(n)
             g == reg.wbuff
  <1>19. c = SubSeq(b, 1, p) \o SubSeq(g, 1, k) \o SubSeq(b, p + k + 1, Len(b))
    <2>1. /\ b \in Seq(Values) /\ g \in Seq(Values) /\ p <= Len(b) /\ k \in 1 .. Len(g)
          /\ c \in Seq(Values)
      BY <1>1, <1>10, <1>12, <1>16, <1>18
    <2>2. Patches(c, b, g, p, k)
      <3> HIDE DEF c, b
      <3> QED
        BY <1>10, <1>12, <1>16, <1>17 DEF Patches, b
    <2> HIDE DEF b, g, c
    <2> QED
      BY <2>1, <2>2, Patch
  <1>20. FileBytes' = SubSeq(FileBytes, 1, FilePos) \o SubSeq(reg.wbuff, 1, k)
                      \o SubSeq(FileBytes, FilePos + k + 1, Len(FileBytes))
    BY <1>7, <1>8, <1>9, <1>19
  <1>21. reg.wbuff # <<>>
    BY <1>18
  <1> QED
    BY <1>1, <1>5, <1>7, <1>18, <1>20, <1>21, Puts

-----------------------------------------------------------------------------
(* f_write moves whole sectors.                                            *)

\* The bytes of a span of whole sectors.
LEMMA InSpan ==
    ASSUME TypeOK, Simple, NEW a \in Nat, NEW w \in Nat, a % SS = 0,
           fp.csect = Col(a), fp.curr_clust = Row(a) + 1, Row(a) < Len(chain),
           Col(a) + w <= csize, NEW j \in Nat, Row(j) < Len(chain)
    PROVE  /\ a <= j /\ j < a + SS * w <=>
                  Row(j) = Row(a) /\ Col(j) \in Col(a) .. Col(a) + w - 1
           /\ Row(j) = Row(a) => j - a = SS * (Col(j) - Col(a)) + (j % SS)
  <1>1. /\ Row(a) \in Nat /\ Col(a) \in 0 .. csize - 1 /\ Row(j) \in Nat
        /\ Col(j) \in 0 .. csize - 1 /\ j % SS \in 0 .. SS - 1
        /\ SS \in Nat \ {0} /\ csize \in Nat
    BY Terms, Typed, ClusterIs
  <1>2. ASSUME a <= j, j < a + SS * w
        PROVE  Row(j) = Row(a) /\ Col(j) \in Col(a) .. Col(a) + w - 1
    <2> DEFINE e == j - a
               d == e \div SS
               n == SS * w
    <2>1. e \in Nat /\ e < n /\ a + e = j
      <3>1. n \in Nat
        BY <1>1
      <3> HIDE DEF n
      <3> QED
        BY <1>2, <3>1 DEF n
    <2> HIDE DEF e
    <2>2. d \in 0 .. w - 1 /\ Row(a + e) = Row(a) /\ Col(a + e) = Col(a) + d
      BY <2>1, SpanOf
    <2>3. Col(a) + d \in Col(a) .. Col(a) + w - 1
      <3> DEFINE u == Col(a)
      <3>1. u \in Nat /\ d \in 0 .. w - 1
        BY <1>1, <2>2
      <3> HIDE DEF u, d
      <3>2. u + d \in u .. u + w - 1
        BY <3>1
      <3> QED
        BY <3>2 DEF u
    <2> QED
      BY <2>1, <2>2, <2>3
  <1>3. ASSUME Row(j) = Row(a) PROVE j - a = SS * (Col(j) - Col(a)) + (j % SS)
    <2> DEFINE x == Cluster * Row(a)
               y == SS * Col(a)
               z == SS * Col(j)
               r == j % SS
    <2>1. x \in Nat /\ y \in Nat /\ z \in Nat /\ r \in Nat
      BY Terms
    <2>2. a = x + y + (a % SS) /\ j = x + z + r
      BY <1>3, Split
    <2>3. SS * (Col(j) - Col(a)) = z - y
      BY <1>1
    <2> HIDE DEF x, y, z, r
    <2>4. j - a = (z - y) + r
      BY <2>1, <2>2
    <2> QED
      BY <2>3, <2>4 DEF r
  <1>4. ASSUME Row(j) = Row(a), Col(j) \in Col(a) .. Col(a) + w - 1
        PROVE  a <= j /\ j < a + SS * w
    <2> DEFINE d == Col(j) - Col(a)
               q == SS * d
               n == SS * w
               r == j % SS
    <2>1. d \in Nat /\ d + 1 <= w
      BY <1>1, <1>4
    <2>2. j - a = q + r
      BY <1>3, <1>4
    <2> HIDE DEF d
    <2>3. SS * (d + 1) <= SS * w /\ SS * (d + 1) = q + SS /\ q \in Nat /\ n \in Nat
      BY <1>1, <2>1
    <2>4. q + SS <= n
      BY <2>3
    <2>5. r \in 0 .. SS - 1
      BY <1>1
    <2> HIDE DEF q, n, r
    <2>6. a <= j /\ j < a + n
      BY <1>1, <2>2, <2>3, <2>4, <2>5
    <2> QED
      BY <2>6 DEF n
  <1> QED
    BY <1>2, <1>3, <1>4

\* Whole sectors that are written past the buffer are not in the buffer.
LEMMA WriteDirectFile ==
    ASSUME IInv, IInv', sane, sane', WriteDirect PROVE FileStep
  <1> DEFINE k == SS * Whole
             c == fp.csect + Whole
             p == fp.fptr
  <1>1. /\ Direct /\ Writing /\ InLoop /\ UNCHANGED <<entry, chain, buffer>>
        /\ fp' = Advance([fp EXCEPT !.csect = @ + Whole], SS * Whole) /\ Moved(k, <<>>)
        /\ disk' = [s \in Sector |->
                        IF s \in Span
                        THEN [i \in 0 .. SS - 1 |-> reg.wbuff[SS * (s[2] - fp.csect) + i + 1]]
                        ELSE disk[s]]
        /\ ~Overlaps /\ UNCHANGED pc /\ TypeOK /\ Simple
    BY DEF WriteDirect, Direct, Abort, IInv
  <1>2. /\ c \in 1 .. csize /\ k \in Nat /\ 0 < k /\ k <= reg.todo
        /\ fp.curr_clust = Row(p) + 1 /\ fp.curr_clust \in 1 .. Len(chain)
        /\ fp.csect = Col(p) /\ Whole \in Nat /\ p % SS = 0
        /\ Row(p + k - 1) = Row(p)
    BY <1>1, DirectSpan
  <1>3. fp \in Fil /\ fp.dirty \in BOOLEAN /\ p \in Nat /\ SS \in Nat \ {0} /\ csize \in 1 .. 128
    BY <1>1, Typed DEF TypeOK, Fil
  <1>4. fp' = [fp EXCEPT !.csect = c, !.dirty = fp.dirty, !.fptr = (p + k) % Wrap]
    BY <1>1, <1>3 DEF Advance, Fil
  <1>5. /\ fp'.open = fp.open /\ fp'.fptr = p + k /\ fp'.fsize = fp.fsize
        /\ fp'.curr_sect = fp.curr_sect
    <2> HIDE DEF c, k
    <2> QED
      BY <1>1, <1>2, <1>3, <1>4, Advanced
  <1>6. Row(p) < Len(chain) /\ Row(p + (k - 1)) < Len(chain)
    <2>1. Row(p) < Len(chain)
      BY <1>1, <1>2, <1>3, RowInside
    <2>2. p + k - 1 = p + (k - 1)
      BY <1>2, <1>3
    <2> QED
      BY <1>2, <2>1, <2>2
  <1>7. fp.curr_sect \notin Span
    BY <1>1 DEF Overlaps
  <1>8. ASSUME NEW j \in Nat, Row(j) < Len(chain)
        PROVE  ByteAt(j)' = IF p <= j /\ j < p + k THEN reg.wbuff[j - p + 1] ELSE ByteAt(j)
    <2> DEFINE s == Where(j)
               r == j % SS
    <2>1. s \in Sector /\ r \in 0 .. SS - 1 /\ s = <<chain[Row(j) + 1], Col(j)>>
      BY <1>1, <1>8, WhereTyped, WhereIs, Terms
    <2>2. Where(j)' = s
      BY <1>1 DEF Where, Cluster
    <2>3. Col(p) + Whole <= csize
      BY <1>2, <1>3
    <2>4. /\ p <= j /\ j < p + k <=> Row(j) = Row(p) /\ Col(j) \in Col(p) .. Col(p) + Whole - 1
          /\ Row(j) = Row(p) => j - p = SS * (Col(j) - Col(p)) + (j % SS)
      <3> HIDE DEF p
      <3> QED
        BY <1>1, <1>2, <1>3, <1>6, <1>8, <2>3, InSpan DEF p
    <2>5. s \in Span <=> Row(j) = Row(p) /\ Col(j) \in Col(p) .. Col(p) + Whole - 1
      <3>1. ASSUME s \in Span PROVE Row(j) = Row(p) /\ Col(j) \in Col(p) .. Col(p) + Whole - 1
        <4>1. PICK t \in Col(p) .. Col(p) + Whole - 1 : s = <<chain[Row(p) + 1], t>>
          BY <1>2, <3>1 DEF Span
        <4>2. chain[Row(j) + 1] = chain[Row(p) + 1] /\ Col(j) = t
          BY <2>1, <4>1
        <4>3. Row(j) + 1 \in 1 .. Len(chain) /\ Row(p) + 1 \in 1 .. Len(chain)
              /\ Row(j) \in Nat /\ Row(p) \in Nat
          <5> DEFINE a == Row(j)
                     b == Row(p)
                     n == Len(chain)
          <5>1. a \in Nat /\ b \in Nat
            BY <1>3, Terms
          <5>2. n \in Nat /\ a < n /\ b < n
            BY <1>1, <1>6, <1>8, Typed
          <5> HIDE DEF a, b, n
          <5>3. a + 1 \in 1 .. n /\ b + 1 \in 1 .. n
            BY <5>1, <5>2
          <5> QED
            BY <5>1, <5>3 DEF a, b, n
        <4>4. Row(j) + 1 = Row(p) + 1
          BY <1>1, <4>2, <4>3 DEF Simple
        <4> QED
          BY <4>1, <4>2, <4>3, <4>4
      <3>2. ASSUME Row(j) = Row(p), Col(j) \in Col(p) .. Col(p) + Whole - 1 PROVE s \in Span
        BY <1>2, <2>1, <3>2 DEF Span
      <3> QED
        BY <3>1, <3>2
    <2>6. CASE p <= j /\ j < p + k
      <3>1. s \in Span /\ j - p = SS * (Col(j) - fp.csect) + r
        BY <1>2, <2>4, <2>5, <2>6
      <3>2. s # fp.curr_sect
        BY <1>7, <3>1
      <3>3. ByteAt(j)' = disk'[s][r]
        BY <1>5, <2>2, <3>2 DEF ByteAt
      <3>4. s[2] = Col(j)
        BY <2>1
      <3> DEFINE q == SS * (Col(j) - fp.csect)
      <3>5. disk'[s][r] = reg.wbuff[q + r + 1]
        <4> HIDE DEF r, s
        <4> QED
          BY <1>1, <2>1, <3>1, <3>4
      <3>6. q + r + 1 = j - p + 1
        <4>0. Col(j) \in Int /\ fp.csect \in Int
          BY <1>1, Terms, Typed
        <4>1. q \in Int /\ r \in Int /\ j - p = q + r
          <5>1. q \in Int
            BY <1>3, <4>0
          <5>2. r \in Int
            BY <1>3, <2>1
          <5> QED
            BY <3>1, <5>1, <5>2
        <4> HIDE DEF q, r
        <4> QED
          BY <1>3, <4>1
      <3> QED
        BY <2>6, <3>3, <3>5, <3>6
    <2>7. CASE ~(p <= j /\ j < p + k)
      <3>1. s \notin Span
        BY <2>4, <2>5, <2>7
      <3>2. disk'[s] = disk[s]
        <4> HIDE DEF s
        <4> QED
          BY <1>1, <2>1, <3>1
      <3>3. ByteAt(j)' = ByteAt(j)
        <4>1. CASE s = fp.curr_sect
          BY <1>1, <1>5, <2>2, <4>1 DEF ByteAt
        <4>2. CASE s # fp.curr_sect
          BY <1>5, <2>2, <3>2, <4>2 DEF ByteAt
        <4> QED
          BY <4>1, <4>2
      <3> QED
        BY <2>7, <3>3
    <2> QED
      BY <2>6, <2>7
  <1> HIDE DEF k, c
  <1> QED
    BY <1>1, <1>2, <1>5, <1>6, <1>8, PutStep

\* f_write copies into the buffer.
LEMMA CopyInFile ==
    ASSUME IInv, IInv', sane, sane', CopyIn PROVE FileStep
  <1> DEFINE k == Part
             p == fp.fptr
             m == p % SS
  <1>1. /\ Copying /\ Writing /\ InLoop /\ TypeOK /\ Simple
        /\ fp' = Advance([Stepped EXCEPT !.dirty = TRUE], Part) /\ Moved(Part, <<>>)
        /\ buffer' = [i \in 0 .. SS - 1 |->
                        IF i >= m /\ i < m + Part THEN reg.wbuff[i - m + 1] ELSE buffer[i]]
        /\ UNCHANGED <<disk, entry, chain, pc, answer, sane>>
    BY DEF CopyIn, Copying, IInv
  <1>2. /\ k \in Nat /\ 0 < k /\ k <= reg.todo /\ m + k <= SS /\ m \in 0 .. SS - 1
        /\ fp.curr_clust = Row(p) + 1 /\ fp.curr_clust \in 1 .. Len(chain)
        /\ Row(p + k - 1) = Row(p)
        /\ Stepped = [fp EXCEPT !.csect = Col(p) + 1] /\ Col(p) + 1 \in 1 .. csize
        /\ fp.curr_sect = Where(p)
    BY <1>1, CopySpan
  <1>3. fp \in Fil /\ p \in Nat /\ SS \in Nat \ {0}
    BY <1>1, Typed DEF TypeOK
  <1>4. /\ fp'.open = fp.open /\ fp'.fptr = p + k /\ fp'.fsize = fp.fsize
        /\ fp'.curr_sect = fp.curr_sect
    <2> DEFINE c == Col(p) + 1
    <2>1. fp' = [fp EXCEPT !.csect = c, !.dirty = TRUE, !.fptr = (p + k) % Wrap]
      <3>1. fp' = Advance([[fp EXCEPT !.csect = c] EXCEPT !.dirty = TRUE], k)
        BY <1>1, <1>2
      <3> QED
        BY <1>3, <3>1 DEF Advance, Fil
    <2>2. c \in 1 .. csize /\ TRUE \in BOOLEAN
      BY <1>2
    <2> HIDE DEF c, k
    <2> QED
      BY <1>1, <1>2, <1>3, <2>1, <2>2, Advanced
  <1>5. Row(p) < Len(chain) /\ Row(p + (k - 1)) < Len(chain)
    <2>1. Row(p) < Len(chain)
      BY <1>1, <1>2, <1>3, RowInside
    <2>2. p + k - 1 = p + (k - 1)
      BY <1>2, <1>3
    <2> QED
      BY <1>2, <2>1, <2>2
  <1>6. ASSUME NEW j \in Nat, Row(j) < Len(chain)
        PROVE  ByteAt(j)' = IF p <= j /\ j < p + k THEN reg.wbuff[j - p + 1] ELSE ByteAt(j)
    <2> DEFINE r == j % SS
    <2>1. Where(j)' = Where(j) /\ r \in 0 .. SS - 1
      BY <1>1, Terms DEF Where, Cluster
    <2>2. CASE Where(j) = fp.curr_sect
      <3>1. Row(j) = Row(p) /\ Col(j) = Col(p)
        BY <1>1, <1>2, <1>3, <1>5, <1>6, <2>2, WhereInjective
      <3>2. j - p = r - m
        BY <1>3, <3>1, InSector
      <3>3. ByteAt(j)' = buffer'[r] /\ ByteAt(j) = buffer[r]
        BY <1>4, <2>1, <2>2 DEF ByteAt
      <3>4. (p <= j /\ j < p + k <=> r >= m /\ r < m + k) /\ r - m + 1 = j - p + 1
        <4>1. r \in Nat /\ m \in Nat /\ k \in Nat /\ p \in Nat
          BY <1>2, <1>3, <2>1
        <4> HIDE DEF r, m, p, k
        <4> QED
          BY <3>2, <4>1
      <3>5. buffer'[r] = IF r >= m /\ r < m + k THEN reg.wbuff[r - m + 1] ELSE buffer[r]
        <4> HIDE DEF r, m
        <4> QED
          BY <1>1, <2>1
      <3> HIDE DEF r, m
      <3> QED
        BY <3>3, <3>4, <3>5
    <2>3. CASE Where(j) # fp.curr_sect
      <3>1. ~(p <= j /\ j < p + k)
        <4> SUFFICES ASSUME p <= j, j < p + k PROVE FALSE
          OBVIOUS
        <4> DEFINE e == j - p
        <4>1. e \in Nat /\ p + e = j /\ m + e < SS
          <5>1. m \in Nat /\ k \in Nat /\ p \in Nat /\ m + k <= SS
            BY <1>2, <1>3
          <5> HIDE DEF m, p, k
          <5> QED
            BY <1>3, <5>1
        <4> HIDE DEF e
        <4>2. Row(p + e) = Row(p) /\ Col(p + e) = Col(p)
          BY <1>3, <4>1, SameSector
        <4>3. Where(j) = Where(p)
          BY <1>3, <4>1, <4>2, WhereIs
        <4> QED
          BY <1>2, <2>3, <4>3
      <3>2. ByteAt(j)' = ByteAt(j)
        BY <1>1, <1>4, <2>1, <2>3 DEF ByteAt
      <3> QED
        BY <3>1, <3>2
    <2> QED
      BY <2>2, <2>3
  <1>7. Moved(k, <<>>)
    BY <1>1
  <1> HIDE DEF k
  <1> QED
    BY <1>1, <1>2, <1>4, <1>5, <1>6, <1>7, PutStep

-----------------------------------------------------------------------------
(* Every step is a step of a file of bytes, or leaves it as it is.         *)

\* A file object that is out of order stays so.
LEMMA StaysSane == ASSUME IInv, Next, sane' PROVE sane
  BY DEF Next, Call, Step, f_open, f_read, f_write, Begin, Refuse, Answer, f_lseek, f_truncate,
         Syncs, f_sync, f_close, GetCluster, ReadDirect, WriteDirect, FlushBuffer, FillBuffer,
         CopyOut, CopyIn, EndLoop, Walk, Arrive, Land, SyncBuffer, SyncEntry, Abort, Return

\* The beginning of every call.
LEMMA CallFile == ASSUME IInv, IInv', sane, sane', Call PROVE FileStep
  <1>1. pc = "idle"
    BY DEF Call
  <1>2. CASE \E mode \in Modes : f_open(mode)
    BY <1>1, <1>2, f_openFile
  <1>3. CASE \E n \in Sizes : f_read(n) \/ f_write(n)
    BY <1>1, <1>3, f_readFile, f_writeFile
  <1>4. CASE \E o \in Offsets : f_lseek(o)
    BY <1>1, <1>4, f_lseekFile
  <1>5. CASE f_truncate
    BY <1>1, <1>5, f_truncateFile
  <1>6. CASE f_sync \/ f_close
    BY <1>1, <1>6, SyncsFile DEF f_sync, f_close
  <1> QED
    BY <1>2, <1>3, <1>4, <1>5, <1>6 DEF Call

\* Every step is a step of the file of bytes, or a stutter.
LEMMA NextFile == ASSUME IInv, IInv', [Next]_vars PROVE FileStep
  <1>1. CASE UNCHANGED vars
    BY <1>1 DEF vars, FileStep, File!vars, Size, Writing, Through, OnCard, Where, Cluster
  <1>2. CASE Next /\ ~sane'
    BY <1>2, Insane
  <1>3. CASE Next /\ sane'
    <2>1. sane
      BY <1>3, StaysSane
    <2>2. CASE Call
      BY <1>3, <2>1, <2>2, CallFile
    <2>3. CASE Step
      BY <1>3, <2>1, <2>3, GetClusterFile, ReadDirectFile, WriteDirectFile, FlushBufferFile,
         FillBufferFile, CopyOutFile, CopyInFile, EndLoopFile, WalkFile, ArriveFile, LandFile,
         SyncBufferFile, SyncEntryFile DEF Step
    <2> QED
      BY <1>3, <2>2, <2>3 DEF Next
  <1> QED
    BY <1>1, <1>2, <1>3

\* The file object implements a file of bytes: what f_read gives is what
\* f_write was given, whatever went through the buffer and whatever past it, as
\* long as the file object is in order.
THEOREM FileRefines == Spec => FileImplemented
  <1>1. Init => File!Init
    BY DEF Init, File!Init, NoFil, NoCall, Size, OnCard
  <1>2. IInv /\ IInv' /\ [Next]_vars => [File!Next]_(File!vars)
    BY NextFile DEF FileStep
  <1> QED
    BY <1>1, <1>2, FileInductive, PTL DEF Spec, FileImplemented, File!Spec

=============================================================================
