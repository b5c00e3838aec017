-------------------------- MODULE FatVolumeDurable --------------------------
(***************************************************************************)
(* What f_close and f_sync promised is on the card (Durable of FatVolume), *)
(* for every layout, whatever transfers fail and wherever power goes: the  *)
(* proof.  Left out are f_rename (see FatVolumeProofs) and an application  *)
(* that closes again after a failure, for which it is false.               *)
(*                                                                         *)
(* The argument has two halves.  The directory: a file that was promised   *)
(* has its entry, with the size promised, on the card and in the window,   *)
(* and nothing that comes before it hides it.  The data: every entry, on   *)
(* the card or in the window, and every file object leads along links to   *)
(* as many sectors of its own as its size says; and those of an entry on   *)
(* the card are linked in the same way by the table in the window, so the  *)
(* next sector to be written, or to be freed, is none of them.             *)
(***************************************************************************)
EXTENDS FatVolumeProofs

-----------------------------------------------------------------------------
(* The directory: d as the program sees it, dd on the card.                *)

\* No entry is hidden by the end mark or by an earlier one of its name.
Ordered(d) ==
    \A s \in Slots : d[s].name \in Names =>
        \A e \in 1 .. s - 1 : d[e].name # End /\ d[e].name # d[s].name

\* What trace_path and reserve_direntry have found out so far.
Searched(d, p, r) ==
    /\ p = "trace" => \A e \in 1 .. r.slot - 1 : d[e].name # End /\ d[e].name # r.n
    /\ p = "reserve" => /\ \A s \in Slots : d[s].name # r.n
                        /\ \A e \in 1 .. r.slot - 1 : d[e].name \in Names

Owed(d, dd, pr) ==
    \A n \in Names : pr[n] # Unknown =>
        \E s \in Slots : /\ d[s].name = n /\ d[s].size = pr[n]
                         /\ dd[s].name = n /\ dd[s].size = pr[n]

Filed(o, e) == e.name = o.name /\ e.size = o.fsize
Storing(p, r, h) == p = "flush" /\ r.op \in {"sync", "close"} /\ r.h = h

\* A file object whose f_close returns at once: it has been created or written,
\* and stored since, without a failure.
Saved(o) == o.open /\ o.changed /\ ~o.written /\ ~o.failed

\* Its entry is up to date, on the card too unless it is on the way there.
Settled(d, dd, f, p, r) ==
    \A h \in Handles : Saved(f[h]) =>
        /\ Filed(f[h], d[f[h].slot])
        /\ Storing(p, r, h) \/ Filed(f[h], dd[f[h].slot])

\* f_sync stores what is to be stored, and waits for it.
Flushing(d, f, p, r) ==
    /\ p = "flush" /\ r.op \in {"sync", "close"} =>
           Filed(f[r.h], d[f[r.h].slot]) /\ ~f[r.h].written
    /\ p = "entry" => f[r.h].written

\* Nothing is promised of a file that is emptied, deleted or written.
Unpromised(f, p, r, pr) ==
    /\ \/ p \in {"remove", "reopen"}
       \/ p = "trace" /\ (r.op = "unlink" \/ (r.op = "open" /\ r.mode = "always"))
       => pr[r.n] = Unknown
    /\ p \in {"stat", "scan", "link", "data"} => pr[f[r.h].name] = Unknown
    /\ \A h \in Handles : f[h].open /\ f[h].written => pr[f[h].name] = Unknown

DirAt(d, dd, f, p, r, pr) ==
    /\ Ordered(d) /\ Ordered(dd) /\ Searched(d, p, r) /\ Owed(d, dd, pr)
    /\ Settled(d, dd, f, p, r) /\ Flushing(d, f, p, r) /\ Unpromised(f, p, r, pr)

-----------------------------------------------------------------------------
(* The data: table t and directory d as the program sees them, tt and dd   *)
(* on the card.                                                            *)

SectorLists(k) == [1 .. k -> Clusters]

\* w leads along links from x through k clusters, each of them in use.
Along(t, x, k, w) ==
    /\ k > 0 => w[1] = x
    /\ \A i \in 1 .. k : t[w[i]] # 0
    /\ \A i \in 1 .. k - 1 : t[w[i]] = w[i + 1]

\* And they hold data of file n.
Filled(da, n, k, w) == \A i \in 1 .. k : da[w[i]] = n

Runs(t, da, x, n, k) == \E w \in SectorLists(k) : Along(t, x, k, w) /\ Filled(da, n, k, w)

EntriesRun(t, da, d) ==
    \A s \in Slots : d[s].name \in Names => Runs(t, da, d[s].clust, d[s].name, d[s].size)

\* The current cluster of a file object is that of the sector before the file
\* pointer; between create_chain and the write to it, that of the one behind it.
AtCurrent(t, o, w, busy) ==
    IF busy THEN o.curr = IF o.fptr = 0 THEN o.org ELSE t[w[o.fptr]]
    ELSE o.fptr > 0 => o.curr = w[o.fptr]
Placed(t, da, o, busy) ==
    /\ o.fptr <= o.fsize
    /\ \E w \in SectorLists(o.fsize) :
           /\ Along(t, o.org, o.fsize, w) /\ Filled(da, o.name, o.fsize, w)
           /\ ~o.error => AtCurrent(t, o, w, busy)
Writing(p, r, h) == p = "data" /\ r.h = h
ObjectsRun(t, da, f, p, r) ==
    \A h \in Handles : f[h].open => Placed(t, da, f[h], Writing(p, r, h))

\* The entries on the card lead to their data in both tables; what the program
\* sees of such an entry has the same start, or nobody has it.
Twice(t, tt, da, e) ==
    \E w \in SectorLists(e.size) : /\ Along(t, e.clust, e.size, w) /\ Along(tt, e.clust, e.size, w)
                                /\ Filled(da, e.name, e.size, w)
SameHead(e, e2) == e2.name = e.name /\ e2.clust = e.clust
CardRuns(t, d, tt, dd, da, f) ==
    \A s \in Slots : dd[s].name \in Names /\ dd[s].size > 0 =>
        /\ Twice(t, tt, da, dd[s])
        /\ SameHead(dd[s], d[s]) \/ Loose(t, d, f, dd[s].clust)

\* What create_chain starts from, and goes on from.
Aimed(f, p, r) ==
    /\ p \in {"stat", "scan", "link"} /\ r.clust # 0 => r.clust = f[r.h].curr /\ f[r.h].fptr > 0
    /\ p = "scan" /\ r.clust = 0 => f[r.h].fptr = 0
    /\ p \in {"stat", "scan", "link", "data"} => ~f[r.h].error

DataAt(t, d, tt, dd, da, f, p, r) ==
    /\ EntriesRun(t, da, d) /\ ObjectsRun(t, da, f, p, r)
    /\ CardRuns(t, d, tt, dd, da, f) /\ Aimed(f, p, r)

DirInv  == DirAt(DirNow, dir, fil, pc, reg, promise)
NextDir == DirAt(DirNow', dir', fil', pc', reg', promise')
DataInv  == DataAt(FatNow, DirNow, fat, dir, data, fil, pc, reg)
NextData == DataAt(FatNow', DirNow', fat', dir', data', fil', pc', reg')

-----------------------------------------------------------------------------
(* Walks.                                                                  *)

\* A walk outlasts a table that grows: what was free may be taken, and what
\* ended may go on.
Grows(t, t2) ==
    \A c \in Clusters : t[c] # 0 => t2[c] = t[c] \/ (t[c] \notin Clusters /\ t2[c] # 0)

LEMMA GrownWalk ==
  ASSUME NEW t, NEW t2, Grows(t, t2), NEW x,
         NEW k \in Nat, NEW w \in SectorLists(k), Along(t, x, k, w)
  PROVE  Along(t2, x, k, w)
  <1>1. \A i \in 1 .. k : w[i] \in Clusters /\ t[w[i]] # 0
    BY DEF SectorLists, Along
  <1>2. \A i \in 1 .. k : t2[w[i]] # 0
    BY <1>1 DEF Grows
  <1>3. ASSUME NEW i \in 1 .. k - 1 PROVE t2[w[i]] = w[i + 1]
    <2>1. i \in 1 .. k /\ i + 1 \in 1 .. k
      OBVIOUS
    <2>2. t[w[i]] = w[i + 1]
      BY DEF Along
    <2> QED
      BY <1>1, <2>1, <2>2 DEF Grows
  <1> QED
    BY <1>2, <1>3 DEF Along

\* The clusters of a walk are those it starts from and those a link leads to.
LEMMA OnWalk ==
  ASSUME NEW t, NEW x, NEW k \in Nat, NEW w \in SectorLists(k), Along(t, x, k, w), NEW i \in 1 .. k
  PROVE  w[i] = x \/ \E c \in Clusters : t[c] = w[i]
  <1>1. CASE i = 1
    BY <1>1 DEF Along
  <1>2. CASE i # 1
    <2>1. i - 1 \in 1 .. k /\ i - 1 \in 1 .. k - 1 /\ (i - 1) + 1 = i
      BY <1>2
    <2>2. w[i - 1] \in Clusters /\ t[w[i - 1]] = w[i]
      BY <2>1 DEF SectorLists, Along
    <2> QED
      BY <2>2
  <1> QED
    BY <1>1, <1>2

\* No two links meet.
NoMeeting(t) == \A c, e \in Clusters : t[c] = t[e] /\ t[c] \in Clusters => c = e
NoLinkTo(t, x) == \A c \in Clusters : t[c] # x

\* Walks from two heads have no cluster in common.
LEMMA WalksApart ==
  ASSUME NEW t, NoMeeting(t), NEW x, NEW y, x # y, NoLinkTo(t, x), NoLinkTo(t, y),
         NEW k \in Nat, NEW w \in SectorLists(k), Along(t, x, k, w),
         NEW m \in Nat, NEW v \in SectorLists(m), Along(t, y, m, v)
  PROVE  \A i \in 1 .. k, j \in 1 .. m : w[i] # v[j]
  <1> DEFINE T == {i \in 1 .. k : \E j \in 1 .. m : w[i] = v[j]}
  <1> SUFFICES ASSUME T # {} PROVE FALSE
    OBVIOUS
  <1>1. T \in SUBSET Nat
    OBVIOUS
  <1>2. PICK i \in T : \A n \in T : i <= n
    BY <1>1, LeastNumber
  <1>3. i \in 1 .. k
    OBVIOUS
  <1>4. PICK j \in 1 .. m : w[i] = v[j]
    OBVIOUS
  <1>5. CASE i = 1
    <2>1. w[i] = x
      BY <1>3, <1>5 DEF Along
    <2> QED
      BY <1>4, <2>1, OnWalk DEF NoLinkTo
  <1>6. CASE j = 1
    <2>1. v[j] = y
      BY <1>4, <1>6 DEF Along
    <2>2. w[i] = x \/ \E c \in Clusters : t[c] = w[i]
      BY <1>3, OnWalk
    <2> QED
      BY <1>4, <2>1, <2>2 DEF NoLinkTo
  <1>7. CASE i # 1 /\ j # 1
    <2>1. /\ i - 1 \in 1 .. k /\ i - 1 \in 1 .. k - 1 /\ (i - 1) + 1 = i
          /\ j - 1 \in 1 .. m /\ j - 1 \in 1 .. m - 1 /\ (j - 1) + 1 = j
      BY <1>3, <1>4, <1>7
    <2>2. /\ w[i - 1] \in Clusters /\ v[j - 1] \in Clusters /\ w[i] \in Clusters
          /\ t[w[i - 1]] = w[i] /\ t[v[j - 1]] = v[j]
      BY <1>3, <2>1 DEF SectorLists, Along
    <2>3. w[i - 1] = v[j - 1]
      BY <1>4, <2>2 DEF NoMeeting
    <2>4. i - 1 \in T
      BY <2>1, <2>3
    <2> QED
      BY <1>2, <2>1, <2>4
  <1> QED
    BY <1>5, <1>6, <1>7

\* Chain follows the links as the walk does.
LEMMA AlongIsChain ==
  ASSUME NEW t, NEW x, NEW k \in Nat, NEW w \in SectorLists(k), Along(t, x, k, w), NEW m \in 1 .. k
  PROVE  Chain(t, x, m - 1) = w[m]
  <1> DEFINE l == m - 1
             u == [i \in 0 .. l |-> w[i + 1]]
             v == [i \in 0 .. l |-> IF i = 0 THEN x
                                    ELSE IF u[i - 1] \in Clusters THEN t[u[i - 1]] ELSE Eoc]
             g == CHOOSE g : ChainIs(t, x, l, g)
  <1>0. l \in Nat /\ l + 1 = m
    OBVIOUS
  <1>1. ChainIs(t, x, l, u)
    <2>1. ASSUME NEW i \in 0 .. l PROVE u[i] = v[i]
      <3>1. CASE i = 0
        BY <3>1 DEF Along
      <3>2. CASE i # 0
        <4>1. i \in 1 .. k /\ i \in 1 .. k - 1 /\ i - 1 \in 0 .. l /\ (i - 1) + 1 = i
          BY <3>2
        <4>2. w[i] \in Clusters /\ t[w[i]] = w[i + 1]
          BY <4>1 DEF Along, SectorLists
        <4>3. u[i - 1] = w[i]
          BY <4>1
        <4> QED
          BY <3>2, <4>2, <4>3
      <3> QED
        BY <3>1, <3>2
    <2>2. u = v
      BY <2>1
    <2> QED
      BY <2>2 DEF ChainIs
  <1>2. ChainIs(t, x, l, g)
    BY <1>1
  <1>3. Chain(t, x, l) = g[l]
    BY DEF Chain, ChainIs
  <1>4. u[0] = x /\ \A i \in 1 .. l : u[i - 1] \in Clusters /\ t[u[i - 1]] = u[i]
    <2>1. u[0] = x
      BY DEF Along
    <2>2. ASSUME NEW i \in 1 .. l PROVE u[i - 1] \in Clusters /\ t[u[i - 1]] = u[i]
      <3>1. i \in 1 .. k /\ i \in 1 .. k - 1 /\ i - 1 \in 0 .. l /\ i \in 0 .. l /\ (i - 1) + 1 = i
        OBVIOUS
      <3>2. w[i] \in Clusters /\ t[w[i]] = w[i + 1]
        BY <3>1 DEF Along, SectorLists
      <3> QED
        BY <3>1, <3>2
    <2> QED
      BY <2>1, <2>2
  <1>8. u[l] = w[m]
    BY <1>0
  <1> HIDE DEF g, v, u, l
  <1> DEFINE P == {i \in Nat : i <= l => g[i] = u[i]}
  <1>5. 0 \in P
    BY <1>0, <1>2, <1>4 DEF ChainIs
  <1>6. ASSUME NEW n \in P PROVE n + 1 \in P
    <2> SUFFICES ASSUME n + 1 <= l PROVE g[n + 1] = u[n + 1]
      OBVIOUS
    <2>1. n \in 0 .. l /\ n + 1 \in 1 .. l /\ n + 1 \in 0 .. l /\ (n + 1) - 1 = n /\ g[n] = u[n]
      BY <1>0
    <2>2. u[n] \in Clusters /\ t[u[n]] = u[n + 1]
      BY <1>4, <2>1
    <2>3. g[n + 1] = t[g[n]]
      BY <1>2, <2>1, <2>2 DEF ChainIs
    <2> QED
      BY <2>1, <2>2, <2>3
  <1> HIDE DEF P
  <1>7. P = Nat
    BY <1>5, <1>6, AllNumbers DEF P
  <1> QED
    BY <1>0, <1>3, <1>7, <1>8 DEF P, l

\* From the invariant to the property.
LEMMA PromisedIsThere ==
  ASSUME TypeOK, DirInv, DataInv
  PROVE  Durable
  <1> SUFFICES ASSUME NEW n \in Names, promise[n] # Unknown PROVE OnCard(n, promise[n])
    BY DEF Durable
  <1>1. promise[n] \in Nat
    BY DEF TypeOK
  <1>2. PICK s \in Slots : dir[s].name = n /\ dir[s].size = promise[n]
    BY DEF DirInv, DirAt, Owed
  <1>3. \A e \in 1 .. s - 1 : dir[e].name \notin {n, End}
    BY <1>2 DEF DirInv, DirAt, Ordered
  <1>4. ASSUME NEW k \in 1 .. promise[n]
        PROVE  /\ Chain(fat, dir[s].clust, k - 1) \in Clusters
               /\ data[Chain(fat, dir[s].clust, k - 1)] = n
    <2>1. dir[s].size > 0
      BY <1>1, <1>2
    <2>2. PICK w \in SectorLists(promise[n]) : /\ Along(fat, dir[s].clust, promise[n], w)
                                            /\ Filled(data, n, promise[n], w)
      BY <1>2, <2>1 DEF DataInv, DataAt, CardRuns, Twice
    <2>3. Chain(fat, dir[s].clust, k - 1) = w[k]
      BY <1>1, <2>2, AlongIsChain
    <2> QED
      BY <2>2, <2>3 DEF Filled, SectorLists
  <1> QED
    BY <1>2, <1>3, <1>4 DEF OnCard

-----------------------------------------------------------------------------
(* Steps after which the volume is what it was.                            *)

\* Promises are at most taken back.
Fewer(pr, pr2) == \A n \in Names : pr2[n] = pr[n] \/ pr2[n] = Unknown

\* A file object that has nothing to store had nothing to store before.
Settles(o, o2) == Saved(o2) => /\ Saved(o) /\ o2.name = o.name
                               /\ o2.slot = o.slot /\ o2.fsize = o.fsize

\* The directory is what it was; the file objects, and what is promised, hardly.
LEMMA DirSame ==
  ASSUME NEW d, NEW dd, NEW f, NEW p, NEW r, NEW pr, DirAt(d, dd, f, p, r, pr),
         NEW f2, NEW p2, NEW r2, NEW pr2, Fewer(pr, pr2),
         \A h \in Handles : Settles(f[h], f2[h]),
         \A h \in Handles : Saved(f2[h]) /\ Storing(p, r, h) => Storing(p2, r2, h),
         Searched(d, p2, r2), Flushing(d, f2, p2, r2), Unpromised(f2, p2, r2, pr2)
  PROVE  DirAt(d, dd, f2, p2, r2, pr2)
  <1>1. Owed(d, dd, pr2)
    BY DEF DirAt, Owed, Fewer
  <1>2. Settled(d, dd, f2, p2, r2)
    <2> SUFFICES ASSUME NEW h \in Handles, Saved(f2[h])
                 PROVE  /\ Filed(f2[h], d[f2[h].slot])
                        /\ Storing(p2, r2, h) \/ Filed(f2[h], dd[f2[h].slot])
      BY DEF Settled
    <2>1. /\ Saved(f[h]) /\ f2[h].name = f[h].name
          /\ f2[h].slot = f[h].slot /\ f2[h].fsize = f[h].fsize
      BY DEF Settles
    <2>2. /\ Filed(f[h], d[f[h].slot])
          /\ Storing(p, r, h) \/ Filed(f[h], dd[f[h].slot])
      BY <2>1 DEF DirAt, Settled
    <2> QED
      BY <2>1, <2>2 DEF Filed
  <1> QED
    BY <1>1, <1>2 DEF DirAt

\* The same sectors of a file object, as far as there are any.
Unmoved(o, o2, busy, busy2) ==
    /\ o2.name = o.name /\ o2.fptr = o.fptr /\ o2.fsize = o.fsize
    /\ o2.org = o.org \/ (o.org \notin Clusters /\ o2.org \notin Clusters)
    /\ o.error => o2.error
    /\ o2.error \/ (o2.curr = o.curr /\ o2.org = o.org /\ busy2 = busy)

\* What leads nowhere has no sectors.
LEMMA NoStartNoSize ==
  ASSUME NEW t, NEW da, NEW x, NEW n, NEW k \in Nat, Runs(t, da, x, n, k), x \notin Clusters
  PROVE  k = 0
  <1> SUFFICES ASSUME k # 0 PROVE FALSE
    OBVIOUS
  <1>1. PICK w \in SectorLists(k) : Along(t, x, k, w)
    BY DEF Runs
  <1>2. k > 0 /\ 1 \in 1 .. k
    OBVIOUS
  <1> QED
    BY <1>1, <1>2 DEF Along, SectorLists

LEMMA PlacedRuns ==
  ASSUME NEW t, NEW da, NEW o, NEW busy, Placed(t, da, o, busy)
  PROVE  Runs(t, da, o.org, o.name, o.fsize)
  BY DEF Placed, Runs

\* A file object that has not moved.
LEMMA PlacedAgain ==
  ASSUME NEW t, NEW da, NEW o, NEW busy, Placed(t, da, o, busy), o.fsize \in Nat,
         NEW o2, NEW busy2, Unmoved(o, o2, busy, busy2)
  PROVE  Placed(t, da, o2, busy2)
  <1> PICK w \in SectorLists(o.fsize) :
           /\ Along(t, o.org, o.fsize, w) /\ Filled(da, o.name, o.fsize, w)
           /\ ~o.error => AtCurrent(t, o, w, busy)
    BY DEF Placed
  <1>1. o2.org = o.org \/ o.fsize = 0
    BY PlacedRuns, NoStartNoSize DEF Unmoved
  <1>2. Along(t, o2.org, o2.fsize, w) /\ Filled(da, o2.name, o2.fsize, w)
    BY <1>1 DEF Along, Filled, Unmoved
  <1>3. ~o2.error => AtCurrent(t, o2, w, busy2)
    BY DEF Unmoved, AtCurrent
  <1> QED
    BY <1>2, <1>3 DEF Placed, Unmoved

\* An entry on the card that has sectors starts with a cluster in use.
LEMMA TwiceStart ==
  ASSUME NEW t, NEW tt, NEW da, NEW e, Twice(t, tt, da, e), e.size \in Nat, e.size > 0
  PROVE  e.clust \in Clusters /\ t[e.clust] # 0 /\ tt[e.clust] # 0
  <1> PICK w \in SectorLists(e.size) : Along(t, e.clust, e.size, w) /\ Along(tt, e.clust, e.size, w)
    BY DEF Twice
  <1>1. 1 \in 1 .. e.size
    OBVIOUS
  <1> QED
    BY <1>1 DEF Along, SectorLists

\* No file object starts anywhere new.
LEMMA CardRunsStay ==
  ASSUME NEW t, NEW d, NEW tt, NEW dd \in Dirs, NEW da, NEW f, CardRuns(t, d, tt, dd, da, f),
         NEW f2,
         \A h \in Handles : f2[h].open =>
             f[h].open /\ (f2[h].org = f[h].org \/ f2[h].org \notin Clusters)
  PROVE  CardRuns(t, d, tt, dd, da, f2)
  <1> SUFFICES ASSUME NEW s \in Slots, dd[s].name \in Names /\ dd[s].size > 0
               PROVE  /\ Twice(t, tt, da, dd[s])
                      /\ SameHead(dd[s], d[s]) \/ Loose(t, d, f2, dd[s].clust)
    BY DEF CardRuns
  <1>1. /\ Twice(t, tt, da, dd[s])
        /\ SameHead(dd[s], d[s]) \/ Loose(t, d, f, dd[s].clust)
    BY DEF CardRuns
  <1>2. dd[s].size \in Nat
    BY DEF Dirs, Entry
  <1>3. dd[s].clust \in Clusters
    BY <1>1, <1>2, TwiceStart
  <1> QED
    BY <1>1, <1>3 DEF Loose

\* Table, directory and contents are what they were.
LEMMA DataSame ==
  ASSUME NEW t, NEW d, NEW tt, NEW dd \in Dirs, NEW da, NEW f \in Fils, NEW p, NEW r,
         DataAt(t, d, tt, dd, da, f, p, r), NEW f2, NEW p2, NEW r2,
         \A h \in Handles : f2[h].open =>
             f[h].open /\ Unmoved(f[h], f2[h], Writing(p, r, h), Writing(p2, r2, h)),
         Aimed(f2, p2, r2)
  PROVE  DataAt(t, d, tt, dd, da, f2, p2, r2)
  <1>1. ObjectsRun(t, da, f2, p2, r2)
    <2> SUFFICES ASSUME NEW h \in Handles, f2[h].open
                 PROVE  Placed(t, da, f2[h], Writing(p2, r2, h))
      BY DEF ObjectsRun
    <2>1. Placed(t, da, f[h], Writing(p, r, h))
      BY DEF DataAt, ObjectsRun
    <2>2. f[h].fsize \in Nat
      BY DEF Fils, Fil
    <2> QED
      BY <2>1, <2>2, PlacedAgain
  <1>2. CardRuns(t, d, tt, dd, da, f2)
    <2>1. \A h \in Handles : f2[h].open =>
             f[h].open /\ (f2[h].org = f[h].org \/ f2[h].org \notin Clusters)
      BY DEF Unmoved
    <2> QED
      BY <2>1, CardRunsStay DEF DataAt
  <1> QED
    BY <1>1, <1>2 DEF DataAt

-----------------------------------------------------------------------------
(* Failures and moves.                                                     *)

Promised == DirInv /\ DataInv
NextPromised == NextDir /\ NextData

LEMMA OpenNames ==
  ASSUME NowApart, NEW h \in Handles, fil[h].open
  PROVE  fil[h].name \in Names
  BY DEF NowApart, Apart, Vol, ObjectsOK, ObjectOK

\* What a failed transfer does to the file objects.
LEMMA IoErrorObjects ==
  ASSUME TypeOK, NowApart, IoError, NEW h \in Handles
  PROVE  /\ fil'[h].open = fil[h].open /\ fil'[h].name = fil[h].name /\ fil'[h].slot = fil[h].slot
         /\ fil'[h].fptr = fil[h].fptr /\ fil'[h].fsize = fil[h].fsize
         /\ fil'[h].curr = fil[h].curr /\ fil'[h].written = fil[h].written
         /\ fil'[h].changed = fil[h].changed
         /\ fil[h].failed => fil'[h].failed
         /\ fil[h].error => fil'[h].error
         /\ fil'[h].org = fil[h].org \/ (fil[h].org = 0 /\ fil'[h].org = 1 /\ fil'[h].error)
         /\ reg.op \in {"sync", "close"} /\ reg.h = h => fil'[h].failed
         /\ reg.op = "write" /\ reg.h = h => fil'[h].error
  <1>1. fil \in Fils /\ fil[h] \in Fil /\ [fil EXCEPT ![h] = fil[h]] = fil
    BY NowTyped DEF Fils
  <1>2. CASE reg.op = "write"
    <2> DEFINE o == IF Creating THEN 1 ELSE fil[h].org
    <2>1. reg.h \in Handles
      BY <1>2 DEF TypeOK, CallOK
    <2>2. Creating /\ h = reg.h => fil[h].org = 0
      BY DEF Creating, NowApart, Apart, Found
    <2>3. CASE h = reg.h
      <3>1. fil'[h] = [fil[h] EXCEPT !.error = TRUE, !.org = o]
        BY <1>1, <1>2, <2>1, <2>3 DEF IoError, Fils
      <3>2. o = fil[h].org \/ (fil[h].org = 0 /\ o = 1)
        BY <2>2, <2>3
      <3> HIDE DEF o
      <3> QED
        BY <1>1, <1>2, <2>3, <3>1, <3>2 DEF Fil
    <2>4. CASE h # reg.h
      BY <1>1, <1>2, <2>1, <2>4 DEF IoError, Fils
    <2> QED
      BY <2>3, <2>4
  <1>3. CASE reg.op \in {"sync", "close"}
    <2>1. reg.h \in Handles
      BY <1>3 DEF TypeOK, CallOK
    <2> QED
      BY <1>1, <1>3, <2>1 DEF IoError, Fils, Fil
  <1>4. CASE reg.op \notin {"write", "sync", "close"}
    BY <1>4 DEF IoError
  <1> QED
    BY <1>2, <1>3, <1>4

\* A transfer failed.
LEMMA IoErrorPromised ==
  ASSUME TypeOK, NowApart, Promised, IoError, FatNow' = FatNow, DirNow' = DirNow,
         UNCHANGED <<fat, dir, data, promise>>
  PROVE  NextPromised
  <1>1. pc' = "idle" /\ reg' = NoCall /\ dir \in Dirs /\ fil \in Fils
    BY NowTyped DEF IoError, Return, TypeOK, Dirs
  <1>2. pc = "data" => reg.op = "write"
    BY DEF TypeOK, CallOK
  <1>3. pc = "flush" /\ reg.op \in {"sync", "close"} => ~Saved(fil'[reg.h])
    BY IoErrorObjects DEF TypeOK, CallOK, Saved
  <1>4. NextDir
    <2>1. Fewer(promise, promise')
      BY DEF Fewer
    <2>2. \A h \in Handles : Settles(fil[h], fil'[h])
      BY IoErrorObjects DEF Settles, Saved
    <2>3. \A h \in Handles : Saved(fil'[h]) => ~Storing(pc, reg, h)
      BY <1>3 DEF Storing
    <2>4. Searched(DirNow, pc', reg') /\ Flushing(DirNow, fil', pc', reg')
      BY <1>1 DEF Searched, Flushing
    <2>5. Unpromised(fil', pc', reg', promise')
      BY <1>1, IoErrorObjects DEF Unpromised, Promised, DirInv, DirAt
    <2>6. DirAt(DirNow, dir, fil', pc', reg', promise')
      BY <2>1, <2>2, <2>3, <2>4, <2>5, DirSame DEF Promised, DirInv
    <2> QED
      BY <2>6 DEF NextDir
  <1>5. NextData
    <2>1. ASSUME NEW h \in Handles, fil'[h].open
          PROVE  fil[h].open /\ Unmoved(fil[h], fil'[h], Writing(pc, reg, h), Writing(pc', reg', h))
      <3>1. Writing(pc, reg, h) => fil'[h].error
        BY <1>2, IoErrorObjects DEF Writing
      <3>2. ~Writing(pc', reg', h)
        BY <1>1 DEF Writing
      <3>3. fil'[h].error \/ Writing(pc', reg', h) = Writing(pc, reg, h)
        BY <3>1, <3>2 DEF Writing
      <3> QED
        BY <2>1, <3>3, IoErrorObjects, Special DEF Unmoved
    <2>2. Aimed(fil', pc', reg')
      BY <1>1 DEF Aimed
    <2>3. DataAt(FatNow, DirNow, fat, dir, data, fil', pc', reg')
      BY <1>1, <2>1, <2>2, DataSame DEF Promised, DataInv
    <2> QED
      BY <2>3 DEF NextData
  <1> QED
    BY <1>4, <1>5 DEF NextPromised

\* The window goes to the card, which then holds what the program sees.
LEMMA OnTheCard ==
  ASSUME NEW t, NEW d, NEW tt, NEW dd, NEW da, NEW f, NEW p, NEW r, NEW pr,
         DirAt(d, dd, f, p, r, pr), DataAt(t, d, tt, dd, da, f, p, r)
  PROVE  DirAt(d, d, f, p, r, pr) /\ DataAt(t, d, t, d, da, f, p, r)
  <1>1. DirAt(d, d, f, p, r, pr)
    BY DEF DirAt, Owed, Settled
  <1>2. CardRuns(t, d, t, d, da, f)
    BY DEF DataAt, EntriesRun, Runs, CardRuns, Twice, SameHead
  <1> QED
    BY <1>1, <1>2 DEF DataAt

\* And back: the program sees what the card holds, and nothing is open.
LEMMA FromTheCard ==
  ASSUME NEW t, NEW d, NEW tt, NEW dd \in Dirs, NEW da, NEW f, NEW p, NEW r, NEW pr,
         DirAt(d, dd, f, p, r, pr), DataAt(t, d, tt, dd, da, f, p, r),
         NEW f2, \A h \in Handles : ~f2[h].open, NEW r2
  PROVE  DirAt(dd, dd, f2, "idle", r2, pr) /\ DataAt(tt, dd, tt, dd, da, f2, "idle", r2)
  <1>1. Owed(dd, dd, pr)
    BY DEF DirAt, Owed
  <1>2. Settled(dd, dd, f2, "idle", r2)
    BY DEF Settled, Saved
  <1>3. DirAt(dd, dd, f2, "idle", r2, pr)
    BY <1>1, <1>2 DEF DirAt, Searched, Flushing, Unpromised
  <1>4. EntriesRun(tt, da, dd)
    <2> SUFFICES ASSUME NEW s \in Slots, dd[s].name \in Names
                 PROVE  Runs(tt, da, dd[s].clust, dd[s].name, dd[s].size)
      BY DEF EntriesRun
    <2>1. CASE dd[s].size > 0
      BY <2>1 DEF DataAt, CardRuns, Twice, Runs
    <2>2. CASE dd[s].size = 0
      <3> DEFINE w == [i \in 1 .. 0 |-> 0]
      <3>1. w \in SectorLists(0)
        BY DEF SectorLists
      <3>2. Along(tt, dd[s].clust, 0, w) /\ Filled(da, dd[s].name, 0, w)
        BY DEF Along, Filled
      <3> HIDE DEF w
      <3> QED
        BY <2>2, <3>1, <3>2 DEF Runs
    <2>3. dd[s].size \in Nat
      BY DEF Dirs, Entry
    <2> QED
      BY <2>1, <2>2, <2>3
  <1>5. CardRuns(tt, dd, tt, dd, da, f2)
    BY DEF DataAt, CardRuns, Twice, SameHead
  <1>6. ObjectsRun(tt, da, f2, "idle", r2) /\ Aimed(f2, "idle", r2)
    BY DEF ObjectsRun, Aimed
  <1> QED
    BY <1>3, <1>4, <1>5, <1>6 DEF DataAt

LEMMA MovePromised ==
  ASSUME TypeOK, WindowCoherent, NowApart, Promised, move_window
  PROVE  NextPromised
  <1>1. CASE WriteBack
    <2>1. CASE /\ fat' = [c \in Clusters |-> IF FatSector(c) = win.sect THEN win.fat[c] ELSE fat[c]]
               /\ dir' = [s \in Slots |-> IF DirSector(s) = win.sect THEN win.dir[s] ELSE dir[s]]
               /\ win' = [win EXCEPT !.dirty = FALSE]
               /\ UNCHANGED <<fil, pc, reg, data, promise>>
      <3>1. fat' = FatNow /\ dir' = DirNow /\ FatNow' = FatNow /\ DirNow' = DirNow
        BY <2>1, WrittenNow
      <3>2. /\ DirAt(DirNow, DirNow, fil, pc, reg, promise)
            /\ DataAt(FatNow, DirNow, FatNow, DirNow, data, fil, pc, reg)
        BY OnTheCard DEF Promised, DirInv, DataInv
      <3> QED
        BY <2>1, <3>1, <3>2 DEF NextPromised, NextDir, NextData
    <2>2. CASE win' = Kept(win) /\ IoError /\ UNCHANGED <<fat, dir, data, promise>>
      BY <2>2, SameNow, IoErrorPromised DEF Kept
    <2> QED
      BY <1>1, <2>1, <2>2 DEF WriteBack
  <1>2. CASE WriteCopy
    <2>1. FatNow' = FatNow /\ DirNow' = DirNow
      BY <1>2, SameNow DEF WriteCopy
    <2> QED
      BY <1>2, <2>1 DEF WriteCopy, Promised, DirInv, DataInv, NextPromised, NextDir, NextData
  <1>3. CASE ReadWindow
    <2>1. FatNow = fat /\ DirNow = dir
      BY <1>3, CleanNow DEF ReadWindow, WindowCoherent
    <2>2. CASE win' = ReadSector(Target) /\ UNCHANGED <<fil, pc, reg, fat, dir, data, promise>>
      <3>1. FatNow' = FatNow /\ DirNow' = DirNow
        BY <2>1, <2>2, ReadNow
      <3> QED
        BY <2>2, <3>1 DEF Promised, DirInv, DataInv, NextPromised, NextDir, NextData
    <2>3. CASE UNCHANGED win /\ IoError /\ UNCHANGED <<fat, dir, data, promise>>
      BY <2>3, SameNow, IoErrorPromised
    <2> QED
      BY <1>3, <2>2, <2>3 DEF ReadWindow, card
  <1> QED
    BY <1>1, <1>2, <1>3 DEF move_window

\* Power fails, or the volume is mounted again.
LEMMA RestartPromised ==
  ASSUME TypeOK, Promised, Restart
  PROVE  NextPromised
  <1>1. FatNow' = fat /\ DirNow' = dir /\ UNCHANGED <<fat, dir, data, promise>> /\ pc' = "idle"
    BY ReadNow DEF Restart, card, Return
  <1>2. \A h \in Handles : ~fil'[h].open
    BY DEF Restart, Closed
  <1>3. dir \in Dirs
    BY DEF TypeOK, Dirs
  <1>4. /\ DirAt(dir, dir, fil', "idle", reg', promise)
        /\ DataAt(fat, dir, fat, dir, data, fil', "idle", reg')
    BY <1>2, <1>3, FromTheCard DEF Promised, DirInv, DataInv
  <1> QED
    BY <1>1, <1>4 DEF NextPromised, NextDir, NextData

-----------------------------------------------------------------------------
(* The calls begin.                                                        *)

\* A step after which the volume is what it was, and every file object is
\* where it was or closed.
LEMMA QuietPromised ==
  ASSUME TypeOK, Promised, FatNow' = FatNow, DirNow' = DirNow, UNCHANGED <<fat, dir, data>>,
         Fewer(promise, promise'),
         \A h \in Handles : fil'[h].open =>
             fil[h].open /\ Unmoved(fil[h], fil'[h], Writing(pc, reg, h), Writing(pc', reg', h)),
         \A h \in Handles : Settles(fil[h], fil'[h]),
         \A h \in Handles : Saved(fil'[h]) => ~Storing(pc, reg, h),
         Searched(DirNow, pc', reg'), Flushing(DirNow, fil', pc', reg'),
         Unpromised(fil', pc', reg', promise'), Aimed(fil', pc', reg')
  PROVE  NextPromised
  <1>1. dir \in Dirs /\ fil \in Fils
    BY NowTyped DEF TypeOK, Dirs
  <1>2. DirAt(DirNow, dir, fil', pc', reg', promise')
    BY DirSame DEF Promised, DirInv
  <1>3. DataAt(FatNow, DirNow, fat, dir, data, fil', pc', reg')
    BY <1>1, DataSame DEF Promised, DataInv
  <1> QED
    BY <1>2, <1>3 DEF NextPromised, NextDir, NextData

\* The file objects stay as they are.
LEMMA StillPromised ==
  ASSUME TypeOK, Promised, FatNow' = FatNow, DirNow' = DirNow,
         UNCHANGED <<fat, dir, data, fil>>, Fewer(promise, promise'),
         pc \notin {"data", "flush"}, pc' # "data",
         pc' = "flush" => reg'.op \notin {"sync", "close"},
         Searched(DirNow, pc', reg'), pc' = "entry" => fil[reg'.h].written,
         Unpromised(fil, pc', reg', promise'), Aimed(fil, pc', reg')
  PROVE  NextPromised
  <1>1. \A h \in Handles : ~Storing(pc, reg, h) /\ ~Writing(pc, reg, h) /\ ~Writing(pc', reg', h)
    BY DEF Storing, Writing
  <1>2. \A h \in Handles : Unmoved(fil[h], fil'[h], Writing(pc, reg, h), Writing(pc', reg', h))
    BY <1>1 DEF Unmoved, Writing
  <1>3. Flushing(DirNow, fil', pc', reg')
    BY DEF Flushing
  <1>4. \A h \in Handles : Settles(fil[h], fil'[h])
    BY DEF Settles
  <1> QED
    BY <1>1, <1>2, <1>3, <1>4, QuietPromised

\* Two file objects are not open on the same name.
LEMMA OpenOnce ==
  ASSUME TypeOK, NowApart, Ordered(DirNow), NEW g \in Handles, NEW h \in Handles,
         fil[g].open, fil[h].open, fil[g].name = fil[h].name
  PROVE  g = h
  <1> PICK own \in Owners : Vol(FatNow, DirNow, fil, own)
    BY DEF NowApart, Apart
  <1> DEFINE a == fil[g].slot
             b == fil[h].slot
  <1>1. a \in Slots /\ b \in Slots /\ fil[g].name \in Names
    BY OpenNames, NowTyped DEF Fils, Fil
  <1>2. DirNow[a].name = fil[g].name /\ DirNow[b].name = fil[g].name
    BY DEF Vol, ObjectsOK, ObjectOK
  <1>3. ~(a < b) /\ ~(b < a)
    <2> HIDE DEF a, b
    <2>1. a \in Nat /\ b \in Nat /\ a >= 1 /\ b >= 1
      BY <1>1, FirstSlot
    <2>2. a < b => a \in 1 .. b - 1
      BY <2>1
    <2>3. b < a => b \in 1 .. a - 1
      BY <2>1
    <2> QED
      BY <1>1, <1>2, <2>2, <2>3 DEF Ordered
  <1>4. a = b
    <2> HIDE DEF a, b
    <2>1. a \in Nat /\ b \in Nat
      BY <1>1, FirstSlot
    <2> QED
      BY <1>3, <2>1
  <1> QED
    BY <1>4 DEF Vol, ObjectsOK

\* f_close or f_sync returns FR_OK for a file whose entry is on the card.
LEMMA PromiseMade ==
  ASSUME TypeOK, NowApart, Promised, FatNow' = FatNow, DirNow' = DirNow,
         UNCHANGED <<fat, dir, data>>, NEW h \in Handles, fil[h].open, ~fil[h].written,
         Filed(fil[h], DirNow[fil[h].slot]), Filed(fil[h], dir[fil[h].slot]),
         promise' = [promise EXCEPT ![fil[h].name] = fil[h].fsize],
         fil' = fil \/ fil' = [fil EXCEPT ![h] = Closed],
         pc # "data", pc' = "idle", \A g \in Handles \ {h} : ~Storing(pc, reg, g)
  PROVE  NextPromised
  <1> DEFINE n == fil[h].name
  <1>1. fil \in Fils /\ dir \in Dirs /\ n \in Names /\ fil[h].slot \in Slots
    BY OpenNames, NowTyped DEF TypeOK, Dirs, Fils, Fil
  <1>2. \A g \in Handles : fil'[g] = fil[g] \/ (g = h /\ fil'[g] = Closed)
    BY <1>1 DEF Fils
  <1>3. \A g \in Handles : fil'[g].open => fil'[g] = fil[g] /\ fil[g].open
    BY <1>2 DEF Closed
  <1>4. promise'[n] = fil[h].fsize /\ \A m \in Names \ {n} : promise'[m] = promise[m]
    BY <1>1 DEF TypeOK
  <1> HIDE DEF n
  <1>5. Owed(DirNow, dir, promise')
    <2> SUFFICES ASSUME NEW m \in Names, promise'[m] # Unknown
                 PROVE  \E s \in Slots : /\ DirNow[s].name = m /\ DirNow[s].size = promise'[m]
                                         /\ dir[s].name = m /\ dir[s].size = promise'[m]
      BY DEF Owed
    <2>1. CASE m = n
      BY <1>1, <1>4, <2>1 DEF Filed, n
    <2>2. CASE m # n
      BY <1>4, <2>2 DEF Promised, DirInv, DirAt, Owed
    <2> QED
      BY <2>1, <2>2
  <1>6. Settled(DirNow, dir, fil', pc', reg')
    <2> SUFFICES ASSUME NEW g \in Handles, Saved(fil'[g])
                 PROVE  Filed(fil'[g], DirNow[fil'[g].slot]) /\ Filed(fil'[g], dir[fil'[g].slot])
      BY DEF Settled
    <2>1. fil'[g] = fil[g] /\ Saved(fil[g])
      BY <1>3 DEF Saved
    <2>2. CASE g = h
      BY <2>1, <2>2
    <2>3. CASE g # h
      BY <2>1, <2>3 DEF Promised, DirInv, DirAt, Settled
    <2> QED
      BY <2>2, <2>3
  <1>7. Unpromised(fil', pc', reg', promise')
    <2> SUFFICES ASSUME NEW g \in Handles, fil'[g].open, fil'[g].written
                 PROVE  promise'[fil'[g].name] = Unknown
      BY DEF Unpromised
    <2>1. fil'[g] = fil[g] /\ fil[g].open /\ g # h
      BY <1>3
    <2>2. fil[g].name # n /\ fil[g].name \in Names
      BY <2>1, OpenOnce, OpenNames DEF Promised, DirInv, DirAt, n
    <2>3. promise[fil[g].name] = Unknown
      BY <2>1 DEF Promised, DirInv, DirAt, Unpromised
    <2> QED
      BY <1>4, <2>1, <2>2, <2>3
  <1>8. NextDir
    <2>1. Searched(DirNow, pc', reg') /\ Flushing(DirNow, fil', pc', reg')
      BY DEF Searched, Flushing
    <2> QED
      BY <1>5, <1>6, <1>7, <2>1 DEF Promised, DirInv, NextDir, DirAt
  <1>9. NextData
    <2>1. \A g \in Handles : fil'[g].open =>
             fil[g].open /\ Unmoved(fil[g], fil'[g], Writing(pc, reg, g), Writing(pc', reg', g))
      BY <1>3 DEF Unmoved, Writing
    <2>2. Aimed(fil', pc', reg')
      BY DEF Aimed
    <2>3. DataAt(FatNow, DirNow, fat, dir, data, fil', pc', reg')
      BY <1>1, <2>1, <2>2, DataSame DEF Promised, DataInv
    <2> QED
      BY <2>3 DEF NextData
  <1> QED
    BY <1>8, <1>9 DEF NextPromised

LEMMA OpenPromised ==
  ASSUME TypeOK, NowApart, Promised, NEW h \in Handles, NEW n \in Names, NEW mode \in Modes,
         f_open(h, n, mode)
  PROVE  NextPromised
  <1>1. FatNow' = FatNow /\ DirNow' = DirNow /\ fil \in Fils /\ pc = "idle"
    BY NowTyped, SameNow DEF f_open, card, Idle
  <1>2. UNCHANGED <<fat, dir, data>>
    BY DEF f_open, card
  <1>3. fil'[h] = Closed /\ ~Closed.open /\ \A g \in Handles \ {h} : fil'[g] = fil[g]
    BY <1>1 DEF f_open, Fils, Closed
  <1>4. Fewer(promise, promise') /\ (pc' = "trace" /\ reg'.mode = "always" => promise'[n] = Unknown)
    <2>1. promise' = promise \/ promise' = [promise EXCEPT ![n] = Unknown]
      BY DEF f_open
    <2>2. pc' = "trace" =>
             /\ reg'.mode = mode
             /\ mode = "always" => promise' = [promise EXCEPT ![n] = Unknown]
      BY <1>1 DEF f_open, Begin, NoCall
    <2> QED
      BY <2>1, <2>2 DEF Fewer, TypeOK
  <1>5. \/ pc' = "trace" /\ reg'.op = "open" /\ reg'.n = n /\ reg'.slot = 1
        \/ pc' = "idle"
    BY <1>1 DEF f_open, Begin, NoCall
  <1>6. \A g \in Handles : fil'[g].open =>
           /\ fil[g].open /\ fil'[g] = fil[g]
           /\ Unmoved(fil[g], fil'[g], Writing(pc, reg, g), Writing(pc', reg', g))
    BY <1>1, <1>3, <1>5 DEF Unmoved, Writing
  <1>7. \A g \in Handles : Settles(fil[g], fil'[g]) /\ ~Storing(pc, reg, g)
    BY <1>1, <1>6 DEF Settles, Saved, Storing
  <1>8. Searched(DirNow, pc', reg') /\ Flushing(DirNow, fil', pc', reg') /\ Aimed(fil', pc', reg')
    BY <1>5 DEF Searched, Flushing, Aimed
  <1>9. Unpromised(fil', pc', reg', promise')
    <2>1. ASSUME NEW g \in Handles, fil'[g].open, fil'[g].written
          PROVE  promise'[fil'[g].name] = Unknown
      <3>1. promise[fil[g].name] = Unknown /\ fil[g].name \in Names
        BY <1>6, <2>1, OpenNames DEF Promised, DirInv, DirAt, Unpromised
      <3> QED
        BY <1>4, <1>6, <2>1, <3>1 DEF Fewer
    <2> QED
      BY <1>4, <1>5, <2>1 DEF Unpromised
  <1> QED
    BY <1>1, <1>2, <1>4, <1>6, <1>7, <1>8, <1>9, QuietPromised

\* Nothing is promised of a file that has been written and not stored.
LEMMA WrittenStay ==
  ASSUME NowApart, Promised, Fewer(promise, promise')
  PROVE  \A h \in Handles : fil[h].open /\ fil[h].written => promise'[fil[h].name] = Unknown
  <1> SUFFICES ASSUME NEW h \in Handles, fil[h].open, fil[h].written
               PROVE  promise'[fil[h].name] = Unknown
    OBVIOUS
  <1>1. promise[fil[h].name] = Unknown /\ fil[h].name \in Names
    BY OpenNames DEF Promised, DirInv, DirAt, Unpromised
  <1> QED
    BY <1>1 DEF Fewer

LEMMA UnlinkPromised ==
  ASSUME TypeOK, NowApart, Promised, NEW n \in Names, f_unlink(n)
  PROVE  NextPromised
  <1>1. /\ FatNow' = FatNow /\ DirNow' = DirNow /\ pc = "idle" /\ UNCHANGED <<fat, dir, data, fil>>
    BY SameNow DEF f_unlink, card, Idle
  <1>2. \/ /\ pc' = "trace" /\ reg'.op = "unlink" /\ reg'.n = n /\ reg'.slot = 1
           /\ promise' = [promise EXCEPT ![n] = Unknown]
        \/ pc' = "idle" /\ promise' = promise
    BY <1>1 DEF f_unlink, Begin, NoCall
  <1>3. Fewer(promise, promise') /\ (pc' = "trace" => promise'[n] = Unknown)
    BY <1>2 DEF Fewer, TypeOK
  <1>4. Unpromised(fil, pc', reg', promise')
    BY <1>2, <1>3, WrittenStay DEF Unpromised
  <1>5. Searched(DirNow, pc', reg') /\ Aimed(fil, pc', reg')
    BY <1>2 DEF Searched, Aimed
  <1> QED
    BY <1>1, <1>2, <1>3, <1>4, <1>5, StillPromised

LEMMA GetfreePromised ==
  ASSUME TypeOK, NowApart, Promised, f_getfree
  PROVE  NextPromised
  <1>1. /\ FatNow' = FatNow /\ DirNow' = DirNow /\ pc = "idle" /\ UNCHANGED <<fat, dir, data, fil>>
    BY SameNow DEF f_getfree, card, Idle
  <1>2. pc' \in {"idle", "count"} /\ promise' = promise
    BY <1>1 DEF f_getfree, Begin, Return
  <1>3. Fewer(promise, promise')
    BY <1>2 DEF Fewer
  <1>4. Unpromised(fil, pc', reg', promise')
    BY <1>2, <1>3, WrittenStay DEF Unpromised
  <1>5. Searched(DirNow, pc', reg') /\ Aimed(fil, pc', reg')
    BY <1>2 DEF Searched, Aimed
  <1> QED
    BY <1>1, <1>2, <1>3, <1>4, <1>5, StillPromised

LEMMA SyncsPromised ==
  ASSUME TypeOK, NowApart, Promised, "retry" \notin Habits,
         NEW h \in Handles, NEW op \in {"sync", "close"},
         Syncs(h, op)
  PROVE  NextPromised
  <1>1. /\ FatNow' = FatNow /\ DirNow' = DirNow /\ pc = "idle" /\ UNCHANGED <<fat, dir, data>>
        /\ fil[h].open /\ ~fil[h].failed /\ fil \in Fils
    BY NowTyped, SameNow DEF Syncs, card, Idle
  <1>2. CASE fil[h].written
    <2>1. pc' = "entry" /\ reg'.h = h /\ reg'.op = op /\ fil' = fil /\ promise' = promise
      BY <1>2 DEF Syncs, Begin, NoCall
    <2>2. Fewer(promise, promise')
      BY <2>1 DEF Fewer
    <2>3. Unpromised(fil, pc', reg', promise')
      BY <2>1, <2>2, WrittenStay DEF Unpromised
    <2>4. Searched(DirNow, pc', reg') /\ Aimed(fil, pc', reg')
      BY <2>1 DEF Searched, Aimed
    <2> QED
      BY <1>1, <1>2, <2>1, <2>2, <2>3, <2>4, StillPromised
  <1>3. CASE ~fil[h].written
    <2>1. /\ pc' = "idle" /\ (fil' = fil \/ fil' = [fil EXCEPT ![h] = Closed])
          /\ promise' = IF fil[h].changed THEN [promise EXCEPT ![fil[h].name] = fil[h].fsize]
                                          ELSE promise
      BY <1>1, <1>3 DEF Syncs
    <2>2. CASE fil[h].changed
      <3>1. Saved(fil[h]) /\ \A g \in Handles : ~Storing(pc, reg, g)
        BY <1>1, <1>3, <2>2 DEF Saved, Storing
      <3>2. Filed(fil[h], DirNow[fil[h].slot]) /\ Filed(fil[h], dir[fil[h].slot])
        BY <3>1 DEF Promised, DirInv, DirAt, Settled
      <3> QED
        BY <1>1, <1>3, <2>1, <2>2, <3>1, <3>2, PromiseMade
    <2>3. CASE ~fil[h].changed
      <3>1. Fewer(promise, promise')
        BY <2>1, <2>3 DEF Fewer
      <3>2. \A g \in Handles : fil'[g].open => fil'[g] = fil[g] /\ fil[g].open
        BY <1>1, <2>1 DEF Fils, Closed
      <3>3. \A g \in Handles : fil'[g].open =>
               fil[g].open /\ Unmoved(fil[g], fil'[g], Writing(pc, reg, g), Writing(pc', reg', g))
        BY <1>1, <2>1, <3>2 DEF Unmoved, Writing
      <3>4. \A g \in Handles : Settles(fil[g], fil'[g]) /\ ~Storing(pc, reg, g)
        BY <1>1, <3>2 DEF Settles, Saved, Storing
      <3>5. Unpromised(fil', pc', reg', promise')
        BY <2>1, <3>1, <3>2, WrittenStay DEF Unpromised
      <3>6. /\ Searched(DirNow, pc', reg') /\ Flushing(DirNow, fil', pc', reg')
            /\ Aimed(fil', pc', reg')
        BY <2>1 DEF Searched, Flushing, Aimed
      <3> QED
        BY <1>1, <3>1, <3>3, <3>4, <3>5, <3>6, QuietPromised
    <2> QED
      BY <2>2, <2>3
  <1> QED
    BY <1>2, <1>3

\* All sectors of a table come before the first of the directory.
LEMMA TableShown ==
  ASSUME TypeOK, NEW c \in FatIn(win.sect)
  PROVE  DirNow = dir
  <1>1. c \in Clusters /\ FatSector(c) = win.sect
    BY DEF FatIn
  <1>2. win.sect \in 1 .. LastFat /\ LastFat \in Nat
    BY <1>1, InTable, LastFatPositive
  <1>3. ASSUME NEW s \in Slots PROVE s \notin DirIn(win.sect)
    <2> DEFINE q == (s - 1) \div PerDir
    <2>1. s - 1 \in Nat
      BY FirstSlot
    <2>2. q \in Nat
      BY <2>1, Quotient, LayoutAssumption
    <2>3. DirSector(s) = LastFat + 1 + q
      BY DEF DirSector
    <2> HIDE DEF q
    <2>4. DirSector(s) # win.sect
      BY <1>2, <2>2, <2>3
    <2> QED
      BY <2>4 DEF DirIn
  <1>4. DOMAIN win.dir = DirIn(win.sect)
    BY DEF TypeOK, Window
  <1>5. \A s \in Slots : DirNow[s] = dir[s]
    BY <1>3, <1>4 DEF DirNow
  <1>6. DirNow \in Dirs /\ dir \in Dirs
    BY NowTyped DEF TypeOK, Dirs
  <1> QED
    BY <1>5, <1>6 DEF Dirs

\* The table has grown.
LEMMA RunsGrow ==
  ASSUME NEW t, NEW t2, Grows(t, t2), NEW da, NEW x, NEW n, NEW k \in Nat, Runs(t, da, x, n, k)
  PROVE  Runs(t2, da, x, n, k)
  <1> PICK w \in SectorLists(k) : Along(t, x, k, w) /\ Filled(da, n, k, w)
    BY DEF Runs
  <1>1. Along(t2, x, k, w)
    BY GrownWalk
  <1> QED
    BY <1>1 DEF Runs

LEMMA EntriesGrow ==
  ASSUME NEW t, NEW t2, Grows(t, t2), NEW da, NEW d \in Dirs, EntriesRun(t, da, d)
  PROVE  EntriesRun(t2, da, d)
  <1> SUFFICES ASSUME NEW s \in Slots, d[s].name \in Names
               PROVE  Runs(t2, da, d[s].clust, d[s].name, d[s].size)
    BY DEF EntriesRun
  <1>1. Runs(t, da, d[s].clust, d[s].name, d[s].size) /\ d[s].size \in Nat
    BY DEF EntriesRun, Dirs, Entry
  <1> QED
    BY <1>1, RunsGrow

LEMMA CardRunsGrow ==
  ASSUME NEW t, NEW t2, Grows(t, t2), NEW d \in Dirs, NEW tt, NEW da, NEW f, NEW f2,
         CardRuns(t, d, tt, d, da, f)
  PROVE  CardRuns(t2, d, tt, d, da, f2)
  <1> SUFFICES ASSUME NEW s \in Slots, d[s].name \in Names /\ d[s].size > 0
               PROVE  Twice(t2, tt, da, d[s])
    BY DEF CardRuns, SameHead
  <1>1. Twice(t, tt, da, d[s]) /\ d[s].size \in Nat
    BY DEF CardRuns, Dirs, Entry
  <1> PICK w \in SectorLists(d[s].size) :
           /\ Along(t, d[s].clust, d[s].size, w) /\ Along(tt, d[s].clust, d[s].size, w)
           /\ Filled(da, d[s].name, d[s].size, w)
    BY <1>1 DEF Twice
  <1>2. Along(t2, d[s].clust, d[s].size, w)
    BY <1>1, GrownWalk
  <1> QED
    BY <1>2 DEF Twice

\* A file object that no write is at keeps its place in a table that grows.
LEMMA PlacedGrows ==
  ASSUME NEW t, NEW t2, Grows(t, t2), NEW da, NEW o, Placed(t, da, o, FALSE), o.fsize \in Nat
  PROVE  Placed(t2, da, o, FALSE)
  <1> PICK w \in SectorLists(o.fsize) :
           /\ Along(t, o.org, o.fsize, w) /\ Filled(da, o.name, o.fsize, w)
           /\ ~o.error => AtCurrent(t, o, w, FALSE)
    BY DEF Placed
  <1>1. Along(t2, o.org, o.fsize, w)
    BY GrownWalk
  <1>2. ~o.error => AtCurrent(t2, o, w, FALSE)
    BY DEF AtCurrent
  <1>3. o.fptr <= o.fsize
    BY DEF Placed
  <1> QED
    BY <1>1, <1>2, <1>3 DEF Placed

\* f_write has found the cluster of its sector: the next one of the chain, or
\* the start.
LEMMA FoundPlace ==
  ASSUME NEW t, NEW t2, Grows(t, t2), NEW da, NEW o \in Fil, Placed(t, da, o, FALSE), ~o.error,
         NEW o2, o2.name = o.name, o2.fptr = o.fptr, o2.fsize = o.fsize,
         o2.org = o.org \/ o.org = 0,
         o2.curr = IF o.fptr = 0 THEN o2.org ELSE t2[o.curr]
  PROVE  Placed(t2, da, o2, TRUE)
  <1>1. o.fsize \in Nat /\ o.fptr \in Nat
    BY DEF Fil
  <1> PICK w \in SectorLists(o.fsize) :
           /\ Along(t, o.org, o.fsize, w) /\ Filled(da, o.name, o.fsize, w)
           /\ AtCurrent(t, o, w, FALSE)
    BY DEF Placed
  <1>2. Along(t2, o.org, o.fsize, w)
    BY <1>1, GrownWalk
  <1>3. o2.org = o.org \/ o.fsize = 0
    BY <1>1, PlacedRuns, NoStartNoSize, Special
  <1>4. Along(t2, o2.org, o2.fsize, w) /\ Filled(da, o2.name, o2.fsize, w)
    BY <1>2, <1>3 DEF Along, Filled
  <1>5. AtCurrent(t2, o2, w, TRUE)
    BY <1>1 DEF AtCurrent
  <1>6. o2.fptr <= o2.fsize
    BY DEF Placed
  <1> QED
    BY <1>4, <1>5, <1>6 DEF Placed

\* And everybody else keeps theirs.
LEMMA FoundPlaceData ==
  ASSUME NEW t, NEW t2, Grows(t, t2), NEW d \in Dirs, NEW tt, NEW dd, NEW da,
         NEW f \in Fils, NEW p, NEW r, DataAt(t, d, tt, dd, da, f, p, r), p # "data",
         NEW h \in Handles, f[h].open, ~f[h].error,
         NEW o2, o2.name = f[h].name, o2.fptr = f[h].fptr, o2.fsize = f[h].fsize, ~o2.error,
         o2.org = f[h].org \/ f[h].org = 0,
         o2.curr = IF f[h].fptr = 0 THEN o2.org ELSE t2[f[h].curr],
         NEW f2, f2[h] = o2, \A g \in Handles \ {h} : f2[g] = f[g],
         NEW r2, r2.h = h, CardRuns(t2, d, tt, dd, da, f2)
  PROVE  DataAt(t2, d, tt, dd, da, f2, "data", r2)
  <1>1. EntriesRun(t2, da, d)
    BY EntriesGrow DEF DataAt
  <1>2. \A g \in Handles : f[g].open => Placed(t, da, f[g], FALSE)
    BY DEF DataAt, ObjectsRun, Writing
  <1>3. ObjectsRun(t2, da, f2, "data", r2)
    <2> SUFFICES ASSUME NEW g \in Handles, f2[g].open
                 PROVE  Placed(t2, da, f2[g], Writing("data", r2, g))
      BY DEF ObjectsRun
    <2>1. CASE g = h
      <3>1. Placed(t, da, f[h], FALSE) /\ f[h] \in Fil
        BY <1>2 DEF Fils
      <3>2. Placed(t2, da, o2, TRUE)
        BY <3>1, FoundPlace
      <3> QED
        BY <2>1, <3>2 DEF Writing
    <2>2. CASE g # h
      <3>1. Placed(t, da, f[g], FALSE) /\ f[g].fsize \in Nat
        BY <1>2, <2>2 DEF Fils, Fil
      <3>2. Placed(t2, da, f[g], FALSE)
        BY <3>1, PlacedGrows
      <3> QED
        BY <2>2, <3>2 DEF Writing
    <2> QED
      BY <2>1, <2>2
  <1>4. Aimed(f2, "data", r2)
    BY DEF Aimed
  <1> QED
    BY <1>1, <1>3, <1>4 DEF DataAt

LEMMA WritePromised ==
  ASSUME TypeOK, NowApart, Promised, NEW h \in Handles, f_write(h)
  PROVE  NextPromised
  <1> DEFINE n == fil[h].name
  <1>1. /\ FatNow' = FatNow /\ DirNow' = DirNow /\ pc = "idle" /\ UNCHANGED <<fat, dir, data>>
        /\ fil[h].open /\ ~fil[h].error /\ fil \in Fils /\ fil[h] \in Fil /\ n \in Names
        /\ DirNow \in Dirs /\ dir \in Dirs
    BY OpenNames, NowTyped, SameNow DEF f_write, card, Idle, Fils, TypeOK, Dirs
  <1>2. promise' = [promise EXCEPT ![n] = Unknown]
    BY DEF f_write
  <1>3. Fewer(promise, promise') /\ promise'[n] = Unknown
    BY <1>1, <1>2 DEF Fewer, TypeOK
  <1> HIDE DEF n
  <1>4. \A g \in Handles : ~Storing(pc, reg, g) /\ ~Writing(pc, reg, g)
    BY <1>1 DEF Storing, Writing
  <1>5. CASE /\ pc' \in {"scan", "stat"} /\ reg'.h = h /\ fil' = fil
             /\ pc' = "scan" => reg'.clust = 0 /\ fil[h].fptr = 0
             /\ pc' = "stat" => reg'.clust = fil[h].curr /\ fil[h].fptr > 0
    <2>1. Searched(DirNow, pc', reg') /\ Aimed(fil, pc', reg')
      BY <1>1, <1>5 DEF Searched, Aimed
    <2>2. Unpromised(fil, pc', reg', promise')
      BY <1>3, <1>5, WrittenStay DEF Unpromised, n
    <2> QED
      BY <1>1, <1>3, <1>5, <2>1, <2>2, StillPromised
  <1>6. CASE /\ pc' = "data" /\ reg'.h = h /\ fil[h].fptr = 0
             /\ fil' = [fil EXCEPT ![h].curr = fil[h].org]
    <2> DEFINE o2 == [fil[h] EXCEPT !.curr = fil[h].org]
    <2>1. /\ o2.open /\ o2.name = n /\ o2.fptr = fil[h].fptr /\ o2.fsize = fil[h].fsize
          /\ o2.slot = fil[h].slot /\ o2.changed = fil[h].changed /\ o2.written = fil[h].written
          /\ o2.failed = fil[h].failed
          /\ ~o2.error /\ o2.org = fil[h].org /\ o2.curr = fil[h].org
      BY <1>1 DEF Fil, n
    <2>2. fil'[h] = o2 /\ \A g \in Handles \ {h} : fil'[g] = fil[g]
      BY <1>1, <1>6 DEF Fils
    <2> HIDE DEF o2
    <2>3. Grows(FatNow, FatNow)
      BY DEF Grows
    <2>4. CardRuns(FatNow, DirNow, fat, dir, data, fil')
      <3>1. \A g \in Handles : fil'[g].open => fil[g].open /\ fil'[g].org = fil[g].org
        BY <1>1, <2>1, <2>2
      <3> QED
        BY <1>1, <3>1, CardRunsStay DEF Promised, DataInv, DataAt
    <2>5. DataAt(FatNow, DirNow, fat, dir, data, fil', "data", reg')
      <3>1. DataAt(FatNow, DirNow, fat, dir, data, fil, pc, reg) /\ pc # "data"
        BY <1>1 DEF Promised, DataInv
      <3>2. /\ o2.name = fil[h].name /\ reg'.h = h
            /\ o2.curr = IF fil[h].fptr = 0 THEN o2.org ELSE FatNow[fil[h].curr]
        BY <1>6, <2>1 DEF n
      <3> QED
        BY <1>1, <2>1, <2>2, <2>3, <2>4, <3>1, <3>2, FoundPlaceData
    <2>6. \A g \in Handles : Settles(fil[g], fil'[g])
      BY <1>1, <2>1, <2>2 DEF Settles, Saved, n
    <2>7. Unpromised(fil', pc', reg', promise')
      <3>1. \A g \in Handles : fil'[g].open /\ fil'[g].written =>
               fil[g].open /\ fil[g].written /\ fil'[g].name = fil[g].name
        BY <1>1, <2>1, <2>2 DEF n
      <3> QED
        <4>1. \A g \in Handles : fil'[g].open /\ fil'[g].written => promise'[fil'[g].name] = Unknown
          BY <1>3, <3>1, WrittenStay
        <4>2. promise'[fil'[reg'.h].name] = Unknown
          BY <1>3, <1>6, <2>1, <2>2
        <4> QED
          BY <1>6, <4>1, <4>2 DEF Unpromised
    <2>8. Searched(DirNow, pc', reg') /\ Flushing(DirNow, fil', pc', reg')
      BY <1>6 DEF Searched, Flushing
    <2>9. DirAt(DirNow, dir, fil', pc', reg', promise')
      BY <1>3, <1>4, <2>6, <2>7, <2>8, DirSame DEF Promised, DirInv
    <2> QED
      BY <1>1, <1>6, <2>5, <2>9 DEF NextPromised, NextDir, NextData
  <1>7. CASE fil' = [fil EXCEPT ![h].error = TRUE] /\ UNCHANGED <<pc, reg>>
    <2>1. ASSUME NEW g \in Handles
          PROVE  /\ fil'[g].open = fil[g].open /\ fil'[g].name = fil[g].name
                 /\ fil'[g].slot = fil[g].slot
                 /\ fil'[g].fptr = fil[g].fptr /\ fil'[g].fsize = fil[g].fsize
                 /\ fil'[g].org = fil[g].org /\ fil'[g].curr = fil[g].curr
                 /\ fil'[g].written = fil[g].written /\ fil'[g].changed = fil[g].changed
                 /\ fil'[g].failed = fil[g].failed /\ (fil[g].error => fil'[g].error)
      <3>1. fil[g] \in Fil
        BY <1>1 DEF Fils
      <3> QED
        BY <1>1, <1>7, <3>1 DEF Fils, Fil
    <2>2. \A g \in Handles : fil'[g].open =>
             fil[g].open /\ Unmoved(fil[g], fil'[g], Writing(pc, reg, g), Writing(pc', reg', g))
      BY <1>7, <2>1 DEF Unmoved, Writing
    <2>3. \A g \in Handles : Settles(fil[g], fil'[g])
      BY <2>1 DEF Settles, Saved
    <2>4. Searched(DirNow, pc', reg') /\ Flushing(DirNow, fil', pc', reg') /\ Aimed(fil', pc', reg')
      BY <1>1, <1>7 DEF Searched, Flushing, Aimed
    <2>5. Unpromised(fil', pc', reg', promise')
      BY <1>1, <1>3, <1>7, <2>1, WrittenStay DEF Unpromised
    <2> QED
      BY <1>1, <1>3, <1>4, <2>2, <2>3, <2>4, <2>5, QuietPromised
  <1> QED
    BY <1>5, <1>6, <1>7 DEF f_write, ScanFrom, Begin, NoCall

LEMMA CallPromised ==
  ASSUME TypeOK, NowApart, Promised, "admin" \notin Habits, "retry" \notin Habits, Call
  PROVE  NextPromised
  <1>1. \A n, op, r : ~Named(n, op, r)
    BY DEF Named
  <1>2. ~f_opendir
    BY DEF f_opendir
  <1> QED
    BY <1>1, <1>2, OpenPromised, UnlinkPromised, WritePromised, SyncsPromised, GetfreePromised
    DEF Call, f_stat, f_utime, f_chmod, f_rename, f_sync, f_close

-----------------------------------------------------------------------------
(* Changes of the directory.                                               *)

\* A slot before a slot.
LEMMA EarlierSlot ==
  ASSUME NEW z \in Slots, NEW x \in 1 .. z - 1
  PROVE  x \in Slots
  <1>1. NSlots \in Nat /\ z \in 1 .. NSlots
    BY FirstSlot DEF Slots
  <1>2. x \in 1 .. NSlots
    BY <1>1
  <1> QED
    BY <1>2 DEF Slots

\* A file without sectors needs none.
LEMMA EmptyRuns ==
  ASSUME NEW t, NEW da, NEW x, NEW n
  PROVE  Runs(t, da, x, n, 0)
  <1> DEFINE w == [i \in 1 .. 0 |-> 0]
  <1>1. w \in SectorLists(0)
    BY DEF SectorLists
  <1>2. Along(t, x, 0, w) /\ Filled(da, n, 0, w)
    BY DEF Along, Filled
  <1> HIDE DEF w
  <1> QED
    BY <1>1, <1>2 DEF Runs

\* The entry of a file that is not open, and of which nothing is promised, is
\* deleted or emptied.
LEMMA GoneDir ==
  ASSUME NEW d \in Dirs, NEW dd, NEW f \in Fils, NEW p, NEW r, NEW pr, DirAt(d, dd, f, p, r, pr),
         p # "flush",
         NEW s \in Slots, d[s].name \in Names, pr[d[s].name] = Unknown,
         \A h \in Handles : f[h].open => f[h].slot # s,
         NEW e, e.name \in {d[s].name, Deleted}, NEW r2, pr[r2.n] = Unknown,
         NEW d2, d2[s] = e, \A z \in Slots \ {s} : d2[z] = d[z]
  PROVE  DirAt(d2, dd, f, "remove", r2, pr)
  <1>1. Deleted \notin Names /\ Deleted # End
    BY NameAssumption DEF Deleted, End
  <1>2. Ordered(d2)
    <2> SUFFICES ASSUME NEW z \in Slots, d2[z].name \in Names, NEW x \in 1 .. z - 1
                 PROVE  d2[x].name # End /\ d2[x].name # d2[z].name
      BY DEF Ordered
    <2>1. x \in Slots
      BY EarlierSlot
    <2>2. d2[z].name = d[z].name
      BY <1>1
    <2>3. d[x].name # End /\ d[x].name # d[z].name
      BY <2>2 DEF DirAt, Ordered
    <2>4. d2[x].name = d[x].name \/ d2[x].name = Deleted
      BY <2>1
    <2> QED
      BY <1>1, <2>2, <2>3, <2>4
  <1>3. Owed(d2, dd, pr)
    BY DEF DirAt, Owed
  <1>4. Settled(d2, dd, f, "remove", r2)
    <2> SUFFICES ASSUME NEW h \in Handles, Saved(f[h])
                 PROVE  Filed(f[h], d2[f[h].slot]) /\ Filed(f[h], dd[f[h].slot])
      BY DEF Settled
    <2>1. Filed(f[h], d[f[h].slot]) /\ Filed(f[h], dd[f[h].slot])
      BY DEF DirAt, Settled, Storing
    <2>2. f[h].slot # s /\ f[h].slot \in Slots
      BY DEF Saved, Fils, Fil
    <2> QED
      BY <2>1, <2>2
  <1>5. Searched(d2, "remove", r2) /\ Flushing(d2, f, "remove", r2)
    BY DEF Searched, Flushing
  <1>6. Unpromised(f, "remove", r2, pr)
    BY DEF DirAt, Unpromised
  <1> QED
    BY <1>2, <1>3, <1>4, <1>5, <1>6 DEF DirAt

\* What its entry on the card leads to is nobody's then, and still there.
LEMMA GoneData ==
  ASSUME NEW t, NEW d \in Dirs, NEW tt, NEW dd \in Dirs, NEW da, NEW f \in Fils, NEW p, NEW r,
         DataAt(t, d, tt, dd, da, f, p, r), p # "data",
         NEW own, Vol(t, d, f, own),
         NEW s \in Slots, \A h \in Handles : f[h].open => f[h].slot # s,
         NEW e, e.clust = 0, e.size = 0,
         NEW d2, d2[s] = e, \A z \in Slots \ {s} : d2[z] = d[z],
         NEW r2
  PROVE  DataAt(t, d2, tt, dd, da, f, "remove", r2)
  <1>1. EntriesRun(t, da, d2)
    BY EmptyRuns DEF DataAt, EntriesRun
  <1>2. ObjectsRun(t, da, f, "remove", r2)
    BY DEF DataAt, ObjectsRun, Writing
  <1>3. ASSUME NEW x \in Clusters, Loose(t, d, f, x) PROVE Loose(t, d2, f, x)
    BY <1>3, Special DEF Loose
  <1>4. CardRuns(t, d2, tt, dd, da, f)
    <2> SUFFICES ASSUME NEW z \in Slots, dd[z].name \in Names /\ dd[z].size > 0
                 PROVE  /\ Twice(t, tt, da, dd[z])
                        /\ SameHead(dd[z], d2[z]) \/ Loose(t, d2, f, dd[z].clust)
      BY DEF CardRuns
    <2>1. /\ Twice(t, tt, da, dd[z])
          /\ SameHead(dd[z], d[z]) \/ Loose(t, d, f, dd[z].clust)
      BY DEF DataAt, CardRuns
    <2>2. dd[z].clust \in Clusters
      BY <2>1, TwiceStart DEF Dirs, Entry
    <2>3. CASE SameHead(dd[z], d[z]) /\ z = s
      <3>1. HeadAt(t, own, d[s].clust, s) /\ d[s].clust = dd[z].clust
        BY <2>3 DEF SameHead, Vol, EntriesOK
      <3>2. \A y \in Slots \ {s} : d[y].name \in Names => d[y].clust # d[s].clust
        BY <2>2, <3>1 DEF Vol, EntriesOK, HeadAt
      <3>3. \A h \in Handles : f[h].open => f[h].org # d[s].clust
        BY <2>2, <3>1 DEF Vol, ObjectsOK, ObjectOK, HeadAt
      <3>4. Loose(t, d2, f, d[s].clust)
        BY <2>2, <3>1, <3>2, <3>3, Special DEF Loose, HeadAt
      <3> QED
        BY <2>1, <3>1, <3>4
    <2> QED
      BY <1>3, <2>1, <2>2, <2>3
  <1>5. Aimed(f, "remove", r2)
    BY DEF Aimed
  <1> QED
    BY <1>1, <1>2, <1>4, <1>5 DEF DataAt

\* A new entry in a slot that is not in use.
LEMMA NewDir ==
  ASSUME NEW d \in Dirs, NEW dd, NEW f \in Fils, NEW r, NEW pr, DirAt(d, dd, f, "reserve", r, pr),
         r.n \in Names, r.slot \in Slots, d[r.slot].name \notin Names,
         \A h \in Handles : f[h].open => f[h].slot # r.slot,
         NEW e, e.name = r.n,
         NEW d2, d2[r.slot] = e, \A z \in Slots \ {r.slot} : d2[z] = d[z], NEW r2
  PROVE  DirAt(d2, dd, f, "idle", r2, pr) /\ pr[r.n] = Unknown
  <1> DEFINE s == r.slot
  <1>1. End \notin Names
    BY NameAssumption
  <1>2. /\ \A z \in Slots : d[z].name # r.n
        /\ \A x \in 1 .. s - 1 : d[x].name \in Names
    BY DEF DirAt, Searched
  <1>3. Ordered(d2)
    <2> SUFFICES ASSUME NEW z \in Slots, d2[z].name \in Names, NEW x \in 1 .. z - 1
                 PROVE  d2[x].name # End /\ d2[x].name # d2[z].name
      BY DEF Ordered
    <2>1. x \in Slots /\ x # z
      BY EarlierSlot, FirstSlot
    <2>2. CASE z = s
      <3>1. d2[x] = d[x] /\ d[x].name \in Names /\ d[x].name # r.n
        BY <1>2, <2>1, <2>2
      <3> QED
        BY <1>1, <2>2, <3>1
    <2>3. CASE z # s
      <3>1. d[z].name \in Names /\ d2[z] = d[z] /\ d[z].name # r.n
        BY <1>2, <2>3
      <3>2. d[x].name # End /\ d[x].name # d[z].name
        BY <3>1 DEF DirAt, Ordered
      <3> QED
        BY <1>1, <2>1, <3>1, <3>2
    <2> QED
      BY <2>2, <2>3
  <1>4. Owed(d2, dd, pr)
    BY DEF DirAt, Owed
  <1>5. pr[r.n] = Unknown
    BY <1>2 DEF DirAt, Owed
  <1>6. Settled(d2, dd, f, "idle", r2)
    <2> SUFFICES ASSUME NEW h \in Handles, Saved(f[h])
                 PROVE  Filed(f[h], d2[f[h].slot]) /\ Filed(f[h], dd[f[h].slot])
      BY DEF Settled
    <2>1. Filed(f[h], d[f[h].slot]) /\ Filed(f[h], dd[f[h].slot])
      BY DEF DirAt, Settled, Storing
    <2>2. f[h].slot # s /\ f[h].slot \in Slots
      BY DEF Saved, Fils, Fil
    <2> QED
      BY <2>1, <2>2
  <1>7. Searched(d2, "idle", r2) /\ Flushing(d2, f, "idle", r2)
    BY DEF Searched, Flushing
  <1>8. Unpromised(f, "idle", r2, pr)
    BY DEF DirAt, Unpromised
  <1> QED
    BY <1>3, <1>4, <1>5, <1>6, <1>7, <1>8 DEF DirAt

\* The new entry has no sectors.
LEMMA NewData ==
  ASSUME NEW t, NEW d \in Dirs, NEW tt, NEW dd \in Dirs, NEW da, NEW f \in Fils, NEW p, NEW r,
         DataAt(t, d, tt, dd, da, f, p, r), p # "data",
         NEW s \in Slots, d[s].name \notin Names,
         NEW e, e.clust = 0, e.size = 0,
         NEW d2, d2[s] = e, \A z \in Slots \ {s} : d2[z] = d[z], NEW r2
  PROVE  DataAt(t, d2, tt, dd, da, f, "idle", r2)
  <1>1. EntriesRun(t, da, d2)
    BY EmptyRuns DEF DataAt, EntriesRun
  <1>2. ObjectsRun(t, da, f, "idle", r2)
    BY DEF DataAt, ObjectsRun, Writing
  <1>3. ASSUME NEW x \in Clusters, Loose(t, d, f, x) PROVE Loose(t, d2, f, x)
    BY <1>3, Special DEF Loose
  <1>4. CardRuns(t, d2, tt, dd, da, f)
    <2> SUFFICES ASSUME NEW z \in Slots, dd[z].name \in Names /\ dd[z].size > 0
                 PROVE  /\ Twice(t, tt, da, dd[z])
                        /\ SameHead(dd[z], d2[z]) \/ Loose(t, d2, f, dd[z].clust)
      BY DEF CardRuns
    <2>1. /\ Twice(t, tt, da, dd[z])
          /\ SameHead(dd[z], d[z]) \/ Loose(t, d, f, dd[z].clust)
      BY DEF DataAt, CardRuns
    <2>2. dd[z].clust \in Clusters
      BY <2>1, TwiceStart DEF Dirs, Entry
    <2>3. SameHead(dd[z], d[z]) => z # s
      BY DEF SameHead
    <2> QED
      BY <1>3, <2>1, <2>2, <2>3
  <1>5. Aimed(f, "idle", r2)
    BY DEF Aimed
  <1> QED
    BY <1>1, <1>2, <1>4, <1>5 DEF DataAt

\* f_open succeeds on an entry.
LEMMA OpenedDir ==
  ASSUME NEW d, NEW dd, NEW f, NEW p, NEW r, NEW pr, DirAt(d, dd, f, p, r, pr), p # "flush",
         NEW h \in Handles, NEW f2, ~Saved(f2[h]), f2[h].written => pr[f2[h].name] = Unknown,
         \A g \in Handles \ {h} : f2[g] = f[g], NEW r2
  PROVE  DirAt(d, dd, f2, "idle", r2, pr)
  <1>1. Fewer(pr, pr)
    BY DEF Fewer
  <1>2. \A g \in Handles : Settles(f[g], f2[g]) /\ ~Storing(p, r, g)
    BY DEF Settles, Storing
  <1>3. Searched(d, "idle", r2) /\ Flushing(d, f2, "idle", r2)
    BY DEF Searched, Flushing
  <1>4. Unpromised(f2, "idle", r2, pr)
    BY DEF DirAt, Unpromised
  <1> QED
    BY <1>1, <1>2, <1>3, <1>4, DirSame

\* The file object starts where the entry does.
LEMMA OpenedData ==
  ASSUME NEW t, NEW d, NEW tt, NEW dd \in Dirs, NEW da, NEW f, NEW p, NEW r,
         DataAt(t, d, tt, dd, da, f, p, r), p # "data",
         NEW s \in Slots, d[s].name \in Names,
         NEW h \in Handles, NEW f2, f2[h].name = d[s].name, f2[h].org = d[s].clust,
         f2[h].fsize = d[s].size, f2[h].fptr = 0, d[s].size \in Nat,
         \A g \in Handles \ {h} : f2[g] = f[g], NEW r2
  PROVE  DataAt(t, d, tt, dd, da, f2, "idle", r2)
  <1>1. Placed(t, da, f2[h], FALSE)
    <2>1. Runs(t, da, f2[h].org, f2[h].name, f2[h].fsize)
      BY DEF DataAt, EntriesRun
    <2> PICK w \in SectorLists(f2[h].fsize) :
             Along(t, f2[h].org, f2[h].fsize, w) /\ Filled(da, f2[h].name, f2[h].fsize, w)
      BY <2>1 DEF Runs
    <2>2. AtCurrent(t, f2[h], w, FALSE)
      BY DEF AtCurrent
    <2>3. f2[h].fptr <= f2[h].fsize
      OBVIOUS
    <2> QED
      BY <2>2, <2>3 DEF Placed
  <1>2. ObjectsRun(t, da, f2, "idle", r2)
    BY <1>1 DEF DataAt, ObjectsRun, Writing
  <1>3. ASSUME NEW x, Loose(t, d, f, x) PROVE Loose(t, d, f2, x)
    BY <1>3 DEF Loose
  <1>4. CardRuns(t, d, tt, dd, da, f2)
    BY <1>3 DEF DataAt, CardRuns
  <1>5. Aimed(f2, "idle", r2)
    BY DEF Aimed
  <1> QED
    BY <1>2, <1>4, <1>5 DEF DataAt

-----------------------------------------------------------------------------
(* The steps on the directory.                                             *)

\* A search of the directory that has reached the end mark, or the last entry.
LEMMA NobodyCalled ==
  ASSUME NEW d, Ordered(d), NEW n \in Names, NEW s \in Slots,
         \A x \in 1 .. s - 1 : d[x].name # n, d[s].name # n, d[s].name = End \/ Last(s)
  PROVE  \A z \in Slots : d[z].name # n
  <1> SUFFICES ASSUME NEW z \in Slots, d[z].name = n PROVE FALSE
    OBVIOUS
  <1>1. s \in Nat /\ z \in Nat /\ s >= 1 /\ z >= 1 /\ z <= NSlots /\ NSlots \in Nat
    BY FirstSlot DEF Slots
  <1>2. CASE z < s
    <2>1. z \in 1 .. s - 1
      BY <1>1, <1>2
    <2> QED
      BY <2>1
  <1>3. CASE z > s
    <2>1. s \in 1 .. z - 1
      BY <1>1, <1>3
    <2>2. d[s].name # End
      BY <2>1 DEF Ordered
    <2>3. s # NSlots
      BY <1>1, <1>3
    <2> QED
      BY <2>2, <2>3 DEF Last
  <1>4. z # s
    OBVIOUS
  <1> QED
    BY <1>1, <1>2, <1>3, <1>4

\* The next entry.
LEMMA OneMore ==
  ASSUME NEW s \in Slots, NEW x \in 1 .. (s + 1) - 1
  PROVE  x \in 1 .. s - 1 \/ x = s
  <1>1. s \in Nat
    BY FirstSlot
  <1> QED
    BY <1>1

\* A step of a call on the directory after which nothing has changed.
LEMMA LookedPromised ==
  ASSUME TypeOK, NowApart, Promised, FatNow' = FatNow, DirNow' = DirNow,
         UNCHANGED <<fat, dir, data, fil, promise>>, pc \notin {"data", "flush"},
         pc' \in {"idle", "trace", "reserve", "list", "count"}, Searched(DirNow, pc', reg'),
         pc' = "trace" => pc = "trace" /\ reg'.op = reg.op /\ reg'.mode = reg.mode /\ reg'.n = reg.n
  PROVE  NextPromised
  <1>1. Fewer(promise, promise')
    BY DEF Fewer
  <1>2. \A h \in Handles : fil[h].open /\ fil[h].written => promise'[fil[h].name] = Unknown
    BY <1>1, WrittenStay
  <1>3. Unpromised(fil, pc', reg', promise')
    <2>1. CASE pc' = "trace"
      BY <1>2, <2>1 DEF Promised, DirInv, DirAt, Unpromised
    <2>2. CASE pc' # "trace"
      BY <1>2, <2>2 DEF Unpromised
    <2> QED
      BY <2>1, <2>2
  <1>4. Aimed(fil, pc', reg')
    BY DEF Aimed
  <1> QED
    BY <1>1, <1>3, <1>4, StillPromised

\* A call returns, and nothing has changed.
LEMMA ReturnPromised ==
  ASSUME TypeOK, NowApart, Promised, UNCHANGED <<fat, dir, data, fil, promise, win>>,
         pc \notin {"data", "flush"}, Return
  PROVE  NextPromised
  <1>1. FatNow' = FatNow /\ DirNow' = DirNow
    BY SameNow
  <1>2. pc' = "idle"
    BY DEF Return
  <1>3. Searched(DirNow, pc', reg')
    BY <1>2 DEF Searched
  <1> QED
    BY <1>1, <1>2, <1>3, LookedPromised

\* f_open succeeds on the entry in slot reg.slot.
LEMMA OpenFilePromised ==
  ASSUME TypeOK, NEW t, NEW d, NEW p, NEW r, p \notin {"flush", "data"},
         DirAt(d, dir, fil, p, r, promise), DataAt(t, d, fat, dir, data, fil, p, r),
         reg.h \in Handles, reg.slot \in Slots, reg.n \in Names, d[reg.slot].name = reg.n,
         NEW created, created => promise[reg.n] = Unknown,
         NEW e, e.clust = d[reg.slot].clust, e.size = d[reg.slot].size, e.size \in Nat,
         OpenFile(e, created), FatNow' = t, DirNow' = d, UNCHANGED <<fat, dir, data, promise>>
  PROVE  NextPromised
  <1> DEFINE o == [Closed EXCEPT !.open = TRUE, !.name = reg.n, !.written = created,
                                 !.changed = created, !.fsize = e.size,
                                 !.org = e.clust, !.slot = reg.slot]
  <1>1. dir \in Dirs /\ fil \in Fils
    BY NowTyped DEF TypeOK, Dirs
  <1>2. fil'[reg.h] = o /\ \A g \in Handles \ {reg.h} : fil'[g] = fil[g]
    BY <1>1 DEF OpenFile, Fils
  <1>3. /\ o.name = reg.n /\ o.written = created /\ o.changed = created
        /\ o.fsize = e.size /\ o.org = e.clust /\ o.fptr = 0
    BY DEF Closed
  <1> HIDE DEF o
  <1>4. pc' = "idle"
    BY DEF OpenFile, Return
  <1>5. DirAt(d, dir, fil', "idle", reg', promise)
    <2>1. ~Saved(fil'[reg.h]) /\ (fil'[reg.h].written => promise[fil'[reg.h].name] = Unknown)
      BY <1>2, <1>3 DEF Saved
    <2> QED
      BY <1>2, <2>1, OpenedDir
  <1>6. DataAt(t, d, fat, dir, data, fil', "idle", reg')
    <2>1. /\ fil'[reg.h].name = d[reg.slot].name /\ fil'[reg.h].org = d[reg.slot].clust
          /\ fil'[reg.h].fsize = d[reg.slot].size /\ fil'[reg.h].fptr = 0
          /\ d[reg.slot].size \in Nat /\ d[reg.slot].name \in Names
      BY <1>2, <1>3
    <2> QED
      BY <1>1, <1>2, <2>1, OpenedData
  <1> QED
    BY <1>4, <1>5, <1>6 DEF NextPromised, NextDir, NextData

LEMMA TracePathPromised ==
  ASSUME TypeOK, NowApart, Promised, TracePath
  PROVE  NextPromised
  <1> PICK own \in Owners : /\ Vol(FatNow, DirNow, fil, own)
                            /\ Found(FatNow, DirNow, fil, own, pc, reg)
    BY DEF NowApart, Apart
  <1> DEFINE s == reg.slot
             e == win.dir[s]
  <1>1. /\ DirNow \in Dirs /\ dir \in Dirs /\ fil \in Fils /\ reg \in Regs
        /\ s \in DirIn(win.sect) /\ s \in Slots /\ e = DirNow[s] /\ e \in Entry
    <2>1. s \in DirIn(win.sect)
      BY Shown DEF TracePath
    <2> QED
      BY <2>1, NowTyped, Showing DEF DirIn, Dirs, TypeOK
  <1>2. /\ pc = "trace" /\ reg.op \in {"open", "unlink"} /\ reg.n \in Names /\ reg.old = 0
        /\ reg.op = "open" => reg.h \in Handles
        /\ \A h \in Handles : fil[h].open => fil[h].name # reg.n
    BY DEF TracePath, Here, TypeOK, CallOK, Found
  <1>3. UNCHANGED <<fat, dir, data, promise>>
    BY DEF TracePath, card
  <1>4. e.name = reg.n => \A h \in Handles : fil[h].open => fil[h].slot # s
    BY <1>1, <1>2, NotOpen
  <1>5. Ordered(DirNow) /\ \A x \in 1 .. s - 1 : DirNow[x].name # End /\ DirNow[x].name # reg.n
    BY <1>2 DEF Promised, DirInv, DirAt, Searched
  <1>6. /\ DirAt(DirNow, dir, fil, pc, reg, promise)
        /\ DataAt(FatNow, DirNow, fat, dir, data, fil, pc, reg)
    BY DEF Promised, DirInv, DataInv
  <1> HIDE DEF e
  <1>7. CASE /\ e.name = End \/ (e.name # reg.n /\ Last(s))
             /\ NotFound /\ UNCHANGED <<win, fil>>
    <2>1. FatNow' = FatNow /\ DirNow' = DirNow
      BY <1>3, <1>7, SameNow
    <2>2. CASE Return
      BY <1>2, <1>3, <1>7, <2>2, ReturnPromised
    <2>3. CASE pc' = "reserve" /\ reg' = [reg EXCEPT !.slot = 1]
      <3>1. reg'.slot = 1 /\ reg'.n = reg.n
        BY <1>1, <2>3 DEF Regs
      <3>2. e.name # reg.n
        BY <1>2, <1>7, NameAssumption
      <3>3. \A z \in Slots : DirNow[z].name # reg.n
        BY <1>1, <1>2, <1>5, <1>7, <3>2, NobodyCalled
      <3>4. Searched(DirNow, pc', reg')
        BY <2>3, <3>1, <3>3 DEF Searched
      <3> QED
        BY <1>2, <1>3, <1>7, <2>1, <2>3, <3>4, LookedPromised
    <2> QED
      BY <1>7, <2>2, <2>3 DEF NotFound
  <1>8. CASE /\ e.name \notin {End, reg.n}
             /\ reg' = [reg EXCEPT !.slot = @ + 1] /\ UNCHANGED <<win, fil, pc>>
    <2>1. FatNow' = FatNow /\ DirNow' = DirNow
      BY <1>3, <1>8, SameNow
    <2>2. reg'.op = reg.op /\ reg'.mode = reg.mode /\ reg'.n = reg.n /\ reg'.slot = s + 1
      BY <1>1, <1>8 DEF Regs
    <2>3. \A x \in 1 .. (s + 1) - 1 : DirNow[x].name # End /\ DirNow[x].name # reg.n
      BY <1>1, <1>5, <1>8, OneMore
    <2>4. Searched(DirNow, pc', reg')
      BY <1>2, <1>8, <2>2, <2>3 DEF Searched
    <2> QED
      BY <1>2, <1>3, <1>8, <2>1, <2>2, <2>4, LookedPromised
  <1>9. CASE Return /\ UNCHANGED <<win, fil>>
    BY <1>2, <1>3, <1>9, ReturnPromised
  <1>10. ASSUME e.name = reg.n, NEW e2, e2.clust = 0, e2.size = 0, e2.name \in {e.name, Deleted},
                SetEntry(s, e2), pc' = "remove", fil' = fil, reg'.n = reg.n,
                reg.op = "unlink" \/ (reg.op = "open" /\ reg.mode = "always")
         PROVE  NextPromised
    <2>1. DirNow' = [DirNow EXCEPT ![s] = e2] /\ FatNow' = FatNow
      BY <1>1, <1>3, <1>10, SetEntryNow
    <2>2. DirNow'[s] = e2 /\ \A z \in Slots \ {s} : DirNow'[z] = DirNow[z]
      BY <1>1, <2>1 DEF Dirs
    <2>3. promise[reg.n] = Unknown
      BY <1>2, <1>6, <1>10 DEF DirAt, Unpromised
    <2>4. DirNow[s].name \in Names /\ promise[DirNow[s].name] = Unknown /\ promise[reg'.n] = Unknown
      BY <1>1, <1>2, <1>10, <2>3
    <2>5. \A h \in Handles : fil[h].open => fil[h].slot # s
      BY <1>4, <1>10
    <2>6. e2.name \in {DirNow[s].name, Deleted} /\ pc # "flush" /\ pc # "data"
      BY <1>1, <1>2, <1>10
    <2>7. DirAt(DirNow', dir, fil, "remove", reg', promise)
      BY <1>1, <1>6, <2>2, <2>4, <2>5, <2>6, GoneDir
    <2>8. DataAt(FatNow, DirNow', fat, dir, data, fil, "remove", reg')
      BY <1>1, <1>6, <1>10, <2>2, <2>5, <2>6, GoneData
    <2> QED
      BY <1>3, <1>10, <2>1, <2>7, <2>8 DEF NextPromised, NextDir, NextData
  <1>11. CASE /\ e.name = reg.n /\ reg.op = "unlink"
              /\ SetEntry(s, Deletion(e))
              /\ pc' = "remove" /\ reg' = [reg EXCEPT !.clust = Head(e)]
              /\ UNCHANGED fil
    <2>1. Deletion(e).clust = 0 /\ Deletion(e).size = 0 /\ Deletion(e).name = Deleted
      BY DEF Deletion, Blank
    <2>2. reg'.n = reg.n
      BY <1>1, <1>11 DEF Regs
    <2> QED
      BY <1>10, <1>11, <2>1, <2>2
  <1>12. CASE /\ e.name = reg.n /\ reg.op = "open" /\ reg.mode = "always"
              /\ SetEntry(s, Emptied(e))
              /\ pc' = "remove"
              /\ reg' = [reg EXCEPT !.clust = Head(e), !.rs = e.clust]
              /\ UNCHANGED fil
    <2>1. Emptied(e).clust = 0 /\ Emptied(e).size = 0 /\ Emptied(e).name = e.name
      BY DEF Emptied, Blank
    <2>2. reg'.n = reg.n
      BY <1>1, <1>12 DEF Regs
    <2> QED
      BY <1>10, <1>12, <2>1, <2>2
  <1>13. CASE e.name = reg.n /\ reg.op = "open" /\ OpenFile(e, FALSE) /\ UNCHANGED win
    <2>1. FatNow' = FatNow /\ DirNow' = DirNow
      BY <1>3, <1>13, SameNow
    <2>2. e.clust = DirNow[s].clust /\ e.size = DirNow[s].size /\ e.size \in Nat
      BY <1>1 DEF Entry
    <2>3. pc \notin {"flush", "data"}
      BY <1>2
    <2>4. DirNow[s].name = reg.n
      BY <1>1, <1>13
    <2> QED
      BY <1>1, <1>2, <1>3, <1>6, <1>13, <2>1, <2>2, <2>3, <2>4, OpenFilePromised
  <1> QED
    BY <1>2, <1>7, <1>8, <1>9, <1>11, <1>12, <1>13 DEF TracePath, e

\* The two loops that only look.
LEMMA LooksPromised ==
  ASSUME TypeOK, NowApart, Promised, f_readdir \/ CountFree
  PROVE  NextPromised
  <1>1. /\ UNCHANGED <<fat, dir, data, fil, promise, win>> /\ pc \in {"list", "count"}
        /\ pc' = pc \/ Return
    BY DEF f_readdir, CountFree, card, Here
  <1>2. CASE Return
    BY <1>1, <1>2, ReturnPromised
  <1>3. CASE pc' = pc
    <2>1. FatNow' = FatNow /\ DirNow' = DirNow
      BY <1>1, SameNow
    <2>2. Searched(DirNow, pc', reg')
      BY <1>1, <1>3 DEF Searched
    <2> QED
      BY <1>1, <1>3, <2>1, <2>2, LookedPromised
  <1> QED
    BY <1>1, <1>2, <1>3

LEMMA ReserveEntryPromised ==
  ASSUME TypeOK, NowApart, Promised, ReserveEntry
  PROVE  NextPromised
  <1> PICK own \in Owners : /\ Vol(FatNow, DirNow, fil, own)
                            /\ Found(FatNow, DirNow, fil, own, pc, reg)
    BY DEF NowApart, Apart
  <1> DEFINE s == reg.slot
             e == win.dir[s]
  <1>1. /\ DirNow \in Dirs /\ dir \in Dirs /\ fil \in Fils /\ reg \in Regs
        /\ s \in DirIn(win.sect) /\ s \in Slots /\ e = DirNow[s] /\ e \in Entry
    <2>1. s \in DirIn(win.sect)
      BY Shown DEF ReserveEntry
    <2> QED
      BY <2>1, NowTyped, Showing DEF DirIn, Dirs, TypeOK
  <1>2. pc = "reserve" /\ reg.op = "open" /\ reg.n \in Names /\ reg.h \in Handles
    BY DEF ReserveEntry, Here, TypeOK, CallOK, Found
  <1>3. UNCHANGED <<fat, dir, data, promise>>
    BY DEF ReserveEntry, card
  <1>4. /\ DirAt(DirNow, dir, fil, "reserve", reg, promise)
        /\ DataAt(FatNow, DirNow, fat, dir, data, fil, "reserve", reg)
    BY <1>2 DEF Promised, DirInv, DataInv
  <1> HIDE DEF e
  <1>5. CASE /\ e.name \in {End, Deleted}
             /\ SetEntry(s, Blank(reg.n)) /\ OpenFile(Blank(reg.n), TRUE)
    <2>1. DirNow[s].name \notin Names
      BY <1>1, <1>5, NameAssumption
    <2>2. \A h \in Handles : fil[h].open => fil[h].slot # s
      BY <1>1, <2>1, NotOpen
    <2>3. DirNow' = [DirNow EXCEPT ![s] = Blank(reg.n)] /\ FatNow' = FatNow
      BY <1>1, <1>3, <1>5, SetEntryNow
    <2> DEFINE b == Blank(reg.n)
    <2>4. b.clust = 0 /\ b.size = 0 /\ b.name = reg.n /\ b.size \in Nat
      BY DEF Blank
    <2>5. DirNow'[s] = b /\ \A z \in Slots \ {s} : DirNow'[z] = DirNow[z]
      BY <1>1, <2>3 DEF Dirs
    <2> HIDE DEF b
    <2>6. DirAt(DirNow', dir, fil, "idle", NoCall, promise) /\ promise[reg.n] = Unknown
      BY <1>1, <1>2, <1>4, <2>1, <2>2, <2>4, <2>5, NewDir
    <2>7. DataAt(FatNow, DirNow', fat, dir, data, fil, "idle", NoCall)
      BY <1>1, <1>4, <2>1, <2>4, <2>5, NewData
    <2>8. /\ DirNow'[s].name = reg.n /\ b.clust = DirNow'[s].clust /\ b.size = DirNow'[s].size
          /\ OpenFile(b, TRUE)
      BY <1>5, <2>4, <2>5 DEF b
    <2>9. FatNow' = FatNow /\ "idle" \notin {"flush", "data"} /\ s \in Slots
      BY <1>1, <2>3
    <2> QED
      BY <1>2, <1>3, <2>4, <2>6, <2>7, <2>8, <2>9, OpenFilePromised
  <1>6. CASE /\ e.name \in Names
             /\ reg' = [reg EXCEPT !.slot = @ + 1] /\ UNCHANGED <<win, fil, pc>>
    <2>1. FatNow' = FatNow /\ DirNow' = DirNow
      BY <1>3, <1>6, SameNow
    <2>2. reg'.n = reg.n /\ reg'.slot = s + 1
      BY <1>1, <1>6 DEF Regs
    <2>3. \A x \in 1 .. (s + 1) - 1 : DirNow[x].name \in Names
      BY <1>1, <1>4, <1>6, OneMore DEF DirAt, Searched
    <2>4. Searched(DirNow, pc', reg')
      BY <1>2, <1>4, <1>6, <2>2, <2>3 DEF DirAt, Searched
    <2> QED
      BY <1>2, <1>3, <1>6, <2>1, <2>2, <2>4, LookedPromised
  <1>7. CASE Return /\ UNCHANGED <<win, fil>>
    BY <1>2, <1>3, <1>7, ReturnPromised
  <1> QED
    BY <1>2, <1>5, <1>6, <1>7 DEF ReserveEntry, e

\* f_open goes on with the file it has emptied.
LEMMA ReopenPromised ==
  ASSUME TypeOK, NowApart, Promised, Reopen
  PROVE  NextPromised
  <1> PICK own \in Owners : /\ Vol(FatNow, DirNow, fil, own)
                            /\ Found(FatNow, DirNow, fil, own, pc, reg)
    BY DEF NowApart, Apart
  <1> DEFINE s == reg.slot
             b == Blank(reg.n)
  <1>1. pc = "reopen" /\ reg.op = "open" /\ reg.n \in Names /\ reg.h \in Handles /\ s \in Slots
    BY DEF Reopen, Here, TypeOK, CallOK, Regs
  <1>2. UNCHANGED <<fat, dir, data, promise>> /\ OpenFile(b, TRUE) /\ DirNow[s] = b
    BY <1>1 DEF Reopen, card, Found
  <1>3. FatNow' = FatNow /\ DirNow' = DirNow
    BY <1>2, SameNow DEF Reopen
  <1>4. b.clust = 0 /\ b.size = 0 /\ b.name = reg.n
    BY DEF Blank
  <1> HIDE DEF b
  <1>5. /\ DirAt(DirNow, dir, fil, pc, reg, promise)
        /\ DataAt(FatNow, DirNow, fat, dir, data, fil, pc, reg)
        /\ promise[reg.n] = Unknown /\ pc \notin {"flush", "data"}
    BY <1>1 DEF Promised, DirInv, DataInv, DirAt, Unpromised
  <1>6. /\ DirNow[s].name = reg.n /\ b.clust = DirNow[s].clust /\ b.size = DirNow[s].size
        /\ b.size \in Nat
    BY <1>2, <1>4
  <1> QED
    BY <1>1, <1>2, <1>3, <1>5, <1>6, OpenFilePromised

-----------------------------------------------------------------------------
(* A chain is freed.                                                       *)

\* A cluster that no link leads to is on no walk but its own.
LEMMA FreedWalk ==
  ASSUME NEW t, NEW c \in Clusters, NoLinkTo(t, c), NEW x, x # c,
         NEW k \in Nat, NEW w \in SectorLists(k), Along(t, x, k, w),
         NEW da, NEW n, Filled(da, n, k, w),
         NEW t2, \A e \in Clusters \ {c} : t2[e] = t[e],
         NEW da2, \A e \in Clusters \ {c} : da2[e] = da[e]
  PROVE  Along(t2, x, k, w) /\ Filled(da2, n, k, w)
  <1>1. ASSUME NEW i \in 1 .. k PROVE w[i] \in Clusters \ {c}
    BY OnWalk DEF SectorLists, NoLinkTo
  <1>2. \A i \in 1 .. k - 1 : i \in 1 .. k
    OBVIOUS
  <1> QED
    BY <1>1, <1>2 DEF Along, Filled

\* Nobody's file loses a sector by that.
LEMMA FreedData ==
  ASSUME NEW t, NEW d \in Dirs, NEW tt, NEW da, NEW f \in Fils, NEW r,
         DataAt(t, d, tt, d, da, f, "remove", r), NEW own, Vol(t, d, f, own),
         NEW c \in Clusters, own[c] = 0, NoLinkTo(t, c),
         NEW t2, \A e \in Clusters \ {c} : t2[e] = t[e],
         NEW da2, \A e \in Clusters \ {c} : da2[e] = da[e], NEW r2
  PROVE  DataAt(t2, d, tt, d, da2, f, "remove", r2)
  <1>1. ASSUME NEW s \in Slots, d[s].name \in Names PROVE d[s].clust # c
    BY <1>1, Special DEF Vol, EntriesOK, HeadAt
  <1>2. ASSUME NEW h \in Handles, f[h].open PROVE f[h].org # c
    <2>1. f[h].slot \in Slots
      BY DEF Fils, Fil
    <2> QED
      BY <1>2, <2>1, Special DEF Vol, ObjectsOK, ObjectOK, HeadAt
  <1>3. EntriesRun(t2, da2, d)
    <2> SUFFICES ASSUME NEW s \in Slots, d[s].name \in Names
                 PROVE  Runs(t2, da2, d[s].clust, d[s].name, d[s].size)
      BY DEF EntriesRun
    <2>1. d[s].size \in Nat
      BY DEF Dirs, Entry
    <2>2. Runs(t, da, d[s].clust, d[s].name, d[s].size)
      BY DEF DataAt, EntriesRun
    <2> PICK w \in SectorLists(d[s].size) :
             Along(t, d[s].clust, d[s].size, w) /\ Filled(da, d[s].name, d[s].size, w)
      BY <2>2 DEF Runs
    <2>3. Along(t2, d[s].clust, d[s].size, w) /\ Filled(da2, d[s].name, d[s].size, w)
      BY <1>1, <2>1, FreedWalk
    <2> QED
      BY <2>3 DEF Runs
  <1>4. ObjectsRun(t2, da2, f, "remove", r2)
    <2> SUFFICES ASSUME NEW h \in Handles, f[h].open PROVE Placed(t2, da2, f[h], FALSE)
      BY DEF ObjectsRun, Writing
    <2>1. f[h].fsize \in Nat
      BY DEF Fils, Fil
    <2>2. Placed(t, da, f[h], FALSE)
      BY DEF DataAt, ObjectsRun, Writing
    <2> PICK w \in SectorLists(f[h].fsize) :
             /\ Along(t, f[h].org, f[h].fsize, w) /\ Filled(da, f[h].name, f[h].fsize, w)
             /\ ~f[h].error => AtCurrent(t, f[h], w, FALSE)
      BY <2>2 DEF Placed
    <2>3. Along(t2, f[h].org, f[h].fsize, w) /\ Filled(da2, f[h].name, f[h].fsize, w)
      BY <1>2, <2>1, FreedWalk
    <2>4. ~f[h].error => AtCurrent(t2, f[h], w, FALSE)
      BY DEF AtCurrent
    <2> QED
      BY <2>2, <2>3, <2>4 DEF Placed
  <1>5. CardRuns(t2, d, tt, d, da2, f)
    <2> SUFFICES ASSUME NEW s \in Slots, d[s].name \in Names /\ d[s].size > 0
                 PROVE  Twice(t2, tt, da2, d[s])
      BY DEF CardRuns, SameHead
    <2>1. d[s].size \in Nat
      BY DEF Dirs, Entry
    <2>2. Twice(t, tt, da, d[s])
      BY DEF DataAt, CardRuns
    <2> PICK w \in SectorLists(d[s].size) :
             /\ Along(t, d[s].clust, d[s].size, w) /\ Along(tt, d[s].clust, d[s].size, w)
             /\ Filled(da, d[s].name, d[s].size, w)
      BY <2>2 DEF Twice
    <2>3. Along(t2, d[s].clust, d[s].size, w) /\ Filled(da2, d[s].name, d[s].size, w)
      BY <1>1, <2>1, FreedWalk
    <2> QED
      BY <2>3 DEF Twice
  <1>6. Aimed(f, "remove", r2)
    BY DEF Aimed
  <1> QED
    BY <1>3, <1>4, <1>5, <1>6 DEF DataAt

LEMMA RemoveChainPromised ==
  ASSUME TypeOK, NowApart, Promised, RemoveChain
  PROVE  NextPromised
  <1> PICK own \in Owners : /\ Vol(FatNow, DirNow, fil, own)
                            /\ Found(FatNow, DirNow, fil, own, pc, reg)
    BY DEF NowApart, Apart
  <1>1. /\ FatNow \in Tables /\ DirNow \in Dirs /\ dir \in Dirs /\ fil \in Fils /\ reg \in Regs
        /\ pc = "remove"
    BY NowTyped DEF RemoveChain, Here, ChainEnd, TypeOK, Dirs
  <1>2. /\ DirAt(DirNow, dir, fil, "remove", reg, promise)
        /\ DataAt(FatNow, DirNow, fat, dir, data, fil, "remove", reg)
        /\ promise[reg.n] = Unknown
    BY <1>1 DEF Promised, DirInv, DataInv, DirAt, Unpromised
  <1>3. CASE /\ Here("remove") /\ SetLink(reg.clust, 0)
             /\ data' = [data EXCEPT ![reg.clust] = None]
             /\ reg' = [reg EXCEPT !.clust = win.fat[reg.clust]]
             /\ UNCHANGED <<fat, dir, fil, pc, promise>>
    <2> DEFINE c == reg.clust
    <2>1. c \in Clusters
      BY <1>1, <1>3 DEF Here, Looking, ChainEnd
    <2>2. c \in FatIn(win.sect)
      BY <1>3, <2>1, Shown
    <2>3. FatNow' = [FatNow EXCEPT ![c] = 0] /\ DirNow' = DirNow
      BY <1>3, <2>2, SetLinkNow
    <2>4. DirNow = dir
      BY <2>2, TableShown
    <2>5. own[c] = 0 /\ NoLinkTo(FatNow, c)
      BY <1>1, <2>1 DEF Found, NoLinkTo
    <2>6. \A e \in Clusters \ {c} : FatNow'[e] = FatNow[e]
      BY <1>1, <2>3 DEF Tables
    <2>7. \A e \in Clusters \ {c} : data'[e] = data[e]
      BY <1>3 DEF TypeOK
    <2>8. reg'.n = reg.n
      BY <1>1, <1>3 DEF Regs
    <2> HIDE DEF c
    <2>9. DataAt(FatNow, DirNow, fat, DirNow, data, fil, "remove", reg)
      BY <1>2, <2>4
    <2>10. DataAt(FatNow', DirNow, fat, DirNow, data', fil, "remove", reg')
      BY <1>1, <2>1, <2>5, <2>6, <2>7, <2>9, FreedData
    <2>11. DirAt(DirNow, dir, fil, "remove", reg', promise)
      BY <1>2, <2>8 DEF DirAt, Searched, Settled, Storing, Flushing, Unpromised
    <2> QED
      BY <1>1, <1>3, <2>3, <2>4, <2>10, <2>11 DEF NextPromised, NextDir, NextData
  <1>4. CASE /\ UNCHANGED <<fat, dir, data, fil, reg, promise>>
             /\ win' = win \/ win' = [win EXCEPT !.dirty = TRUE]
             /\ pc' = "reopen" \/ (pc' = "flush" /\ reg.op = "unlink")
    <2>1. FatNow' = FatNow /\ DirNow' = DirNow
      BY <1>4, SameNow
    <2>2. Fewer(promise, promise')
      BY <1>4 DEF Fewer
    <2>3. Unpromised(fil, pc', reg', promise')
      BY <1>2, <1>4, <2>2, WrittenStay DEF Unpromised
    <2>4. Searched(DirNow, pc', reg') /\ Aimed(fil, pc', reg')
      BY <1>4 DEF Searched, Aimed
    <2> QED
      BY <1>1, <1>4, <2>1, <2>2, <2>3, <2>4, StillPromised
  <1> QED
    BY <1>3, <1>4 DEF RemoveChain, card

-----------------------------------------------------------------------------
(* create_chain.                                                           *)

\* Nobody's file loses a sector in a table that grows.
LEMMA GrownData ==
  ASSUME NEW t, NEW t2, Grows(t, t2), NEW d \in Dirs, NEW tt, NEW da, NEW f \in Fils,
         NEW p, NEW r, DataAt(t, d, tt, d, da, f, p, r), p # "data",
         NEW p2, p2 # "data", NEW r2, Aimed(f, p2, r2)
  PROVE  DataAt(t2, d, tt, d, da, f, p2, r2)
  <1>1. EntriesRun(t2, da, d) /\ CardRuns(t2, d, tt, d, da, f)
    BY EntriesGrow, CardRunsGrow DEF DataAt
  <1>2. ASSUME NEW h \in Handles, f[h].open PROVE Placed(t2, da, f[h], FALSE)
    <2>1. Placed(t, da, f[h], FALSE) /\ f[h].fsize \in Nat
      BY <1>2 DEF DataAt, ObjectsRun, Writing, Fils, Fil
    <2> QED
      BY <2>1, PlacedGrows
  <1> QED
    BY <1>1, <1>2 DEF DataAt, ObjectsRun, Writing

\* f_write goes on to cluster c.
LEMMA WriteToPromised ==
  ASSUME TypeOK, NowApart, Promised, pc \in {"stat", "scan", "link"}, reg.h \in Handles,
         fil[reg.h].open, NEW c \in Clusters, WriteTo(c),
         UNCHANGED <<fat, dir, data, promise>>, DirNow' = DirNow,
         NEW t2, Grows(FatNow, t2), FatNow' = t2,
         dir = DirNow \/ (t2 = FatNow /\ fil[reg.h].org # 0),
         fil[reg.h].fptr = 0 => fil[reg.h].org = 0,
         fil[reg.h].fptr > 0 => fil[reg.h].org # 0 /\ t2[fil[reg.h].curr] = c
  PROVE  NextPromised
  <1> DEFINE h == reg.h
             o == fil[h]
             x == IF o.org = 0 THEN c ELSE o.org
             o2 == [o EXCEPT !.curr = c, !.org = x]
  <1>1. /\ fil \in Fils /\ dir \in Dirs /\ DirNow \in Dirs /\ o \in Fil /\ o.fptr \in Nat
        /\ pc' = "data" /\ reg' = reg
    BY NowTyped DEF TypeOK, Dirs, Fils, Fil, WriteTo
  <1>2. /\ DirAt(DirNow, dir, fil, pc, reg, promise)
        /\ DataAt(FatNow, DirNow, fat, dir, data, fil, pc, reg)
    BY DEF Promised, DirInv, DataInv
  <1>3. ~o.error /\ promise[o.name] = Unknown
    BY <1>2 DEF DirAt, Unpromised, DataAt, Aimed
  <1>4. fil'[h] = o2 /\ \A g \in Handles \ {h} : fil'[g] = fil[g]
    BY <1>1 DEF WriteTo, Fils, Fil
  <1>5. /\ o2.name = o.name /\ o2.fptr = o.fptr /\ o2.fsize = o.fsize /\ o2.error = o.error
        /\ o2.open = o.open /\ o2.written = o.written /\ o2.changed = o.changed
        /\ o2.failed = o.failed /\ o2.slot = o.slot /\ o2.org = x /\ o2.curr = c
    BY <1>1 DEF Fil
  <1>6. x = o.org \/ o.org = 0
    OBVIOUS
  <1>7. c = IF o.fptr = 0 THEN x ELSE t2[o.curr]
    BY <1>1
  <1>8. o.org # 0 => x = o.org
    OBVIOUS
  <1> HIDE DEF o2, x
  <1>9. CardRuns(t2, DirNow, fat, dir, data, fil')
    <2>1. CASE dir = DirNow
      BY <1>1, <1>2, <2>1, CardRunsGrow DEF DataAt
    <2>2. CASE t2 = FatNow /\ o.org # 0
      <3>1. \A g \in Handles : fil'[g].open => fil[g].open /\ fil'[g].org = fil[g].org
        BY <1>4, <1>5, <1>8, <2>2
      <3> QED
        BY <1>1, <1>2, <2>2, <3>1, CardRunsStay DEF DataAt
    <2> QED
      BY <2>1, <2>2
  <1>10. DataAt(t2, DirNow, fat, dir, data, fil', "data", reg')
    <2>1. /\ ~o2.error /\ (o2.org = fil[h].org \/ fil[h].org = 0)
          /\ o2.curr = IF fil[h].fptr = 0 THEN o2.org ELSE t2[fil[h].curr]
          /\ o2.name = fil[h].name /\ o2.fptr = fil[h].fptr /\ o2.fsize = fil[h].fsize
          /\ ~fil[h].error /\ fil[h].open /\ h \in Handles /\ reg'.h = h /\ pc # "data"
      BY <1>1, <1>3, <1>5, <1>6, <1>7
    <2> HIDE DEF o, h
    <2> QED
      BY <1>1, <1>2, <1>4, <1>9, <2>1, FoundPlaceData
  <1>11. DirAt(DirNow, dir, fil', "data", reg', promise)
    <2>1. Fewer(promise, promise)
      BY DEF Fewer
    <2>2. \A g \in Handles : Settles(fil[g], fil'[g]) /\ ~Storing(pc, reg, g)
      BY <1>4, <1>5 DEF Settles, Saved, Storing
    <2>3. Searched(DirNow, "data", reg') /\ Flushing(DirNow, fil', "data", reg')
      BY DEF Searched, Flushing
    <2>4. Unpromised(fil', "data", reg', promise)
      <3>1. \A g \in Handles : fil'[g].open = fil[g].open /\ fil'[g].written = fil[g].written
                               /\ fil'[g].name = fil[g].name
        BY <1>4, <1>5
      <3>2. promise[fil'[reg'.h].name] = Unknown
        BY <1>1, <1>3, <3>1
      <3> QED
        BY <1>2, <3>1, <3>2 DEF DirAt, Unpromised
    <2> QED
      BY <1>2, <2>1, <2>2, <2>3, <2>4, DirSame
  <1> QED
    BY <1>1, <1>10, <1>11 DEF NextPromised, NextDir, NextData

LEMMA ChainStatPromised ==
  ASSUME TypeOK, NowApart, Promised, ChainStat
  PROVE  NextPromised
  <1> PICK own \in Owners : /\ Vol(FatNow, DirNow, fil, own)
                            /\ Found(FatNow, DirNow, fil, own, pc, reg)
    BY DEF NowApart, Apart
  <1> DEFINE c == reg.clust
             o == fil[reg.h]
  <1>1. /\ pc = "stat" /\ reg.op = "write" /\ reg.h \in Handles /\ c \in Clusters /\ c # 0
        /\ o.open /\ o.org # 0
    BY Special DEF ChainStat, Here, TypeOK, CallOK, Found
  <1>2. FatNow' = FatNow /\ DirNow' = DirNow /\ UNCHANGED <<fat, dir, data, promise>>
    BY SameNow DEF ChainStat, card
  <1>3. win.fat[c] = FatNow[c]
    BY <1>1, Shown, Showing DEF ChainStat
  <1>4. c = o.curr /\ o.fptr > 0 /\ ~o.error /\ promise[o.name] = Unknown
    BY <1>1 DEF Promised, DirInv, DataInv, DirAt, Unpromised, DataAt, Aimed
  <1>5. CASE BadChain
    BY <1>2, <1>5, IoErrorPromised DEF BadChain
  <1>6. CASE FatNow[c] \in Clusters /\ WriteTo(FatNow[c])
    <2>1. Grows(FatNow, FatNow)
      BY DEF Grows
    <2>2. o.fptr = 0 => o.org = 0
      BY <1>4
    <2> QED
      BY <1>1, <1>2, <1>4, <1>6, <2>1, <2>2, WriteToPromised
  <1>7. CASE ScanFrom(c, reg) /\ UNCHANGED fil
    <2>1. pc' = "scan" /\ reg'.clust = c /\ reg'.h = reg.h
      BY <1>7 DEF ScanFrom, Begin, TypeOK, Regs
    <2>2. Fewer(promise, promise')
      BY <1>2 DEF Fewer
    <2>3. Unpromised(fil, pc', reg', promise')
      BY <1>2, <1>4, <2>1, <2>2, WrittenStay DEF Unpromised
    <2>4. Searched(DirNow, pc', reg') /\ Aimed(fil, pc', reg')
      BY <1>1, <1>4, <2>1 DEF Searched, Aimed
    <2> QED
      BY <1>1, <1>2, <1>7, <2>1, <2>2, <2>3, <2>4, StillPromised
  <1> QED
    BY <1>3, <1>5, <1>6, <1>7 DEF ChainStat

\* The disk is full.
LEMMA DiskFullPromised ==
  ASSUME TypeOK, NowApart, Promised, pc = "scan", reg.h \in Handles, DiskFull,
         UNCHANGED <<fat, dir, data, win, promise>>
  PROVE  NextPromised
  <1> DEFINE h == reg.h
             o == fil[h]
             o2 == [o EXCEPT !.written = TRUE, !.changed = TRUE, !.failed = FALSE]
  <1>1. /\ fil \in Fils /\ o \in Fil /\ pc' = "idle" /\ FatNow' = FatNow /\ DirNow' = DirNow
    BY NowTyped, SameNow DEF Fils, DiskFull, Return
  <1>2. fil'[h] = o2 /\ \A g \in Handles \ {h} : fil'[g] = fil[g]
    BY <1>1 DEF DiskFull, Fils
  <1>3. /\ o2.name = o.name /\ o2.fptr = o.fptr /\ o2.fsize = o.fsize /\ o2.error = o.error
        /\ o2.open = o.open /\ o2.org = o.org /\ o2.curr = o.curr /\ o2.written
    BY <1>1 DEF Fil
  <1> HIDE DEF o2
  <1>4. promise[o.name] = Unknown
    BY DEF Promised, DirInv, DirAt, Unpromised
  <1>5. Fewer(promise, promise')
    BY DEF Fewer
  <1>6. \A g \in Handles : fil'[g].open =>
           fil[g].open /\ Unmoved(fil[g], fil'[g], Writing(pc, reg, g), Writing(pc', reg', g))
    BY <1>1, <1>2, <1>3 DEF Unmoved, Writing
  <1>7. \A g \in Handles : Settles(fil[g], fil'[g]) /\ ~Storing(pc, reg, g)
    BY <1>2, <1>3 DEF Settles, Saved, Storing
  <1>8. Searched(DirNow, pc', reg') /\ Flushing(DirNow, fil', pc', reg') /\ Aimed(fil', pc', reg')
    BY <1>1 DEF Searched, Flushing, Aimed
  <1>9. Unpromised(fil', pc', reg', promise')
    BY <1>1, <1>2, <1>3, <1>4, <1>5, WrittenStay DEF Unpromised
  <1> QED
    BY <1>1, <1>5, <1>6, <1>7, <1>8, <1>9, QuietPromised

LEMMA ChainScanPromised ==
  ASSUME TypeOK, NowApart, Promised, ChainScan
  PROVE  NextPromised
  <1> PICK own \in Owners : /\ Vol(FatNow, DirNow, fil, own)
                            /\ Found(FatNow, DirNow, fil, own, pc, reg)
    BY DEF NowApart, Apart
  <1> DEFINE n == reg.ncl
             o == fil[reg.h]
  <1>1. /\ pc = "scan" /\ reg.op = "write" /\ reg.h \in Handles /\ o.open
        /\ n \in {0} \cup Clusters /\ reg \in Regs
    BY NowTyped DEF ChainScan, ScanEnd, Here, TypeOK, CallOK, Found, Regs
  <1>2. UNCHANGED <<fat, dir, data, promise>>
    BY DEF ChainScan, card
  <1>3. /\ DirAt(DirNow, dir, fil, pc, reg, promise)
        /\ DataAt(FatNow, DirNow, fat, dir, data, fil, pc, reg)
        /\ DirNow \in Dirs /\ fil \in Fils /\ FatNow \in Tables
    BY NowTyped DEF Promised, DirInv, DataInv
  <1>4. CASE DiskFull /\ UNCHANGED win
    BY <1>1, <1>2, <1>4, DiskFullPromised
  <1>5. CASE /\ reg' = [reg EXCEPT !.ncl = NextClust(@, reg.scl)] /\ UNCHANGED <<fil, pc, win>>
    <2>1. reg'.clust = reg.clust /\ reg'.h = reg.h
      BY <1>1, <1>5 DEF Regs
    <2>2. Fewer(promise, promise') /\ FatNow' = FatNow /\ DirNow' = DirNow
      BY <1>2, <1>5, SameNow DEF Fewer
    <2>3. Unpromised(fil, pc', reg', promise')
      BY <1>1, <1>2, <1>3, <1>5, <2>1 DEF DirAt, Unpromised
    <2>4. Searched(DirNow, pc', reg') /\ Aimed(fil, pc', reg')
      BY <1>1, <1>3, <1>5, <2>1 DEF Searched, DataAt, Aimed
    <2> QED
      BY <1>1, <1>2, <1>5, <2>2, <2>3, <2>4, StillPromised
  <1>6. CASE /\ Here("scan") /\ win.fat[n] = 0 /\ SetLink(n, InUse)
             /\ \/ reg.clust = 0 /\ WriteTo(n)
                \/ reg.clust # 0 /\ pc' = "link" /\ UNCHANGED <<fil, reg>>
    <2>1. n \in Clusters
      BY <1>1, <1>6 DEF Here, Looking, ScanEnd
    <2>2. n \in FatIn(win.sect) /\ FatNow[n] = 0
      BY <1>1, <1>6, <2>1, Shown, Showing
    <2>3. FatNow' = [FatNow EXCEPT ![n] = Eoc] /\ DirNow' = DirNow
      BY <1>2, <1>6, <2>2, SetLinkNow DEF InUse
    <2>4. DirNow = dir
      BY <2>2, TableShown
    <2>5. Grows(FatNow, FatNow')
      BY <1>3, <2>2, <2>3 DEF Grows, Tables
    <2>6. CASE reg.clust = 0 /\ WriteTo(n)
      <3>1. o.fptr = 0 /\ o.org = 0
        BY <1>1, <1>3, <2>6 DEF DataAt, Aimed, Found
      <3>2. /\ pc \in {"stat", "scan", "link"} /\ reg.h \in Handles /\ fil[reg.h].open
            /\ n \in Clusters /\ WriteTo(n) /\ UNCHANGED <<fat, dir, data, promise>>
            /\ DirNow' = DirNow /\ dir = DirNow
        BY <1>1, <1>2, <2>1, <2>3, <2>4, <2>6
      <3>3. /\ fil[reg.h].fptr = 0 => fil[reg.h].org = 0
            /\ ~(fil[reg.h].fptr > 0)
        BY <3>1
      <3> QED
        BY <2>5, <3>2, <3>3, WriteToPromised
    <2>7. CASE pc' = "link" /\ UNCHANGED <<fil, reg>> /\ reg.clust # 0
      <3>1. DataAt(FatNow', DirNow, fat, DirNow, data, fil, "link", reg)
        <4>1. DataAt(FatNow, DirNow, fat, DirNow, data, fil, pc, reg)
          BY <1>3, <2>4
        <4>2. Aimed(fil, "link", reg) /\ pc # "data"
          BY <1>1, <1>3, <2>7 DEF DataAt, Aimed
        <4> QED
          BY <1>3, <2>5, <4>1, <4>2, GrownData
      <3>2. DirAt(DirNow, dir, fil, "link", reg, promise)
        BY <1>1, <1>3 DEF DirAt, Searched, Settled, Storing, Flushing, Unpromised
      <3> QED
        BY <1>2, <2>3, <2>4, <2>7, <3>1, <3>2 DEF NextPromised, NextDir, NextData
    <2> QED
      BY <1>6, <2>6, <2>7
  <1> QED
    BY <1>4, <1>5, <1>6 DEF ChainScan

LEMMA ChainLinkPromised ==
  ASSUME TypeOK, NowApart, Promised, ChainLink
  PROVE  NextPromised
  <1> PICK own \in Owners : /\ Vol(FatNow, DirNow, fil, own)
                            /\ Found(FatNow, DirNow, fil, own, pc, reg)
    BY DEF NowApart, Apart
  <1> DEFINE c == reg.clust
             n == reg.ncl
             o == fil[reg.h]
  <1>1. /\ pc = "link" /\ reg.op = "write" /\ reg.h \in Handles /\ n \in Clusters /\ o.open
        /\ c # 0 /\ o.org # 0 /\ c \in Clusters /\ FatNow[c] = Eoc /\ FatNow \in Tables
    BY NowTyped DEF ChainLink, Here, TypeOK, CallOK, Found
  <1>2. UNCHANGED <<fat, dir, data, promise>> /\ WriteTo(n) /\ SetLink(c, n)
    BY DEF ChainLink, card
  <1>3. c \in FatIn(win.sect)
    BY <1>1, Shown DEF ChainLink
  <1>4. FatNow' = [FatNow EXCEPT ![c] = n] /\ DirNow' = DirNow
    BY <1>2, <1>3, SetLinkNow
  <1>5. DirNow = dir
    BY <1>3, TableShown
  <1>6. Grows(FatNow, FatNow')
    BY <1>1, <1>4, Special DEF Grows, Tables
  <1>7. c = o.curr /\ o.fptr > 0
    BY <1>1 DEF Promised, DataInv, DataAt, Aimed
  <1>8. FatNow'[o.curr] = n
    BY <1>1, <1>4, <1>7 DEF Tables
  <1>9. o.fptr = 0 => o.org = 0
    BY <1>7
  <1> QED
    BY <1>1, <1>2, <1>4, <1>5, <1>6, <1>8, <1>9, WriteToPromised

-----------------------------------------------------------------------------
(* A sector is written.                                                    *)

\* c is the cluster for the sector behind the first m of the k that w leads through.
Reaches(t, x, k, w, m, c) ==
    /\ k \in Nat /\ w \in SectorLists(k) /\ Along(t, x, k, w) /\ m \in 0 .. k
    /\ c \in Clusters /\ t[c] # 0 /\ c = IF m = 0 THEN x ELSE t[w[m]]

\* The walk goes up to it, or through it.
LEMMA ReachedWalk ==
  ASSUME NEW t, NEW x, NEW k, NEW w, NEW m, NEW c, Reaches(t, x, k, w, m, c),
         NEW k2, k2 = IF m + 1 > k THEN m + 1 ELSE k
  PROVE  \E v \in SectorLists(k2) :
             Along(t, x, k2, v) /\ v[m + 1] = c /\ \A i \in 1 .. k : v[i] = w[i]
  <1> USE DEF Reaches
  <1>0. (k = 0 => x = c) /\ (k > 0 => w[1] = x)
    BY DEF Along
  <1>1. CASE m < k
    <2>1. k2 = k /\ m + 1 \in 1 .. k
      BY <1>1
    <2>2. w[m + 1] = c
      <3>1. CASE m = 0
        BY <1>0, <1>1, <3>1
      <3>2. CASE m # 0
        <4>1. m \in 1 .. k - 1
          BY <1>1, <3>2
        <4> QED
          BY <3>2, <4>1 DEF Along
      <3> QED
        BY <3>1, <3>2
    <2> QED
      BY <2>1, <2>2
  <1>2. CASE m = k
    <2> DEFINE v == [i \in 1 .. k + 1 |-> IF i <= k THEN w[i] ELSE c]
    <2>1. k2 = k + 1 /\ k + 1 \in 1 .. k + 1 /\ ~(k + 1 <= k)
      BY <1>2
    <2>2. \A i \in 1 .. k : i \in 1 .. k + 1 /\ i <= k
      OBVIOUS
    <2>3. \A i \in 1 .. k : v[i] = w[i] /\ v[i] \in Clusters /\ t[v[i]] # 0
      BY <2>2 DEF SectorLists, Along
    <2>4. v[k + 1] = c
      BY <2>1
    <2>5. v \in SectorLists(k + 1)
      BY DEF SectorLists
    <2> HIDE DEF v
    <2>6. v[1] = x
      <3>1. CASE k = 0
        BY <1>0, <2>4, <3>1
      <3>2. CASE k # 0
        <4>1. 1 \in 1 .. k /\ k > 0
          BY <3>2
        <4> QED
          BY <1>0, <2>3, <4>1
      <3> QED
        BY <3>1, <3>2
    <2>7. ASSUME NEW i \in 1 .. k + 1 PROVE t[v[i]] # 0
      <3>1. i \in 1 .. k \/ i = k + 1
        OBVIOUS
      <3> QED
        BY <2>3, <2>4, <3>1
    <2>8. ASSUME NEW i \in 1 .. (k + 1) - 1 PROVE t[v[i]] = v[i + 1]
      <3>1. i \in 1 .. k
        OBVIOUS
      <3>2. CASE i = k
        <4>1. k # 0
          BY <3>2
        <4>2. t[w[k]] = c
          BY <1>2, <4>1
        <4> QED
          BY <2>3, <2>4, <3>1, <3>2, <4>2
      <3>3. CASE i # k
        <4>1. i \in 1 .. k - 1 /\ i + 1 \in 1 .. k
          BY <3>3
        <4>2. t[w[i]] = w[i + 1]
          BY <4>1 DEF Along
        <4> QED
          BY <2>3, <3>1, <4>1, <4>2
      <3> QED
        BY <3>2, <3>3
    <2>9. Along(t, x, k + 1, v)
      BY <2>6, <2>7, <2>8 DEF Along
    <2> QED
      BY <1>2, <2>1, <2>3, <2>4, <2>5, <2>9
  <1> QED
    BY <1>1, <1>2

\* The j-th sector of file n is written, whose walk from x is v.
Writes(t, da, da2, x, n, k, v, j) ==
    /\ NoMeeting(t) /\ NoLinkTo(t, x)
    /\ k \in Nat /\ v \in SectorLists(k) /\ Along(t, x, k, v) /\ j \in 1 .. k
    /\ da2[v[j]] = n /\ \A e \in Clusters \ {v[j]} : da2[e] = da[e]

\* What a file holds that has another start, or is the one that is written.
LEMMA KeptFilled ==
  ASSUME NEW t, NEW da, NEW da2, NEW x, NEW n, NEW k, NEW v, NEW j,
         Writes(t, da, da2, x, n, k, v, j),
         NEW y, NEW n2, NEW m \in Nat, NEW u \in SectorLists(m), Along(t, y, m, u),
         m > 0 => NoLinkTo(t, y) /\ (x # y \/ n2 = n), Filled(da, n2, m, u)
  PROVE  Filled(da2, n2, m, u)
  <1> USE DEF Writes
  <1> SUFFICES ASSUME NEW i \in 1 .. m PROVE da2[u[i]] = n2
    BY DEF Filled
  <1>1. m > 0 /\ u[i] \in Clusters /\ da[u[i]] = n2
    BY DEF SectorLists, Filled
  <1>2. CASE u[i] # v[j]
    BY <1>1, <1>2
  <1>3. CASE u[i] = v[j]
    <2>1. x = y
      BY <1>1, <1>3, WalksApart
    <2> QED
      BY <1>1, <1>3, <2>1
  <1> QED
    BY <1>2, <1>3

\* A walk of some length starts with a cluster.
LEMMA WalkStart ==
  ASSUME NEW t, NEW x, NEW k \in Nat, k > 0, NEW w \in SectorLists(k), Along(t, x, k, w)
  PROVE  x \in Clusters
  <1>1. 1 \in 1 .. k
    OBVIOUS
  <1> QED
    BY <1>1 DEF Along, SectorLists

\* The sector of f[h] is written to its current cluster.
LEMMA WrittenData ==
  ASSUME NEW t, NEW d \in Dirs, NEW tt, NEW dd \in Dirs, NEW da, NEW f \in Fils, NEW r,
         NEW h \in Handles, r.h = h, DataAt(t, d, tt, dd, da, f, "data", r),
         NEW own, Vol(t, d, f, own), f[h].open, f[h].curr \in Clusters,
         NEW da2, da2[f[h].curr] = f[h].name,
         \A e \in Clusters \ {f[h].curr} : da2[e] = da[e],
         NEW o2, o2.name = f[h].name, o2.org = f[h].org, o2.curr = f[h].curr,
         o2.fptr = f[h].fptr + 1,
         o2.fsize = IF f[h].fptr + 1 > f[h].fsize THEN f[h].fptr + 1 ELSE f[h].fsize,
         NEW f2, f2[h] = o2, \A g \in Handles \ {h} : f2[g] = f[g], NEW r2
  PROVE  DataAt(t, d, tt, dd, da2, f2, "idle", r2)
  <1> DEFINE o == f[h]
             n == o.name
             x == o.org
             c == o.curr
             k == o.fsize
             m == o.fptr
             k2 == o2.fsize
  <1>1. o \in Fil /\ k \in Nat /\ m \in Nat /\ o.slot \in Slots /\ k2 \in Nat
    BY DEF Fils, Fil
  <1>2. ~o.error
    BY DEF DataAt, Aimed
  <1>3. Placed(t, da, o, TRUE)
    BY DEF DataAt, ObjectsRun, Writing
  <1> PICK w \in SectorLists(k) : /\ Along(t, x, k, w) /\ Filled(da, n, k, w)
                                  /\ AtCurrent(t, o, w, TRUE)
    BY <1>2, <1>3 DEF Placed
  <1>4. m \in 0 .. k /\ c = IF m = 0 THEN x ELSE t[w[m]]
    BY <1>1, <1>3 DEF Placed, AtCurrent
  <1>5. ObjectOK(t, d, own, o)
    BY DEF Vol, ObjectsOK
  <1>6. t[c] # 0
    BY <1>5 DEF ObjectOK
  <1>7. (k = 0 => x = c) /\ (k > 0 => w[1] = x)
    BY <1>1, <1>4 DEF Along
  <1>8. k2 = IF m + 1 > k THEN m + 1 ELSE k
    OBVIOUS
  <1>9. x \in Clusters
    <2>1. CASE k > 0
      BY <1>1, <2>1, WalkStart
    <2>2. CASE k = 0
      BY <1>7, <2>2
    <2> QED
      BY <1>1, <2>1, <2>2
  <1>10. HeadAt(t, own, x, o.slot)
    BY <1>5 DEF ObjectOK
  <1>11. NoMeeting(t) /\ NoLinkTo(t, x) /\ own[x] = o.slot
    BY <1>9, <1>10 DEF NoMeeting, NoLinkTo, Vol, TableOK, HeadAt
  <1>a. c \in Clusters /\ da2[c] = n /\ \A e \in Clusters \ {c} : da2[e] = da[e]
    OBVIOUS
  <1>b. /\ o2.name = n /\ o2.org = x /\ o2.curr = c /\ o2.fptr = m + 1 /\ f2[h] = o2
        /\ f[h].open /\ f[h].org = x /\ f[h].slot = o.slot
    OBVIOUS
  <1>c. w \in SectorLists(k) /\ Along(t, x, k, w)
    OBVIOUS
  <1> HIDE DEF k2, m, k, c, x, n
  <1>d. \E v \in SectorLists(k2) :
             Along(t, x, k2, v) /\ v[m + 1] = c /\ \A i \in 1 .. k : v[i] = w[i]
    <2>1. Reaches(t, x, k, w, m, c)
      BY <1>1, <1>4, <1>6, <1>a, <1>c DEF Reaches
    <2> QED
      BY <1>8, <2>1, ReachedWalk
  <1>12. PICK v \in SectorLists(k2) :
             Along(t, x, k2, v) /\ v[m + 1] = c /\ \A i \in 1 .. k : v[i] = w[i]
    BY <1>d
  <1>13. m + 1 \in 1 .. k2 /\ k <= k2 /\ m + 1 <= k2
    BY <1>1, <1>4, <1>8
  \* Any other walk.
  <1>14. ASSUME NEW y, NEW n2, NEW l \in Nat, NEW u \in SectorLists(l), Along(t, y, l, u),
                Filled(da, n2, l, u), l > 0 => NoLinkTo(t, y) /\ (x # y \/ n2 = n)
         PROVE  Filled(da2, n2, l, u)
    <2>1. Writes(t, da, da2, x, n, k2, v, m + 1)
      BY <1>1, <1>11, <1>12, <1>13, <1>a DEF Writes
    <2> QED
      BY <1>14, <2>1, KeptFilled
  <1>15. ASSUME NEW s \in Slots, d[s].name \in Names, d[s].clust \in Clusters
         PROVE  NoLinkTo(t, d[s].clust) /\ (x # d[s].clust \/ d[s].name = n)
    <2>1. HeadAt(t, own, d[s].clust, s)
      BY <1>15 DEF Vol, EntriesOK
    <2>2. NoLinkTo(t, d[s].clust) /\ own[d[s].clust] = s
      BY <1>15, <2>1 DEF HeadAt, NoLinkTo
    <2>3. s = o.slot => d[s].name = n
      BY <1>5 DEF ObjectOK, n
    <2> QED
      BY <1>11, <2>2, <2>3
  <1>16. EntriesRun(t, da2, d)
    <2> SUFFICES ASSUME NEW s \in Slots, d[s].name \in Names
                 PROVE  Runs(t, da2, d[s].clust, d[s].name, d[s].size)
      BY DEF EntriesRun
    <2>1. d[s].size \in Nat
      BY DEF Dirs, Entry
    <2>2. Runs(t, da, d[s].clust, d[s].name, d[s].size)
      BY DEF DataAt, EntriesRun
    <2> PICK u \in SectorLists(d[s].size) :
             Along(t, d[s].clust, d[s].size, u) /\ Filled(da, d[s].name, d[s].size, u)
      BY <2>2 DEF Runs
    <2>3. d[s].size > 0 => NoLinkTo(t, d[s].clust) /\ (x # d[s].clust \/ d[s].name = n)
      BY <1>15, <2>1, WalkStart
    <2>4. Filled(da2, d[s].name, d[s].size, u)
      BY <1>14, <2>1, <2>3
    <2> QED
      BY <2>4 DEF Runs
  <1>17. Placed(t, da2, f2[h], FALSE)
    <2>1. Filled(da2, n, k2, v)
      <3> SUFFICES ASSUME NEW i \in 1 .. k2 PROVE da2[v[i]] = n
        BY DEF Filled
      <3>1. v[i] \in Clusters
        BY DEF SectorLists
      <3>2. CASE i \in 1 .. k
        <4>1. da[v[i]] = n
          BY <1>12, <3>2 DEF Filled
        <4> QED
          BY <1>a, <3>1, <4>1
      <3>3. CASE i \notin 1 .. k
        <4>1. i = m + 1
          BY <1>1, <1>4, <1>8, <3>3
        <4> QED
          BY <1>12, <1>a, <4>1
      <3> QED
        BY <3>2, <3>3
    <2>2. AtCurrent(t, o2, v, FALSE)
      BY <1>12, <1>b DEF AtCurrent
    <2>3. o2.fptr <= k2 /\ Along(t, o2.org, k2, v) /\ Filled(da2, o2.name, k2, v)
      BY <1>12, <1>13, <1>b, <2>1
    <2> QED
      BY <1>b, <2>2, <2>3 DEF Placed, k2
  <1>18. ObjectsRun(t, da2, f2, "idle", r2)
    <2> SUFFICES ASSUME NEW g \in Handles, f2[g].open PROVE Placed(t, da2, f2[g], FALSE)
      BY DEF ObjectsRun, Writing
    <2>1. CASE g # h
      <3> DEFINE q == f[g]
      <3>1. q.open /\ f2[g] = q /\ q.fsize \in Nat /\ q.slot \in Slots
        BY <2>1 DEF Fils, Fil
      <3>2. Placed(t, da, q, FALSE)
        BY <2>1, <3>1 DEF DataAt, ObjectsRun, Writing
      <3> PICK u \in SectorLists(q.fsize) :
               /\ Along(t, q.org, q.fsize, u) /\ Filled(da, q.name, q.fsize, u)
               /\ ~q.error => AtCurrent(t, q, u, FALSE)
        BY <3>2 DEF Placed
      <3>3. HeadAt(t, own, q.org, q.slot) /\ q.slot # o.slot
        BY <1>b, <2>1, <3>1 DEF Vol, ObjectsOK, ObjectOK
      <3>4. q.fsize > 0 => NoLinkTo(t, q.org) /\ x # q.org
        <4>1. q.fsize > 0 => q.org \in Clusters
          BY <3>1, WalkStart
        <4> QED
          BY <1>11, <3>3, <4>1 DEF HeadAt, NoLinkTo
      <3>5. Filled(da2, q.name, q.fsize, u)
        BY <1>14, <3>1, <3>4
      <3> HIDE DEF q
      <3> QED
        BY <3>1, <3>2, <3>5 DEF Placed
    <2> QED
      BY <1>17, <2>1
  <1>19. CardRuns(t, d, tt, dd, da2, f2)
    <2> SUFFICES ASSUME NEW s \in Slots, dd[s].name \in Names /\ dd[s].size > 0
                 PROVE  /\ Twice(t, tt, da2, dd[s])
                        /\ SameHead(dd[s], d[s]) \/ Loose(t, d, f2, dd[s].clust)
      BY DEF CardRuns
    <2> DEFINE e == dd[s]
    <2>1. e.size \in Nat /\ e.size > 0
      BY DEF Dirs, Entry
    <2>2. Twice(t, tt, da, e) /\ (SameHead(e, d[s]) \/ Loose(t, d, f, e.clust))
      BY DEF DataAt, CardRuns
    <2> PICK u \in SectorLists(e.size) :
             /\ Along(t, e.clust, e.size, u) /\ Along(tt, e.clust, e.size, u)
             /\ Filled(da, e.name, e.size, u)
      BY <2>2 DEF Twice
    <2>3. e.clust \in Clusters
      BY <2>1, WalkStart
    <2>4. NoLinkTo(t, e.clust) /\ (x # e.clust \/ e.name = n)
      <3>1. CASE SameHead(e, d[s])
        BY <1>15, <2>3, <3>1 DEF SameHead
      <3>2. CASE Loose(t, d, f, e.clust)
        BY <1>b, <3>2 DEF Loose, NoLinkTo
      <3> QED
        BY <2>2, <3>1, <3>2
    <2>5. Filled(da2, e.name, e.size, u)
      BY <1>14, <2>1, <2>4
    <2>6. Loose(t, d, f, e.clust) => Loose(t, d, f2, e.clust)
      BY <1>b DEF Loose
    <2> HIDE DEF e
    <2>7. Twice(t, tt, da2, e)
      BY <2>5 DEF Twice
    <2> QED
      BY <2>2, <2>6, <2>7 DEF e
  <1>20. Aimed(f2, "idle", r2)
    BY DEF Aimed
  <1> QED
    BY <1>16, <1>18, <1>19, <1>20 DEF DataAt

LEMMA WriteDataPromised ==
  ASSUME TypeOK, NowApart, Promised, WriteData
  PROVE  NextPromised
  <1> PICK own \in Owners : /\ Vol(FatNow, DirNow, fil, own)
                            /\ Found(FatNow, DirNow, fil, own, pc, reg)
    BY DEF NowApart, Apart
  <1> DEFINE h == reg.h
             f == fil[h]
             o2 == [f EXCEPT !.fptr = @ + 1, !.written = TRUE, !.changed = TRUE, !.failed = FALSE,
                             !.fsize = IF f.fptr + 1 > @ THEN f.fptr + 1 ELSE @]
             o3 == [f EXCEPT !.error = TRUE]
  <1>1. /\ pc = "data" /\ reg.op = "write" /\ h \in Handles /\ f.open /\ f.curr \in Clusters
        /\ fil \in Fils /\ f \in Fil /\ dir \in Dirs /\ DirNow \in Dirs /\ f.name \in Names
        /\ f.fptr \in Nat /\ f.fsize \in Nat
    BY NowTyped, OpenNames DEF WriteData, TypeOK, CallOK, Found, Dirs, Fils, Fil
  <1>2. /\ UNCHANGED <<fat, dir, win, promise>> /\ pc' = "idle"
        /\ FatNow' = FatNow /\ DirNow' = DirNow
    BY SameNow DEF WriteData, Return
  <1>3. /\ DirAt(DirNow, dir, fil, pc, reg, promise)
        /\ DataAt(FatNow, DirNow, fat, dir, data, fil, "data", reg)
        /\ promise[f.name] = Unknown
    BY <1>1 DEF Promised, DirInv, DataInv, DirAt, Unpromised
  <1>4. Fewer(promise, promise')
    BY <1>2 DEF Fewer
  <1>5. /\ o2.name = f.name /\ o2.org = f.org /\ o2.curr = f.curr /\ o2.fptr = f.fptr + 1
        /\ o2.fsize = IF f.fptr + 1 > f.fsize THEN f.fptr + 1 ELSE f.fsize
        /\ o2.open /\ o2.written
        /\ o3.name = f.name /\ o3.org = f.org /\ o3.curr = f.curr /\ o3.fptr = f.fptr
        /\ o3.fsize = f.fsize /\ o3.open = f.open /\ o3.written = f.written /\ o3.error
        /\ o3.changed = f.changed /\ o3.failed = f.failed /\ o3.slot = f.slot
    BY <1>1 DEF Fil
  <1>6. \A g \in Handles : ~Storing(pc, reg, g)
    BY <1>1 DEF Storing
  <1>7. Searched(DirNow, pc', reg') /\ Flushing(DirNow, fil', pc', reg') /\ Aimed(fil', pc', reg')
    BY <1>2 DEF Searched, Flushing, Aimed
  <1>8. CASE data' = [data EXCEPT ![f.curr] = f.name] /\ fil' = [fil EXCEPT ![h] = o2]
    <2>1. fil'[h] = o2 /\ \A g \in Handles \ {h} : fil'[g] = fil[g]
      BY <1>1, <1>8 DEF Fils
    <2>2. data'[f.curr] = f.name /\ \A e \in Clusters \ {f.curr} : data'[e] = data[e]
      BY <1>1, <1>8 DEF TypeOK
    <2> HIDE DEF o2, o3
    <2>3. DataAt(FatNow, DirNow, fat, dir, data', fil', "idle", reg')
      BY <1>1, <1>3, <1>5, <2>1, <2>2, WrittenData
    <2>4. \A g \in Handles : Settles(fil[g], fil'[g])
      BY <1>5, <2>1 DEF Settles, Saved
    <2>5. Unpromised(fil', pc', reg', promise')
      BY <1>2, <1>3, <1>4, <1>5, <2>1, WrittenStay DEF Unpromised
    <2>6. DirAt(DirNow, dir, fil', pc', reg', promise')
      BY <1>3, <1>4, <1>6, <1>7, <2>4, <2>5, DirSame
    <2> QED
      BY <1>2, <2>3, <2>6 DEF NextPromised, NextDir, NextData
  <1>9. CASE UNCHANGED data /\ fil' = [fil EXCEPT ![h].error = TRUE]
    <2>1. fil'[h] = o3 /\ \A g \in Handles \ {h} : fil'[g] = fil[g]
      BY <1>1, <1>9 DEF Fils
    <2> HIDE DEF o2, o3
    <2>2. \A g \in Handles : fil'[g].open =>
             fil[g].open /\ Unmoved(fil[g], fil'[g], Writing(pc, reg, g), Writing(pc', reg', g))
      BY <1>1, <1>2, <1>5, <2>1 DEF Unmoved, Writing
    <2>3. \A g \in Handles : Settles(fil[g], fil'[g])
      BY <1>5, <2>1 DEF Settles, Saved
    <2>4. Unpromised(fil', pc', reg', promise')
      BY <1>2, <1>3, <1>4, <1>5, <2>1, WrittenStay DEF Unpromised
    <2> QED
      BY <1>2, <1>4, <1>6, <1>7, <1>9, <2>2, <2>3, <2>4, QuietPromised
  <1> QED
    BY <1>8, <1>9 DEF WriteData

-----------------------------------------------------------------------------
(* f_sync and f_close.                                                     *)

\* The entry of a file object gets its size, and is on its way to the card.
LEMMA StoredDir ==
  ASSUME NEW d \in Dirs, NEW dd, NEW f \in Fils, NEW r, NEW pr, DirAt(d, dd, f, "entry", r, pr),
         NEW h \in Handles, r.h = h, r.op \in {"sync", "close"},
         NEW s \in Slots, f[h].slot = s, f[h].open, d[s].name = f[h].name,
         \A g \in Handles \ {h} : f[g].open => f[g].slot # s,
         NEW e, e.name = f[h].name, e.size = f[h].fsize,
         NEW d2, d2[s] = e, \A z \in Slots \ {s} : d2[z] = d[z],
         NEW f2, f2[h].name = f[h].name, f2[h].fsize = f[h].fsize, f2[h].slot = s, ~f2[h].written,
         \A g \in Handles \ {h} : f2[g] = f[g]
  PROVE  DirAt(d2, dd, f2, "flush", r, pr)
  <1>1. \A z \in Slots : d2[z].name = d[z].name
    OBVIOUS
  <1>2. Ordered(d2)
    BY <1>1, EarlierSlot DEF DirAt, Ordered
  <1>3. pr[f[h].name] = Unknown
    BY DEF DirAt, Flushing, Unpromised
  <1>4. Owed(d2, dd, pr)
    <2> SUFFICES ASSUME NEW n \in Names, pr[n] # Unknown
                 PROVE  \E z \in Slots : /\ d2[z].name = n /\ d2[z].size = pr[n]
                                         /\ dd[z].name = n /\ dd[z].size = pr[n]
      BY DEF Owed
    <2> PICK z \in Slots : /\ d[z].name = n /\ d[z].size = pr[n]
                           /\ dd[z].name = n /\ dd[z].size = pr[n]
      BY DEF DirAt, Owed
    <2>1. z # s
      BY <1>3
    <2> QED
      BY <2>1
  <1>5. Settled(d2, dd, f2, "flush", r)
    <2> SUFFICES ASSUME NEW g \in Handles, Saved(f2[g])
                 PROVE  /\ Filed(f2[g], d2[f2[g].slot])
                        /\ Storing("flush", r, g) \/ Filed(f2[g], dd[f2[g].slot])
      BY DEF Settled
    <2>1. CASE g = h
      BY <2>1 DEF Filed, Storing
    <2>2. CASE g # h
      <3>1. f2[g] = f[g] /\ f[g].slot # s /\ f[g].slot \in Slots
        BY <2>2 DEF Saved, Fils, Fil
      <3>2. Filed(f[g], d[f[g].slot]) /\ Filed(f[g], dd[f[g].slot])
        BY <3>1 DEF DirAt, Settled, Storing
      <3> QED
        BY <3>1, <3>2
    <2> QED
      BY <2>1, <2>2
  <1>6. Flushing(d2, f2, "flush", r)
    BY DEF Flushing, Filed
  <1>7. Searched(d2, "flush", r)
    BY DEF Searched
  <1>8. Unpromised(f2, "flush", r, pr)
    BY DEF DirAt, Unpromised
  <1> QED
    BY <1>2, <1>4, <1>5, <1>6, <1>7, <1>8 DEF DirAt

\* It gets its start too, where the sectors of the file object are.
LEMMA StoredData ==
  ASSUME NEW t, NEW d \in Dirs, NEW tt, NEW dd \in Dirs, NEW da, NEW f \in Fils, NEW r,
         DataAt(t, d, tt, dd, da, f, "entry", r), NEW own, Vol(t, d, f, own),
         NEW h \in Handles, f[h].open, NEW s \in Slots, f[h].slot = s,
         NEW e, e.name = f[h].name, e.size = f[h].fsize, e.clust = f[h].org,
         NEW d2, d2[s] = e, \A z \in Slots \ {s} : d2[z] = d[z],
         NEW f2, \A g \in Handles : f2[g].open = f[g].open /\ Unmoved(f[g], f2[g], FALSE, FALSE)
                                    /\ f2[g].org = f[g].org,
         NEW r2
  PROVE  DataAt(t, d2, tt, dd, da, f2, "flush", r2)
  <1>1. EntriesRun(t, da, d2)
    <2>1. Runs(t, da, e.clust, e.name, e.size)
      BY PlacedRuns DEF DataAt, ObjectsRun
    <2> QED
      BY <2>1 DEF DataAt, EntriesRun
  <1>2. ObjectsRun(t, da, f2, "flush", r2)
    <2> SUFFICES ASSUME NEW g \in Handles, f2[g].open PROVE Placed(t, da, f2[g], FALSE)
      BY DEF ObjectsRun, Writing
    <2>1. Placed(t, da, f[g], FALSE) /\ f[g].fsize \in Nat
      BY DEF DataAt, ObjectsRun, Writing, Fils, Fil
    <2> QED
      BY <2>1, PlacedAgain
  <1>3. CardRuns(t, d2, tt, dd, da, f2)
    <2> SUFFICES ASSUME NEW z \in Slots, dd[z].name \in Names /\ dd[z].size > 0
                 PROVE  /\ Twice(t, tt, da, dd[z])
                        /\ SameHead(dd[z], d2[z]) \/ Loose(t, d2, f2, dd[z].clust)
      BY DEF CardRuns
    <2>1. /\ Twice(t, tt, da, dd[z])
          /\ SameHead(dd[z], d[z]) \/ Loose(t, d, f, dd[z].clust)
      BY DEF DataAt, CardRuns
    <2>2. dd[z].clust \in Clusters
      BY <2>1, TwiceStart DEF Dirs, Entry
    <2>3. CASE SameHead(dd[z], d[z])
      <3>1. ObjectOK(t, d, own, f[h])
        BY DEF Vol, ObjectsOK
      <3>2. z = s => SameHead(dd[z], e)
        BY <2>2, <2>3, <3>1 DEF SameHead, ObjectOK
      <3> QED
        BY <2>1, <2>3, <3>2
    <2>4. CASE Loose(t, d, f, dd[z].clust)
      <3>1. f[h].org # dd[z].clust
        BY <2>4 DEF Loose
      <3>2. Loose(t, d2, f2, dd[z].clust)
        BY <2>4, <3>1 DEF Loose
      <3> QED
        BY <2>1, <3>2
    <2> QED
      BY <2>1, <2>3, <2>4
  <1>4. Aimed(f2, "flush", r2)
    BY DEF Aimed
  <1> QED
    BY <1>1, <1>2, <1>3, <1>4 DEF DataAt

LEMMA SyncEntryPromised ==
  ASSUME TypeOK, NowApart, Promised, SyncEntry
  PROVE  NextPromised
  <1> PICK own \in Owners : /\ Vol(FatNow, DirNow, fil, own)
                            /\ Found(FatNow, DirNow, fil, own, pc, reg)
    BY DEF NowApart, Apart
  <1> DEFINE h == reg.h
             f == fil[h]
             s == reg.slot
             e == [win.dir[s] EXCEPT !.clust = f.org, !.size = f.fsize]
             o2 == [f EXCEPT !.written = FALSE]
  <1>1. /\ pc = "entry" /\ reg.op \in {"sync", "close"} /\ h \in Handles
        /\ s \in DirIn(win.sect)
    BY Shown DEF SyncEntry, Here, TypeOK, CallOK
  <1>2. /\ f.open /\ s = f.slot /\ fil \in Fils /\ f \in Fil /\ dir \in Dirs
        /\ DirNow \in Dirs /\ s \in Slots
    BY <1>1, NowTyped DEF TypeOK, Found, Fils, DirIn, Dirs
  <1>3. win.dir[s] = DirNow[s] /\ DirNow[s] \in Entry
    BY <1>1, <1>2, Showing DEF Dirs
  <1>4. e.name = DirNow[s].name /\ e.clust = f.org /\ e.size = f.fsize
    BY <1>3 DEF Entry
  <1>5. SetEntry(s, e)
    BY <1>1 DEF SyncEntry, SetEntry, TypeOK, Window
  <1> HIDE DEF e
  <1>6. /\ DirNow' = [DirNow EXCEPT ![s] = e] /\ FatNow' = FatNow
        /\ UNCHANGED <<fat, dir, data, promise, reg>> /\ pc' = "flush"
    BY <1>1, <1>5, SetEntryNow DEF SyncEntry, card
  <1>7. DirNow'[s] = e /\ \A z \in Slots \ {s} : DirNow'[z] = DirNow[z]
    BY <1>2, <1>6 DEF Dirs
  <1>8. fil'[h] = o2 /\ \A g \in Handles \ {h} : fil'[g] = fil[g]
    BY <1>1, <1>2 DEF SyncEntry, Fils
  <1>9. /\ o2.open = f.open /\ o2.name = f.name /\ o2.slot = f.slot /\ o2.org = f.org
        /\ o2.curr = f.curr /\ o2.fptr = f.fptr /\ o2.fsize = f.fsize /\ o2.error = f.error
        /\ ~o2.written
    BY <1>2 DEF Fil
  <1> HIDE DEF o2
  <1>10. /\ DirAt(DirNow, dir, fil, "entry", reg, promise)
         /\ DataAt(FatNow, DirNow, fat, dir, data, fil, "entry", reg)
    BY <1>1 DEF Promised, DirInv, DataInv
  <1>11. /\ DirNow[s].name = f.name
         /\ \A g \in Handles \ {h} : fil[g].open => fil[g].slot # s
    BY <1>1, <1>2 DEF Vol, ObjectsOK, ObjectOK
  <1>12. DirAt(DirNow', dir, fil', "flush", reg, promise)
    <2>1. /\ fil'[h].name = fil[h].name /\ fil'[h].fsize = fil[h].fsize
          /\ fil'[h].slot = s /\ ~fil'[h].written
          /\ e.name = fil[h].name /\ e.size = fil[h].fsize
          /\ fil[h].slot = s /\ fil[h].open /\ DirNow[s].name = fil[h].name
      BY <1>2, <1>4, <1>8, <1>9, <1>11
    <2> QED
      BY <1>1, <1>2, <1>7, <1>8, <1>10, <1>11, <2>1, StoredDir
  <1>13. DataAt(FatNow, DirNow', fat, dir, data, fil', "flush", reg)
    <2>1. \A g \in Handles : /\ fil'[g].open = fil[g].open /\ Unmoved(fil[g], fil'[g], FALSE, FALSE)
                             /\ fil'[g].org = fil[g].org
      BY <1>8, <1>9 DEF Unmoved
    <2>2. /\ e.name = fil[h].name /\ e.size = fil[h].fsize /\ e.clust = fil[h].org
          /\ fil[h].open /\ fil[h].slot = s
      BY <1>2, <1>4, <1>11
    <2> HIDE DEF f, s, h
    <2>3. /\ DirNow \in Dirs /\ dir \in Dirs /\ fil \in Fils /\ h \in Handles /\ s \in Slots
          /\ DataAt(FatNow, DirNow, fat, dir, data, fil, "entry", reg)
      BY <1>1, <1>2, <1>10
    <2> QED
      BY <1>7, <2>1, <2>2, <2>3, StoredData
  <1> QED
    BY <1>6, <1>12, <1>13 DEF NextPromised, NextDir, NextData

LEMMA SyncedPromised ==
  ASSUME TypeOK, WindowCoherent, NowApart, Promised, Synced
  PROVE  NextPromised
  <1> PICK own \in Owners : /\ Vol(FatNow, DirNow, fil, own)
                            /\ Found(FatNow, DirNow, fil, own, pc, reg)
    BY DEF NowApart, Apart
  <1>1. /\ pc = "flush" /\ reg.op \in {"unlink", "sync", "close"} /\ pc' = "idle"
        /\ UNCHANGED <<fat, dir, data>> /\ FatNow' = FatNow /\ DirNow' = DirNow
    BY SameNow DEF Synced, Flushed, Return, card, TypeOK, CallOK, Found
  <1>2. DirNow = dir
    BY CleanNow DEF Synced, Flushed, WindowCoherent
  <1>3. CASE reg.op = "unlink"
    <2>1. fil' = fil /\ promise' = promise
      BY <1>3 DEF Synced
    <2>2. Fewer(promise, promise')
      BY <2>1 DEF Fewer
    <2>3. \A g \in Handles : /\ Unmoved(fil[g], fil'[g], Writing(pc, reg, g), Writing(pc', reg', g))
                             /\ Settles(fil[g], fil'[g]) /\ ~Storing(pc, reg, g)
      BY <1>1, <1>3, <2>1 DEF Unmoved, Writing, Settles, Storing
    <2>4. Searched(DirNow, pc', reg') /\ Flushing(DirNow, fil', pc', reg') /\ Aimed(fil', pc', reg')
      BY <1>1 DEF Searched, Flushing, Aimed
    <2>5. Unpromised(fil', pc', reg', promise')
      BY <1>1, <2>1, <2>2, WrittenStay DEF Unpromised
    <2> QED
      BY <1>1, <2>1, <2>2, <2>3, <2>4, <2>5, QuietPromised
  <1>4. CASE reg.op \in {"sync", "close"}
    <2>1. reg.h \in Handles /\ fil[reg.h].open
      BY <1>1, <1>4 DEF TypeOK, CallOK, Found
    <2>2. ~fil[reg.h].written /\ Filed(fil[reg.h], DirNow[fil[reg.h].slot])
      BY <1>1, <1>4 DEF Promised, DirInv, DirAt, Flushing
    <2>3. /\ promise' = [promise EXCEPT ![fil[reg.h].name] = fil[reg.h].fsize]
          /\ fil' = fil \/ fil' = [fil EXCEPT ![reg.h] = Closed]
      BY <1>4 DEF Synced
    <2>4. pc # "data" /\ \A g \in Handles \ {reg.h} : ~Storing(pc, reg, g)
      BY <1>1 DEF Storing
    <2> QED
      BY <1>1, <1>2, <2>1, <2>2, <2>3, <2>4, PromiseMade
  <1> QED
    BY <1>1, <1>3, <1>4

-----------------------------------------------------------------------------
(* The theorem.                                                            *)

\* On a card just formatted nothing has been promised.
LEMMA InitPromised == Init => Promised
  <1> SUFFICES ASSUME Init PROVE Promised
    OBVIOUS
  <1>1. FatNow = fat /\ DirNow = dir
    BY InitType, CleanNow DEF Init
  <1>2. /\ \A s \in Slots : dir[s].name \notin Names
        /\ \A h \in Handles : ~fil[h].open
        /\ \A n \in Names : promise[n] = Unknown
        /\ pc = "idle"
    BY NameAssumption DEF Init, Blank, Closed
  <1>3. DirInv
    BY <1>1, <1>2 DEF DirInv, DirAt, Ordered, Searched, Owed, Settled, Saved, Flushing, Unpromised
  <1>4. DataInv
    BY <1>1, <1>2 DEF DataInv, DataAt, EntriesRun, ObjectsRun, CardRuns, Aimed
  <1> QED
    BY <1>3, <1>4 DEF Promised

\* Every step of a call keeps the invariant.
LEMMA StepPromised ==
  ASSUME TypeOK, WindowCoherent, NowApart, Promised, Step
  PROVE  NextPromised
  <1>1. ~EraseOld
    BY DEF EraseOld, Here, TypeOK, CallOK, NowApart, Apart, Found
  <1> QED
    BY <1>1, MovePromised, TracePathPromised, LooksPromised, ReserveEntryPromised,
       RemoveChainPromised, ReopenPromised, ChainStatPromised, ChainScanPromised,
       ChainLinkPromised, WriteDataPromised, SyncEntryPromised, SyncedPromised DEF Step

\* The invariant is inductive, given those of FatVolumeProofs.
LEMMA NextKeepsPromised ==
  ASSUME TypeOK, WindowCoherent, NowApart, Promised, [Next]_vars,
         "admin" \notin Habits, "retry" \notin Habits
  PROVE  Promised'
  <1>1. NextPromised
    <2>1. CASE UNCHANGED vars
      <3>1. FatNow' = FatNow /\ DirNow' = DirNow
        BY <2>1, SameNow DEF vars, card
      <3> QED
        BY <2>1, <3>1 DEF vars, card, Promised, DirInv, DataInv, NextPromised, NextDir, NextData
    <2> QED
      BY <2>1, CallPromised, StepPromised, RestartPromised DEF Next, f_mount, Crash
  <1> QED
    BY <1>1 DEF NextPromised, NextDir, NextData, Promised, DirInv, DataInv

\* What f_close or f_sync answered FR_OK for is on the card: through every
\* transfer that fails, every call that is given up half-way, every power
\* failure and whatever is done to other files, until the file itself is
\* written, emptied or deleted.  The application does not rename files and does
\* not ask again after an f_close or f_sync that failed.
THEOREM ClosedFilesAreDurable ==
  ASSUME "admin" \notin Habits, "retry" \notin Habits
  PROVE  Spec => []Durable
  <1>1. TypeOK /\ WindowCoherent /\ ApartInv /\ Promised /\ [Next]_vars => Promised'
    BY NextKeepsPromised DEF ApartInv
  <1>2. TypeOK /\ Promised => Durable
    BY PromisedIsThere DEF Promised
  <1> QED
    BY <1>1, <1>2, InitPromised, AlwaysApart, WindowAlwaysCoherent, PTL DEF Spec
=============================================================================
