-------------------------- MODULE FatVolumeProofs --------------------------
(***************************************************************************)
(* Proofs about FatVolume, for every layout of the card, every set of      *)
(* names and file objects, every set of faults and every habit of the      *)
(* application: type correctness, the coherence of the window with the     *)
(* card, and that no two chains meet.  And, while no transfer fails, that  *)
(* the free count is exact and no cluster is lost.                         *)
(***************************************************************************)
EXTENDS FatVolume, FiniteSetTheorems, FunctionTheorems, WellFoundedInduction, TLAPS

-----------------------------------------------------------------------------
(* The layout.                                                             *)

LEMMA Numbers ==
    /\ MaxClust \in Nat /\ MaxClust > 2
    /\ Clusters \subseteq Nat
    /\ Links \subseteq 0 .. MaxClust
    /\ 0 \in Links /\ Eoc \in Links /\ Clusters \subseteq Links
    /\ \A c \in Clusters : c # 0 /\ c < MaxClust
  BY LayoutAssumption DEF Clusters, Links, Eoc

LEMMA FirstSlot == Slots \subseteq Nat \ {0} /\ 1 \in Slots /\ NSlots \in Nat
  BY LayoutAssumption DEF Slots

LEMMA Quotient == \A n \in Nat, d \in Nat \ {0} : n \div d \in Nat
  OBVIOUS

\* The boot sector holds neither table nor directory.
LEMMA FatSectorPositive == \A c \in Nat : FatSector(c) \in Nat \ {0}
  BY Quotient, LayoutAssumption DEF FatSector

LEMMA LastFatPositive == LastFat \in Nat \ {0}
  BY FatSectorPositive, Numbers DEF LastFat

LEMMA DirSectorPositive == \A s \in Slots : DirSector(s) \in Nat \ {0}
  <1> TAKE s \in Slots
  <1>1. s - 1 \in Nat
    BY FirstSlot
  <1>2. (s - 1) \div PerDir \in Nat
    BY <1>1, Quotient, LayoutAssumption
  <1> QED
    BY <1>2, LastFatPositive DEF DirSector

LEMMA BlankTyped == \A n \in Names \cup {End, Deleted} : Blank(n) \in Entry
  BY Numbers DEF Blank, Entry

LEMMA NoCallTyped == NoCall \in Regs
  <1>1. Blank(Deleted) \in Entry
    BY BlankTyped
  <1> QED
    BY <1>1, FirstSlot, LastFatPositive, Numbers DEF NoCall, Regs, Ops, Modes, Unknown

LEMMA ClosedTyped == Closed \in Fil
  BY FirstSlot, Numbers DEF Closed, Fil

\* What disk_read delivers.
LEMMA ReadTyped ==
  ASSUME TypeOK, NEW s \in Nat
  PROVE  ReadSector(s) \in Window(s) /\ ReadSector(s).sect = s
  BY DEF TypeOK, ReadSector, Window, FatIn, DirIn

-----------------------------------------------------------------------------
(* Type correctness.                                                       *)

\* Parts of the type invariant that steps disturb together.
CardOK == /\ fat \in [Clusters -> Links] /\ copy \in [Clusters -> Links]
          /\ dir \in [Slots -> Entry]
          /\ data \in [Clusters -> Names \cup {None}]
WinOK  == win.sect \in Nat /\ win \in Window(win.sect)
FsOK   == fs \in [mounted : BOOLEAN, last : 0 .. MaxClust, free : Nat \cup {Unknown}]
FilOK  == fil \in [Handles -> Fil]
RegOK  == pc \in Pcs /\ reg \in Regs
PromiseOK == promise \in [Names -> Nat \cup {Unknown}]

\* The parts make the whole.
LEMMA TypeParts ==
  ASSUME CardOK', WinOK', (mw \in BOOLEAN)', FsOK', FilOK', RegOK', PromiseOK', CallOK'
  PROVE  TypeOK'
  BY DEF TypeOK, CardOK, WinOK, FsOK, FilOK, RegOK, PromiseOK

\* A call that is over leaves nothing to say but that the file objects that
\* moved have a current cluster.
LEMMA ReturnOK ==
  ASSUME Return, \A h \in Handles : fil'[h].fptr > 0 => fil'[h].curr \in Clusters
  PROVE  RegOK' /\ CallOK'
  <1>1. RegOK'
    BY NoCallTyped DEF Return, RegOK, Pcs, Regs
  <1>2. reg'.op = "none" /\ pc' = "idle" /\ reg'.old = 0
    BY DEF Return, NoCall
  <1> QED
    BY <1>1, <1>2 DEF CallOK

\* One field of a file object changes.
LEMMA FilField ==
  ASSUME NEW f \in Fil
  PROVE  /\ \A b \in BOOLEAN : /\ [f EXCEPT !.error = b] \in Fil
                               /\ [f EXCEPT !.failed = b] \in Fil
                               /\ [f EXCEPT !.written = b] \in Fil
                               /\ [f EXCEPT !.changed = b] \in Fil
         /\ \A c \in Links \cup {1} : [f EXCEPT !.org = c] \in Fil
         /\ \A c \in Links : [f EXCEPT !.curr = c] \in Fil
         /\ \A n \in Nat : /\ [f EXCEPT !.fptr = n] \in Fil
                          /\ [f EXCEPT !.fsize = n] \in Fil
  BY DEF Fil

LEMMA FilKept ==
  ASSUME NEW f \in Fil, NEW b \in BOOLEAN
  PROVE  /\ [f EXCEPT !.error = b].fptr = f.fptr /\ [f EXCEPT !.error = b].curr = f.curr
         /\ [f EXCEPT !.failed = b].fptr = f.fptr /\ [f EXCEPT !.failed = b].curr = f.curr
         /\ [f EXCEPT !.written = b].fptr = f.fptr /\ [f EXCEPT !.written = b].curr = f.curr
  BY DEF Fil

\* A failed transfer keeps every file object well formed.
LEMMA IoErrorOK ==
  ASSUME TypeOK, IoError
  PROVE  FilOK' /\ RegOK' /\ CallOK'
  <1>1. CASE reg.op = "write"
    <2>1. fil' = [fil EXCEPT ![reg.h].error = TRUE,
                             ![reg.h].org = IF Creating THEN 1 ELSE @]
      BY <1>1 DEF IoError
    <2> DEFINE f == [fil[reg.h] EXCEPT !.error = TRUE,
                                       !.org = IF Creating THEN 1 ELSE @]
    <2>2. reg.h \in Handles
      BY <1>1 DEF TypeOK, CallOK
    <2>3. f \in Fil /\ f.fptr = fil[reg.h].fptr /\ f.curr = fil[reg.h].curr
      <3>1. fil[reg.h] \in Fil
        BY <2>2 DEF TypeOK
      <3> DEFINE e == [fil[reg.h] EXCEPT !.error = TRUE]
                 c == IF Creating THEN 1 ELSE fil[reg.h].org
      <3>2. e \in Fil /\ e.org = fil[reg.h].org
        BY <3>1, FilField DEF Fil
      <3>3. c \in Links \cup {1}
        BY <3>1 DEF Fil
      <3>4. [e EXCEPT !.org = c] \in Fil
        <4> HIDE DEF e, c
        <4> QED
          BY <3>2, <3>3, FilField
      <3>5. f = [e EXCEPT !.org = c]
        BY <3>1 DEF Fil
      <3> QED
        BY <3>4, <3>5, <3>1 DEF Fil
    <2>4. fil' = [fil EXCEPT ![reg.h] = f]
      BY <2>1, <2>2 DEF TypeOK
    <2> HIDE DEF f
    <2>5. FilOK' /\ \A h \in Handles : fil'[h].fptr = fil[h].fptr /\ fil'[h].curr = fil[h].curr
      BY <2>2, <2>3, <2>4 DEF TypeOK, FilOK
    <2> QED
      BY <2>5, ReturnOK DEF IoError, TypeOK, CallOK
  <1>2. CASE reg.op # "write"
    <2>1. fil' = fil \/ fil' = [fil EXCEPT ![reg.h].failed = TRUE]
      BY <1>2 DEF IoError
    <2>2. ASSUME NEW h \in Handles
          PROVE  fil'[h] \in Fil /\ fil'[h].fptr = fil[h].fptr /\ fil'[h].curr = fil[h].curr
      <3>1. fil[h] \in Fil
        BY DEF TypeOK
      <3>2. fil'[h] = fil[h] \/ fil'[h] = [fil[h] EXCEPT !.failed = TRUE]
        BY <2>1 DEF TypeOK
      <3>3. [fil[h] EXCEPT !.failed = TRUE] \in Fil
        BY <3>1, FilField
      <3>4. /\ [fil[h] EXCEPT !.failed = TRUE].fptr = fil[h].fptr
            /\ [fil[h] EXCEPT !.failed = TRUE].curr = fil[h].curr
        BY <3>1, FilKept
      <3> QED
        BY <3>1, <3>2, <3>3, <3>4
    <2>3. FilOK'
      BY <2>1, <2>2 DEF TypeOK, FilOK
    <2> QED
      BY <2>2, <2>3, ReturnOK DEF IoError, TypeOK, CallOK
  <1> QED
    BY <1>1, <1>2

LEMMA WriteBackType ==
  ASSUME TypeOK, WriteBack
  PROVE  TypeOK'
  <1>1. CASE /\ fat' = [c \in Clusters |-> IF FatSector(c) = win.sect THEN win.fat[c] ELSE fat[c]]
             /\ dir' = [s \in Slots |-> IF DirSector(s) = win.sect THEN win.dir[s] ELSE dir[s]]
             /\ win' = [win EXCEPT !.dirty = FALSE]
             /\ mw' = (NFats = 2 /\ win.sect <= LastFat)
             /\ UNCHANGED <<fil, pc, reg, copy, data, fs, promise>>
    <2>1. CardOK'
      BY <1>1 DEF TypeOK, CardOK, Window, FatIn, DirIn
    <2>2. WinOK' /\ win'.sect = win.sect
      BY <1>1 DEF TypeOK, WinOK, Window, FatIn, DirIn
    <2>3. mw' \in BOOLEAN
      BY <1>1
    <2>4. FsOK' /\ FilOK' /\ RegOK' /\ PromiseOK'
      BY <1>1 DEF TypeOK, FsOK, FilOK, RegOK, PromiseOK
    <2>5. CallOK'
      BY <1>1, <2>2 DEF TypeOK, CallOK
    <2> QED
      BY <2>1, <2>2, <2>3, <2>4, <2>5, TypeParts
  <1>2. CASE win' = Kept(win) /\ IoError /\ UNCHANGED <<card, mw, fs, promise>>
    BY <1>2, IoErrorOK DEF TypeOK, Kept, card, FilOK, RegOK
  <1> QED
    BY <1>1, <1>2 DEF WriteBack, card

LEMMA WriteCopyType ==
  ASSUME TypeOK, WriteCopy
  PROVE  TypeOK'
  <1>1. Copied(win.fat) \in [Clusters -> Links]
    BY DEF TypeOK, Copied, Window, FatIn
  <1>2. CardOK' /\ WinOK' /\ FsOK' /\ FilOK' /\ RegOK' /\ PromiseOK'
    BY <1>1 DEF TypeOK, WriteCopy, CardOK, WinOK, FsOK, FilOK, RegOK, PromiseOK
  <1>3. mw' \in BOOLEAN /\ CallOK'
    BY DEF TypeOK, WriteCopy, CallOK
  <1> QED
    BY <1>2, <1>3, TypeParts

\* The sectors move_window is asked for.
LEMMA TargetType ==
  ASSUME TypeOK
  PROVE  Target \in Nat
  <1>0. /\ reg.slot \in Slots /\ reg.clust \in Links \cup {1}
        /\ reg.ncl \in {0} \cup Clusters /\ reg.cnt \in 0 .. LastFat
    BY DEF TypeOK, Regs
  <1>1. reg.slot \in Slots /\ reg.clust \in Nat /\ reg.ncl \in Nat /\ reg.cnt \in Nat
    <2>1. reg.clust \in Nat
      BY <1>0, LayoutAssumption DEF Links, Clusters, Eoc
    <2>2. reg.ncl \in Nat
      BY <1>0, LayoutAssumption DEF Clusters
    <2>3. reg.cnt \in Nat
      BY <1>0, LastFatPositive
    <2> QED
      BY <1>0, <2>1, <2>2, <2>3
  <1>2. DirSector(reg.slot) \in Nat /\ FatSector(reg.clust) \in Nat /\ FatSector(reg.ncl) \in Nat
    BY <1>1, FatSectorPositive, DirSectorPositive
  <1> QED
    BY <1>1, <1>2 DEF Target

LEMMA ReadWindowType ==
  ASSUME TypeOK, ReadWindow
  PROVE  TypeOK'
  <1>1. CASE win' = ReadSector(Target) /\ Target # 0 /\ UNCHANGED <<fil, pc, reg, card, mw, fs, promise>>
    <2>1. WinOK' /\ win'.sect # 0
      BY <1>1, ReadTyped, TargetType DEF WinOK
    <2>2. CardOK' /\ FsOK' /\ FilOK' /\ RegOK' /\ PromiseOK'
      BY <1>1 DEF TypeOK, card, CardOK, FsOK, FilOK, RegOK, PromiseOK
    <2>3. mw' \in BOOLEAN /\ CallOK'
      BY <1>1, <2>1 DEF TypeOK, CallOK
    <2> QED
      BY <2>1, <2>2, <2>3, TypeParts
  <1>2. CASE UNCHANGED win /\ IoError /\ UNCHANGED <<card, mw, fs, promise>>
    BY <1>2, IoErrorOK DEF TypeOK, card, FilOK, RegOK
  <1> QED
    BY <1>1, <1>2 DEF ReadWindow

\* Where a step changes the window, the window shows what is changed.
LEMMA Shown ==
  ASSUME TypeOK
  PROVE  /\ \A l \in {"trace", "reserve", "reopen", "entry", "list", "erase"} :
               Here(l) => reg.slot \in DirIn(win.sect)
         /\ \A l \in {"remove", "stat", "link"} :
               Here(l) /\ reg.clust \in Clusters => reg.clust \in FatIn(win.sect)
         /\ Here("scan") => reg.ncl \in FatIn(win.sect)
  <1>1. \A l \in {"trace", "reserve", "reopen", "entry", "list", "erase"} :
               Here(l) => reg.slot \in DirIn(win.sect)
    BY DEF TypeOK, Regs, Here, Target, DirIn
  <1>2. \A l \in {"remove", "stat", "link"} :
               Here(l) /\ reg.clust \in Clusters => reg.clust \in FatIn(win.sect)
    BY DEF Here, Target, FatIn
  <1>3. Here("scan") => reg.ncl \in FatIn(win.sect)
    BY DEF TypeOK, Regs, Here, Target, FatIn, Looking, ScanEnd
  <1> QED
    BY <1>1, <1>2, <1>3

LEMMA SetLinkType ==
  ASSUME TypeOK, NEW c \in FatIn(win.sect), NEW v \in Links, SetLink(c, v)
  PROVE  WinOK' /\ win'.sect = win.sect
  BY DEF TypeOK, SetLink, WinOK, Window

LEMMA SetEntryType ==
  ASSUME TypeOK, NEW d \in DirIn(win.sect), NEW e \in Entry, SetEntry(d, e)
  PROVE  WinOK' /\ win'.sect = win.sect
  BY DEF TypeOK, SetEntry, WinOK, Window

\* Calls that stay in progress set their locals within the types.
LEMMA NextClustType ==
  \A c \in Nat \ {0}, scl \in Nat : NextClust(c, scl) \in {0} \cup Clusters
  BY LayoutAssumption DEF NextClust, Clusters

LEMMA MountsType ==
  ASSUME TypeOK, Mounts \/ UNCHANGED fs
  PROVE  FsOK'
  <1>1. CASE UNCHANGED fs
    BY <1>1 DEF TypeOK, FsOK
  <1>2. CASE fs' = [mounted |-> TRUE, last |-> 0, free |-> Unknown]
    <2>1. 0 \in 0 .. MaxClust
      BY LayoutAssumption
    <2> QED
      BY <1>2, <2>1 DEF FsOK
  <1> QED
    BY <1>1, <1>2 DEF Mounts

LEMMA ScanFromType ==
  ASSUME TypeOK, NEW scl \in Nat \ {0}, NEW r \in Regs, r.op = "write", r.h \in Handles, r.old = 0,
         UNCHANGED fil, ScanFrom(scl, r)
  PROVE  RegOK' /\ CallOK'
  <1>1. NextClust(scl, scl) \in {0} \cup Clusters
    BY NextClustType
  <1>2. reg' = [r EXCEPT !.scl = scl, !.ncl = NextClust(scl, scl)] /\ pc' = "scan"
    BY DEF ScanFrom, Begin
  <1>3. RegOK' /\ reg'.op = "write" /\ reg'.h \in Handles /\ reg'.old = 0
    BY <1>1, <1>2 DEF RegOK, Regs, Pcs
  <1> QED
    BY <1>2, <1>3 DEF TypeOK, CallOK

LEMMA OpenFileType ==
  ASSUME TypeOK, reg.h \in Handles, reg.n \in Names, NEW e \in Entry, NEW created \in BOOLEAN,
         OpenFile(e, created)
  PROVE  FilOK' /\ RegOK' /\ CallOK'
  <1> DEFINE f == [Closed EXCEPT !.open = TRUE, !.name = reg.n, !.written = created,
                                 !.changed = created, !.fsize = e.size,
                                 !.org = e.clust, !.slot = reg.slot]
  <1>1. e.size \in Nat /\ e.clust \in Links \cup {1} /\ reg.slot \in Slots
    BY DEF Entry, TypeOK, Regs
  <1>2. f \in Fil /\ f.fptr = 0
    BY <1>1, Numbers DEF Closed, Fil
  <1>3. fil' = [fil EXCEPT ![reg.h] = f]
    BY DEF OpenFile
  <1> HIDE DEF f
  <1>4. FilOK' /\ \A h \in Handles : fil'[h].fptr > 0 => fil'[h].curr \in Clusters
    BY <1>2, <1>3 DEF TypeOK, FilOK, CallOK
  <1> QED
    BY <1>4, ReturnOK DEF OpenFile

LEMMA WriteToType ==
  ASSUME TypeOK, reg.op = "write", NEW c \in Clusters, WriteTo(c)
  PROVE  FilOK' /\ RegOK' /\ CallOK'
  <1> DEFINE o == IF fil[reg.h].org = 0 THEN c ELSE fil[reg.h].org
             f == [fil[reg.h] EXCEPT !.curr = c, !.org = o]
  <1>1. reg.h \in Handles /\ c \in Links
    BY Numbers DEF TypeOK, CallOK
  <1>2. fil[reg.h] \in Fil /\ o \in Links \cup {1}
    BY <1>1 DEF TypeOK, Fil
  <1>3. fil' = [fil EXCEPT ![reg.h] = f]
    BY <1>1 DEF TypeOK, WriteTo
  <1>4. f \in Fil /\ f.curr = c
    <2> HIDE DEF o
    <2>1. [fil[reg.h] EXCEPT !.curr = c] \in Fil
      BY <1>1, <1>2, FilField
    <2>2. [[fil[reg.h] EXCEPT !.curr = c] EXCEPT !.org = o] \in Fil
      BY <2>1, <1>2, FilField
    <2>3. f = [[fil[reg.h] EXCEPT !.curr = c] EXCEPT !.org = o]
      BY <1>2 DEF Fil
    <2> QED
      BY <2>2, <2>3, <1>2 DEF Fil
  <1> HIDE DEF f
  <1>5. FilOK' /\ \A h \in Handles \ {reg.h} : fil'[h] = fil[h]
    BY <1>1, <1>3, <1>4 DEF TypeOK, FilOK
  <1>6. fil'[reg.h].curr = c
    BY <1>1, <1>3, <1>4 DEF TypeOK
  <1>7. RegOK' /\ pc' = "data" /\ reg' = reg
    BY DEF TypeOK, WriteTo, RegOK, Pcs
  <1> QED
    BY <1>1, <1>5, <1>6, <1>7 DEF TypeOK, CallOK

LEMMA DiskFullType ==
  ASSUME TypeOK, reg.op = "write", DiskFull
  PROVE  FilOK' /\ RegOK' /\ CallOK'
  <1> DEFINE a == [fil[reg.h] EXCEPT !.written = TRUE]
             b == [a EXCEPT !.changed = TRUE]
             f == [b EXCEPT !.failed = FALSE]
  <1>1. reg.h \in Handles /\ fil[reg.h] \in Fil
    BY DEF TypeOK, CallOK
  <1>2. fil' = [fil EXCEPT ![reg.h] = f]
    BY <1>1 DEF TypeOK, DiskFull
  <1>3. a \in Fil /\ b \in Fil /\ f \in Fil /\ f.fptr = fil[reg.h].fptr /\ f.curr = fil[reg.h].curr
    BY <1>1 DEF Fil
  <1> HIDE DEF f
  <1>4. FilOK' /\ \A h \in Handles : fil'[h].fptr = fil[h].fptr /\ fil'[h].curr = fil[h].curr
    BY <1>1, <1>2, <1>3 DEF TypeOK, FilOK
  <1> QED
    BY <1>4, ReturnOK DEF DiskFull, TypeOK, CallOK

-----------------------------------------------------------------------------
(* The calls begin.                                                        *)

LEMMA OpenType ==
  ASSUME TypeOK, NEW h \in Handles, NEW n \in Names, NEW mode \in Modes, f_open(h, n, mode)
  PROVE  TypeOK'
  <1>1. CardOK' /\ WinOK' /\ mw' \in BOOLEAN
    BY DEF TypeOK, f_open, card, CardOK, WinOK
  <1>2. FilOK' /\ \A g \in Handles : fil'[g].fptr > 0 => fil'[g].curr \in Clusters
    <2>1. fil' = [fil EXCEPT ![h] = Closed]
      BY DEF f_open
    <2>2. Closed \in Fil /\ Closed.fptr = 0
      BY ClosedTyped DEF Closed
    <2> QED
      BY <2>1, <2>2 DEF TypeOK, CallOK, FilOK
  <1>3. CASE /\ Mounts
             /\ Begin("trace", [NoCall EXCEPT !.op = "open", !.h = h, !.n = n, !.mode = mode])
             /\ promise' = IF mode = "always" THEN [promise EXCEPT ![n] = Unknown] ELSE promise
    <2>1. FsOK'
      BY <1>3, MountsType
    <2>2. PromiseOK'
      BY <1>3 DEF TypeOK, PromiseOK
    <2>3. RegOK' /\ pc' = "trace" /\ reg'.op = "open" /\ reg'.h = h /\ reg'.n = n /\ reg'.rs = 0
         /\ reg'.old = 0
      BY <1>3, NoCallTyped DEF NoCall, Begin, RegOK, Regs, Pcs, Ops
    <2>4. CallOK'
      BY <1>2, <2>3, LayoutAssumption DEF CallOK
    <2> QED
      BY <1>1, <1>2, <2>1, <2>2, <2>3, <2>4, TypeParts
  <1>4. CASE MountFails /\ UNCHANGED <<pc, reg, promise>>
    <2>1. FsOK' /\ PromiseOK' /\ RegOK'
      BY <1>4 DEF TypeOK, MountFails, FsOK, PromiseOK, RegOK
    <2>2. CallOK'
      BY <1>2, <1>4 DEF TypeOK, CallOK, f_open, Idle
    <2> QED
      BY <1>1, <1>2, <2>1, <2>2, TypeParts
  <1> QED
    BY <1>3, <1>4 DEF f_open

LEMMA UnlinkType ==
  ASSUME TypeOK, NEW n \in Names, f_unlink(n)
  PROVE  TypeOK'
  <1>1. CardOK' /\ WinOK' /\ mw' \in BOOLEAN /\ FilOK'
    BY DEF TypeOK, f_unlink, card, CardOK, WinOK, FilOK
  <1>2. CASE /\ Mounts
             /\ Begin("trace", [NoCall EXCEPT !.op = "unlink", !.n = n])
             /\ promise' = [promise EXCEPT ![n] = Unknown]
    <2>1. FsOK'
      BY <1>2, MountsType
    <2>2. PromiseOK'
      BY <1>2 DEF TypeOK, PromiseOK
    <2>3. RegOK' /\ pc' = "trace" /\ reg'.op = "unlink" /\ reg'.n = n /\ reg'.rs = 0
         /\ reg'.old = 0
      BY <1>2, NoCallTyped DEF NoCall, Begin, RegOK, Regs, Pcs, Ops
    <2>4. CallOK'
      BY <2>3, LayoutAssumption DEF TypeOK, CallOK, f_unlink
    <2> QED
      BY <1>1, <2>1, <2>2, <2>3, <2>4, TypeParts
  <1>3. CASE MountFails /\ UNCHANGED <<pc, reg, promise>>
    <2>1. FsOK' /\ PromiseOK' /\ RegOK'
      BY <1>3 DEF TypeOK, MountFails, FsOK, PromiseOK, RegOK
    <2>2. CallOK'
      BY <1>3 DEF TypeOK, CallOK, f_unlink, Idle
    <2> QED
      BY <1>1, <2>1, <2>2, TypeParts
  <1> QED
    BY <1>2, <1>3 DEF f_unlink

LEMMA GetfreeType ==
  ASSUME TypeOK, f_getfree
  PROVE  TypeOK'
  <1>1. CardOK' /\ WinOK' /\ mw' \in BOOLEAN /\ FilOK' /\ PromiseOK'
    BY DEF TypeOK, f_getfree, card, CardOK, WinOK, FilOK, PromiseOK
  <1>2. FsOK'
    BY MountsType DEF f_getfree, MountFails
  <1>3. CASE UNCHANGED <<pc, reg>>
    <2>1. RegOK' /\ CallOK'
      BY <1>3 DEF TypeOK, RegOK, CallOK, f_getfree, Idle
    <2> QED
      BY <1>1, <1>2, <2>1, TypeParts
  <1>4. CASE Begin("count", [NoCall EXCEPT !.op = "getfree", !.cnt = 1])
    <2>1. 1 \in 0 .. LastFat
      BY LastFatPositive
    <2>2. RegOK' /\ pc' = "count" /\ reg'.op = "getfree" /\ reg'.old = 0
      BY <1>4, <2>1, NoCallTyped DEF NoCall, Begin, RegOK, Regs, Pcs, Ops
    <2>3. CallOK'
      BY <2>2 DEF TypeOK, CallOK, f_getfree
    <2> QED
      BY <1>1, <1>2, <2>2, <2>3, TypeParts
  <1> QED
    BY <1>3, <1>4 DEF f_getfree

\* The calls by name begin with a search for the name.
LEMMA NamedType ==
  ASSUME TypeOK, NEW n \in Names, NEW op \in {"stat", "utime", "chmod", "rename"},
         NEW r \in Regs, r.rs = 0, r.old = 0, op = "rename" => r.new \in Names,
         Named(n, op, r)
  PROVE  TypeOK'
  <1>1. CardOK' /\ WinOK' /\ mw' \in BOOLEAN /\ FilOK' /\ PromiseOK'
    BY DEF TypeOK, Named, card, CardOK, WinOK, FilOK, PromiseOK
  <1>2. FsOK'
    BY MountsType DEF Named, MountFails
  <1>3. CASE UNCHANGED <<pc, reg>>
    <2>1. RegOK' /\ CallOK'
      BY <1>3 DEF TypeOK, RegOK, CallOK, Named, Idle
    <2> QED
      BY <1>1, <1>2, <2>1, TypeParts
  <1>4. CASE Begin("trace", [r EXCEPT !.op = op, !.n = n])
    <2>1. RegOK' /\ pc' = "trace"
      BY <1>4 DEF Begin, RegOK, Regs, Pcs, Ops
    <2>2. reg'.op = op /\ reg'.n = n /\ reg'.rs = 0 /\ reg'.old = 0 /\ reg'.new = r.new
      BY <1>4 DEF Begin, Regs
    <2>3. CallOK'
      BY <2>1, <2>2, LayoutAssumption DEF TypeOK, CallOK, Named
    <2> QED
      BY <1>1, <1>2, <2>1, <2>3, TypeParts
  <1> QED
    BY <1>3, <1>4 DEF Named

LEMMA AdminType ==
  ASSUME TypeOK, NEW n \in Names,
         f_stat(n) \/ f_utime(n) \/ \E ro \in BOOLEAN : f_chmod(n, ro)
  PROVE  TypeOK'
  <1>1. NoCall \in Regs /\ NoCall.rs = 0 /\ NoCall.old = 0
    BY NoCallTyped DEF NoCall
  <1>2. CASE f_stat(n) \/ f_utime(n)
    BY <1>1, <1>2, NamedType DEF f_stat, f_utime
  <1>3. ASSUME NEW ro \in BOOLEAN, f_chmod(n, ro)
        PROVE  TypeOK'
    <2> DEFINE e == [NoCall.entry EXCEPT !.ro = ro]
               r == [NoCall EXCEPT !.entry = e]
    <2>1. NoCall.entry \in Entry
      BY <1>1 DEF Regs
    <2>2. e \in Entry
      BY <2>1 DEF Entry
    <2>3. [NoCall EXCEPT !.entry.ro = ro] = r
      BY <1>1 DEF Regs
    <2> HIDE DEF e
    <2>4. r \in Regs /\ r.rs = 0 /\ r.old = 0
      BY <1>1, <2>2 DEF Regs
    <2> HIDE DEF r
    <2> QED
      BY <1>3, <2>3, <2>4, NamedType DEF f_chmod
  <1> QED
    BY <1>2, <1>3

LEMMA RenameType ==
  ASSUME TypeOK, NEW n \in Names, NEW m \in Names, f_rename(n, m)
  PROVE  TypeOK'
  <1> DEFINE r == [NoCall EXCEPT !.new = m]
  <1>1. r \in Regs /\ r.rs = 0 /\ r.old = 0 /\ r.new = m
    BY NoCallTyped DEF NoCall, Regs
  <1> HIDE DEF r
  <1> QED
    BY <1>1, NamedType DEF f_rename, r

LEMMA OpendirType ==
  ASSUME TypeOK, f_opendir
  PROVE  TypeOK'
  <1>1. CardOK' /\ WinOK' /\ mw' \in BOOLEAN /\ FilOK' /\ PromiseOK'
    BY DEF TypeOK, f_opendir, card, CardOK, WinOK, FilOK, PromiseOK
  <1>2. FsOK'
    BY MountsType DEF f_opendir, MountFails
  <1>3. CASE UNCHANGED <<pc, reg>>
    <2>1. RegOK' /\ CallOK'
      BY <1>3 DEF TypeOK, RegOK, CallOK, f_opendir, Idle
    <2> QED
      BY <1>1, <1>2, <2>1, TypeParts
  <1>4. CASE Begin("list", [NoCall EXCEPT !.op = "list"])
    <2>1. RegOK' /\ pc' = "list" /\ reg'.op = "list" /\ reg'.old = 0
      BY <1>4, NoCallTyped DEF NoCall, Begin, RegOK, Regs, Pcs, Ops
    <2>2. CallOK'
      BY <2>1 DEF TypeOK, CallOK, f_opendir
    <2> QED
      BY <1>1, <1>2, <2>1, <2>2, TypeParts
  <1> QED
    BY <1>3, <1>4 DEF f_opendir

LEMMA WriteType ==
  ASSUME TypeOK, NEW h \in Handles, f_write(h)
  PROVE  TypeOK'
  <1> DEFINE f == fil[h]
             r == [NoCall EXCEPT !.op = "write", !.h = h]
  <1>1. CardOK' /\ WinOK' /\ mw' \in BOOLEAN /\ FsOK' /\ PromiseOK'
    <2>1. promise' = [promise EXCEPT ![f.name] = Unknown]
      BY DEF f_write
    <2>2. UNCHANGED <<card, win, mw, fs>>
      BY DEF f_write
    <2> QED
      BY <2>1, <2>2 DEF TypeOK, card, CardOK, WinOK, FsOK, PromiseOK
  <1>2. r \in Regs /\ r.op = "write" /\ r.h = h /\ r.old = 0
    <2>1. NoCall.old = 0
      BY DEF NoCall
    <2> QED
      BY <2>1, NoCallTyped DEF Regs, Ops
  <1>3. f \in Fil
    BY DEF TypeOK
  <1>4. CASE ScanFrom(IF fs.last \in 1 .. MaxClust - 1 THEN fs.last ELSE 1, r) /\ UNCHANGED fil
    <2> DEFINE scl == IF fs.last \in 1 .. MaxClust - 1 THEN fs.last ELSE 1
    <2>1. scl \in Nat \ {0}
      BY LayoutAssumption
    <2>2. RegOK' /\ CallOK'
      <3> HIDE DEF scl, r
      <3>1. ScanFrom(scl, r) /\ UNCHANGED fil
        BY <1>4 DEF scl
      <3> QED
        BY <3>1, <2>1, <1>2, ScanFromType
    <2>3. FilOK'
      BY <1>4 DEF TypeOK, FilOK
    <2> QED
      BY <1>1, <2>2, <2>3, TypeParts
  <1>5. CASE f.org \in Clusters /\ Begin("data", r) /\ fil' = [fil EXCEPT ![h].curr = f.org]
    <2>1. [f EXCEPT !.curr = f.org] \in Fil /\ [f EXCEPT !.curr = f.org].curr \in Clusters
      BY <1>3, <1>5, FilField, Numbers DEF Fil
    <2>2. fil' = [fil EXCEPT ![h] = [f EXCEPT !.curr = f.org]]
      BY <1>5 DEF TypeOK
    <2>3. FilOK' /\ fil'[h].curr \in Clusters /\ \A g \in Handles \ {h} : fil'[g] = fil[g]
      BY <2>1, <2>2 DEF TypeOK, FilOK
    <2>4. RegOK' /\ pc' = "data" /\ reg'.op = "write" /\ reg'.h = h /\ reg'.old = 0
      BY <1>5, <1>2 DEF Begin, RegOK, Pcs
    <2>5. CallOK'
      BY <2>3, <2>4 DEF TypeOK, CallOK
    <2> QED
      BY <1>1, <2>3, <2>4, <2>5, TypeParts
  <1>6. CASE fil' = [fil EXCEPT ![h].error = TRUE] /\ UNCHANGED <<pc, reg>> /\ Idle
    <2>1. /\ [f EXCEPT !.error = TRUE] \in Fil
          /\ [f EXCEPT !.error = TRUE].curr = f.curr /\ [f EXCEPT !.error = TRUE].fptr = f.fptr
      <3> HIDE DEF f
      <3> QED
        BY <1>3, FilField, FilKept
    <2>2. fil' = [fil EXCEPT ![h] = [f EXCEPT !.error = TRUE]]
      BY <1>6 DEF TypeOK
    <2>3. FilOK' /\ \A g \in Handles : fil'[g].fptr = fil[g].fptr /\ fil'[g].curr = fil[g].curr
      BY <2>1, <2>2 DEF TypeOK, FilOK
    <2>4. RegOK' /\ CallOK'
      BY <1>6, <2>3 DEF TypeOK, RegOK, CallOK, Idle
    <2> QED
      BY <1>1, <2>3, <2>4, TypeParts
  <1>7. CASE f.fptr > 0 /\ Begin("stat", [r EXCEPT !.clust = f.curr]) /\ UNCHANGED fil
    <2>1. f.curr \in Clusters
      BY <1>7 DEF TypeOK, CallOK
    <2>2. [r EXCEPT !.clust = f.curr] \in Regs /\ [r EXCEPT !.clust = f.curr].op = "write"
          /\ [r EXCEPT !.clust = f.curr].h = h /\ [r EXCEPT !.clust = f.curr].clust = f.curr
          /\ [r EXCEPT !.clust = f.curr].old = 0
      <3> HIDE DEF r
      <3> QED
        BY <1>2, <2>1, Numbers DEF Regs
    <2>3. /\ RegOK' /\ pc' = "stat" /\ reg'.op = "write" /\ reg'.h = h
          /\ reg'.clust \in Clusters /\ reg'.old = 0
      BY <1>7, <2>1, <2>2 DEF Begin, RegOK, Pcs
    <2>4. FilOK' /\ CallOK'
      BY <1>7, <2>3 DEF TypeOK, FilOK, CallOK
    <2> QED
      BY <1>1, <2>3, <2>4, TypeParts
  <1> HIDE DEF f, r
  <1> QED
    BY <1>4, <1>5, <1>6, <1>7 DEF f_write, f, r

LEMMA SyncsType ==
  ASSUME TypeOK, NEW h \in Handles, NEW op \in {"sync", "close"}, Syncs(h, op)
  PROVE  TypeOK'
  <1> DEFINE f == fil[h]
  <1>1. CardOK' /\ WinOK' /\ mw' \in BOOLEAN /\ FsOK'
    BY DEF Syncs, TypeOK, card, CardOK, WinOK, FsOK
  <1>2. f \in Fil
    BY DEF TypeOK
  <1>3. CASE /\ Begin("entry", [NoCall EXCEPT !.op = op, !.h = h, !.slot = f.slot])
             /\ UNCHANGED <<fil, promise>>
    <2>1. f.slot \in Slots
      BY <1>2 DEF Fil
    <2>2. RegOK' /\ pc' = "entry" /\ reg'.op = op /\ reg'.h = h /\ reg'.old = 0
      BY <1>3, <2>1, NoCallTyped DEF NoCall, Begin, RegOK, Regs, Pcs, Ops
    <2>3. FilOK' /\ PromiseOK' /\ CallOK'
      BY <1>3, <2>2 DEF TypeOK, FilOK, PromiseOK, CallOK
    <2> QED
      BY <1>1, <2>2, <2>3, TypeParts
  <1>4. CASE /\ UNCHANGED <<pc, reg>> /\ Idle
             /\ fil' = IF op = "close" THEN [fil EXCEPT ![h] = Closed] ELSE fil
             /\ promise' = IF f.changed THEN [promise EXCEPT ![f.name] = f.fsize] ELSE promise
    <2>1. f.fsize \in Nat
      BY <1>2 DEF Fil
    <2>2. PromiseOK'
      BY <1>4, <2>1 DEF TypeOK, PromiseOK
    <2>3. FilOK' /\ \A g \in Handles : fil'[g].fptr > 0 => fil'[g].curr \in Clusters
      <3>1. Closed \in Fil /\ Closed.fptr = 0
        BY ClosedTyped DEF Closed
      <3> QED
        BY <1>4, <3>1 DEF TypeOK, FilOK, CallOK
    <2>4. RegOK' /\ CallOK'
      BY <1>4, <2>3 DEF TypeOK, RegOK, CallOK, Idle
    <2> QED
      BY <1>1, <2>2, <2>3, <2>4, TypeParts
  <1> QED
    BY <1>3, <1>4 DEF Syncs

-----------------------------------------------------------------------------
(* The steps of a call.                                                    *)

\* What a search of the directory changes when it just goes on.
LEMMA NextSlot ==
  ASSUME TypeOK, reg' = [reg EXCEPT !.slot = @ + 1], ~Last(reg.slot), UNCHANGED pc
  PROVE  RegOK' /\ reg'.op = reg.op /\ reg'.h = reg.h /\ reg'.n = reg.n /\ reg'.clust = reg.clust
         /\ reg'.ncl = reg.ncl /\ reg'.rs = reg.rs /\ reg'.new = reg.new
         /\ reg'.old = reg.old /\ reg'.entry = reg.entry
  <1>1. reg.slot + 1 \in Slots
    <2>1. reg.slot \in Slots
      BY DEF TypeOK, Regs
    <2> QED
      BY <2>1, LayoutAssumption DEF Slots, Last
  <1>2. reg \in Regs
    BY DEF TypeOK
  <1>3. reg' = [reg EXCEPT !.slot = reg.slot + 1]
    BY <1>2 DEF Regs
  <1> QED
    BY <1>1, <1>2, <1>3 DEF TypeOK, RegOK, Regs

LEMMA TracePathType ==
  ASSUME TypeOK, TracePath
  PROVE  TypeOK'
  <1> DEFINE e == win.dir[reg.slot]
  <1>1. CardOK' /\ mw' \in BOOLEAN /\ FsOK' /\ PromiseOK'
    BY DEF TracePath, TypeOK, card, CardOK, FsOK, PromiseOK
  <1>2. /\ reg.slot \in DirIn(win.sect) /\ pc = "trace" /\ reg \in Regs
        /\ reg.op \in {"open", "unlink", "stat", "utime", "chmod", "rename"}
        /\ reg.n \in Names
        /\ reg.op = "open" => reg.h \in Handles
        /\ reg.op = "rename" => reg.new \in Names
        /\ reg.old # 0 => reg.op = "rename" /\ reg.entry.name \in Names
    BY Shown DEF TracePath, Here, TypeOK, CallOK
  <1>3. e \in Entry
    BY <1>2 DEF TypeOK, Window
  <1>4. e.clust \in Links \cup {1} /\ e.clust \in 0 .. MaxClust /\ win.sect # 0
    <2>1. e.clust \in Links \cup {1}
      BY <1>3 DEF Entry
    <2>2. win.sect # 0
      BY <1>2, DirSectorPositive DEF DirIn
    <2>3. e.clust \in 0 .. MaxClust
      BY <2>1, LayoutAssumption DEF Links, Clusters, Eoc
    <2> QED
      BY <2>1, <2>2, <2>3
  <1>5. CASE Return /\ UNCHANGED <<win, fil>>
    <2>1. WinOK' /\ FilOK'
      BY <1>5 DEF TypeOK, WinOK, FilOK
    <2>2. RegOK' /\ CallOK'
      BY <1>5, ReturnOK DEF TypeOK, CallOK
    <2> QED
      BY <1>1, <2>1, <2>2, TypeParts
  <1>6. CASE NotFound /\ UNCHANGED <<win, fil>>
    <2>1. CASE /\ Creates \/ reg.old # 0
               /\ pc' = "reserve" /\ reg' = [reg EXCEPT !.slot = 1]
      <3>1. RegOK' /\ reg'.op = reg.op /\ reg'.h = reg.h /\ reg'.n = reg.n
            /\ reg'.old = reg.old /\ reg'.entry = reg.entry /\ reg'.new = reg.new
        BY <1>2, <2>1, FirstSlot DEF RegOK, Regs, Pcs
      <3>2. WinOK' /\ FilOK' /\ CallOK'
        BY <1>2, <1>6, <2>1, <3>1 DEF TypeOK, WinOK, FilOK, CallOK, Creates
      <3> QED
        BY <1>1, <3>1, <3>2, TypeParts
    <2> QED
      BY <1>5, <1>6, <2>1 DEF NotFound
  <1>7. CASE reg' = [reg EXCEPT !.slot = @ + 1] /\ ~Last(reg.slot) /\ UNCHANGED <<win, fil, pc>>
    <2>1. WinOK' /\ FilOK'
      BY <1>7 DEF TypeOK, WinOK, FilOK
    <2>2. RegOK' /\ reg'.op = reg.op /\ reg'.h = reg.h /\ reg'.n = reg.n /\ reg'.rs = reg.rs
          /\ reg'.old = reg.old /\ reg'.entry = reg.entry /\ reg'.new = reg.new
      BY <1>7, NextSlot
    <2>3. CallOK'
      BY <1>2, <1>7, <2>2 DEF TypeOK, CallOK
    <2> QED
      BY <1>1, <2>1, <2>2, <2>3, TypeParts
  <1>8. ASSUME NEW d \in Entry, SetEntry(reg.slot, d), UNCHANGED fil, pc' = "remove",
               reg.op \in {"open", "unlink"}, NEW rs \in 0 .. MaxClust,
               reg' = [reg EXCEPT !.clust = Head(e), !.rs = rs]
        PROVE  TypeOK'
    <2>1. WinOK' /\ win'.sect = win.sect
      BY <1>2, <1>8, SetEntryType
    <2>2. Head(e) \in Links \cup {1} /\ rs \in Nat /\ rs <= MaxClust
      BY <1>4, <1>8, Numbers DEF Head
    <2>3. RegOK' /\ reg'.op = reg.op /\ reg'.h = reg.h /\ reg'.n = reg.n /\ reg'.rs = rs
          /\ reg'.old = reg.old
      BY <1>2, <1>8, <2>2 DEF RegOK, Regs, Pcs
    <2>4. FilOK' /\ CallOK'
      BY <1>2, <1>4, <1>8, <2>1, <2>2, <2>3 DEF TypeOK, FilOK, CallOK
    <2> QED
      BY <1>1, <2>1, <2>3, <2>4, TypeParts
  <1>9. CASE /\ SetEntry(reg.slot, Deletion(e)) /\ UNCHANGED fil /\ reg.op = "unlink"
             /\ pc' = "remove" /\ reg' = [reg EXCEPT !.clust = Head(e)]
    <2>1. Deletion(e) \in Entry
      BY BlankTyped DEF Deletion
    <2> DEFINE rs == reg.rs
    <2>2. reg' = [reg EXCEPT !.clust = Head(e), !.rs = rs]
      BY <1>2, <1>9 DEF Regs
    <2>3. rs \in 0 .. MaxClust
      BY <1>2, LayoutAssumption DEF TypeOK, CallOK, Regs
    <2> QED
      BY <1>8, <1>9, <2>1, <2>2, <2>3
  <1>10. CASE /\ SetEntry(reg.slot, Emptied(e)) /\ UNCHANGED fil /\ pc' = "remove"
              /\ reg' = [reg EXCEPT !.clust = Head(e), !.rs = e.clust]
              /\ e.name = reg.n /\ reg.op = "open"
    <2>1. Emptied(e) \in Entry
      BY <1>2, <1>10, BlankTyped DEF Emptied
    <2> QED
      BY <1>4, <1>8, <1>10, <2>1
  <1>11. CASE OpenFile(e, FALSE) /\ UNCHANGED win /\ reg.op = "open"
    <2>1. FilOK' /\ RegOK' /\ CallOK'
      BY <1>2, <1>3, <1>11, OpenFileType
    <2>2. WinOK'
      BY <1>11 DEF TypeOK, WinOK
    <2> QED
      BY <1>1, <2>1, <2>2, TypeParts
  <1>12. ASSUME reg.op \in {"utime", "chmod"}, pc' = "flush", UNCHANGED <<fil, reg>>,
                SetEntry(reg.slot, IF reg.op = "chmod" THEN [e EXCEPT !.ro = reg.entry.ro] ELSE e)
         PROVE  TypeOK'
    <2> DEFINE d == IF reg.op = "chmod" THEN [e EXCEPT !.ro = reg.entry.ro] ELSE e
    <2>1. reg.entry.ro \in BOOLEAN
      BY <1>2 DEF Regs, Entry
    <2>2. d \in Entry
      <3> HIDE DEF e
      <3> QED
        BY <1>3, <2>1 DEF Entry
    <2>3. SetEntry(reg.slot, d)
      BY <1>12
    <2> HIDE DEF d
    <2>4. WinOK'
      BY <1>2, <2>2, <2>3, SetEntryType
    <2>5. RegOK' /\ FilOK' /\ CallOK'
      BY <1>2, <1>12 DEF TypeOK, RegOK, FilOK, CallOK, Pcs
    <2> QED
      BY <1>1, <2>4, <2>5, TypeParts
  <1>13. CASE /\ reg.op = "rename" /\ e.name = reg.n
              /\ reg' = [reg EXCEPT !.old = reg.slot, !.entry = e, !.n = reg.new, !.slot = 1]
              /\ UNCHANGED <<win, fil, pc>>
    <2>1. reg.slot \in Slots
      BY <1>2 DEF Regs
    <2>2. /\ reg' \in Regs /\ reg'.op = "rename" /\ reg'.n = reg.new /\ reg'.new = reg.new
          /\ reg'.rs = reg.rs /\ reg'.entry = e
      <3> HIDE DEF e
      <3> QED
        BY <1>2, <1>3, <1>13, <2>1, FirstSlot DEF Regs
    <2>3. RegOK' /\ WinOK' /\ FilOK'
      BY <1>13, <2>2 DEF TypeOK, RegOK, WinOK, FilOK
    <2>4. CallOK'
      BY <1>2, <1>13, <2>2 DEF TypeOK, CallOK
    <2> QED
      BY <1>1, <2>3, <2>4, TypeParts
  <1> HIDE DEF e
  <1> QED
    BY <1>5, <1>6, <1>7, <1>9, <1>10, <1>11, <1>12, <1>13 DEF TracePath, e

LEMMA ReaddirType ==
  ASSUME TypeOK, f_readdir
  PROVE  TypeOK'
  <1>1. CardOK' /\ WinOK' /\ mw' \in BOOLEAN /\ FsOK' /\ FilOK' /\ PromiseOK' /\ pc = "list"
    BY DEF f_readdir, Here, TypeOK, card, CardOK, WinOK, FsOK, FilOK, PromiseOK
  <1>2. CASE Return
    BY <1>1, <1>2, ReturnOK, TypeParts DEF f_readdir, TypeOK, CallOK
  <1>3. CASE reg' = [reg EXCEPT !.slot = @ + 1] /\ ~Last(reg.slot) /\ UNCHANGED pc
    <2>1. RegOK' /\ reg'.op = reg.op /\ reg'.h = reg.h /\ reg'.n = reg.n /\ reg'.rs = reg.rs
          /\ reg'.old = reg.old /\ reg'.entry = reg.entry /\ reg'.new = reg.new
      BY <1>3, NextSlot
    <2>2. CallOK'
      BY <1>1, <1>3, <2>1 DEF TypeOK, CallOK, f_readdir
    <2> QED
      BY <1>1, <2>1, <2>2, TypeParts
  <1> QED
    BY <1>2, <1>3 DEF f_readdir

LEMMA ReserveEntryType ==
  ASSUME TypeOK, ReserveEntry
  PROVE  TypeOK'
  <1> DEFINE e == win.dir[reg.slot]
  <1>1. CardOK' /\ mw' \in BOOLEAN /\ FsOK' /\ PromiseOK'
    BY DEF ReserveEntry, TypeOK, card, CardOK, FsOK, PromiseOK
  <1>2. /\ reg.slot \in DirIn(win.sect) /\ pc = "reserve" /\ reg \in Regs
        /\ reg.op = "open" \/ reg.old # 0
        /\ reg.op = "open" => reg.h \in Handles
        /\ reg.old # 0 => reg.op = "rename" /\ reg.entry.name \in Names
        /\ reg.op = "rename" => reg.new \in Names
        /\ reg.n \in Names
    BY Shown DEF ReserveEntry, Here, TypeOK, CallOK
  <1>3. CASE SetEntry(reg.slot, Blank(reg.n)) /\ OpenFile(Blank(reg.n), TRUE) /\ reg.op = "open"
    <2>1. Blank(reg.n) \in Entry
      BY <1>2, BlankTyped
    <2>2. WinOK'
      BY <1>2, <1>3, <2>1, SetEntryType
    <2>3. FilOK' /\ RegOK' /\ CallOK'
      BY <1>2, <1>3, <2>1, OpenFileType
    <2> QED
      BY <1>1, <2>2, <2>3, TypeParts
  <1>4. CASE reg' = [reg EXCEPT !.slot = @ + 1] /\ ~Last(reg.slot) /\ UNCHANGED <<win, fil, pc>>
    <2>1. WinOK' /\ FilOK'
      BY <1>4 DEF TypeOK, WinOK, FilOK
    <2>2. RegOK' /\ reg'.op = reg.op /\ reg'.h = reg.h /\ reg'.n = reg.n
          /\ reg'.old = reg.old /\ reg'.entry = reg.entry /\ reg'.new = reg.new
      BY <1>4, NextSlot
    <2>3. CallOK'
      BY <1>2, <1>4, <2>2 DEF TypeOK, CallOK
    <2> QED
      BY <1>1, <2>1, <2>2, <2>3, TypeParts
  <1>5. CASE Return /\ UNCHANGED <<win, fil>>
    <2>1. WinOK' /\ FilOK'
      BY <1>5 DEF TypeOK, WinOK, FilOK
    <2>2. RegOK' /\ CallOK'
      BY <1>5, ReturnOK DEF TypeOK, CallOK
    <2> QED
      BY <1>1, <2>1, <2>2, TypeParts
  <1>6. CASE /\ SetEntry(reg.slot, Renamed(reg.entry)) /\ reg.op = "rename"
             /\ pc' = "erase" /\ reg' = [reg EXCEPT !.slot = reg.old]
             /\ UNCHANGED fil
    <2>1. reg.entry \in Entry /\ reg.old \in Slots
      BY <1>2, <1>6 DEF Regs
    <2>2. Renamed(reg.entry) \in Entry
      BY <1>2, <2>1 DEF Renamed, Entry
    <2>3. WinOK'
      BY <1>2, <1>6, <2>2, SetEntryType
    <2>4. RegOK' /\ reg'.op = reg.op /\ reg'.h = reg.h /\ reg'.n = reg.n /\ reg'.slot = reg.old
          /\ reg'.old = reg.old /\ reg'.entry = reg.entry /\ reg'.new = reg.new
      BY <1>2, <1>6, <2>1 DEF RegOK, Regs, Pcs
    <2>5. FilOK' /\ CallOK'
      BY <1>2, <1>6, <2>4 DEF TypeOK, FilOK, CallOK
    <2> QED
      BY <1>1, <2>3, <2>4, <2>5, TypeParts
  <1> QED
    BY <1>3, <1>4, <1>5, <1>6 DEF ReserveEntry

LEMMA EraseOldType ==
  ASSUME TypeOK, EraseOld
  PROVE  TypeOK'
  <1>1. /\ pc = "erase" /\ reg.op = "rename" /\ reg.slot \in DirIn(win.sect)
        /\ reg.entry.name \in Names /\ reg.n \in Names /\ reg.new \in Names /\ reg \in Regs
    BY Shown DEF EraseOld, Here, TypeOK, CallOK
  <1>2. WinOK'
    BY <1>1, BlankTyped, SetEntryType DEF EraseOld, Deletion
  <1>3. CardOK' /\ mw' \in BOOLEAN /\ FsOK' /\ FilOK'
    BY <1>1 DEF EraseOld, TypeOK, CardOK, FsOK, FilOK
  <1>4. promise[reg.entry.name] \in Nat \cup {Unknown}
    BY <1>1 DEF TypeOK
  <1>5. PromiseOK'
    BY <1>1 DEF EraseOld, TypeOK, PromiseOK
  <1>6. RegOK' /\ reg'.op = "rename" /\ reg'.n = reg.n /\ reg'.new = reg.new
        /\ reg'.entry = reg.entry /\ pc' = "flush"
    BY <1>1, <1>4 DEF EraseOld, RegOK, Regs, Pcs
  <1>7. CallOK'
    BY <1>1, <1>6 DEF EraseOld, TypeOK, CallOK
  <1> QED
    BY <1>2, <1>3, <1>5, <1>6, <1>7, TypeParts

\* The free count stays a number or unknown.
LEMMA CountedType ==
  ASSUME TypeOK
  PROVE  Counted(fs.free, 1) \in Nat \cup {Unknown}
  BY DEF TypeOK, Counted, Unknown

LEMMA RemoveChainType ==
  ASSUME TypeOK, RemoveChain
  PROVE  TypeOK'
  <1>1. CASE /\ Here("remove") /\ SetLink(reg.clust, 0)
             /\ fs' = [fs EXCEPT !.free = Counted(@, 1)]
             /\ data' = [data EXCEPT ![reg.clust] = None]
             /\ reg' = [reg EXCEPT !.clust = win.fat[reg.clust]]
             /\ UNCHANGED <<fat, copy, dir, mw, fil, pc, promise>>
    <2>1. pc = "remove" /\ reg.clust \in Clusters /\ reg.clust \in FatIn(win.sect)
      BY <1>1, Shown DEF Here, Looking, ChainEnd
    <2>2. WinOK' /\ win'.sect = win.sect
      BY <1>1, <2>1, Numbers, SetLinkType
    <2>3. CardOK'
      BY <1>1 DEF TypeOK, CardOK
    <2>4. FsOK'
      BY <1>1, CountedType DEF TypeOK, FsOK
    <2>5. win.fat[reg.clust] \in Links
      BY <2>1 DEF TypeOK, Window
    <2>6. RegOK' /\ reg'.op = reg.op /\ reg'.h = reg.h /\ reg'.n = reg.n /\ reg'.rs = reg.rs
         /\ reg'.old = reg.old /\ reg'.entry = reg.entry /\ reg'.new = reg.new
      BY <1>1, <2>5 DEF TypeOK, RegOK, Regs
    <2>7. mw' \in BOOLEAN /\ FilOK' /\ PromiseOK' /\ CallOK'
      BY <1>1, <2>1, <2>2, <2>6 DEF TypeOK, FilOK, PromiseOK, CallOK
    <2> QED
      BY <2>2, <2>3, <2>4, <2>6, <2>7, TypeParts
  <1>2. CASE /\ ChainEnd /\ reg.op = "unlink"
             /\ pc' = "flush" /\ win' = [win EXCEPT !.dirty = TRUE]
             /\ UNCHANGED <<card, mw, fs, fil, reg, promise>>
    <2>1. WinOK' /\ RegOK'
      BY <1>2 DEF TypeOK, WinOK, Window, RegOK, Pcs
    <2>2. CardOK' /\ mw' \in BOOLEAN /\ FsOK' /\ FilOK' /\ PromiseOK' /\ CallOK'
      BY <1>2 DEF TypeOK, card, CardOK, FsOK, FilOK, PromiseOK, CallOK
    <2> QED
      BY <2>1, <2>2, TypeParts
  <1>3. CASE /\ ChainEnd /\ reg.op = "open" /\ pc' = "reopen"
             /\ UNCHANGED <<card, win, mw, fs, fil, reg, promise>>
    <2>1. WinOK' /\ RegOK'
      BY <1>3 DEF TypeOK, WinOK, RegOK, Pcs
    <2>2. CardOK' /\ mw' \in BOOLEAN /\ FsOK' /\ FilOK' /\ PromiseOK'
      BY <1>3 DEF TypeOK, card, CardOK, FsOK, FilOK, PromiseOK
    <2>3. CallOK'
      BY <1>3 DEF TypeOK, CallOK, ChainEnd
    <2> QED
      BY <2>1, <2>2, <2>3, TypeParts
  <1> QED
    BY <1>1, <1>2, <1>3 DEF RemoveChain

LEMMA ReopenType ==
  ASSUME TypeOK, Reopen
  PROVE  TypeOK'
  <1>1. /\ pc = "reopen" /\ reg.op = "open" /\ reg.n \in Names /\ reg.h \in Handles
        /\ reg.rs \in 0 .. MaxClust
    BY LayoutAssumption DEF Reopen, Here, TypeOK, CallOK, Regs
  <1>2. HoleBefore(reg.rs) \in 0 .. MaxClust
    BY <1>1, LayoutAssumption DEF HoleBefore, Eoc
  <1>3. FsOK'
    BY <1>2 DEF Reopen, TypeOK, FsOK
  <1>4. WinOK' /\ CardOK' /\ mw' \in BOOLEAN /\ PromiseOK'
    BY DEF Reopen, TypeOK, card, WinOK, Window, CardOK, PromiseOK
  <1>5. FilOK' /\ RegOK' /\ CallOK'
    BY <1>1, BlankTyped, OpenFileType DEF Reopen
  <1> QED
    BY <1>3, <1>4, <1>5, TypeParts

LEMMA ChainStatType ==
  ASSUME TypeOK, ChainStat
  PROVE  TypeOK'
  <1>1. /\ pc = "stat" /\ reg.op = "write" /\ reg.h \in Handles /\ reg.clust \in Clusters
        /\ reg.old = 0
    BY DEF ChainStat, Here, TypeOK, CallOK
  <1>2. WinOK' /\ CardOK' /\ mw' \in BOOLEAN /\ FsOK' /\ PromiseOK'
    BY DEF ChainStat, TypeOK, card, WinOK, CardOK, FsOK, PromiseOK
  <1>3. CASE BadChain
    BY <1>2, <1>3, IoErrorOK, TypeParts DEF BadChain
  <1>4. CASE win.fat[reg.clust] \in Clusters /\ WriteTo(win.fat[reg.clust])
    BY <1>1, <1>2, <1>4, WriteToType, TypeParts
  <1>5. CASE ScanFrom(reg.clust, reg) /\ UNCHANGED fil
    <2>1. reg.clust \in Nat \ {0} /\ reg \in Regs
      BY <1>1, Numbers DEF TypeOK
    <2>2. RegOK' /\ CallOK'
      BY <1>1, <1>5, <2>1, ScanFromType
    <2>3. FilOK'
      BY <1>5 DEF TypeOK, FilOK
    <2> QED
      BY <1>2, <2>2, <2>3, TypeParts
  <1> QED
    BY <1>3, <1>4, <1>5 DEF ChainStat

LEMMA AllocatedType ==
  ASSUME TypeOK, NEW c \in Clusters, Allocated(c)
  PROVE  FsOK'
  <1>1. c \in 0 .. MaxClust
    BY Numbers DEF Clusters
  <1>2. Counted(fs.free, -1) \in Nat \cup {Unknown}
    BY DEF TypeOK, Counted, Unknown
  <1> QED
    BY <1>1, <1>2 DEF TypeOK, Allocated, FsOK

LEMMA ChainScanType ==
  ASSUME TypeOK, ChainScan
  PROVE  TypeOK'
  <1>1. /\ pc = "scan" /\ reg.op = "write" /\ reg.h \in Handles
        /\ reg.ncl \in {0} \cup Clusters /\ reg.scl \in Nat
    BY DEF ChainScan, Here, ScanEnd, TypeOK, CallOK, Regs
  <1>2. CardOK' /\ mw' \in BOOLEAN /\ PromiseOK'
    BY DEF ChainScan, TypeOK, card, CardOK, PromiseOK
  <1>3. CASE DiskFull /\ UNCHANGED <<win, fs>>
    <2>1. WinOK' /\ FsOK'
      BY <1>3 DEF TypeOK, WinOK, FsOK
    <2>2. FilOK' /\ RegOK' /\ CallOK'
      BY <1>1, <1>3, DiskFullType
    <2> QED
      BY <1>2, <2>1, <2>2, TypeParts
  <1>4. CASE /\ Here("scan") /\ reg' = [reg EXCEPT !.ncl = NextClust(@, reg.scl)]
             /\ UNCHANGED <<fil, pc, win, fs>>
    <2>1. reg.ncl \in Nat \ {0}
      BY <1>1, <1>4, Numbers DEF Here, Looking, ScanEnd
    <2>2. NextClust(reg.ncl, reg.scl) \in {0} \cup Clusters
      BY <1>1, <2>1, NextClustType
    <2>3. reg' = [reg EXCEPT !.ncl = NextClust(reg.ncl, reg.scl)]
      BY <1>4 DEF TypeOK, Regs
    <2>4. RegOK' /\ reg'.op = reg.op /\ reg'.h = reg.h
      BY <1>4, <2>2, <2>3 DEF TypeOK, RegOK, Regs
    <2>5. WinOK' /\ FsOK' /\ FilOK' /\ CallOK'
      BY <1>1, <1>4, <2>4 DEF TypeOK, WinOK, FsOK, FilOK, CallOK
    <2> QED
      BY <1>2, <2>4, <2>5, TypeParts
  <1>5. ASSUME Here("scan"), SetLink(reg.ncl, InUse)
        PROVE  WinOK' /\ win'.sect = win.sect /\ reg.ncl \in Clusters
    <2>1. reg.ncl \in FatIn(win.sect)
      BY <1>5, Shown
    <2>2. InUse \in Links
      BY Numbers DEF InUse
    <2> QED
      BY <1>5, <2>1, <2>2, SetLinkType DEF FatIn
  <1>6. CASE Here("scan") /\ SetLink(reg.ncl, InUse) /\ Allocated(reg.ncl) /\ WriteTo(reg.ncl)
    BY <1>1, <1>2, <1>5, <1>6, AllocatedType, WriteToType, TypeParts
  <1>7. CASE Here("scan") /\ SetLink(reg.ncl, InUse) /\ pc' = "link" /\ UNCHANGED <<fs, fil, reg>>
    <2>1. RegOK' /\ FsOK' /\ FilOK' /\ CallOK'
      BY <1>1, <1>5, <1>7 DEF TypeOK, RegOK, Pcs, FsOK, FilOK, CallOK
    <2> QED
      BY <1>2, <1>5, <1>7, <2>1, TypeParts
  <1> QED
    BY <1>3, <1>4, <1>6, <1>7 DEF ChainScan

LEMMA ChainLinkType ==
  ASSUME TypeOK, ChainLink
  PROVE  TypeOK'
  <1>1. /\ pc = "link" /\ reg.op = "write" /\ reg.h \in Handles /\ reg.ncl \in Clusters
    BY DEF ChainLink, Here, TypeOK, CallOK
  <1>2. CardOK' /\ mw' \in BOOLEAN /\ PromiseOK'
    BY DEF ChainLink, TypeOK, card, CardOK, PromiseOK
  <1>3. FsOK'
    BY <1>1, AllocatedType DEF ChainLink
  <1>4. FilOK' /\ RegOK' /\ CallOK'
    BY <1>1, WriteToType DEF ChainLink
  <1>5. WinOK'
    <2>1. SetLink(reg.clust, reg.ncl) /\ reg.ncl \in Links
      BY <1>1, Numbers DEF ChainLink
    <2>2. CASE reg.clust \in Clusters
      <3>1. reg.clust \in FatIn(win.sect)
        BY <2>2, Shown DEF ChainLink
      <3> QED
        BY <2>1, <3>1, SetLinkType
    <2>3. CASE reg.clust \notin Clusters
      BY <2>1, <2>3 DEF TypeOK, SetLink, WinOK, Window, FatIn
    <2> QED
      BY <2>2, <2>3
  <1> QED
    BY <1>2, <1>3, <1>4, <1>5, TypeParts

LEMMA WriteDataType ==
  ASSUME TypeOK, WriteData
  PROVE  TypeOK'
  <1> DEFINE f == fil[reg.h]
             s == IF f.fptr + 1 > f.fsize THEN f.fptr + 1 ELSE f.fsize
             g == [f EXCEPT !.fptr = f.fptr + 1, !.written = TRUE,
                            !.changed = TRUE, !.failed = FALSE, !.fsize = s]
             e == [f EXCEPT !.error = TRUE]
  <1>1. reg.h \in Handles /\ f \in Fil /\ f.curr \in Clusters
    BY DEF WriteData, TypeOK, CallOK
  <1>2. f.fptr + 1 \in Nat /\ s \in Nat /\ f.name \in Names \cup {None}
    BY <1>1 DEF Fil
  <1>3. WinOK' /\ mw' \in BOOLEAN /\ FsOK' /\ PromiseOK'
    BY DEF WriteData, TypeOK, WinOK, FsOK, PromiseOK
  <1>4. CardOK'
    <2>1. data' = data \/ data' = [data EXCEPT ![f.curr] = f.name]
      BY DEF WriteData
    <2> QED
      BY <1>2, <2>1 DEF WriteData, TypeOK, CardOK
  <1>5. g \in Fil /\ g.curr = f.curr
    <2>1. s \in Nat
      BY <1>2
    <2> HIDE DEF s
    <2> QED
      BY <1>1, <1>2, <2>1 DEF Fil
  <1>6. e \in Fil /\ e.curr = f.curr /\ e.fptr = f.fptr
    <2> HIDE DEF f
    <2>1. e \in Fil
      BY <1>1, FilField
    <2>2. e.curr = f.curr /\ e.fptr = f.fptr
      BY <1>1, FilKept
    <2> QED
      BY <2>1, <2>2
  <1>7. fil' = [fil EXCEPT ![reg.h] = g] \/ fil' = [fil EXCEPT ![reg.h] = e]
    <2>1. g = [f EXCEPT !.fptr = @ + 1, !.written = TRUE, !.changed = TRUE, !.failed = FALSE,
                        !.fsize = IF f.fptr + 1 > @ THEN f.fptr + 1 ELSE @]
      BY <1>1 DEF Fil
    <2>2. e = [fil[reg.h] EXCEPT !.error = TRUE]
      OBVIOUS
    <2> HIDE DEF g, e
    <2>3. [fil EXCEPT ![reg.h].error = TRUE] = [fil EXCEPT ![reg.h] = e]
      BY <1>1, <2>2 DEF TypeOK
    <2> QED
      BY <2>1, <2>3 DEF WriteData
  <1> HIDE DEF g, e
  <1>8. FilOK' /\ \A h \in Handles : fil'[h].fptr > 0 => fil'[h].curr \in Clusters
    BY <1>1, <1>5, <1>6, <1>7 DEF TypeOK, FilOK, CallOK
  <1>9. RegOK' /\ CallOK'
    BY <1>8, ReturnOK DEF WriteData
  <1> QED
    BY <1>3, <1>4, <1>8, <1>9, TypeParts

LEMMA SyncEntryType ==
  ASSUME TypeOK, SyncEntry
  PROVE  TypeOK'
  <1> DEFINE f == fil[reg.h]
             d == [win.dir[reg.slot] EXCEPT !.clust = f.org, !.size = f.fsize]
             g == [f EXCEPT !.written = FALSE]
  <1>1. /\ pc = "entry" /\ reg.op \in {"sync", "close"} /\ reg.h \in Handles
        /\ reg.slot \in DirIn(win.sect) /\ f \in Fil
    BY Shown DEF SyncEntry, Here, TypeOK, CallOK
  <1>2. CardOK' /\ mw' \in BOOLEAN /\ FsOK' /\ PromiseOK'
    BY DEF SyncEntry, TypeOK, card, CardOK, FsOK, PromiseOK
  <1>3. WinOK'
    <2>1. f.org \in Links \cup {1} /\ f.fsize \in Nat
      BY <1>1 DEF Fil
    <2>2. win.dir[reg.slot] \in Entry
      BY <1>1 DEF TypeOK, Window
    <2>3. d \in Entry
      <3> HIDE DEF f
      <3> QED
        BY <2>1, <2>2 DEF Entry
    <2>4. win' = [win EXCEPT !.dir[reg.slot] = d, !.dirty = TRUE]
      BY <1>1, <2>2 DEF SyncEntry, TypeOK, Window
    <2> HIDE DEF d
    <2> QED
      BY <1>1, <2>3, <2>4 DEF TypeOK, WinOK, Window
  <1>4. g \in Fil /\ g.curr = f.curr /\ g.fptr = f.fptr
    <2> HIDE DEF f
    <2>1. g \in Fil
      BY <1>1, FilField
    <2>2. g.curr = f.curr /\ g.fptr = f.fptr
      BY <1>1, FilKept
    <2> QED
      BY <2>1, <2>2
  <1>5. fil' = [fil EXCEPT ![reg.h] = g]
    BY <1>1 DEF SyncEntry, TypeOK
  <1> HIDE DEF g
  <1>6. FilOK' /\ \A h \in Handles : fil'[h].fptr > 0 => fil'[h].curr \in Clusters
    BY <1>1, <1>4, <1>5 DEF TypeOK, FilOK, CallOK
  <1>7. RegOK' /\ CallOK'
    BY <1>1, <1>6 DEF SyncEntry, TypeOK, RegOK, Pcs, CallOK
  <1> QED
    BY <1>2, <1>3, <1>6, <1>7, TypeParts

LEMMA SyncedType ==
  ASSUME TypeOK, Synced
  PROVE  TypeOK'
  <1>1. /\ pc = "flush"
        /\ reg.op \in {"unlink", "sync", "close", "utime", "chmod", "rename"}
    BY DEF Synced, Flushed, TypeOK, CallOK
  <1>2. CardOK' /\ WinOK' /\ mw' \in BOOLEAN /\ FsOK'
    BY DEF Synced, TypeOK, card, CardOK, WinOK, FsOK
  <1>3. FilOK' /\ \A h \in Handles : fil'[h].fptr > 0 => fil'[h].curr \in Clusters
    <2>1. fil' = fil \/ fil' = [fil EXCEPT ![reg.h] = Closed]
      BY DEF Synced
    <2>2. Closed \in Fil /\ Closed.fptr = 0
      BY ClosedTyped DEF Closed
    <2> QED
      BY <2>1, <2>2 DEF TypeOK, FilOK, CallOK
  <1>4. PromiseOK'
    <2>1. CASE promise' = promise
      BY <2>1 DEF TypeOK, PromiseOK
    <2>2. CASE reg.op \in {"sync", "close"} /\ promise' = [promise EXCEPT ![fil[reg.h].name] = fil[reg.h].fsize]
      <3>1. fil[reg.h] \in Fil
        BY <1>1, <2>2 DEF TypeOK, CallOK
      <3>2. fil[reg.h].fsize \in Nat
        BY <3>1 DEF Fil
      <3> QED
        BY <2>2, <3>2 DEF TypeOK, PromiseOK
    <2>3. CASE promise' = [promise EXCEPT ![reg.n] = reg.kept]
      BY <2>3 DEF TypeOK, PromiseOK, Regs
    <2> QED
      BY <1>1, <2>1, <2>2, <2>3 DEF Synced
  <1>5. RegOK' /\ CallOK'
    BY <1>3, ReturnOK DEF Synced
  <1> QED
    BY <1>2, <1>3, <1>4, <1>5, TypeParts

\* What f_getfree counts in one sector is a number.
LEMMA FreeInType ==
  ASSUME TypeOK
  PROVE  FreeIn(win.fat) \in Nat
  <1> DEFINE F == {c \in DOMAIN win.fat : win.fat[c] = 0}
  <1>1. F \subseteq 2 .. MaxClust - 1
    BY DEF TypeOK, Window, FatIn, Clusters
  <1>2. IsFiniteSet(2 .. MaxClust - 1)
    BY FS_Interval, Numbers
  <1>3. IsFiniteSet(F)
    BY <1>1, <1>2, FS_Subset
  <1>4. Cardinality(F) \in Nat
    BY <1>3, FS_CardinalityType
  <1> QED
    BY <1>4 DEF FreeIn

LEMMA CountFreeType ==
  ASSUME TypeOK, CountFree
  PROVE  TypeOK'
  <1> DEFINE n == reg.rs + FreeIn(win.fat)
  <1>1. CardOK' /\ WinOK' /\ FilOK' /\ mw' \in BOOLEAN /\ PromiseOK'
    BY DEF CountFree, TypeOK, card, CardOK, WinOK, FilOK, PromiseOK
  <1>2. n \in Nat /\ pc = "count" /\ reg.cnt \in 0 .. LastFat
    BY FreeInType DEF CountFree, Here, TypeOK, Regs
  <1> HIDE DEF n
  <1>3. CASE reg.cnt < LastFat /\ reg' = [reg EXCEPT !.cnt = @ + 1, !.rs = n] /\ UNCHANGED <<fs, pc, fil>>
    <2>1. reg.cnt + 1 \in 0 .. LastFat
      BY <1>2, <1>3, LastFatPositive
    <2>2. reg' = [reg EXCEPT !.cnt = reg.cnt + 1, !.rs = n]
      BY <1>3 DEF TypeOK, Regs
    <2>3. RegOK' /\ reg'.op = reg.op /\ reg'.h = reg.h /\ reg'.n = reg.n
         /\ reg'.old = reg.old /\ reg'.entry = reg.entry /\ reg'.new = reg.new
      BY <1>2, <1>3, <2>1, <2>2 DEF TypeOK, RegOK, Regs
    <2>4. FsOK' /\ CallOK'
      BY <1>2, <1>3, <2>3 DEF TypeOK, FsOK, CallOK
    <2> QED
      BY <1>1, <2>3, <2>4, TypeParts
  <1>4. CASE fs' = [fs EXCEPT !.free = n] /\ Return /\ UNCHANGED fil
    <2>1. FsOK'
      BY <1>2, <1>4 DEF TypeOK, FsOK
    <2>2. RegOK' /\ CallOK'
      BY <1>4, ReturnOK DEF TypeOK, CallOK
    <2> QED
      BY <1>1, <2>1, <2>2, TypeParts
  <1> QED
    BY <1>3, <1>4 DEF CountFree, n

LEMMA RestartType ==
  ASSUME TypeOK, Restart
  PROVE  TypeOK'
  <1>1. CardOK' /\ PromiseOK'
    BY DEF Restart, TypeOK, card, CardOK, PromiseOK
  <1>2. WinOK' /\ mw' \in BOOLEAN
    <2>1. ReadSector(0) \in Window(0) /\ ReadSector(0).sect = 0
      BY ReadTyped
    <2>2. win' = ReadSector(0) /\ mw' = FALSE
      BY DEF Restart
    <2>3. WinOK'
      BY <2>1, <2>2 DEF WinOK
    <2> QED
      BY <2>2, <2>3
  <1>3. FsOK'
    <2>1. 0 \in 0 .. MaxClust
      BY LayoutAssumption
    <2> QED
      BY <2>1 DEF Restart, Unmounted, FsOK
  <1>4. FilOK' /\ \A h \in Handles : fil'[h].fptr = 0
    <2>1. Closed \in Fil /\ Closed.fptr = 0
      BY ClosedTyped DEF Closed
    <2> QED
      BY <2>1 DEF Restart, FilOK
  <1>5. RegOK' /\ CallOK'
    BY <1>4, ReturnOK DEF Restart
  <1> QED
    BY <1>1, <1>2, <1>3, <1>4, <1>5, TypeParts

-----------------------------------------------------------------------------
(* The theorems.                                                           *)

LEMMA InitType == Init => TypeOK
  <1> SUFFICES ASSUME Init PROVE TypeOK
    OBVIOUS
  <1>1. /\ fat \in [Clusters -> Links] /\ copy \in [Clusters -> Links]
        /\ dir \in [Slots -> Entry] /\ data \in [Clusters -> Names \cup {None}]
    <2>1. Blank(End) \in Entry
      BY BlankTyped
    <2> QED
      BY <2>1, Numbers DEF Init
  <1>2. win.sect \in Nat /\ win \in Window(win.sect)
    BY <1>1 DEF Init, ReadSector, Window, FatIn, DirIn
  <1>3. mw \in BOOLEAN /\ fs \in [mounted : BOOLEAN, last : 0 .. MaxClust, free : Nat \cup {Unknown}]
    <2>1. 0 \in 0 .. MaxClust
      BY LayoutAssumption
    <2> QED
      BY <2>1 DEF Init, Unmounted
  <1>4. fil \in [Handles -> Fil] /\ \A h \in Handles : fil[h].fptr = 0
    <2>1. Closed \in Fil /\ Closed.fptr = 0
      BY ClosedTyped DEF Closed
    <2> QED
      BY <2>1 DEF Init
  <1>5. pc \in Pcs /\ reg \in Regs /\ promise \in [Names -> Nat \cup {Unknown}]
    BY NoCallTyped DEF Init, Pcs
  <1>6. CallOK
    BY <1>4 DEF Init, NoCall, CallOK
  <1> QED
    BY <1>1, <1>2, <1>3, <1>4, <1>5, <1>6 DEF TypeOK

LEMMA CallType ==
  ASSUME TypeOK, Call
  PROVE  TypeOK'
  <1>1. CASE \E h \in Handles, n \in Names, mode \in Modes : f_open(h, n, mode)
    BY <1>1, OpenType
  <1>2. CASE \E n \in Names : f_unlink(n)
    BY <1>2, UnlinkType
  <1>3. CASE \E h \in Handles : f_write(h)
    BY <1>3, WriteType
  <1>4. CASE \E h \in Handles : f_sync(h) \/ f_close(h)
    BY <1>4, SyncsType DEF f_sync, f_close
  <1>5. CASE f_getfree
    BY <1>5, GetfreeType
  <1>6. CASE \E n \in Names : f_stat(n) \/ f_utime(n) \/ \E ro \in BOOLEAN : f_chmod(n, ro)
    BY <1>6, AdminType
  <1>7. CASE \E n, m \in Names : f_rename(n, m)
    BY <1>7, RenameType
  <1>8. CASE f_opendir
    BY <1>8, OpendirType
  <1> QED
    BY <1>1, <1>2, <1>3, <1>4, <1>5, <1>6, <1>7, <1>8 DEF Call

LEMMA StepType ==
  ASSUME TypeOK, Step
  PROVE  TypeOK'
  <1>1. CASE move_window
    BY <1>1, WriteBackType, WriteCopyType, ReadWindowType DEF move_window
  <1>2. CASE TracePath \/ ReserveEntry \/ RemoveChain \/ Reopen
    BY <1>2, TracePathType, ReserveEntryType, RemoveChainType, ReopenType
  <1>3. CASE ChainStat \/ ChainScan \/ ChainLink \/ WriteData
    BY <1>3, ChainStatType, ChainScanType, ChainLinkType, WriteDataType
  <1>4. CASE SyncEntry \/ Synced \/ CountFree
    BY <1>4, SyncEntryType, SyncedType, CountFreeType
  <1>5. CASE f_readdir \/ EraseOld
    BY <1>5, ReaddirType, EraseOldType
  <1> QED
    BY <1>1, <1>2, <1>3, <1>4, <1>5 DEF Step

LEMMA StutterType ==
  ASSUME TypeOK, UNCHANGED vars
  PROVE  TypeOK'
  BY DEF TypeOK, vars, card, CallOK

\* The volume never leaves its types: every cluster number ff.c keeps in the
\* window, in a file object or in the locals of a call lies within the table,
\* and each call finds the locals it set.
THEOREM VolumeTypeCorrect == Spec => []TypeOK
  <1>1. TypeOK /\ [Next]_vars => TypeOK'
    BY CallType, StepType, RestartType, StutterType DEF Next, f_mount, Crash
  <1> QED
    BY <1>1, InitType, PTL DEF Spec

-----------------------------------------------------------------------------
(* The coherence of the window with the card.                              *)

LEMMA StillCoherent ==
  ASSUME WindowCoherent, UNCHANGED <<fat, dir, win>>
  PROVE  WindowCoherent'
  BY DEF WindowCoherent, ReadSector

LEMMA MarkedCoherent ==
  ASSUME win'.dirty, win'.sect # 0
  PROVE  WindowCoherent'
  BY DEF WindowCoherent

\* A step that looks at the window looks at a sector of the table or of the
\* directory.
LEMMA ShownSector ==
  ASSUME TypeOK
  PROVE  /\ \A l \in {"trace", "reserve", "reopen", "entry", "list", "erase",
                       "remove", "stat", "link"} :
               Here(l) => win.sect # 0
         /\ Here("scan") => win.sect # 0
  <1>1. reg.slot \in Slots /\ reg.clust \in Nat /\ reg.ncl \in Nat
    <2>1. reg.slot \in Slots /\ reg.clust \in Links \cup {1} /\ reg.ncl \in {0} \cup Clusters
      BY DEF TypeOK, Regs
    <2> QED
      BY <2>1, LayoutAssumption DEF Links, Clusters, Eoc
  <1>2. DirSector(reg.slot) # 0 /\ FatSector(reg.clust) # 0 /\ FatSector(reg.ncl) # 0
    BY <1>1, FatSectorPositive, DirSectorPositive
  <1> QED
    BY <1>2 DEF Here, Target

LEMMA SetCoherent ==
  ASSUME TypeOK, win.sect # 0,
         \/ \E c, v : SetLink(c, v)
         \/ \E d, e : SetEntry(d, e)
         \/ win' = [win EXCEPT !.dirty = TRUE]
  PROVE  WindowCoherent'
  <1>1. win'.dirty /\ win'.sect = win.sect
    BY DEF TypeOK, SetLink, SetEntry, Window
  <1> QED
    BY <1>1, MarkedCoherent

LEMMA WriteBackCoherent ==
  ASSUME TypeOK, WindowCoherent, WriteBack
  PROVE  WindowCoherent'
  <1>1. CASE /\ fat' = [c \in Clusters |-> IF FatSector(c) = win.sect THEN win.fat[c] ELSE fat[c]]
             /\ dir' = [s \in Slots |-> IF DirSector(s) = win.sect THEN win.dir[s] ELSE dir[s]]
             /\ win' = [win EXCEPT !.dirty = FALSE]
    <2>1. win \in Window(win.sect)
      BY DEF TypeOK
    <2>2. win.fat = [c \in FatIn(win.sect) |-> fat'[c]]
      BY <1>1, <2>1 DEF Window, FatIn
    <2>3. win.dir = [d \in DirIn(win.sect) |-> dir'[d]]
      BY <1>1, <2>1 DEF Window, DirIn
    <2>4. win' = [sect |-> win.sect, dirty |-> FALSE, fat |-> win.fat, dir |-> win.dir]
      BY <1>1, <2>1 DEF Window
    <2>5. win'.sect = win.sect /\ ~win'.dirty
      BY <2>4
    <2>6. win' = ReadSector(win.sect)'
      BY <2>2, <2>3, <2>4, <2>5 DEF ReadSector
    <2> QED
      BY <2>5, <2>6 DEF WindowCoherent
  <1>2. CASE win' = Kept(win) /\ UNCHANGED <<fat, dir>>
    BY <1>2, StillCoherent DEF Kept
  <1> QED
    BY <1>1, <1>2 DEF WriteBack

LEMMA ReadCoherent ==
  ASSUME TypeOK, NEW s \in Nat, win' = ReadSector(s), UNCHANGED <<fat, dir>>
  PROVE  WindowCoherent'
  BY DEF WindowCoherent, ReadSector

LEMMA StepCoherent ==
  ASSUME TypeOK, WindowCoherent, Step
  PROVE  WindowCoherent'
  <1>1. CASE WriteBack
    BY <1>1, WriteBackCoherent
  <1>2. CASE WriteCopy
    BY <1>2, StillCoherent DEF WriteCopy
  <1>3. CASE ReadWindow
    BY <1>3, StillCoherent, ReadCoherent, TargetType DEF ReadWindow, card
  <1>4. CASE TracePath
    <2>1. win.sect # 0
      BY <1>4, ShownSector DEF TracePath
    <2> QED
      BY <1>4, <2>1, SetCoherent, StillCoherent DEF TracePath, card
  <1>5. CASE ReserveEntry
    <2>1. win.sect # 0
      BY <1>5, ShownSector DEF ReserveEntry
    <2> QED
      BY <1>5, <2>1, SetCoherent, StillCoherent DEF ReserveEntry, card
  <1>6. CASE RemoveChain
    <2>1. pc = "remove"
      BY <1>6 DEF RemoveChain, Here, ChainEnd
    <2>2. win.sect # 0
      BY <2>1 DEF TypeOK, CallOK
    <2> QED
      BY <1>6, <2>2, SetCoherent, StillCoherent DEF RemoveChain, card
  <1>7. CASE Reopen
    <2>1. win.sect # 0
      BY <1>7, ShownSector DEF Reopen
    <2> QED
      BY <1>7, <2>1, SetCoherent DEF Reopen
  <1>8. CASE ChainStat
    BY <1>8, StillCoherent DEF ChainStat, card
  <1>9. CASE ChainScan
    <2>1. CASE UNCHANGED win
      BY <1>9, <2>1, StillCoherent DEF ChainScan, card
    <2>2. CASE Here("scan") /\ SetLink(reg.ncl, InUse)
      BY <2>2, ShownSector, SetCoherent
    <2> QED
      BY <1>9, <2>1, <2>2 DEF ChainScan
  <1>10. CASE ChainLink
    <2>1. win.sect # 0
      BY <1>10, ShownSector DEF ChainLink
    <2> QED
      BY <1>10, <2>1, SetCoherent DEF ChainLink
  <1>11. CASE WriteData
    BY <1>11, StillCoherent DEF WriteData
  <1>12. CASE SyncEntry
    <2>1. win.sect # 0
      BY <1>12, ShownSector DEF SyncEntry
    <2>2. win'.dirty /\ win'.sect = win.sect
      BY <1>12 DEF SyncEntry, TypeOK, Window
    <2> QED
      BY <2>1, <2>2, MarkedCoherent
  <1>13. CASE Synced
    BY <1>13, StillCoherent DEF Synced, card
  <1>14. CASE CountFree
    BY <1>14, StillCoherent DEF CountFree, card
  <1>15. CASE f_readdir
    BY <1>15, StillCoherent DEF f_readdir, card
  <1>16. CASE EraseOld
    <2>1. win.sect # 0
      BY <1>16, ShownSector DEF EraseOld
    <2> QED
      BY <1>16, <2>1, SetCoherent DEF EraseOld
  <1> QED
    BY <1>1, <1>2, <1>3, <1>4, <1>5, <1>6, <1>7, <1>8, <1>9, <1>10, <1>11,
       <1>12, <1>13, <1>14, <1>15, <1>16 DEF Step, move_window

LEMMA OtherCoherent ==
  ASSUME TypeOK, WindowCoherent, Call \/ Restart \/ UNCHANGED vars
  PROVE  WindowCoherent'
  <1>1. CASE Call
    <2>1. UNCHANGED <<card, win>>
      BY <1>1 DEF Call, f_open, f_unlink, f_write, f_sync, f_close, Syncs, f_getfree,
             f_stat, f_utime, f_chmod, f_rename, f_opendir, Named
    <2> QED
      BY <2>1, StillCoherent DEF card
  <1>2. CASE Restart
    BY <1>2, ReadCoherent DEF Restart, card
  <1>3. CASE UNCHANGED vars
    BY <1>3, StillCoherent DEF vars, card
  <1> QED
    BY <1>1, <1>2, <1>3

LEMMA InitCoherent == Init => WindowCoherent
  BY DEF Init, WindowCoherent, ReadSector

\* Through every transfer that fails, every call that is given up half-way and
\* every power failure: a window that is not marked shows what the card has,
\* and the boot sector is never marked to be written.
THEOREM WindowAlwaysCoherent == Spec => []WindowCoherent
  <1>1. TypeOK /\ WindowCoherent /\ [Next]_vars => WindowCoherent'
    BY StepCoherent, OtherCoherent DEF Next, f_mount, Crash
  <1> QED
    BY <1>1, InitCoherent, VolumeTypeCorrect, PTL DEF Spec

-----------------------------------------------------------------------------
(* Chains that are apart: after every single transfer those on the card    *)
(* (CrashSafe), and so those the program sees (FilesApart).  f_rename,     *)
(* which gives two entries the same chain for a while, is left out by the  *)
(* assumption on Habits.                                                   *)
(*                                                                         *)
(* The argument: every cluster has an owner, the slot of the entry whose   *)
(* chain it belongs to, or 0.  A link never leaves an owner's clusters, no *)
(* two links meet, and the head of a chain is pointed to by no link.  The  *)
(* steps that allocate and free are those that change who owns what.       *)

Owners == [Clusters -> {0} \cup Slots]
Tables == [Clusters -> Links]
Dirs   == [Slots -> Entry]
Fils   == [Handles -> Fil]

-----------------------------------------------------------------------------
(* A volume whose chains are apart: table t, directory d, file objects f.  *)

\* x, if it is a cluster, is the head of the chain of slot s.
HeadAt(t, own, x, s) ==
    x \in Clusters => /\ t[x] # 0 /\ own[x] = s
                      /\ \A c \in Clusters : t[c] # x

TableOK(t, own) ==
    /\ \A c \in Clusters : t[c] \in Clusters => t[t[c]] # 0 /\ own[t[c]] = own[c]
    /\ \A c, e \in Clusters : t[c] = t[e] /\ t[c] \in Clusters => c = e

EntriesOK(t, d, own) ==
    \A s \in Slots : d[s].name \in Names => HeadAt(t, own, d[s].clust, s)

\* An open file object: its entry is there, and has the same start if it has
\* one; what it refers to is its own; past its first sector it has a chain.
ObjectOK(t, d, own, o) ==
    /\ o.name \in Names /\ d[o.slot].name = o.name
    /\ d[o.slot].clust \in Clusters => d[o.slot].clust = o.org
    /\ HeadAt(t, own, o.org, o.slot)
    /\ o.curr \in Clusters => t[o.curr] # 0 /\ own[o.curr] = o.slot
    /\ o.fptr > 0 => o.org # 0

ObjectsOK(t, d, f, own) ==
    \A h \in Handles : f[h].open =>
        /\ ObjectOK(t, d, own, f[h])
        /\ \A g \in Handles : f[g].open /\ f[g].slot = f[h].slot => g = h

Vol(t, d, f, own) ==
    TableOK(t, own) /\ EntriesOK(t, d, own) /\ ObjectsOK(t, d, f, own)

\* Nothing refers to cluster x.
Loose(t, d, f, x) ==
    /\ \A c \in Clusters : t[c] # x
    /\ \A s \in Slots : d[s].name \in Names => d[s].clust # x
    /\ \A h \in Handles : f[h].open => f[h].org # x

\* The numbers that are no clusters.
LEMMA Special ==
  /\ 0 \notin Clusters /\ 1 \notin Clusters /\ Eoc \notin Clusters /\ Eoc # 0
  /\ 0 \notin Slots /\ Clusters \subseteq Links
  BY LayoutAssumption DEF Clusters, Eoc, Slots, Links

-----------------------------------------------------------------------------
(* What the steps do to a volume.                                          *)

\* A file object changes, opens or closes.
LEMMA ObjectChanges ==
  ASSUME NEW t, NEW d, NEW f \in Fils, NEW own \in Owners, Vol(t, d, f, own),
         NEW h \in Handles, NEW o \in Fil,
         o.open => /\ ObjectOK(t, d, own, o)
                   /\ \A g \in Handles \ {h} : f[g].open => f[g].slot # o.slot
  PROVE  Vol(t, d, [f EXCEPT ![h] = o], own)
  <1> DEFINE f2 == [f EXCEPT ![h] = o]
  <1>1. f2[h] = o /\ \A g \in Handles \ {h} : f2[g] = f[g]
    BY DEF Fils
  <1> HIDE DEF f2
  <1>2. ObjectsOK(t, d, f2, own)
    BY <1>1 DEF Vol, ObjectsOK
  <1> QED
    BY <1>2 DEF Vol, f2

\* File objects are forgotten.
LEMMA FewerOpen ==
  ASSUME NEW t, NEW d, NEW f, NEW own, Vol(t, d, f, own),
         NEW g, \A h \in Handles : g[h].open => f[h].open /\ g[h] = f[h]
  PROVE  Vol(t, d, g, own)
  BY DEF Vol, ObjectsOK

\* A free cluster is referred to by nobody.
LEMMA FreeIsLoose ==
  ASSUME NEW t, NEW d, NEW f, NEW own, Vol(t, d, f, own), NEW n \in Clusters, t[n] = 0
  PROVE  Loose(t, d, f, n) /\ \A h \in Handles : f[h].open => f[h].curr # n
  BY DEF Vol, TableOK, EntriesOK, ObjectsOK, ObjectOK, HeadAt, Loose

\* A free cluster is marked in use, for slot s.
LEMMA Mark ==
  ASSUME NEW t \in Tables, NEW d, NEW f, NEW own \in Owners, Vol(t, d, f, own),
         NEW n \in Clusters, t[n] = 0, NEW s \in {0} \cup Slots
  PROVE  LET t2 == [t EXCEPT ![n] = Eoc]
             own2 == [own EXCEPT ![n] = s]
         IN  /\ own2 \in Owners /\ Vol(t2, d, f, own2) /\ Loose(t2, d, f, n)
             /\ t2[n] = Eoc /\ own2[n] = s
             /\ \A c \in Clusters \ {n} : t2[c] = t[c] /\ own2[c] = own[c]
  <1> DEFINE t2 == [t EXCEPT ![n] = Eoc]
             own2 == [own EXCEPT ![n] = s]
  <1>1. /\ t2[n] = Eoc /\ own2[n] = s /\ own2 \in Owners
        /\ \A c \in Clusters \ {n} : t2[c] = t[c] /\ own2[c] = own[c]
    BY DEF Tables, Owners
  <1> HIDE DEF t2, own2
  <1>2. Loose(t, d, f, n) /\ \A h \in Handles : f[h].open => f[h].curr # n
    BY FreeIsLoose
  <1>3. Loose(t2, d, f, n)
    BY <1>1, <1>2, Special DEF Loose
  <1>4. TableOK(t2, own2)
    BY <1>1, <1>2, Special DEF Vol, TableOK, Loose
  <1>5. ASSUME NEW x, NEW z, HeadAt(t, own, x, z), x # n
        PROVE  HeadAt(t2, own2, x, z)
    BY <1>1, <1>5, Special DEF HeadAt
  <1>6. EntriesOK(t2, d, own2)
    BY <1>2, <1>5 DEF Vol, EntriesOK, Loose
  <1>7. ASSUME NEW h \in Handles, f[h].open
        PROVE  ObjectOK(t2, d, own2, f[h])
    <2>1. ObjectOK(t, d, own, f[h])
      BY <1>7 DEF Vol, ObjectsOK
    <2>2. HeadAt(t2, own2, f[h].org, f[h].slot)
      BY <2>1, <1>2, <1>5, <1>7 DEF ObjectOK, Loose
    <2> QED
      BY <2>1, <2>2, <1>1, <1>2, <1>7 DEF ObjectOK
  <1>8. ObjectsOK(t2, d, f, own2)
    BY <1>7 DEF Vol, ObjectsOK
  <1> QED
    BY <1>1, <1>3, <1>4, <1>6, <1>8 DEF Vol, t2, own2

\* The last cluster of a chain is linked to a new one that nothing refers to.
LEMMA Link ==
  ASSUME NEW t \in Tables, NEW d, NEW f, NEW own \in Owners, Vol(t, d, f, own),
         NEW c \in Clusters, NEW n \in Clusters, c # n, t[n] # 0, own[n] = own[c],
         Loose(t, d, f, n), t[c] = Eoc
  PROVE  LET t2 == [t EXCEPT ![c] = n]
         IN  Vol(t2, d, f, own) /\ t2[n] # 0
  <1> DEFINE t2 == [t EXCEPT ![c] = n]
  <1>1. t2[c] = n /\ \A e \in Clusters \ {c} : t2[e] = t[e]
    BY DEF Tables
  <1> HIDE DEF t2
  <1>2. TableOK(t2, own)
    BY <1>1, Special DEF Vol, TableOK, Loose
  <1>3. ASSUME NEW x, NEW z, HeadAt(t, own, x, z), x # n
        PROVE  HeadAt(t2, own, x, z)
    BY <1>1, <1>3, Special DEF HeadAt
  <1>4. EntriesOK(t2, d, own)
    BY <1>3 DEF Vol, EntriesOK, Loose
  <1>5. ASSUME NEW h \in Handles, f[h].open
        PROVE  ObjectOK(t2, d, own, f[h])
    <2>1. ObjectOK(t, d, own, f[h])
      BY <1>5 DEF Vol, ObjectsOK
    <2>2. HeadAt(t2, own, f[h].org, f[h].slot)
      BY <2>1, <1>3, <1>5 DEF ObjectOK, Loose
    <2> QED
      BY <2>1, <2>2, <1>1, Special DEF ObjectOK
  <1>6. ObjectsOK(t2, d, f, own)
    BY <1>5 DEF Vol, ObjectsOK
  <1>7. t2[n] # 0
    BY <1>1
  <1> QED
    BY <1>2, <1>4, <1>6, <1>7 DEF Vol, t2

\* The head of a chain that belongs to nobody is freed: what follows it is the
\* head of such a chain.
LEMMA Free ==
  ASSUME NEW t \in Tables, NEW d, NEW f \in Fils, NEW own \in Owners, Vol(t, d, f, own),
         NEW c \in Clusters, own[c] = 0, \A e \in Clusters : t[e] # c
  PROVE  LET t2 == [t EXCEPT ![c] = 0]
         IN  /\ Vol(t2, d, f, own)
             /\ t[c] \in Clusters => own[t[c]] = 0 /\ \A e \in Clusters : t2[e] # t[c]
  <1> DEFINE t2 == [t EXCEPT ![c] = 0]
  <1>1. t2[c] = 0 /\ \A e \in Clusters \ {c} : t2[e] = t[e]
    BY DEF Tables
  <1> HIDE DEF t2
  <1>2. TableOK(t2, own)
    BY <1>1, Special DEF Vol, TableOK
  <1>3. ASSUME NEW x, NEW z \in Slots, HeadAt(t, own, x, z)
        PROVE  HeadAt(t2, own, x, z)
    BY <1>1, <1>3, Special DEF HeadAt
  <1>4. EntriesOK(t2, d, own)
    BY <1>3 DEF Vol, EntriesOK
  <1>5. ASSUME NEW h \in Handles, f[h].open
        PROVE  ObjectOK(t2, d, own, f[h])
    <2>1. ObjectOK(t, d, own, f[h]) /\ f[h].slot \in Slots
      BY <1>5 DEF Vol, ObjectsOK, Fils, Fil
    <2>2. HeadAt(t2, own, f[h].org, f[h].slot)
      BY <2>1, <1>3 DEF ObjectOK
    <2> QED
      BY <2>1, <2>2, <1>1, Special DEF ObjectOK
  <1>6. ObjectsOK(t2, d, f, own)
    BY <1>5 DEF Vol, ObjectsOK
  <1>7. t[c] \in Clusters => own[t[c]] = 0 /\ \A e \in Clusters : t2[e] # t[c]
    BY <1>1, Special DEF Vol, TableOK
  <1> QED
    BY <1>2, <1>4, <1>6, <1>7 DEF Vol, t2

\* The entry of a file that is not open gets another one without a start: its
\* chain belongs to nobody from then on.
LEMMA Release ==
  ASSUME NEW t \in Tables, NEW d \in Dirs, NEW f \in Fils, NEW own \in Owners,
         Vol(t, d, f, own), NEW s \in Slots, NEW e \in Entry, e.clust = 0,
         \A h \in Handles : f[h].open => f[h].slot # s
  PROVE  LET d2 == [d EXCEPT ![s] = e]
             own2 == [c \in Clusters |-> IF own[c] = s THEN 0 ELSE own[c]]
         IN  /\ own2 \in Owners /\ Vol(t, d2, f, own2)
             /\ d[s].name \in Names /\ d[s].clust \in Clusters =>
                    own2[d[s].clust] = 0 /\ \A c \in Clusters : t[c] # d[s].clust
  <1> DEFINE d2 == [d EXCEPT ![s] = e]
             own2 == [c \in Clusters |-> IF own[c] = s THEN 0 ELSE own[c]]
  <1>1. d2[s] = e /\ \A z \in Slots \ {s} : d2[z] = d[z]
    BY DEF Dirs
  <1>2. \A c \in Clusters : own2[c] = IF own[c] = s THEN 0 ELSE own[c]
    OBVIOUS
  <1>3. own2 \in Owners
    BY DEF Owners
  <1> HIDE DEF d2, own2
  <1>4. TableOK(t, own2)
    BY <1>2 DEF Vol, TableOK
  <1>5. ASSUME NEW x, NEW z \in Slots \ {s}, HeadAt(t, own, x, z)
        PROVE  HeadAt(t, own2, x, z)
    BY <1>2, <1>5 DEF HeadAt
  <1>6. EntriesOK(t, d2, own2)
    <2>1. HeadAt(t, own2, d2[s].clust, s)
      BY <1>1, Special DEF HeadAt
    <2> QED
      BY <2>1, <1>1, <1>5 DEF Vol, EntriesOK
  <1>7. ASSUME NEW h \in Handles, f[h].open
        PROVE  ObjectOK(t, d2, own2, f[h])
    <2>1. ObjectOK(t, d, own, f[h]) /\ f[h].slot \in Slots \ {s}
      BY <1>7 DEF Vol, ObjectsOK, Fils, Fil
    <2>2. HeadAt(t, own2, f[h].org, f[h].slot)
      BY <2>1, <1>5 DEF ObjectOK
    <2> QED
      BY <2>1, <2>2, <1>1, <1>2 DEF ObjectOK
  <1>8. ObjectsOK(t, d2, f, own2)
    BY <1>7 DEF Vol, ObjectsOK
  <1>9. d[s].name \in Names /\ d[s].clust \in Clusters =>
            own2[d[s].clust] = 0 /\ \A c \in Clusters : t[c] # d[s].clust
    BY <1>2 DEF Vol, EntriesOK, HeadAt
  <1> QED
    BY <1>3, <1>4, <1>6, <1>8, <1>9 DEF Vol, d2, own2

\* f_sync gives the entry the start of the file object.
LEMMA Store ==
  ASSUME NEW t, NEW d \in Dirs, NEW f \in Fils, NEW own \in Owners,
         Vol(t, d, f, own), NEW h \in Handles, f[h].open, NEW e,
         e.name = d[f[h].slot].name, e.clust = f[h].org
  PROVE  Vol(t, [d EXCEPT ![f[h].slot] = e], f, own)
  <1> DEFINE s == f[h].slot
             d2 == [d EXCEPT ![s] = e]
  <1>1. s \in Slots
    BY DEF Fils, Fil
  <1>2. d2[s] = e /\ \A z \in Slots \ {s} : d2[z] = d[z]
    BY <1>1 DEF Dirs
  <1> HIDE DEF d2
  <1>3. EntriesOK(t, d2, own)
    <2>1. HeadAt(t, own, d2[s].clust, s)
      BY <1>2 DEF Vol, ObjectsOK, ObjectOK
    <2> QED
      BY <2>1, <1>2 DEF Vol, EntriesOK
  <1>4. ASSUME NEW g \in Handles, f[g].open
        PROVE  ObjectOK(t, d2, own, f[g])
    <2>1. ObjectOK(t, d, own, f[g]) /\ f[g].slot \in Slots
      BY <1>4 DEF Vol, ObjectsOK, Fils, Fil
    <2>2. CASE g = h
      BY <2>1, <2>2, <1>2 DEF ObjectOK
    <2>3. CASE g # h
      <3>1. f[g].slot # s
        BY <1>4, <2>3 DEF Vol, ObjectsOK
      <3> QED
        BY <3>1, <2>1, <1>2 DEF ObjectOK
    <2> QED
      BY <2>2, <2>3
  <1>5. ObjectsOK(t, d2, f, own)
    BY <1>4 DEF Vol, ObjectsOK
  <1> QED
    BY <1>3, <1>5 DEF Vol, d2

-----------------------------------------------------------------------------
(* The invariant.                                                          *)

\* What a call in progress at step p, with locals r, has found out.
Found(t, d, f, own, p, r) ==
    LET F == f[r.h]
    IN  /\ p = "idle" => r.op = "none"
        /\ r.op \in {"none", "open", "unlink", "write", "sync", "close", "getfree"}
        /\ r.op \in {"open", "unlink"} => \A h \in Handles : f[h].open => f[h].name # r.n
        /\ r.op = "open" => ~F.open
        /\ r.op \in {"write", "sync", "close"} => F.open
        /\ p = "entry" => r.slot = F.slot
        /\ p \in {"remove", "reopen"} /\ r.op = "open" => d[r.slot] = Blank(r.n)
        /\ p = "remove" /\ r.clust \in Clusters =>
               own[r.clust] = 0 /\ \A c \in Clusters : t[c] # r.clust
        /\ p = "stat" => r.clust = F.curr /\ F.org # 0
        /\ p = "scan" /\ r.clust = 0 => F.org = 0
        /\ p \in {"scan", "link"} /\ r.clust # 0 =>
               /\ F.org # 0 /\ r.clust \in Clusters
               /\ t[r.clust] = Eoc /\ own[r.clust] = F.slot
        /\ p = "link" =>
               /\ r.clust # 0 /\ r.ncl # r.clust
               /\ t[r.ncl] # 0 /\ own[r.ncl] = F.slot /\ Loose(t, d, f, r.ncl)
        /\ p = "data" => F.org # 0

Apart(t, d, f, p, r) ==
    \E own \in Owners : Vol(t, d, f, own) /\ Found(t, d, f, own, p, r)

\* The volume as the program sees it, and as a power failure would leave it.
NoneOpen  == [h \in Handles |-> Closed]
NowApart  == Apart(FatNow, DirNow, fil, pc, reg)
CardApart == \E own \in Owners : Vol(fat, dir, NoneOpen, own)

\* After a step.
NextApart == Apart(FatNow', DirNow', fil', pc', reg')

LEMMA NowTyped ==
  ASSUME TypeOK
  PROVE  FatNow \in Tables /\ DirNow \in Dirs /\ fil \in Fils /\ reg \in Regs
  <1>1. win \in Window(win.sect)
    BY DEF TypeOK
  <1>2. FatNow \in Tables
    BY <1>1 DEF TypeOK, FatNow, Tables, Window, FatIn
  <1>3. DirNow \in Dirs
    BY <1>1 DEF TypeOK, DirNow, Dirs, Window, DirIn
  <1> QED
    BY <1>2, <1>3 DEF TypeOK, Fils

\* What the window shows, and what a change of it changes.
LEMMA Showing ==
  ASSUME TypeOK
  PROVE  /\ \A c \in FatIn(win.sect) : win.fat[c] = FatNow[c]
         /\ \A s \in DirIn(win.sect) : win.dir[s] = DirNow[s]
  BY DEF TypeOK, Window, FatNow, DirNow, FatIn, DirIn

LEMMA SetLinkNow ==
  ASSUME TypeOK, UNCHANGED <<fat, dir>>, NEW c \in FatIn(win.sect), NEW v, SetLink(c, v)
  PROVE  FatNow' = [FatNow EXCEPT ![c] = v] /\ DirNow' = DirNow
  <1>1. win \in Window(win.sect) /\ c \in Clusters
    BY DEF TypeOK, FatIn
  <1>2. win'.fat = [win.fat EXCEPT ![c] = v] /\ win'.dir = win.dir
    BY <1>1 DEF SetLink, Window
  <1>3. DOMAIN win.fat = FatIn(win.sect) /\ DOMAIN win'.fat = FatIn(win.sect)
    BY <1>1, <1>2 DEF Window
  <1>4. FatNow' = [FatNow EXCEPT ![c] = v]
    BY <1>1, <1>2, <1>3 DEF FatNow, Window
  <1> QED
    BY <1>2, <1>4 DEF DirNow

LEMMA SetEntryNow ==
  ASSUME TypeOK, UNCHANGED <<fat, dir>>, NEW s \in DirIn(win.sect), NEW e, SetEntry(s, e)
  PROVE  DirNow' = [DirNow EXCEPT ![s] = e] /\ FatNow' = FatNow
  <1>1. win \in Window(win.sect) /\ s \in Slots
    BY DEF TypeOK, DirIn
  <1>2. win'.dir = [win.dir EXCEPT ![s] = e] /\ win'.fat = win.fat
    BY <1>1 DEF SetEntry, Window
  <1>3. DOMAIN win.dir = DirIn(win.sect) /\ DOMAIN win'.dir = DirIn(win.sect)
    BY <1>1, <1>2 DEF Window
  <1>4. DirNow' = [DirNow EXCEPT ![s] = e]
    BY <1>1, <1>2, <1>3 DEF DirNow, Window
  <1> QED
    BY <1>2, <1>4 DEF FatNow

LEMMA SameNow ==
  ASSUME TypeOK, UNCHANGED <<fat, dir>>, win' = win \/ win' = [win EXCEPT !.dirty = TRUE]
  PROVE  FatNow' = FatNow /\ DirNow' = DirNow
  <1>1. win'.fat = win.fat /\ win'.dir = win.dir
    BY DEF TypeOK, Window
  <1> QED
    BY <1>1 DEF FatNow, DirNow

\* The window has been written back: the card holds what the program sees.
LEMMA WrittenNow ==
  ASSUME TypeOK,
         fat' = [c \in Clusters |-> IF FatSector(c) = win.sect THEN win.fat[c] ELSE fat[c]],
         dir' = [s \in Slots |-> IF DirSector(s) = win.sect THEN win.dir[s] ELSE dir[s]],
         win' = [win EXCEPT !.dirty = FALSE]
  PROVE  /\ fat' = FatNow /\ dir' = DirNow
         /\ FatNow' = FatNow /\ DirNow' = DirNow
  <1>1. win \in Window(win.sect) /\ win'.fat = win.fat /\ win'.dir = win.dir
    BY DEF TypeOK, Window
  <1>2. DOMAIN win.fat = FatIn(win.sect) /\ DOMAIN win.dir = DirIn(win.sect)
    BY <1>1 DEF Window
  <1>3. fat' = FatNow /\ dir' = DirNow
    BY <1>2 DEF FatNow, DirNow, FatIn, DirIn
  <1>4. FatNow' = FatNow /\ DirNow' = DirNow
    BY <1>1, <1>2 DEF FatNow, DirNow, FatIn, DirIn
  <1> QED
    BY <1>3, <1>4

\* A window that is not marked hides nothing.
LEMMA CleanNow ==
  ASSUME TypeOK, NEW s, win = ReadSector(s)
  PROVE  FatNow = fat /\ DirNow = dir
  BY DEF TypeOK, ReadSector, FatNow, DirNow, FatIn, DirIn

LEMMA ReadNow ==
  ASSUME TypeOK, UNCHANGED <<fat, dir>>, NEW s, win' = ReadSector(s)
  PROVE  FatNow' = fat /\ DirNow' = dir
  BY DEF TypeOK, ReadSector, FatNow, DirNow, FatIn, DirIn

-----------------------------------------------------------------------------
(* The ends of a call.                                                     *)

LEMMA Returned ==
  ASSUME NEW own \in Owners, Vol(FatNow', DirNow', fil', own), Return
  PROVE  NextApart
  <1>1. Found(FatNow', DirNow', fil', own, pc', reg')
    BY DEF Return, NoCall, Found
  <1> QED
    BY <1>1 DEF NextApart, Apart

\* An open file object stays on its entry; its start may change between values
\* that are no clusters.
LEMMA ObjectStays ==
  ASSUME NEW t, NEW d, NEW f \in Fils, NEW own \in Owners, Vol(t, d, f, own),
         NEW h \in Handles, f[h].open, NEW o \in Fil,
         o.open, o.name = f[h].name, o.slot = f[h].slot,
         o.org = f[h].org \/ (f[h].org = 0 /\ o.org \notin Clusters \cup {0}),
         o.curr = f[h].curr \/ (t[o.curr] # 0 /\ own[o.curr] = o.slot),
         o.fptr = f[h].fptr \/ o.org # 0
  PROVE  Vol(t, d, [f EXCEPT ![h] = o], own)
  <1>1. ObjectOK(t, d, own, f[h])
    BY DEF Vol, ObjectsOK
  <1>2. HeadAt(t, own, o.org, o.slot)
    BY <1>1 DEF ObjectOK, HeadAt
  <1>3. d[o.slot].clust \in Clusters => d[o.slot].clust = o.org
    BY <1>1, Special DEF ObjectOK
  <1>4. o.curr \in Clusters => t[o.curr] # 0 /\ own[o.curr] = o.slot
    BY <1>1 DEF ObjectOK
  <1>5. o.fptr > 0 => o.org # 0
    BY <1>1 DEF ObjectOK
  <1>6. ObjectOK(t, d, own, o)
    BY <1>1, <1>2, <1>3, <1>4, <1>5 DEF ObjectOK
  <1>7. \A g \in Handles \ {h} : f[g].open => f[g].slot # o.slot
    BY DEF Vol, ObjectsOK
  <1> QED
    BY <1>6, <1>7, ObjectChanges

LEMMA CloseObject ==
  ASSUME NEW t, NEW d, NEW f \in Fils, NEW own \in Owners, Vol(t, d, f, own), NEW h \in Handles
  PROVE  Vol(t, d, [f EXCEPT ![h] = Closed], own)
  <1>1. Closed \in Fil /\ ~Closed.open
    BY ClosedTyped DEF Closed
  <1> QED
    BY <1>1, ObjectChanges

\* A transfer failed.
LEMMA IoErrorApart ==
  ASSUME TypeOK, TypeOK', NowApart, IoError, FatNow' = FatNow, DirNow' = DirNow
  PROVE  NextApart
  <1> PICK own \in Owners : /\ Vol(FatNow, DirNow, fil, own)
                            /\ Found(FatNow, DirNow, fil, own, pc, reg)
    BY DEF NowApart, Apart
  <1>1. fil \in Fils /\ fil' \in Fils
    BY DEF TypeOK, Fils
  <1>2. CASE reg.op \in {"write", "sync", "close"}
    <2> DEFINE h == reg.h
    <2>1. h \in Handles /\ fil[h].open /\ fil[h] \in Fil /\ fil'[h] \in Fil
      BY <1>2, <1>1 DEF TypeOK, CallOK, Found, Fils
    <2>2. fil' = [fil EXCEPT ![h] = fil'[h]]
      BY <1>1, <1>2, <2>1 DEF IoError, Fils
    <2>3. /\ fil'[h].open /\ fil'[h].name = fil[h].name /\ fil'[h].slot = fil[h].slot
          /\ fil'[h].curr = fil[h].curr /\ fil'[h].fptr = fil[h].fptr
          /\ fil'[h].org = IF reg.op = "write" /\ Creating THEN 1 ELSE fil[h].org
      <3>1. CASE reg.op = "write"
        BY <3>1, <2>1, <1>1 DEF IoError, Fils, Fil
      <3>2. CASE reg.op \in {"sync", "close"}
        BY <3>2, <2>1, <1>1 DEF IoError, Fils, Fil
      <3> QED
        BY <1>2, <3>1, <3>2
    <2>4. Creating => fil[h].org = 0
      BY DEF Creating, Found
    <2>5. Vol(FatNow, DirNow, [fil EXCEPT ![h] = fil'[h]], own)
      BY <1>1, <2>1, <2>3, <2>4, Special, ObjectStays
    <2> QED
      BY <2>2, <2>5, Returned DEF IoError
  <1>3. CASE reg.op \notin {"write", "sync", "close"}
    <2>1. fil' = fil
      BY <1>3 DEF IoError
    <2> QED
      BY <2>1, Returned DEF IoError
  <1> QED
    BY <1>2, <1>3

-----------------------------------------------------------------------------
(* The calls begin.                                                        *)

\* Nothing that matters changes.
LEMMA ApartStays ==
  ASSUME NowApart, FatNow' = FatNow, DirNow' = DirNow, UNCHANGED <<fil, pc, reg>>
  PROVE  NextApart
  BY DEF NowApart, NextApart

\* A call that has changed nothing yet, at a step that says nothing of the
\* volume.
LEMMA Begun ==
  ASSUME NEW own \in Owners, Vol(FatNow', DirNow', fil', own),
         pc' \in {"trace", "reserve", "count", "flush", "list"},
         reg'.op \in {"open", "unlink", "sync", "close", "getfree"},
         reg'.op \in {"open", "unlink"} => \A h \in Handles : fil'[h].open => fil'[h].name # reg'.n,
         reg'.op = "open" => ~fil'[reg'.h].open,
         reg'.op \in {"sync", "close"} => fil'[reg'.h].open
  PROVE  NextApart
  <1>1. Found(FatNow', DirNow', fil', own, pc', reg')
    BY DEF Found
  <1> QED
    BY <1>1 DEF NextApart, Apart

LEMMA OpenApart ==
  ASSUME TypeOK, NowApart, NEW h \in Handles, NEW n \in Names, NEW mode \in Modes,
         f_open(h, n, mode)
  PROVE  NextApart
  <1> PICK own \in Owners : /\ Vol(FatNow, DirNow, fil, own)
                            /\ Found(FatNow, DirNow, fil, own, pc, reg)
    BY DEF NowApart, Apart
  <1>1. fil \in Fils /\ FatNow' = FatNow /\ DirNow' = DirNow
    BY NowTyped, SameNow DEF f_open, card
  <1>2. fil' = [fil EXCEPT ![h] = Closed]
    BY DEF f_open
  <1>3. /\ fil'[h] = Closed /\ ~fil'[h].open
        /\ \A g \in Handles \ {h} : fil'[g] = fil[g]
    BY <1>1, <1>2 DEF Fils, Closed
  <1>4. Vol(FatNow', DirNow', fil', own)
    BY <1>1, <1>2, CloseObject
  <1>5. CASE Begin("trace", [NoCall EXCEPT !.op = "open", !.h = h, !.n = n, !.mode = mode])
    <2>1. pc' = "trace" /\ reg'.op = "open" /\ reg'.h = h /\ reg'.n = n
      BY <1>5 DEF Begin, NoCall
    <2>2. \A g \in Handles : fil'[g].open => fil'[g].name # n
      BY <1>3 DEF f_open
    <2> QED
      BY <1>3, <1>4, <2>1, <2>2, Begun
  <1>6. CASE UNCHANGED <<pc, reg>>
    <2>1. pc' = "idle" /\ reg'.op = "none"
      BY <1>6 DEF f_open, Idle, Found
    <2>2. Found(FatNow', DirNow', fil', own, pc', reg')
      BY <2>1 DEF Found
    <2> QED
      BY <1>4, <2>2 DEF NextApart, Apart
  <1> QED
    BY <1>5, <1>6 DEF f_open

LEMMA UnlinkApart ==
  ASSUME TypeOK, NowApart, NEW n \in Names, f_unlink(n)
  PROVE  NextApart
  <1> PICK own \in Owners : Vol(FatNow, DirNow, fil, own)
    BY DEF NowApart, Apart
  <1>1. FatNow' = FatNow /\ DirNow' = DirNow /\ fil' = fil
    BY SameNow DEF f_unlink, card
  <1>2. CASE Begin("trace", [NoCall EXCEPT !.op = "unlink", !.n = n])
    <2>1. pc' = "trace" /\ reg'.op = "unlink" /\ reg'.n = n
      BY <1>2 DEF Begin, NoCall
    <2>2. \A g \in Handles : fil[g].open => fil[g].name # n
      BY DEF f_unlink, Busy
    <2> QED
      BY <1>1, <2>1, <2>2, Begun
  <1>3. CASE UNCHANGED <<pc, reg>>
    BY <1>1, <1>3, ApartStays
  <1> QED
    BY <1>2, <1>3 DEF f_unlink

LEMMA WriteApart ==
  ASSUME TypeOK, TypeOK', NowApart, NEW h \in Handles, f_write(h)
  PROVE  NextApart
  <1> PICK own \in Owners : /\ Vol(FatNow, DirNow, fil, own)
                            /\ Found(FatNow, DirNow, fil, own, pc, reg)
    BY DEF NowApart, Apart
  <1> DEFINE f == fil[h]
             r == [NoCall EXCEPT !.op = "write", !.h = h]
  <1>1. fil \in Fils /\ FatNow' = FatNow /\ DirNow' = DirNow
    BY NowTyped, SameNow DEF f_write, card
  <1>2. f.open /\ ObjectOK(FatNow, DirNow, own, f) /\ f \in Fil
    BY <1>1 DEF f_write, Vol, ObjectsOK, Fils
  <1>3. r.op = "write" /\ r.h = h /\ r.clust = 0
    BY DEF NoCall
  <1>4. CASE f.org = 0 /\ (\E scl : ScanFrom(scl, r)) /\ UNCHANGED fil
    <2>1. pc' = "scan" /\ reg'.op = "write" /\ reg'.h = h /\ reg'.clust = 0
      BY <1>4 DEF ScanFrom, Begin, NoCall
    <2>2. Found(FatNow', DirNow', fil', own, pc', reg')
      BY <1>2, <1>4, <2>1 DEF Found
    <2> QED
      BY <1>1, <1>4, <2>2 DEF NextApart, Apart
  <1>5. CASE f.org \in Clusters /\ Begin("data", r) /\ fil' = [fil EXCEPT ![h].curr = f.org]
    <2>1. pc' = "data" /\ reg'.op = "write" /\ reg'.h = h
      BY <1>5, <1>3 DEF Begin
    <2>2. fil' = [fil EXCEPT ![h] = fil'[h]]
      BY <1>1, <1>5 DEF Fils
    <2>3. /\ fil'[h].open /\ fil'[h].name = f.name /\ fil'[h].slot = f.slot
          /\ fil'[h].org = f.org /\ fil'[h].fptr = f.fptr /\ fil'[h].curr = f.org
          /\ fil'[h] \in Fil
      BY <1>1, <1>2, <1>5 DEF Fils, Fil, TypeOK
    <2>4. FatNow[f.org] # 0 /\ own[f.org] = f.slot
      BY <1>2, <1>5 DEF ObjectOK, HeadAt
    <2>5. Vol(FatNow, DirNow, [fil EXCEPT ![h] = fil'[h]], own)
      BY <1>1, <1>2, <2>3, <2>4, ObjectStays
    <2>6. Found(FatNow', DirNow', fil', own, pc', reg')
      BY <1>5, <2>1, <2>3, Special DEF Found
    <2> QED
      BY <1>1, <2>2, <2>5, <2>6 DEF NextApart, Apart
  <1>6. CASE fil' = [fil EXCEPT ![h].error = TRUE] /\ UNCHANGED <<pc, reg>>
    <2>1. pc' = "idle" /\ reg'.op = "none"
      BY <1>6 DEF f_write, Idle, Found
    <2>2. fil' = [fil EXCEPT ![h] = fil'[h]]
      BY <1>1, <1>6 DEF Fils
    <2>3. /\ fil'[h].open /\ fil'[h].name = f.name /\ fil'[h].slot = f.slot
          /\ fil'[h].org = f.org /\ fil'[h].fptr = f.fptr /\ fil'[h].curr = f.curr
          /\ fil'[h] \in Fil
      BY <1>1, <1>2, <1>6 DEF Fils, Fil, TypeOK
    <2>4. Vol(FatNow, DirNow, [fil EXCEPT ![h] = fil'[h]], own)
      BY <1>1, <1>2, <2>3, ObjectStays
    <2>5. Found(FatNow', DirNow', fil', own, pc', reg')
      BY <2>1 DEF Found
    <2> QED
      BY <1>1, <2>2, <2>4, <2>5 DEF NextApart, Apart
  <1>7. CASE f.fptr > 0 /\ Begin("stat", [r EXCEPT !.clust = f.curr]) /\ UNCHANGED fil
    <2>1. pc' = "stat" /\ reg'.op = "write" /\ reg'.h = h /\ reg'.clust = f.curr
      BY <1>7 DEF Begin, NoCall
    <2>2. Found(FatNow', DirNow', fil', own, pc', reg')
      BY <1>2, <1>7, <2>1 DEF Found, ObjectOK
    <2> QED
      BY <1>1, <1>7, <2>2 DEF NextApart, Apart
  <1> QED
    BY <1>4, <1>5, <1>6, <1>7 DEF f_write

LEMMA SyncsApart ==
  ASSUME TypeOK, NowApart, NEW h \in Handles, NEW op \in {"sync", "close"}, Syncs(h, op)
  PROVE  NextApart
  <1> PICK own \in Owners : /\ Vol(FatNow, DirNow, fil, own)
                            /\ Found(FatNow, DirNow, fil, own, pc, reg)
    BY DEF NowApart, Apart
  <1>1. fil \in Fils /\ FatNow' = FatNow /\ DirNow' = DirNow
    BY NowTyped, SameNow DEF Syncs, card
  <1>2. CASE /\ Begin("entry", [NoCall EXCEPT !.op = op, !.h = h, !.slot = fil[h].slot])
             /\ UNCHANGED fil
    <2>1. pc' = "entry" /\ reg'.op = op /\ reg'.h = h /\ reg'.slot = fil[h].slot
      BY <1>2 DEF Begin, NoCall
    <2>2. Found(FatNow', DirNow', fil', own, pc', reg')
      BY <1>2, <2>1 DEF Found, Syncs
    <2> QED
      BY <1>1, <1>2, <2>2 DEF NextApart, Apart
  <1>3. CASE UNCHANGED <<pc, reg>> /\ (fil' = fil \/ fil' = [fil EXCEPT ![h] = Closed])
    <2>1. pc' = "idle" /\ reg'.op = "none"
      BY <1>3 DEF Syncs, Idle, Found
    <2>2. Vol(FatNow', DirNow', fil', own)
      BY <1>1, <1>3, CloseObject
    <2>3. Found(FatNow', DirNow', fil', own, pc', reg')
      BY <2>1 DEF Found
    <2> QED
      BY <2>2, <2>3 DEF NextApart, Apart
  <1> QED
    BY <1>2, <1>3 DEF Syncs

LEMMA GetfreeApart ==
  ASSUME TypeOK, NowApart, f_getfree
  PROVE  NextApart
  <1> PICK own \in Owners : Vol(FatNow, DirNow, fil, own)
    BY DEF NowApart, Apart
  <1>1. FatNow' = FatNow /\ DirNow' = DirNow /\ fil' = fil
    BY SameNow DEF f_getfree, card
  <1>2. CASE Begin("count", [NoCall EXCEPT !.op = "getfree", !.cnt = 1])
    <2>1. pc' = "count" /\ reg'.op = "getfree"
      BY <1>2 DEF Begin, NoCall
    <2> QED
      BY <1>1, <2>1, Begun
  <1>3. CASE UNCHANGED <<pc, reg>>
    BY <1>1, <1>3, ApartStays
  <1> QED
    BY <1>2, <1>3 DEF f_getfree

LEMMA CallApart ==
  ASSUME TypeOK, TypeOK', NowApart, "admin" \notin Habits, Call
  PROVE  NextApart
  <1>1. \A n, op, r : ~Named(n, op, r)
    BY DEF Named
  <1>2. ~f_opendir
    BY DEF f_opendir
  <1> QED
    BY <1>1, <1>2, OpenApart, UnlinkApart, WriteApart, SyncsApart, GetfreeApart
    DEF Call, f_stat, f_utime, f_chmod, f_rename, f_sync, f_close

-----------------------------------------------------------------------------
(* The steps of a call.                                                    *)

LEMMA WriteBackApart ==
  ASSUME TypeOK, TypeOK', NowApart, WriteBack
  PROVE  NextApart
  <1>1. CASE /\ fat' = [c \in Clusters |-> IF FatSector(c) = win.sect THEN win.fat[c] ELSE fat[c]]
             /\ dir' = [s \in Slots |-> IF DirSector(s) = win.sect THEN win.dir[s] ELSE dir[s]]
             /\ win' = [win EXCEPT !.dirty = FALSE]
             /\ UNCHANGED <<fil, pc, reg>>
    BY <1>1, WrittenNow, ApartStays
  <1>2. CASE win' = Kept(win) /\ IoError /\ UNCHANGED <<fat, dir, mw>>
    BY <1>2, SameNow, IoErrorApart DEF Kept
  <1> QED
    BY <1>1, <1>2 DEF WriteBack

LEMMA ReadWindowApart ==
  ASSUME TypeOK, TypeOK', WindowCoherent, NowApart, ReadWindow
  PROVE  NextApart
  <1>1. FatNow = fat /\ DirNow = dir
    BY CleanNow DEF ReadWindow, WindowCoherent
  <1>2. CASE win' = ReadSector(Target) /\ UNCHANGED <<fil, pc, reg, fat, dir>>
    BY <1>1, <1>2, ReadNow, ApartStays
  <1>3. CASE UNCHANGED win /\ IoError /\ UNCHANGED <<fat, dir>>
    BY <1>3, SameNow, IoErrorApart
  <1> QED
    BY <1>2, <1>3 DEF ReadWindow, card

\* No file object is open on the entry a call by name is about, nor on one
\* that is not in use.
LEMMA NotOpen ==
  ASSUME TypeOK, NEW own \in Owners, Vol(FatNow, DirNow, fil, own), NEW s \in Slots,
         \/ /\ \A h \in Handles : fil[h].open => fil[h].name # reg.n
            /\ DirNow[s].name = reg.n
         \/ DirNow[s].name \notin Names
  PROVE  \A h \in Handles : fil[h].open => fil[h].slot # s
  BY DEF Vol, ObjectsOK, ObjectOK

\* f_open succeeds on an entry that no other file object is open on.
LEMMA OpenFileApart ==
  ASSUME NEW t, NEW d \in Dirs, NEW own \in Owners, TypeOK, TypeOK', Vol(t, d, fil, own),
         reg.h \in Handles, reg.n \in Names, reg.slot \in Slots, NEW created,
         \A h \in Handles : fil[h].open => fil[h].slot # reg.slot,
         d[reg.slot].name = reg.n, NEW e, e.clust = d[reg.slot].clust,
         OpenFile(e, created), FatNow' = t, DirNow' = d
  PROVE  NextApart
  <1> DEFINE o == fil'[reg.h]
  <1>1. fil \in Fils /\ o \in Fil
    BY DEF TypeOK, Fils
  <1>2. /\ o.open /\ o.name = reg.n /\ o.slot = reg.slot /\ o.org = d[reg.slot].clust
        /\ o.curr = 0 /\ o.fptr = 0
    BY <1>1 DEF OpenFile, Closed, Fils
  <1>3. fil' = [fil EXCEPT ![reg.h] = o]
    BY <1>1 DEF OpenFile, Fils
  <1> HIDE DEF o
  <1>4. ObjectOK(t, d, own, o)
    BY <1>2, Special DEF Vol, EntriesOK, ObjectOK
  <1>5. Vol(t, d, [fil EXCEPT ![reg.h] = o], own)
    BY <1>1, <1>2, <1>4, ObjectChanges
  <1> QED
    BY <1>3, <1>5, Returned DEF OpenFile

LEMMA TracePathApart ==
  ASSUME TypeOK, TypeOK', NowApart, TracePath
  PROVE  NextApart
  <1> PICK own \in Owners : /\ Vol(FatNow, DirNow, fil, own)
                            /\ Found(FatNow, DirNow, fil, own, pc, reg)
    BY DEF NowApart, Apart
  <1> DEFINE s == reg.slot
             e == win.dir[s]
             own2 == [c \in Clusters |-> IF own[c] = s THEN 0 ELSE own[c]]
  <1>1. /\ FatNow \in Tables /\ DirNow \in Dirs /\ fil \in Fils /\ reg \in Regs
        /\ s \in DirIn(win.sect) /\ s \in Slots /\ e = DirNow[s] /\ e \in Entry
    <2>1. s \in DirIn(win.sect)
      BY Shown DEF TracePath
    <2> QED
      BY <2>1, NowTyped, Showing DEF DirIn, Dirs
  <1>2. /\ pc = "trace" /\ reg.op \in {"open", "unlink"} /\ reg.n \in Names /\ reg.old = 0
        /\ reg.op = "open" => reg.h \in Handles /\ ~fil[reg.h].open
        /\ \A h \in Handles : fil[h].open => fil[h].name # reg.n
    BY DEF TracePath, Here, TypeOK, CallOK, Found
  <1>3. UNCHANGED <<fat, dir>>
    BY DEF TracePath, card
  <1>4. e.name = reg.n => \A h \in Handles : fil[h].open => fil[h].slot # s
    BY <1>1, <1>2, NotOpen
  <1> HIDE DEF e
  <1>5. CASE NotFound /\ UNCHANGED <<win, fil>>
    <2>1. FatNow' = FatNow /\ DirNow' = DirNow
      BY <1>3, <1>5, SameNow
    <2>2. CASE Return
      BY <1>5, <2>1, <2>2, Returned
    <2>3. CASE pc' = "reserve" /\ reg' = [reg EXCEPT !.slot = 1]
      <3>1. reg'.op = reg.op /\ reg'.h = reg.h /\ reg'.n = reg.n
        BY <1>1, <2>3 DEF Regs
      <3> QED
        BY <1>2, <1>5, <2>1, <2>3, <3>1, Begun
    <2> QED
      BY <1>5, <2>2, <2>3 DEF NotFound
  <1>6. CASE reg' = [reg EXCEPT !.slot = @ + 1] /\ UNCHANGED <<win, fil, pc>>
    <2>1. FatNow' = FatNow /\ DirNow' = DirNow
      BY <1>3, <1>6, SameNow
    <2>2. reg'.op = reg.op /\ reg'.h = reg.h /\ reg'.n = reg.n
      BY <1>1, <1>6 DEF Regs
    <2> QED
      BY <1>2, <1>6, <2>1, <2>2, Begun
  <1>7. CASE Return /\ UNCHANGED <<win, fil>>
    BY <1>3, <1>7, SameNow, Returned
  <1>8. CASE /\ e.name = reg.n /\ reg.op = "unlink"
             /\ SetEntry(s, Deletion(e))
             /\ pc' = "remove" /\ reg' = [reg EXCEPT !.clust = Head(e)]
             /\ UNCHANGED fil
    <2>1. DirNow' = [DirNow EXCEPT ![s] = Deletion(e)] /\ FatNow' = FatNow
      BY <1>1, <1>3, <1>8, SetEntryNow
    <2>2. Deletion(e) \in Entry /\ Deletion(e).clust = 0
      BY BlankTyped DEF Deletion, Blank
    <2>3. /\ own2 \in Owners /\ Vol(FatNow, [DirNow EXCEPT ![s] = Deletion(e)], fil, own2)
          /\ e.clust \in Clusters =>
                 own2[e.clust] = 0 /\ \A c \in Clusters : FatNow[c] # e.clust
      BY <1>1, <1>2, <1>4, <1>8, <2>2, Release
    <2> HIDE DEF own2
    <2>4. reg'.op = "unlink" /\ reg'.n = reg.n /\ reg'.clust = e.clust
      BY <1>1, <1>8 DEF Regs, Head
    <2>5. Found(FatNow', DirNow', fil', own2, pc', reg')
      BY <1>2, <1>8, <2>1, <2>3, <2>4 DEF Found
    <2> QED
      BY <1>8, <2>1, <2>3, <2>5 DEF NextApart, Apart
  <1>9. CASE /\ e.name = reg.n /\ reg.op = "open"
             /\ SetEntry(s, Emptied(e))
             /\ pc' = "remove"
             /\ reg' = [reg EXCEPT !.clust = Head(e), !.rs = e.clust]
             /\ UNCHANGED fil
    <2>1. DirNow' = [DirNow EXCEPT ![s] = Blank(reg.n)] /\ FatNow' = FatNow
      BY <1>1, <1>3, <1>9, SetEntryNow DEF Emptied
    <2>2. Blank(reg.n) \in Entry /\ Blank(reg.n).clust = 0
      BY <1>2, BlankTyped DEF Blank
    <2>3. /\ own2 \in Owners /\ Vol(FatNow, [DirNow EXCEPT ![s] = Blank(reg.n)], fil, own2)
          /\ e.clust \in Clusters =>
                 own2[e.clust] = 0 /\ \A c \in Clusters : FatNow[c] # e.clust
      BY <1>1, <1>2, <1>4, <1>9, <2>2, Release
    <2> HIDE DEF own2
    <2>4. /\ reg'.op = "open" /\ reg'.n = reg.n /\ reg'.clust = e.clust
          /\ reg'.h = reg.h /\ reg'.slot = s
      BY <1>1, <1>9 DEF Regs, Head
    <2>5. DirNow'[s] = Blank(reg.n)
      BY <1>1, <2>1 DEF Dirs
    <2>6. Found(FatNow', DirNow', fil', own2, pc', reg')
      BY <1>2, <1>9, <2>1, <2>3, <2>4, <2>5 DEF Found
    <2> QED
      BY <1>9, <2>1, <2>3, <2>6 DEF NextApart, Apart
  <1>10. CASE e.name = reg.n /\ reg.op = "open" /\ OpenFile(e, FALSE) /\ UNCHANGED win
    <2>1. FatNow' = FatNow /\ DirNow' = DirNow
      BY <1>3, <1>10, SameNow
    <2> QED
      BY <1>1, <1>2, <1>4, <1>10, <2>1, OpenFileApart
  <1> QED
    BY <1>2, <1>5, <1>6, <1>7, <1>8, <1>9, <1>10 DEF TracePath, e

LEMMA ReaddirApart ==
  ASSUME TypeOK, NowApart, f_readdir
  PROVE  NextApart
  <1> PICK own \in Owners : /\ Vol(FatNow, DirNow, fil, own)
                            /\ Found(FatNow, DirNow, fil, own, pc, reg)
    BY DEF NowApart, Apart
  <1>1. FatNow' = FatNow /\ DirNow' = DirNow /\ fil' = fil /\ pc = "list"
    BY SameNow DEF f_readdir, card, Here
  <1>2. CASE Return
    BY <1>1, <1>2, Returned
  <1>3. CASE reg' = [reg EXCEPT !.slot = @ + 1] /\ UNCHANGED pc
    <2>1. reg'.op = reg.op /\ reg'.h = reg.h /\ reg'.n = reg.n
      BY <1>3 DEF TypeOK, Regs
    <2>2. Found(FatNow', DirNow', fil', own, pc', reg')
      BY <1>1, <1>3, <2>1 DEF Found
    <2> QED
      BY <1>1, <2>2 DEF NextApart, Apart
  <1> QED
    BY <1>2, <1>3 DEF f_readdir

LEMMA ReserveEntryApart ==
  ASSUME TypeOK, TypeOK', NowApart, ReserveEntry
  PROVE  NextApart
  <1> PICK own \in Owners : /\ Vol(FatNow, DirNow, fil, own)
                            /\ Found(FatNow, DirNow, fil, own, pc, reg)
    BY DEF NowApart, Apart
  <1> DEFINE s == reg.slot
             e == win.dir[s]
             own2 == [c \in Clusters |-> IF own[c] = s THEN 0 ELSE own[c]]
  <1>1. /\ FatNow \in Tables /\ DirNow \in Dirs /\ fil \in Fils /\ reg \in Regs
        /\ s \in DirIn(win.sect) /\ s \in Slots /\ e = DirNow[s] /\ e \in Entry
    <2>1. s \in DirIn(win.sect)
      BY Shown DEF ReserveEntry
    <2> QED
      BY <2>1, NowTyped, Showing DEF DirIn, Dirs
  <1>2. /\ pc = "reserve" /\ reg.op = "open" /\ reg.n \in Names
        /\ reg.h \in Handles /\ ~fil[reg.h].open
        /\ \A h \in Handles : fil[h].open => fil[h].name # reg.n
    BY DEF ReserveEntry, Here, TypeOK, CallOK, Found
  <1>3. UNCHANGED <<fat, dir>>
    BY DEF ReserveEntry, card
  <1> HIDE DEF e
  <1>4. CASE /\ e.name \in {End, Deleted}
             /\ SetEntry(s, Blank(reg.n)) /\ OpenFile(Blank(reg.n), TRUE)
    <2>1. \A h \in Handles : fil[h].open => fil[h].slot # s
      BY <1>1, <1>4, NotOpen, NameAssumption
    <2>2. DirNow' = [DirNow EXCEPT ![s] = Blank(reg.n)] /\ FatNow' = FatNow
      BY <1>1, <1>3, <1>4, SetEntryNow
    <2>3. Blank(reg.n) \in Entry /\ Blank(reg.n).clust = 0 /\ Blank(reg.n).name = reg.n
      BY <1>2, BlankTyped DEF Blank
    <2>4. own2 \in Owners /\ Vol(FatNow, [DirNow EXCEPT ![s] = Blank(reg.n)], fil, own2)
      BY <1>1, <2>1, <2>3, Release
    <2> HIDE DEF own2
    <2>5. DirNow' \in Dirs /\ DirNow'[s] = Blank(reg.n)
      BY <1>1, <2>2, <2>3 DEF Dirs
    <2> QED
      BY <1>1, <1>2, <1>4, <2>1, <2>2, <2>3, <2>4, <2>5, OpenFileApart
  <1>5. CASE reg' = [reg EXCEPT !.slot = @ + 1] /\ UNCHANGED <<win, fil, pc>>
    <2>1. FatNow' = FatNow /\ DirNow' = DirNow
      BY <1>3, <1>5, SameNow
    <2>2. reg'.op = reg.op /\ reg'.h = reg.h /\ reg'.n = reg.n
      BY <1>1, <1>5 DEF Regs
    <2> QED
      BY <1>2, <1>5, <2>1, <2>2, Begun
  <1>6. CASE Return /\ UNCHANGED <<win, fil>>
    BY <1>3, <1>6, SameNow, Returned
  <1> QED
    BY <1>2, <1>4, <1>5, <1>6 DEF ReserveEntry, e

\* The head of an abandoned chain goes, and the next cluster is the head.
LEMMA RemoveChainApart ==
  ASSUME TypeOK, NowApart, RemoveChain
  PROVE  NextApart
  <1> PICK own \in Owners : /\ Vol(FatNow, DirNow, fil, own)
                            /\ Found(FatNow, DirNow, fil, own, pc, reg)
    BY DEF NowApart, Apart
  <1>1. FatNow \in Tables /\ fil \in Fils /\ reg \in Regs /\ pc = "remove"
    BY NowTyped DEF RemoveChain, Here, ChainEnd
  <1>2. CASE /\ Here("remove") /\ SetLink(reg.clust, 0)
             /\ reg' = [reg EXCEPT !.clust = win.fat[reg.clust]]
             /\ UNCHANGED <<fat, dir, fil, pc>>
    <2> DEFINE c == reg.clust
    <2>1. c \in Clusters
      BY <1>1, <1>2 DEF Here, Looking, ChainEnd
    <2>2. c \in FatIn(win.sect) /\ win.fat[c] = FatNow[c]
      BY <1>2, <2>1, Shown, Showing
    <2>3. FatNow' = [FatNow EXCEPT ![c] = 0] /\ DirNow' = DirNow
      BY <1>2, <2>2, SetLinkNow
    <2>4. own[c] = 0 /\ \A e \in Clusters : FatNow[e] # c
      BY <1>1, <2>1 DEF Found
    <2> DEFINE t2 == [FatNow EXCEPT ![c] = 0]
    <2>5. /\ Vol(t2, DirNow, fil, own)
          /\ FatNow[c] \in Clusters =>
                 own[FatNow[c]] = 0 /\ \A e \in Clusters : t2[e] # FatNow[c]
      <3> HIDE DEF c
      <3> QED
        BY <1>1, <2>1, <2>4, Free
    <2> HIDE DEF t2
    <2>6. /\ reg'.op = reg.op /\ reg'.h = reg.h /\ reg'.n = reg.n /\ reg'.slot = reg.slot
          /\ reg'.clust = FatNow[c]
      BY <1>1, <1>2, <2>2 DEF Regs
    <2>7. FatNow' = t2 /\ DirNow' = DirNow
      BY <2>3 DEF t2
    <2>8. Found(FatNow', DirNow', fil', own, pc', reg')
      BY <1>1, <1>2, <2>5, <2>6, <2>7 DEF Found
    <2> QED
      BY <1>2, <2>5, <2>7, <2>8 DEF NextApart, Apart
  <1>3. CASE /\ pc' = "flush" /\ win' = [win EXCEPT !.dirty = TRUE]
             /\ reg.op = "unlink" /\ UNCHANGED <<fat, dir, fil, reg>>
    <2>1. FatNow' = FatNow /\ DirNow' = DirNow
      BY <1>3, SameNow
    <2>2. \A h \in Handles : fil[h].open => fil[h].name # reg.n
      BY <1>3 DEF Found
    <2> QED
      BY <1>3, <2>1, <2>2, Begun
  <1>4. CASE /\ pc' = "reopen" /\ reg.op = "open" /\ UNCHANGED <<fat, dir, win, fil, reg>>
    <2>1. FatNow' = FatNow /\ DirNow' = DirNow
      BY <1>4, SameNow
    <2>2. Found(FatNow', DirNow', fil', own, pc', reg')
      BY <1>1, <1>4, <2>1 DEF Found
    <2> QED
      BY <1>4, <2>1, <2>2 DEF NextApart, Apart
  <1> QED
    BY <1>2, <1>3, <1>4 DEF RemoveChain, card

LEMMA ReopenApart ==
  ASSUME TypeOK, TypeOK', NowApart, Reopen
  PROVE  NextApart
  <1> PICK own \in Owners : /\ Vol(FatNow, DirNow, fil, own)
                            /\ Found(FatNow, DirNow, fil, own, pc, reg)
    BY DEF NowApart, Apart
  <1>1. FatNow' = FatNow /\ DirNow' = DirNow /\ DirNow \in Dirs /\ reg.slot \in Slots
    BY NowTyped, SameNow DEF Reopen, card, Regs
  <1>2. pc = "reopen" /\ reg.op = "open" /\ reg.h \in Handles /\ reg.n \in Names
    BY DEF Reopen, Here, TypeOK, CallOK
  <1>3. /\ DirNow[reg.slot] = Blank(reg.n)
        /\ \A h \in Handles : fil[h].open => fil[h].name # reg.n
    BY <1>2 DEF Found
  <1>4. DirNow[reg.slot].name = reg.n /\ Blank(reg.n).clust = DirNow[reg.slot].clust
    BY <1>3 DEF Blank
  <1>5. \A h \in Handles : fil[h].open => fil[h].slot # reg.slot
    BY <1>1, <1>3, <1>4, NotOpen
  <1>6. OpenFile(Blank(reg.n), TRUE)
    BY DEF Reopen
  <1> QED
    BY <1>1, <1>2, <1>4, <1>5, <1>6, OpenFileApart

-----------------------------------------------------------------------------
(* f_write.                                                                *)

\* A cluster of the file's own to write to, or a new one that becomes its
\* start.
LEMMA WriteToApart ==
  ASSUME TypeOK, TypeOK', NEW own \in Owners, Vol(FatNow', DirNow', fil, own),
         reg.op = "write", reg.h \in Handles, fil[reg.h].open, NEW c \in Clusters,
         FatNow'[c] # 0, own[c] = fil[reg.h].slot,
         fil[reg.h].org = 0 => Loose(FatNow', DirNow', fil, c),
         WriteTo(c)
  PROVE  NextApart
  <1> DEFINE f == fil[reg.h]
             o == fil'[reg.h]
  <1>1. fil \in Fils /\ f \in Fil /\ o \in Fil
    BY DEF TypeOK, Fils
  <1>2. fil' = [fil EXCEPT ![reg.h] = o]
    BY <1>1 DEF WriteTo, Fils
  <1>3. /\ o.open /\ o.name = f.name /\ o.slot = f.slot /\ o.fptr = f.fptr
        /\ o.curr = c /\ o.org = IF f.org = 0 THEN c ELSE f.org
    BY <1>1 DEF WriteTo, Fils, Fil
  <1>4. ObjectOK(FatNow', DirNow', own, f)
    BY DEF Vol, ObjectsOK
  <1> HIDE DEF o
  <1>5. ObjectOK(FatNow', DirNow', own, o)
    <2>1. HeadAt(FatNow', own, o.org, o.slot)
      BY <1>3, <1>4 DEF ObjectOK, HeadAt, Loose
    <2>2. DirNow'[o.slot].clust \in Clusters => DirNow'[o.slot].clust = o.org
      BY <1>3, <1>4, Special DEF ObjectOK
    <2>3. o.org # 0
      BY <1>3, Special
    <2> QED
      BY <1>3, <1>4, <2>1, <2>2, <2>3 DEF ObjectOK
  <1>6. \A g \in Handles \ {reg.h} : fil[g].open => fil[g].slot # o.slot
    BY <1>3 DEF Vol, ObjectsOK
  <1>7. Vol(FatNow', DirNow', fil', own)
    BY <1>1, <1>2, <1>5, <1>6, ObjectChanges
  <1>8. pc' = "data" /\ reg' = reg
    BY DEF WriteTo
  <1>9. fil'[reg.h].org # 0 /\ fil'[reg.h].open
    BY <1>3, Special DEF o
  <1>10. Found(FatNow', DirNow', fil', own, pc', reg')
    BY <1>8, <1>9 DEF Found
  <1> QED
    BY <1>7, <1>10 DEF NextApart, Apart

LEMMA DiskFullApart ==
  ASSUME TypeOK, TypeOK', NowApart, reg.op = "write", DiskFull,
         FatNow' = FatNow, DirNow' = DirNow
  PROVE  NextApart
  <1> PICK own \in Owners : /\ Vol(FatNow, DirNow, fil, own)
                            /\ Found(FatNow, DirNow, fil, own, pc, reg)
    BY DEF NowApart, Apart
  <1> DEFINE f == fil[reg.h]
             o == fil'[reg.h]
  <1>1. reg.h \in Handles /\ f.open /\ fil \in Fils /\ f \in Fil /\ o \in Fil
    BY DEF TypeOK, CallOK, Found, Fils
  <1>2. fil' = [fil EXCEPT ![reg.h] = o]
    BY <1>1 DEF DiskFull, Fils
  <1>3. /\ o.open /\ o.name = f.name /\ o.slot = f.slot /\ o.org = f.org
        /\ o.curr = f.curr /\ o.fptr = f.fptr
    BY <1>1 DEF DiskFull, Fils, Fil
  <1> HIDE DEF o
  <1>4. Vol(FatNow, DirNow, [fil EXCEPT ![reg.h] = o], own)
    BY <1>1, <1>3, ObjectStays
  <1> QED
    BY <1>2, <1>4, Returned DEF DiskFull

LEMMA ChainStatApart ==
  ASSUME TypeOK, TypeOK', NowApart, ChainStat
  PROVE  NextApart
  <1> PICK own \in Owners : /\ Vol(FatNow, DirNow, fil, own)
                            /\ Found(FatNow, DirNow, fil, own, pc, reg)
    BY DEF NowApart, Apart
  <1> DEFINE c == reg.clust
             next == win.fat[c]
  <1>1. FatNow' = FatNow /\ DirNow' = DirNow /\ reg \in Regs
    BY NowTyped, SameNow DEF ChainStat, card
  <1>2. pc = "stat" /\ reg.op = "write" /\ reg.h \in Handles /\ c \in Clusters
    BY DEF ChainStat, Here, TypeOK, CallOK
  <1>3. next = FatNow[c]
    BY <1>2, Shown, Showing DEF ChainStat
  <1>4. fil[reg.h].open /\ c = fil[reg.h].curr /\ fil[reg.h].org # 0
    BY <1>2 DEF Found
  <1>5. own[c] = fil[reg.h].slot
    BY <1>2, <1>4 DEF Vol, ObjectsOK, ObjectOK
  <1> HIDE DEF next
  <1>6. CASE BadChain
    BY <1>1, <1>6, IoErrorApart DEF BadChain
  <1>7. CASE next \in Clusters /\ WriteTo(next)
    <2>1. FatNow[next] # 0 /\ own[next] = fil[reg.h].slot
      BY <1>2, <1>3, <1>5, <1>7 DEF Vol, TableOK
    <2> QED
      BY <1>1, <1>2, <1>4, <1>7, <2>1, WriteToApart
  <1>8. CASE next = Eoc /\ ScanFrom(c, reg) /\ UNCHANGED fil
    <2>1. /\ pc' = "scan" /\ reg'.op = "write" /\ reg'.h = reg.h /\ reg'.clust = c
      BY <1>1, <1>2, <1>8 DEF ScanFrom, Begin, Regs
    <2>2. Found(FatNow', DirNow', fil', own, pc', reg')
      BY <1>1, <1>2, <1>3, <1>4, <1>5, <1>8, <2>1, Special DEF Found
    <2> QED
      BY <1>1, <1>8, <2>2 DEF NextApart, Apart
  <1> QED
    BY <1>6, <1>7, <1>8 DEF ChainStat, next

LEMMA ChainScanApart ==
  ASSUME TypeOK, TypeOK', NowApart, ChainScan
  PROVE  NextApart
  <1> PICK own \in Owners : /\ Vol(FatNow, DirNow, fil, own)
                            /\ Found(FatNow, DirNow, fil, own, pc, reg)
    BY DEF NowApart, Apart
  <1> DEFINE n == reg.ncl
             s == fil[reg.h].slot
             own2 == [own EXCEPT ![n] = s]
  <1>1. /\ pc = "scan" /\ reg.op = "write" /\ reg.h \in Handles /\ fil[reg.h].open
        /\ reg \in Regs /\ FatNow \in Tables /\ fil \in Fils
    BY NowTyped DEF ChainScan, ScanEnd, Here, TypeOK, CallOK, Found
  <1>2. s \in Slots
    BY <1>1 DEF Fils, Fil
  <1>3. CASE DiskFull /\ UNCHANGED <<fat, dir, win>>
    BY <1>1, <1>3, SameNow, DiskFullApart
  <1>4. CASE /\ reg' = [reg EXCEPT !.ncl = NextClust(@, reg.scl)]
             /\ UNCHANGED <<fil, pc, fat, dir, win>>
    <2>1. FatNow' = FatNow /\ DirNow' = DirNow
      BY <1>4, SameNow
    <2>2. reg'.op = reg.op /\ reg'.h = reg.h /\ reg'.clust = reg.clust
      BY <1>1, <1>4 DEF Regs
    <2>3. Found(FatNow', DirNow', fil', own, pc', reg')
      BY <1>1, <1>4, <2>1, <2>2 DEF Found
    <2> QED
      BY <1>4, <2>1, <2>3 DEF NextApart, Apart
  <1>5. CASE /\ Here("scan") /\ win.fat[n] = 0 /\ SetLink(n, Eoc)
             /\ UNCHANGED <<fat, dir>>
             /\ \/ reg.clust = 0 /\ WriteTo(n)
                \/ reg.clust # 0 /\ pc' = "link" /\ UNCHANGED <<fil, reg>>
    <2>1. n \in FatIn(win.sect) /\ n \in Clusters /\ FatNow[n] = 0
      BY <1>5, Shown, Showing DEF FatIn
    <2>2. FatNow' = [FatNow EXCEPT ![n] = Eoc] /\ DirNow' = DirNow
      BY <1>5, <2>1, SetLinkNow
    <2> DEFINE t2 == [FatNow EXCEPT ![n] = Eoc]
    <2> HIDE DEF n, s
    <2>3. /\ own2 \in Owners /\ Vol(t2, DirNow, fil, own2)
          /\ Loose(t2, DirNow, fil, n) /\ t2[n] = Eoc /\ own2[n] = s
          /\ \A c \in Clusters \ {n} : t2[c] = FatNow[c] /\ own2[c] = own[c]
      BY <1>1, <1>2, <2>1, Mark
    <2> HIDE DEF own2
    <2>4. /\ own2 \in Owners /\ Vol(FatNow', DirNow', fil, own2)
          /\ Loose(FatNow', DirNow', fil, n) /\ FatNow'[n] = Eoc /\ own2[n] = s
          /\ \A c \in Clusters \ {n} : FatNow'[c] = FatNow[c] /\ own2[c] = own[c]
      <3> HIDE DEF t2
      <3>1. FatNow' = t2 /\ DirNow' = DirNow
        BY <2>2 DEF t2
      <3> QED
        BY <2>3, <3>1
    <2> USE DEF n, s
    <2>5. CASE reg.clust = 0 /\ WriteTo(n)
      BY <1>1, <2>1, <2>4, <2>5, Special, WriteToApart
    <2>6. CASE reg.clust # 0 /\ pc' = "link" /\ UNCHANGED <<fil, reg>>
      <3>1. /\ fil[reg.h].org # 0 /\ reg.clust \in Clusters
            /\ FatNow[reg.clust] = Eoc /\ own[reg.clust] = s
        BY <1>1, <2>6 DEF Found
      <3>2. reg.clust # n
        BY <2>1, <3>1, Special
      <3>3. Found(FatNow', DirNow', fil', own2, pc', reg')
        BY <1>1, <2>4, <2>6, <3>1, <3>2, Special DEF Found
      <3> QED
        BY <2>4, <2>6, <3>3 DEF NextApart, Apart
    <2> QED
      BY <1>5, <2>5, <2>6
  <1> QED
    BY <1>3, <1>4, <1>5 DEF ChainScan, InUse, card

LEMMA ChainLinkApart ==
  ASSUME TypeOK, TypeOK', NowApart, ChainLink
  PROVE  NextApart
  <1> PICK own \in Owners : /\ Vol(FatNow, DirNow, fil, own)
                            /\ Found(FatNow, DirNow, fil, own, pc, reg)
    BY DEF NowApart, Apart
  <1> DEFINE c == reg.clust
             n == reg.ncl
  <1>1. /\ pc = "link" /\ reg.op = "write" /\ reg.h \in Handles /\ n \in Clusters
        /\ FatNow \in Tables /\ fil[reg.h].open
    BY NowTyped DEF ChainLink, Here, TypeOK, CallOK, Found
  <1>2. /\ c # n /\ c \in Clusters /\ FatNow[c] = Eoc /\ own[c] = fil[reg.h].slot
        /\ FatNow[n] # 0 /\ own[n] = fil[reg.h].slot /\ Loose(FatNow, DirNow, fil, n)
        /\ fil[reg.h].org # 0
    BY <1>1 DEF Found
  <1>3. c \in FatIn(win.sect)
    BY <1>2, Shown DEF ChainLink
  <1>4. FatNow' = [FatNow EXCEPT ![c] = n] /\ DirNow' = DirNow
    BY <1>3, SetLinkNow DEF ChainLink, card
  <1>5. Vol(FatNow', DirNow', fil, own) /\ FatNow'[n] # 0
    <2> DEFINE t2 == [FatNow EXCEPT ![c] = n]
    <2>1. Vol(t2, DirNow, fil, own) /\ t2[n] # 0
      <3> HIDE DEF c, n
      <3> QED
        BY <1>1, <1>2, Link
    <2> HIDE DEF t2
    <2>2. FatNow' = t2 /\ DirNow' = DirNow
      BY <1>4 DEF t2
    <2> QED
      BY <2>1, <2>2
  <1>6. WriteTo(n)
    BY DEF ChainLink
  <1> QED
    BY <1>1, <1>2, <1>5, <1>6, WriteToApart

LEMMA WriteDataApart ==
  ASSUME TypeOK, TypeOK', NowApart, WriteData
  PROVE  NextApart
  <1> PICK own \in Owners : /\ Vol(FatNow, DirNow, fil, own)
                            /\ Found(FatNow, DirNow, fil, own, pc, reg)
    BY DEF NowApart, Apart
  <1> DEFINE f == fil[reg.h]
             o == fil'[reg.h]
  <1>1. pc = "data" /\ reg.op = "write" /\ reg.h \in Handles
    BY DEF WriteData, TypeOK, CallOK
  <1>2. f.open /\ f.org # 0 /\ fil \in Fils /\ f \in Fil /\ o \in Fil
    BY <1>1 DEF TypeOK, Found, Fils
  <1>3. FatNow' = FatNow /\ DirNow' = DirNow
    BY SameNow DEF WriteData
  <1>4. fil' = [fil EXCEPT ![reg.h] = o]
    BY <1>1, <1>2 DEF WriteData, Fils
  <1>5. /\ o.open /\ o.name = f.name /\ o.slot = f.slot /\ o.org = f.org /\ o.curr = f.curr
    <2> DEFINE m == IF f.fptr + 1 > f.fsize THEN f.fptr + 1 ELSE f.fsize
               k == f.fptr + 1
    <2>1. CASE o = [f EXCEPT !.fptr = k, !.written = TRUE, !.changed = TRUE,
                             !.failed = FALSE, !.fsize = m]
      <3> HIDE DEF m, k, o
      <3> QED
        BY <1>2, <2>1 DEF Fil
    <2>2. CASE o = [f EXCEPT !.error = TRUE]
      BY <1>2, <2>2 DEF Fil
    <2>3. \/ o = [f EXCEPT !.fptr = k, !.written = TRUE, !.changed = TRUE,
                          !.failed = FALSE, !.fsize = m]
          \/ o = [f EXCEPT !.error = TRUE]
      <3>1. \/ o = [f EXCEPT !.fptr = @ + 1, !.written = TRUE, !.changed = TRUE,
                             !.failed = FALSE, !.fsize = IF f.fptr + 1 > @ THEN f.fptr + 1 ELSE @]
            \/ o = [f EXCEPT !.error = TRUE]
        BY <1>1, <1>2 DEF WriteData, Fils
      <3> QED
        BY <1>2, <3>1 DEF Fil
    <2> QED
      BY <2>1, <2>2, <2>3
  <1> HIDE DEF o
  <1>6. Vol(FatNow, DirNow, [fil EXCEPT ![reg.h] = o], own)
    BY <1>1, <1>2, <1>5, ObjectStays
  <1> QED
    BY <1>3, <1>4, <1>6, Returned DEF WriteData

-----------------------------------------------------------------------------
(* f_sync, f_close and f_getfree.                                          *)

LEMMA SyncEntryApart ==
  ASSUME TypeOK, TypeOK', NowApart, SyncEntry
  PROVE  NextApart
  <1> PICK own \in Owners : /\ Vol(FatNow, DirNow, fil, own)
                            /\ Found(FatNow, DirNow, fil, own, pc, reg)
    BY DEF NowApart, Apart
  <1> DEFINE f == fil[reg.h]
             o == fil'[reg.h]
             s == reg.slot
             e == [win.dir[s] EXCEPT !.clust = f.org, !.size = f.fsize]
  <1>1. /\ pc = "entry" /\ reg.op \in {"sync", "close"} /\ reg.h \in Handles
        /\ s \in DirIn(win.sect)
    BY Shown DEF SyncEntry, Here, TypeOK, CallOK
  <1>2. /\ f.open /\ s = f.slot /\ fil \in Fils /\ f \in Fil /\ o \in Fil
        /\ DirNow \in Dirs /\ s \in Slots
    BY <1>1, NowTyped DEF TypeOK, Found, Fils, DirIn
  <1>3. win.dir[s] = DirNow[s] /\ DirNow[s] \in Entry
    BY <1>1, <1>2, Showing DEF Dirs
  <1>4. e.name = DirNow[s].name /\ e.clust = f.org
    BY <1>3 DEF Entry
  <1>5. SetEntry(s, e)
    BY <1>1 DEF SyncEntry, SetEntry, TypeOK, Window
  <1> HIDE DEF e
  <1>6. DirNow' = [DirNow EXCEPT ![s] = e] /\ FatNow' = FatNow
    BY <1>1, <1>5, SetEntryNow DEF SyncEntry, card
  <1>7. Vol(FatNow', DirNow', fil, own)
    <2> DEFINE d2 == [DirNow EXCEPT ![f.slot] = e]
    <2>1. Vol(FatNow, d2, fil, own)
      BY <1>1, <1>2, <1>4, Store
    <2> HIDE DEF d2
    <2>2. FatNow' = FatNow /\ DirNow' = d2
      BY <1>2, <1>6 DEF d2
    <2> QED
      BY <2>1, <2>2
  <1>8. fil' = [fil EXCEPT ![reg.h] = o]
    BY <1>1, <1>2 DEF SyncEntry, Fils
  <1>9. /\ o.open /\ o.name = f.name /\ o.slot = f.slot /\ o.org = f.org
        /\ o.curr = f.curr /\ o.fptr = f.fptr
    BY <1>1, <1>2 DEF SyncEntry, Fils, Fil
  <1>10. Vol(FatNow', DirNow', fil', own)
    <2> HIDE DEF o
    <2>1. Vol(FatNow', DirNow', [fil EXCEPT ![reg.h] = o], own)
      BY <1>1, <1>2, <1>7, <1>9, ObjectStays
    <2> QED
      BY <1>8, <2>1
  <1>11. pc' = "flush" /\ reg' = reg
    BY DEF SyncEntry
  <1> QED
    BY <1>1, <1>9, <1>10, <1>11, Begun

LEMMA SyncedApart ==
  ASSUME TypeOK, NowApart, Synced
  PROVE  NextApart
  <1> PICK own \in Owners : Vol(FatNow, DirNow, fil, own)
    BY DEF NowApart, Apart
  <1>1. FatNow' = FatNow /\ DirNow' = DirNow /\ fil \in Fils
    BY NowTyped, SameNow DEF Synced, card
  <1>2. fil' = fil \/ (reg.h \in Handles /\ fil' = [fil EXCEPT ![reg.h] = Closed])
    BY DEF Synced, TypeOK, CallOK
  <1>3. Vol(FatNow', DirNow', fil', own)
    BY <1>1, <1>2, CloseObject
  <1> QED
    BY <1>3, Returned DEF Synced

LEMMA CountFreeApart ==
  ASSUME TypeOK, NowApart, CountFree
  PROVE  NextApart
  <1> PICK own \in Owners : /\ Vol(FatNow, DirNow, fil, own)
                            /\ Found(FatNow, DirNow, fil, own, pc, reg)
    BY DEF NowApart, Apart
  <1> DEFINE m == reg.rs + FreeIn(win.fat)
  <1>1. FatNow' = FatNow /\ DirNow' = DirNow /\ fil' = fil /\ pc = "count"
    BY SameNow DEF CountFree, card, Here
  <1>2. CASE reg' = [reg EXCEPT !.cnt = @ + 1, !.rs = m] /\ UNCHANGED pc
    <2>1. reg'.op = reg.op /\ reg'.h = reg.h /\ reg'.n = reg.n
      BY <1>2 DEF TypeOK, Regs
    <2>2. Found(FatNow', DirNow', fil', own, pc', reg')
      BY <1>1, <1>2, <2>1 DEF Found
    <2> QED
      BY <1>1, <2>2 DEF NextApart, Apart
  <1>3. CASE Return
    BY <1>1, <1>3, Returned
  <1> QED
    BY <1>2, <1>3 DEF CountFree

-----------------------------------------------------------------------------
(* The theorems.                                                           *)

\* The card after a step.
NextCardApart == \E own \in Owners : Vol(fat', dir', NoneOpen, own)

\* Only a window that is written back changes the card, and then the card
\* holds what the program sees.
LEMMA CardStays ==
  ASSUME TypeOK, NowApart, CardApart, [Next]_vars
  PROVE  NextCardApart
  <1>1. CASE UNCHANGED <<fat, dir>>
    BY <1>1 DEF CardApart, NextCardApart
  <1>2. CASE WriteBack
    <2>1. CASE fat' = FatNow /\ dir' = DirNow
      <3> PICK own \in Owners : Vol(FatNow, DirNow, fil, own)
        BY DEF NowApart, Apart
      <3>1. \A h \in Handles : ~NoneOpen[h].open
        BY DEF NoneOpen, Closed
      <3>2. Vol(FatNow, DirNow, NoneOpen, own)
        BY <3>1, FewerOpen
      <3> QED
        BY <2>1, <3>2 DEF NextCardApart
    <2> QED
      BY <1>1, <1>2, <2>1, WrittenNow DEF WriteBack
  <1>3. WriteBack \/ UNCHANGED <<fat, dir>>
    <2>1. CASE Call
      BY <2>1 DEF Call, f_open, f_unlink, f_write, f_sync, f_close, Syncs, f_getfree,
             f_stat, f_utime, f_chmod, f_rename, f_opendir, Named, card
    <2>2. CASE Step
      BY <2>2 DEF Step, move_window, WriteCopy, ReadWindow, TracePath, f_readdir,
             ReserveEntry, EraseOld, RemoveChain, Reopen, ChainStat, ChainScan,
             ChainLink, WriteData, SyncEntry, Synced, CountFree, card
    <2>3. CASE f_mount \/ Crash \/ UNCHANGED vars
      BY <2>3 DEF f_mount, Crash, Restart, vars, card
    <2> QED
      BY <2>1, <2>2, <2>3 DEF Next
  <1> QED
    BY <1>1, <1>2, <1>3

\* After a power failure the program sees what the card holds.
LEMMA RestartApart ==
  ASSUME TypeOK, CardApart, Restart
  PROVE  NextApart
  <1> PICK own \in Owners : Vol(fat, dir, NoneOpen, own)
    BY DEF CardApart
  <1>1. FatNow' = fat /\ DirNow' = dir /\ fil' = NoneOpen
    BY ReadNow DEF Restart, card, NoneOpen
  <1> QED
    BY <1>1, Returned DEF Restart

LEMMA StepApart ==
  ASSUME TypeOK, TypeOK', WindowCoherent, NowApart, Step
  PROVE  NextApart
  <1>1. CASE move_window
    <2>1. CASE WriteCopy
      BY <2>1, SameNow, ApartStays DEF WriteCopy
    <2> QED
      BY <1>1, <2>1, WriteBackApart, ReadWindowApart DEF move_window
  <1>2. CASE TracePath \/ f_readdir \/ ReserveEntry \/ RemoveChain \/ Reopen
    BY <1>2, TracePathApart, ReaddirApart, ReserveEntryApart, RemoveChainApart, ReopenApart
  <1>3. CASE EraseOld
    <2>1. reg.op = "rename"
      BY <1>3 DEF EraseOld, Here, TypeOK, CallOK
    <2>2. reg.op # "rename"
      BY DEF NowApart, Apart, Found
    <2> QED
      BY <2>1, <2>2
  <1>4. CASE ChainStat \/ ChainScan \/ ChainLink \/ WriteData
    BY <1>4, ChainStatApart, ChainScanApart, ChainLinkApart, WriteDataApart
  <1>5. CASE SyncEntry \/ Synced \/ CountFree
    BY <1>5, SyncEntryApart, SyncedApart, CountFreeApart
  <1> QED
    BY <1>1, <1>2, <1>3, <1>4, <1>5 DEF Step

ApartInv == NowApart /\ CardApart

LEMMA InitApart == Init => ApartInv
  <1> SUFFICES ASSUME Init PROVE ApartInv
    OBVIOUS
  <1> DEFINE own == [c \in Clusters |-> 0]
  <1>1. own \in Owners
    BY DEF Owners
  <1>2. /\ \A c \in Clusters : fat[c] = 0 /\ FatNow[c] = 0
        /\ \A s \in Slots : dir[s].name \notin Names /\ DirNow[s].name \notin Names
        /\ \A h \in Handles : ~fil[h].open
        /\ FatNow = fat /\ DirNow = dir /\ fil = NoneOpen
    <2>1. TypeOK
      BY InitType
    <2>2. FatNow = fat /\ DirNow = dir
      BY <2>1, CleanNow DEF Init
    <2> QED
      BY <2>2, NameAssumption DEF Init, Blank, Closed, NoneOpen
  <1> HIDE DEF own
  <1>3. Vol(fat, dir, NoneOpen, own)
    BY <1>2, Special DEF Vol, TableOK, EntriesOK, ObjectsOK
  <1>4. Found(FatNow, DirNow, fil, own, pc, reg)
    BY DEF Init, NoCall, Found
  <1> QED
    BY <1>1, <1>2, <1>3, <1>4 DEF ApartInv, NowApart, CardApart, Apart

LEMMA NextKeepsApart ==
  ASSUME "admin" \notin Habits, TypeOK, TypeOK', WindowCoherent, ApartInv, [Next]_vars
  PROVE  ApartInv'
  <1> USE DEF ApartInv
  <1>1. NextApart
    <2>1. CASE UNCHANGED vars
      BY <2>1, SameNow, ApartStays DEF vars, card
    <2> QED
      BY <2>1, CallApart, StepApart, RestartApart DEF Next, f_mount, Crash
  <1>2. NowApart'
    BY <1>1 DEF NextApart, NowApart, Apart, Vol, TableOK, EntriesOK, ObjectsOK, ObjectOK,
           HeadAt, Found, Loose
  <1>3. CardApart'
    BY CardStays DEF NextCardApart, CardApart, Vol, TableOK, EntriesOK, ObjectsOK, ObjectOK,
       HeadAt, NoneOpen
  <1> QED
    BY <1>2, <1>3

\* Chains that have their owners are sound.
LEMMA CardIsSound ==
  ASSUME TypeOK, CardApart
  PROVE  CrashSafe
  <1> DEFINE start == [s \in Slots |-> dir[s].clust]
  <1> PICK own \in Owners : Vol(fat, dir, NoneOpen, own)
    BY DEF CardApart
  <1>1. \A s \in LiveSlots(dir) : HeadAt(fat, own, start[s], s)
    BY DEF Vol, EntriesOK, LiveSlots
  <1>2. TableOK(fat, own)
    BY DEF Vol
  <1> HIDE DEF start
  <1>3. Sound(fat, LiveSlots(dir), start)
    BY <1>1, <1>2 DEF Sound, HeadAt, TableOK
  <1> QED
    BY <1>3 DEF CrashSafe, start

LEMMA NowIsSound ==
  ASSUME TypeOK, NowApart
  PROVE  FilesApart
  <1> DEFINE start == [s \in Slots |-> StartNow(s)]
  <1> PICK own \in Owners : /\ Vol(FatNow, DirNow, fil, own)
                            /\ Found(FatNow, DirNow, fil, own, pc, reg)
    BY DEF NowApart, Apart
  <1>1. ASSUME NEW s \in LiveSlots(DirNow)
        PROVE  HeadAt(FatNow, own, StartNow(s), s)
    <2>1. CASE \E h \in Handles : fil[h].open /\ fil[h].slot = s
      <3>1. PICK h \in Handles : fil[h].open /\ fil[h].slot = s /\ StartNow(s) = fil[h].org
        BY <2>1 DEF StartNow
      <3> QED
        BY <3>1 DEF Vol, ObjectsOK, ObjectOK
    <2>2. CASE ~\E h \in Handles : fil[h].open /\ fil[h].slot = s
      BY <2>2 DEF StartNow, Vol, EntriesOK, LiveSlots
    <2> QED
      BY <2>1, <2>2
  <1>2. \A s \in LiveSlots(DirNow) : HeadAt(FatNow, own, start[s], s)
    BY <1>1 DEF LiveSlots
  <1>3. TableOK(FatNow, own)
    BY DEF Vol
  <1> HIDE DEF start
  <1>4. Sound(FatNow, LiveSlots(DirNow) \ Twin, start)
    BY <1>2, <1>3 DEF Sound, HeadAt, TableOK
  <1>5. \A h \in Handles : fil[h].open =>
           /\ DirNow[fil[h].slot].name = fil[h].name
           /\ fil[h].curr \in Clusters => FatNow[fil[h].curr] # 0
           /\ \A g \in Handles : fil[g].open /\ fil[g].slot = fil[h].slot => g = h
    BY DEF Vol, ObjectsOK, ObjectOK
  <1> QED
    BY <1>4, <1>5 DEF FilesApart, start

LEMMA AlwaysApart ==
  ASSUME "admin" \notin Habits
  PROVE  Spec => [](TypeOK /\ ApartInv)
  <1>1. TypeOK /\ TypeOK' /\ WindowCoherent /\ ApartInv /\ [Next]_vars => ApartInv'
    BY NextKeepsApart
  <1> QED
    BY <1>1, InitApart, VolumeTypeCorrect, WindowAlwaysCoherent, PTL DEF Spec

\* After every single transfer, whatever fails and wherever power goes, no
\* chain on the card runs into a free cluster, into another chain or into the
\* head of one: what the order of ff.c's writes is for.
THEOREM CardSurvivesCrash ==
  ASSUME "admin" \notin Habits
  PROVE  Spec => []CrashSafe
  <1>1. TypeOK /\ ApartInv => CrashSafe
    BY CardIsSound DEF ApartInv
  <1> QED
    BY <1>1, AlwaysApart, PTL

\* As the program sees the volume, two files never share a cluster, and the
\* clusters a file object refers to are allocated, even after calls of which
\* only the first half succeeded.
THEOREM FilesStayApart ==
  ASSUME "admin" \notin Habits
  PROVE  Spec => []FilesApart
  <1>1. TypeOK /\ ApartInv => FilesApart
    BY NowIsSound DEF ApartInv
  <1> QED
    BY <1>1, AlwaysApart, PTL
-----------------------------------------------------------------------------
(* The free count.  A transfer that fails between the two links of         *)
(* create_chain leaves a cluster that is marked but still counted free, so *)
(* the theorem is about a card whose transfers succeed.                    *)

\* A cluster is marked in use and not counted yet.
Taken == IF pc = "link" THEN 1 ELSE 0

FreeBelow(k) == {c \in Clusters : FatSector(c) < k /\ FatNow[c] = 0}

\* The cluster remove_chain is at is in use; the count is right but for a
\* cluster just marked; f_getfree has counted the sectors before this one.
Removing == pc = "remove" /\ reg.clust \in Clusters => FatNow[reg.clust] # 0
Exact    == fs.free # Unknown => fs.free = FreeIn(FatNow) + Taken
Counting == pc = "count" => reg.cnt >= 1 /\ reg.rs = Cardinality(FreeBelow(reg.cnt))
FreeInv  == Removing /\ Exact /\ Counting

NoFaults == "read" \notin Faults /\ "write" \notin Faults

LEMMA QuotientGrows == \A a, b \in Nat, d \in Nat \ {0} : a <= b => a \div d <= b \div d
  OBVIOUS

\* The last sector of the table has the entries of the last cluster.
LEMMA InTable == \A c \in Clusters : FatSector(c) \in 1 .. LastFat
  <1> TAKE c \in Clusters
  <1>1. c \in Nat /\ MaxClust - 1 \in Nat /\ c <= MaxClust - 1
    BY Numbers DEF Clusters
  <1>2. c \div PerFat <= (MaxClust - 1) \div PerFat
    BY <1>1, QuotientGrows, LayoutAssumption
  <1>3. c \div PerFat \in Nat /\ (MaxClust - 1) \div PerFat \in Nat
    BY <1>1, Quotient, LayoutAssumption
  <1> QED
    BY <1>2, <1>3 DEF FatSector, LastFat

\* The clusters of a volume are finitely many.
LEMMA ClustersFinite == IsFiniteSet(Clusters)
  BY FS_Interval, Numbers DEF Clusters

FreeSet(t) == {c \in Clusters : t[c] = 0}

LEMMA FreeCounts ==
  ASSUME NEW t \in Tables
  PROVE  FreeIn(t) = Cardinality(FreeSet(t)) /\ IsFiniteSet(FreeSet(t)) /\ FreeIn(t) \in Nat
  <1>1. IsFiniteSet(FreeSet(t))
    BY ClustersFinite, FS_Subset DEF FreeSet
  <1>2. FreeIn(t) = Cardinality(FreeSet(t))
    <2>1. DOMAIN t = Clusters
      BY DEF Tables
    <2> QED
      BY <2>1 DEF FreeIn, FreeSet
  <1>3. Cardinality(FreeSet(t)) \in Nat
    BY <1>1, FS_CardinalityType
  <1> QED
    BY <1>1, <1>2, <1>3

\* What one entry changes in the count.
LEMMA FreeMore ==
  ASSUME NEW t \in Tables, NEW c \in Clusters, t[c] # 0
  PROVE  FreeIn([t EXCEPT ![c] = 0]) = FreeIn(t) + 1
  <1> DEFINE t2 == [t EXCEPT ![c] = 0]
  <1>1. t2 \in Tables
    BY Numbers DEF Tables
  <1>2. FreeSet(t2) = FreeSet(t) \cup {c} /\ c \notin FreeSet(t)
    BY DEF Tables, FreeSet
  <1> HIDE DEF t2
  <1>3. Cardinality(FreeSet(t) \cup {c}) = Cardinality(FreeSet(t)) + 1
    BY <1>2, FreeCounts, FS_AddElement
  <1> QED
    BY <1>1, <1>2, <1>3, FreeCounts DEF t2

LEMMA FreeFewer ==
  ASSUME NEW t \in Tables, NEW c \in Clusters, t[c] = 0
  PROVE  FreeIn(t) = FreeIn([t EXCEPT ![c] = Eoc]) + 1
  <1> DEFINE t2 == [t EXCEPT ![c] = Eoc]
  <1>1. t2 \in Tables
    BY Numbers DEF Tables
  <1>2. FreeSet(t) = FreeSet(t2) \cup {c} /\ c \notin FreeSet(t2)
    BY Special DEF Tables, FreeSet
  <1> HIDE DEF t2
  <1>3. Cardinality(FreeSet(t2) \cup {c}) = Cardinality(FreeSet(t2)) + 1
    BY <1>1, <1>2, FreeCounts, FS_AddElement
  <1> QED
    BY <1>1, <1>2, <1>3, FreeCounts DEF t2

LEMMA FreeSame ==
  ASSUME NEW t \in Tables, NEW c \in Clusters, t[c] # 0, NEW n \in Clusters
  PROVE  FreeIn([t EXCEPT ![c] = n]) = FreeIn(t)
  <1> DEFINE t2 == [t EXCEPT ![c] = n]
  <1>1. t2 \in Tables
    BY Numbers DEF Tables
  <1>2. FreeSet(t) = FreeSet(t2)
    BY Special DEF Tables, FreeSet
  <1> HIDE DEF t2
  <1> QED
    BY <1>1, <1>2, FreeCounts DEF t2

\* A step that leaves the table alone, and does not begin to remove or count.
LEMMA FreeQuiet ==
  ASSUME FreeInv, FatNow' = FatNow, fs'.free = fs.free \/ fs'.free = Unknown,
         \/ UNCHANGED <<pc, reg>>
         \/ pc \notin {"link"} /\ pc' \notin {"link", "remove", "count"}
  PROVE  FreeInv'
  <1>1. Taken' = Taken
    BY DEF Taken
  <1>2. Exact'
    BY <1>1 DEF FreeInv, Exact
  <1>3. Removing'
    BY DEF FreeInv, Removing
  <1>4. Counting'
    <2>1. CASE UNCHANGED <<pc, reg>>
      <3>1. \A k : FreeBelow(k)' = FreeBelow(k)
        BY DEF FreeBelow
      <3> QED
        BY <2>1, <3>1 DEF FreeInv, Counting
    <2> QED
      BY <2>1 DEF Counting
  <1> QED
    BY <1>2, <1>3, <1>4 DEF FreeInv

\* Mounting forgets the count.
LEMMA MountsFree ==
  ASSUME Mounts \/ MountFails \/ UNCHANGED fs
  PROVE  fs'.free = fs.free \/ fs'.free = Unknown
  BY DEF Mounts, MountFails

\* A call that begins changes nothing on the volume, and counts from nothing.
LEMMA CallFree ==
  ASSUME TypeOK, FreeInv, Call
  PROVE  FreeInv'
  <1>1. FatNow' = FatNow /\ pc = "idle"
    BY SameNow DEF Call, f_open, f_unlink, f_write, f_sync, f_close, Syncs, f_getfree,
       f_stat, f_utime, f_chmod, f_rename, f_opendir, Named, card, Idle
  <1>2. fs'.free = fs.free \/ fs'.free = Unknown
    BY MountsFree DEF Call, f_open, f_unlink, f_write, f_sync, f_close, Syncs, f_getfree,
       f_stat, f_utime, f_chmod, f_rename, f_opendir, Named
  <1>3. CASE f_getfree
    <2>1. CASE UNCHANGED <<pc, reg>>
      BY <1>1, <1>2, <2>1, FreeQuiet
    <2>2. CASE Begin("count", [NoCall EXCEPT !.op = "getfree", !.cnt = 1])
      <3>1. pc' = "count" /\ reg'.cnt = 1 /\ reg'.rs = 0
        BY <2>2 DEF Begin, NoCall
      <3>2. FreeBelow(1)' = {}
        <4>1. \A c \in Clusters : ~(FatSector(c) < 1)
          BY InTable, LastFatPositive
        <4> QED
          BY <4>1 DEF FreeBelow
      <3>3. Counting'
        BY <3>1, <3>2, FS_EmptySet DEF Counting
      <3>4. Exact' /\ Removing'
        BY <1>1, <1>2, <3>1 DEF FreeInv, Exact, Removing, Taken
      <3> QED
        BY <3>3, <3>4 DEF FreeInv
    <2> QED
      BY <1>3, <2>1, <2>2 DEF f_getfree
  <1>4. ASSUME ~f_getfree
        PROVE  pc' \notin {"link", "remove", "count"}
    BY <1>1, <1>4 DEF Call, f_open, f_unlink, f_write, f_sync, f_close, Syncs,
       f_stat, f_utime, f_chmod, f_rename, f_opendir, Named, Begin, ScanFrom
  <1> QED
    BY <1>1, <1>2, <1>3, <1>4, FreeQuiet

\* Moving the window changes nothing the program sees.
LEMMA MoveFree ==
  ASSUME TypeOK, WindowCoherent, NoFaults, FreeInv, move_window
  PROVE  FreeInv'
  <1>1. UNCHANGED <<fs, pc, reg>>
    BY DEF NoFaults, move_window, WriteBack, WriteCopy, ReadWindow
  <1>2. FatNow' = FatNow
    <2>1. CASE WriteBack
      BY <2>1, WrittenNow DEF WriteBack, NoFaults
    <2>2. CASE WriteCopy
      BY <2>2, SameNow DEF WriteCopy
    <2>3. CASE ReadWindow
      <3>1. FatNow = fat
        BY <2>3, CleanNow DEF ReadWindow, WindowCoherent
      <3>2. FatNow' = fat
        BY <2>3, ReadNow DEF ReadWindow, NoFaults, card
      <3> QED
        BY <3>1, <3>2
    <2> QED
      BY <2>1, <2>2, <2>3 DEF move_window
  <1> QED
    BY <1>1, <1>2, FreeQuiet

\* A chain begins to be removed: its head is in use.
LEMMA TraceFree ==
  ASSUME TypeOK, NowApart, FreeInv, TracePath
  PROVE  FreeInv'
  <1> DEFINE s == reg.slot
             e == win.dir[s]
  <1>1. /\ FatNow \in Tables /\ DirNow \in Dirs /\ reg \in Regs
        /\ s \in DirIn(win.sect) /\ s \in Slots /\ e = DirNow[s] /\ pc = "trace"
    <2>1. s \in DirIn(win.sect) /\ pc = "trace"
      BY Shown DEF TracePath, Here
    <2> QED
      BY <2>1, NowTyped, Showing DEF DirIn, Dirs
  <1>2. FatNow' = FatNow /\ UNCHANGED fs
    <2>1. UNCHANGED <<fat, dir, fs>>
      BY DEF TracePath, card
    <2>2. win' = win \/ \E x : SetEntry(s, x)
      BY DEF TracePath
    <2> QED
      BY <1>1, <2>1, <2>2, SameNow, SetEntryNow
  <1>3. CASE pc' # "remove"
    <2>1. pc' \notin {"link", "count"}
      BY <1>1, <1>3 DEF TracePath, NotFound, Return, OpenFile
    <2> QED
      BY <1>1, <1>2, <1>3, <2>1, FreeQuiet
  <1>4. CASE pc' = "remove"
    <2>1. e.name = reg.n /\ reg.n \in Names /\ reg'.clust = e.clust
      BY <1>1, <1>4 DEF TracePath, NotFound, Return, OpenFile, Head, Regs, TypeOK, CallOK
    <2>2. e.clust \in Clusters => FatNow[e.clust] # 0
      BY <1>1, <2>1 DEF NowApart, Apart, Vol, EntriesOK, HeadAt
    <2>3. Removing'
      BY <1>2, <2>1, <2>2 DEF Removing
    <2>4. Exact' /\ Counting'
      BY <1>1, <1>2, <1>4 DEF FreeInv, Exact, Counting, Taken
    <2> QED
      BY <2>3, <2>4 DEF FreeInv
  <1> QED
    BY <1>3, <1>4

\* remove_chain frees a cluster in use and counts it; the next one is in use.
LEMMA RemoveFree ==
  ASSUME TypeOK, NowApart, FreeInv, RemoveChain
  PROVE  FreeInv'
  <1>1. CASE /\ Here("remove") /\ SetLink(reg.clust, 0)
             /\ fs' = [fs EXCEPT !.free = Counted(@, 1)]
             /\ reg' = [reg EXCEPT !.clust = win.fat[reg.clust]]
             /\ UNCHANGED <<fat, dir, fil, pc>>
    <2> DEFINE c == reg.clust
               t2 == [FatNow EXCEPT ![c] = 0]
    <2>1. c \in Clusters /\ pc = "remove" /\ FatNow \in Tables /\ reg \in Regs
      BY <1>1, NowTyped DEF Here, Looking, ChainEnd
    <2>2. c \in FatIn(win.sect) /\ win.fat[c] = FatNow[c]
      BY <1>1, <2>1, Shown, Showing
    <2>3. FatNow' = t2
      BY <1>1, <2>2, SetLinkNow
    <2>4. FatNow[c] # 0
      BY <2>1 DEF FreeInv, Removing
    <2>5. FreeIn(t2) = FreeIn(FatNow) + 1 /\ FreeIn(FatNow) \in Nat
      BY <2>1, <2>4, FreeMore, FreeCounts
    <2>6. reg'.clust = FatNow[c] /\ pc' = "remove"
      BY <1>1, <2>1, <2>2 DEF Regs
    <2>7. FatNow[c] \in Clusters => FatNow[FatNow[c]] # 0 /\ FatNow[c] # c
      <3> PICK own \in Owners : /\ Vol(FatNow, DirNow, fil, own)
                                /\ Found(FatNow, DirNow, fil, own, pc, reg)
        BY DEF NowApart, Apart
      <3>1. \A x \in Clusters : FatNow[x] # c
        BY <2>1 DEF Found
      <3>2. FatNow[c] # c
        BY <2>1, <3>1
      <3>3. FatNow[c] \in Clusters => FatNow[FatNow[c]] # 0
        BY <2>1 DEF Vol, TableOK
      <3> QED
        BY <3>2, <3>3
    <2>8. FatNow[c] \in Clusters => t2[FatNow[c]] # 0
      BY <2>1, <2>7 DEF Tables
    <2> HIDE DEF t2, c
    <2>9. Removing' /\ Counting'
      BY <2>3, <2>6, <2>8 DEF Removing, Counting
    <2>10. fs'.free = Counted(fs.free, 1)
      BY <1>1 DEF TypeOK
    <2>11. Taken = 0 /\ Taken' = 0
      BY <2>1, <2>6 DEF Taken
    <2>12. FreeIn(FatNow') = FreeIn(FatNow) + 1
      BY <2>3, <2>5
    <2>13. Exact'
      <3>1. CASE fs.free = Unknown
        BY <2>10, <3>1 DEF Exact, Counted
      <3>2. CASE fs.free # Unknown
        <4>1. fs.free = FreeIn(FatNow)
          BY <2>5, <2>11, <3>2 DEF FreeInv, Exact
        <4>2. fs'.free = FreeIn(FatNow) + 1
          BY <2>10, <3>2, <4>1 DEF Counted
        <4>3. fs'.free = FreeIn(FatNow') + Taken'
          BY <2>5, <2>11, <2>12, <4>2
        <4> QED
          BY <4>3 DEF Exact
      <3> QED
        BY <3>1, <3>2
    <2> QED
      BY <2>9, <2>13 DEF FreeInv
  <1>2. CASE /\ ChainEnd /\ pc' \in {"flush", "reopen"} /\ UNCHANGED <<fat, dir, fs>>
             /\ win' = win \/ win' = [win EXCEPT !.dirty = TRUE]
    BY <1>2, SameNow, FreeQuiet DEF ChainEnd
  <1> QED
    BY <1>1, <1>2 DEF RemoveChain, card

\* create_chain marks a cluster, and counts it when it is part of the chain.
LEMMA ScanFree ==
  ASSUME TypeOK, FreeInv, ChainScan
  PROVE  FreeInv'
  <1>1. pc = "scan" /\ FatNow \in Tables /\ UNCHANGED <<fat, dir>>
    BY NowTyped DEF ChainScan, ScanEnd, Here, card
  <1>2. CASE UNCHANGED <<win, fs>> /\ (DiskFull \/ UNCHANGED pc)
    BY <1>1, <1>2, SameNow, FreeQuiet DEF DiskFull, Return
  <1>3. CASE /\ Here("scan") /\ win.fat[reg.ncl] = 0 /\ SetLink(reg.ncl, InUse)
             /\ \/ Allocated(reg.ncl) /\ WriteTo(reg.ncl)
                \/ pc' = "link" /\ UNCHANGED <<fs, fil, reg>>
    <2> DEFINE n == reg.ncl
               t2 == [FatNow EXCEPT ![n] = Eoc]
    <2>1. n \in FatIn(win.sect) /\ n \in Clusters /\ FatNow[n] = 0
      BY <1>3, Shown, Showing DEF FatIn
    <2>2. FatNow' = t2
      BY <1>1, <1>3, <2>1, SetLinkNow DEF InUse
    <2>3. FreeIn(FatNow) = FreeIn(t2) + 1 /\ t2 \in Tables
      BY <1>1, <2>1, FreeFewer, Numbers DEF Tables
    <2>4. FreeIn(t2) \in Nat
      BY <2>3, FreeCounts
    <2> HIDE DEF t2, n
    <2>5. FreeIn(FatNow) = FreeIn(FatNow') + 1 /\ FreeIn(FatNow') \in Nat
      BY <2>2, <2>3, <2>4
    <2>6. fs.free # Unknown => fs.free = FreeIn(FatNow') + 1
      <3>1. Taken = 0
        BY <1>1 DEF Taken
      <3> QED
        BY <2>5, <3>1 DEF FreeInv, Exact
    <2>7. Exact'
      <3>1. CASE Allocated(reg.ncl) /\ WriteTo(reg.ncl)
        <4>1. fs'.free = Counted(fs.free, -1) /\ pc' = "data"
          BY <3>1 DEF Allocated, WriteTo, TypeOK
        <4>2. CASE fs.free = Unknown
          BY <4>1, <4>2 DEF Exact, Counted
        <4>3. CASE fs.free # Unknown
          <5>1. fs'.free = FreeIn(FatNow') + 1 + (-1)
            BY <2>6, <4>1, <4>3 DEF Counted
          <5>2. fs'.free = FreeIn(FatNow') + Taken'
            BY <2>5, <4>1, <5>1 DEF Taken
          <5> QED
            BY <5>2 DEF Exact
        <4> QED
          BY <4>2, <4>3
      <3>2. CASE pc' = "link" /\ UNCHANGED fs
        BY <2>6, <3>2 DEF Exact, Taken
      <3> QED
        BY <1>3, <3>1, <3>2
    <2>8. pc' \in {"data", "link"}
      BY <1>3 DEF WriteTo
    <2> QED
      BY <2>7, <2>8 DEF FreeInv, Removing, Counting
  <1> QED
    BY <1>2, <1>3 DEF ChainScan

\* The end of the chain is linked to it: now it is counted.
LEMMA LinkFree ==
  ASSUME TypeOK, NowApart, FreeInv, ChainLink
  PROVE  FreeInv'
  <1> DEFINE c == reg.clust
             n == reg.ncl
             t2 == [FatNow EXCEPT ![c] = n]
  <1>1. pc = "link" /\ n \in Clusters /\ FatNow \in Tables
    BY NowTyped DEF ChainLink, Here, TypeOK, CallOK
  <1>2. c \in Clusters /\ FatNow[c] = Eoc
    BY <1>1 DEF NowApart, Apart, Found
  <1>3. c \in FatIn(win.sect)
    BY <1>2, Shown DEF ChainLink
  <1>4. FatNow' = t2
    BY <1>3, SetLinkNow DEF ChainLink, card
  <1>5. FreeIn(t2) = FreeIn(FatNow) /\ FreeIn(FatNow) \in Nat
    <2> HIDE DEF c, n
    <2> QED
      BY <1>1, <1>2, FreeSame, FreeCounts, Special
  <1> HIDE DEF t2
  <1>6. fs'.free = Counted(fs.free, -1) /\ pc' = "data"
    BY DEF ChainLink, Allocated, WriteTo, TypeOK
  <1>7. Exact'
    <2>1. CASE fs.free = Unknown
      BY <1>6, <2>1 DEF Exact, Counted
    <2>2. CASE fs.free # Unknown
      <3>1. fs.free = FreeIn(FatNow) + 1
        BY <1>1, <2>2 DEF FreeInv, Exact, Taken
      <3>2. fs'.free = FreeIn(FatNow) + 1 + (-1)
        BY <1>6, <2>2, <3>1 DEF Counted
      <3>3. fs'.free = FreeIn(FatNow') + Taken'
        BY <1>4, <1>5, <1>6, <3>2 DEF Taken
      <3> QED
        BY <3>3 DEF Exact
    <2> QED
      BY <2>1, <2>2
  <1> QED
    BY <1>6, <1>7 DEF FreeInv, Removing, Counting

\* f_getfree adds what one sector of the table has free; with the last sector
\* it has seen every cluster.
LEMMA CountIsFree ==
  ASSUME TypeOK, FreeInv, CountFree
  PROVE  FreeInv'
  <1> DEFINE k == reg.cnt
             A == FreeBelow(k)
             B == {c \in DOMAIN win.fat : win.fat[c] = 0}
  <1>1. /\ pc = "count" /\ k \in Nat /\ k >= 1 /\ k <= LastFat /\ LastFat \in Nat
        /\ reg.rs = Cardinality(A) /\ reg \in Regs
        /\ k = win.sect
    BY LastFatPositive DEF CountFree, Here, Target, FreeInv, Counting, TypeOK, Regs
  <1>2. FatNow' = FatNow
    BY SameNow DEF CountFree, card
  <1>3. B = {c \in Clusters : FatSector(c) = k /\ FatNow[c] = 0}
    <2>1. DOMAIN win.fat = FatIn(k)
      BY <1>1 DEF TypeOK, Window
    <2>2. \A c \in FatIn(k) : win.fat[c] = FatNow[c]
      BY <1>1, Showing
    <2> QED
      BY <2>1, <2>2 DEF FatIn
  <1>4. \A c \in Clusters : FatSector(c) \in Nat /\ FatSector(c) <= LastFat
    BY <1>1, InTable
  <1>5. FreeBelow(k + 1) = A \cup B /\ A \cap B = {}
    BY <1>1, <1>3, <1>4 DEF FreeBelow
  <1>6. IsFiniteSet(A) /\ IsFiniteSet(B)
    BY <1>3, ClustersFinite, FS_Subset DEF FreeBelow
  <1> DEFINE m == reg.rs + FreeIn(win.fat)
  <1>7. Cardinality(FreeBelow(k + 1)) = m
    <2>1. FreeIn(win.fat) = Cardinality(B)
      BY DEF FreeIn
    <2> HIDE DEF A, B
    <2>2. Cardinality(A \cup B) = Cardinality(A) + Cardinality(B) - Cardinality(A \cap B)
      BY <1>6, FS_Union
    <2>3. Cardinality(A) \in Nat /\ Cardinality(B) \in Nat /\ Cardinality(A \cap B) = 0
      BY <1>5, <1>6, FS_CardinalityType, FS_EmptySet
    <2>4. \A x, y, z \in Nat : z = 0 => x + y - z = x + y
      OBVIOUS
    <2> QED
      BY <1>1, <1>5, <2>1, <2>2, <2>3, <2>4
  <1> HIDE DEF m, A, B
  <1>8. CASE reg' = [reg EXCEPT !.cnt = @ + 1, !.rs = m] /\ UNCHANGED <<fs, pc>>
    <2>1. reg'.cnt = k + 1 /\ reg'.rs = m
      BY <1>1, <1>8 DEF Regs
    <2>2. {c \in Clusters : FatSector(c) < reg'.cnt /\ FatNow'[c] = 0} = FreeBelow(k + 1)
      BY <1>2, <2>1 DEF FreeBelow
    <2>3. FreeBelow(reg.cnt)' = FreeBelow(k + 1)
      BY <2>2 DEF FreeBelow
    <2>4. reg'.cnt >= 1
      BY <1>1, <2>1
    <2>5. Counting'
      BY <1>7, <2>1, <2>3, <2>4 DEF Counting
    <2>6. Exact' /\ Removing'
      BY <1>1, <1>2, <1>8 DEF FreeInv, Exact, Removing, Taken
    <2> QED
      BY <2>5, <2>6 DEF FreeInv
  <1>9. CASE ~(k < LastFat) /\ fs' = [fs EXCEPT !.free = m] /\ Return
    <2>1. k = LastFat
      BY <1>1, <1>9
    <2>2. FreeBelow(k + 1) = FreeSet(FatNow)
      BY <1>1, <1>4, <2>1 DEF FreeBelow, FreeSet
    <2>3. FatNow \in Tables
      BY NowTyped
    <2>4. m = FreeIn(FatNow) /\ FreeIn(FatNow) \in Nat
      BY <1>7, <2>2, <2>3, FreeCounts
    <2>5. fs'.free = m /\ pc' = "idle"
      BY <1>9 DEF TypeOK, Return
    <2>6. fs'.free = FreeIn(FatNow') + Taken'
      BY <1>2, <2>4, <2>5 DEF Taken
    <2> QED
      BY <2>5, <2>6 DEF FreeInv, Exact, Removing, Counting
  <1> QED
    BY <1>8, <1>9 DEF CountFree, m

\* The other steps of a call change neither the table nor the count.
LEMMA QuietFree ==
  ASSUME TypeOK, NoFaults, FreeInv,
         \/ f_readdir \/ ReserveEntry \/ EraseOld \/ Reopen
         \/ ChainStat \/ WriteData \/ SyncEntry \/ Synced
  PROVE  FreeInv'
  <1>1. FatNow' = FatNow
    <2>1. CASE f_readdir \/ ChainStat \/ WriteData \/ Synced \/ Reopen
      BY <2>1, SameNow DEF f_readdir, ChainStat, WriteData, Synced, Reopen, card
    <2>2. CASE ReserveEntry \/ EraseOld
      <3>1. reg.slot \in DirIn(win.sect)
        BY <2>2, Shown DEF ReserveEntry, EraseOld
      <3>2. UNCHANGED <<fat, dir>> /\ (win' = win \/ \E x : SetEntry(reg.slot, x))
        BY <2>2 DEF ReserveEntry, EraseOld, card
      <3> QED
        BY <3>1, <3>2, SameNow, SetEntryNow
    <2>3. CASE SyncEntry
      <3>1. win'.fat = win.fat
        BY <2>3 DEF SyncEntry, TypeOK, Window
      <3> QED
        BY <2>3, <3>1 DEF SyncEntry, FatNow, card
    <2> QED
      BY <2>1, <2>2, <2>3
  <1>2. fs'.free = fs.free
    BY DEF f_readdir, ReserveEntry, EraseOld, Reopen, ChainStat, WriteData, SyncEntry,
           Synced, TypeOK
  <1>3. pc # "link" /\ pc' \notin {"link", "remove", "count"}
    BY DEF f_readdir, ReserveEntry, EraseOld, Reopen, ChainStat, WriteData, SyncEntry,
           Synced, Here, Flushed, Return, OpenFile, BadChain, IoError, WriteTo, ScanFrom, Begin
  <1> QED
    BY <1>1, <1>2, <1>3, FreeQuiet

LEMMA NextFree ==
  ASSUME TypeOK, WindowCoherent, NowApart, NoFaults, FreeInv, [Next]_vars
  PROVE  FreeInv'
  <1>1. CASE Step
    BY <1>1, MoveFree, TraceFree, RemoveFree, ScanFree, LinkFree, CountIsFree, QuietFree
    DEF Step
  <1>2. CASE Restart
    <2>1. fs'.free = Unknown /\ pc' = "idle"
      BY <1>2 DEF Restart, Unmounted, Return
    <2> QED
      BY <2>1 DEF FreeInv, Exact, Removing, Counting
  <1>3. CASE UNCHANGED vars
    BY <1>3, SameNow, FreeQuiet DEF vars, card
  <1> QED
    BY <1>1, <1>2, <1>3, CallFree DEF Next, f_mount, Crash

\* While no transfer fails - a mount, the copy of the table or the power may -
\* the free count f_getfree found stays what the table says, over every
\* allocation and removal and whatever the window holds back.
THEOREM FreeCountStaysExact ==
  ASSUME "admin" \notin Habits, NoFaults
  PROVE  Spec => []FreeCountExact
  <1>1. Init => FreeInv
    BY DEF Init, Unmounted, FreeInv, Exact, Removing, Counting
  <1>2. TypeOK /\ WindowCoherent /\ ApartInv /\ FreeInv /\ [Next]_vars => FreeInv'
    BY NextFree DEF ApartInv
  <1>3. TypeOK /\ FreeInv => FreeCountExact
    <2> SUFFICES ASSUME TypeOK, FreeInv, pc = "idle", fs.free # Unknown
                 PROVE  fs.free = FreeIn(FatNow)
      BY DEF FreeCountExact, Idle
    <2>1. FreeIn(FatNow) \in Nat
      BY NowTyped, FreeCounts
    <2> QED
      BY <2>1 DEF FreeInv, Exact, Taken
  <1> QED
    BY <1>1, <1>2, <1>3, AlwaysApart, WindowAlwaysCoherent, PTL DEF Spec
-----------------------------------------------------------------------------
(* No cluster is lost.  A cluster in use is the head of a chain or follows *)
(* another one; with a number for each cluster that grows by one along the *)
(* links, every cluster is reached from a head.  The theorem is about a    *)
(* card whose transfers succeed: a power failure, or an f_open over a file *)
(* object that was not closed, leaves chains that belong to nobody.        *)

\* The heads: of an entry, of an open file object, and the rest of the chain
\* that remove_chain is at.
Root(d, f, p, r, x) ==
    \/ \E s \in Slots : /\ d[s].name \in Names /\ d[s].clust = x
                        /\ \A h \in Handles : f[h].open => f[h].slot # s
    \/ \E h \in Handles : f[h].open /\ f[h].org = x
    \/ p = "remove" /\ r.clust = x

\* The cluster that create_chain has marked and not linked yet.
Pending(p, r, x) == p = "link" /\ r.ncl = x

After(t, rank, x) == \E e \in Clusters : t[e] = x /\ rank[x] = rank[e] + 1
Ranked(t, d, f, p, r, rank) ==
    \A x \in Clusters : t[x] # 0 =>
        Pending(p, r, x) \/ Root(d, f, p, r, x) \/ After(t, rank, x)
Ranks == [Clusters -> Nat]
Reached(t, d, f, p, r) == \E rank \in Ranks : Ranked(t, d, f, p, r, rank)

\* A file object that has nothing to store starts where its entry does; a call
\* at f_write's data may have set the start and not yet said so.
Stored(d, f, p, r) ==
    \A h \in Handles : f[h].open /\ ~f[h].written =>
        (p = "data" /\ r.h = h) \/ d[f[h].slot].clust = f[h].org
Entered(f, p, r) == p = "flush" /\ r.op \in {"sync", "close"} => ~f[r.h].written

\* Something is held back in the window only while a call is at it, or a file
\* object is to be stored: nothing is lost when the volume is mounted again.
Changing == {"remove", "reopen", "flush", "stat", "scan", "link", "data"}
Held(w, f, p) ==
    w.dirty => p \in Changing \/ \E h \in Handles : f[h].open /\ f[h].written

Marked(t, p, r) == p = "link" => t[r.ncl] = Eoc

KeptAt(t, d, f, p, r) ==
    Reached(t, d, f, p, r) /\ Stored(d, f, p, r) /\ Entered(f, p, r) /\ Marked(t, p, r)
KeptInv  == KeptAt(FatNow, DirNow, fil, pc, reg) /\ Held(win, fil, pc)
NextKept == KeptAt(FatNow', DirNow', fil', pc', reg') /\ Held(win', fil', pc')

AllCloses == "abandon" \notin Habits /\ "crash" \notin Faults

\* The same table with at least the same heads.
LEMMA MoreRoots ==
  ASSUME NEW t, NEW d, NEW f, NEW p, NEW r, NEW d2, NEW f2, NEW p2, NEW r2,
         Reached(t, d, f, p, r),
         \A x \in Clusters : Root(d, f, p, r, x) => Root(d2, f2, p2, r2, x),
         \A x \in Clusters : Pending(p, r, x) => Pending(p2, r2, x) \/ Root(d2, f2, p2, r2, x)
  PROVE  Reached(t, d2, f2, p2, r2)
  <1> PICK rank \in Ranks : Ranked(t, d, f, p, r, rank)
    BY DEF Reached
  <1>1. Ranked(t, d2, f2, p2, r2, rank)
    BY DEF Ranked
  <1> QED
    BY <1>1 DEF Reached

\* File objects that are open on the same entries with the same starts, with
\* more to store if at all.
Similar(f, f2) ==
    \A h \in Handles :
        /\ f2[h].open <=> f[h].open
        /\ f[h].open => /\ f2[h].slot = f[h].slot /\ f2[h].org = f[h].org
                        /\ f[h].written => f2[h].written

LEMMA SimilarRoots ==
  ASSUME NEW d, NEW f, NEW p, NEW r, NEW f2, NEW p2, NEW r2, Similar(f, f2),
         p = "remove" => r.clust \notin Clusters \/ (p2 = p /\ r2 = r),
         NEW x \in Clusters, Root(d, f, p, r, x)
  PROVE  Root(d, f2, p2, r2, x)
  <1>1. CASE \E s \in Slots : /\ d[s].name \in Names /\ d[s].clust = x
                              /\ \A h \in Handles : f[h].open => f[h].slot # s
    BY <1>1 DEF Root, Similar
  <1>2. CASE \E h \in Handles : f[h].open /\ f[h].org = x
    BY <1>2 DEF Root, Similar
  <1>3. CASE p = "remove" /\ r.clust = x
    BY <1>3 DEF Root
  <1> QED
    BY <1>1, <1>2, <1>3 DEF Root

LEMMA HeldStays ==
  ASSUME Held(win, fil, pc), win'.dirty => win.dirty, Similar(fil, fil'),
         pc \notin Changing \/ pc' \in Changing
  PROVE  Held(win', fil', pc')
  BY DEF Held, Similar

\* A step that changes neither the volume nor what is open.
LEMMA KeptQuiet ==
  ASSUME KeptInv, FatNow' = FatNow, DirNow' = DirNow, Similar(fil, fil'),
         Held(win', fil', pc'),
         \/ UNCHANGED <<fil, pc, reg>>
         \/ /\ pc # "link" /\ pc' # "link"
            /\ pc = "remove" => reg.clust \notin Clusters
            /\ pc = "data" => fil'[reg.h].written
            /\ pc' = "flush" => reg'.op = "unlink"
  PROVE  NextKept
  <1>1. CASE UNCHANGED <<fil, pc, reg>>
    BY <1>1 DEF KeptInv, NextKept
  <1>2. CASE /\ pc # "link" /\ pc' # "link"
             /\ pc = "remove" => reg.clust \notin Clusters
             /\ pc = "data" => fil'[reg.h].written
             /\ pc' = "flush" => reg'.op = "unlink"
    <2>1. \A x \in Clusters : Root(DirNow, fil, pc, reg, x) => Root(DirNow', fil', pc', reg', x)
      BY <1>2, SimilarRoots
    <2>2. \A x \in Clusters : ~Pending(pc, reg, x)
      BY <1>2 DEF Pending
    <2>3. Reached(FatNow, DirNow, fil, pc, reg)
      BY DEF KeptInv, KeptAt
    <2>4. Reached(FatNow, DirNow', fil', pc', reg')
      BY <2>1, <2>2, <2>3, MoreRoots
    <2>5. Stored(DirNow', fil', pc', reg')
      <3> SUFFICES ASSUME NEW h \in Handles, fil'[h].open, ~fil'[h].written
                   PROVE  DirNow[fil'[h].slot].clust = fil'[h].org
        BY DEF Stored
      <3>1. fil[h].open /\ ~fil[h].written /\ fil'[h].slot = fil[h].slot /\ fil'[h].org = fil[h].org
        BY DEF Similar
      <3>2. ~(pc = "data" /\ reg.h = h)
        BY <1>2
      <3> QED
        BY <3>1, <3>2 DEF KeptInv, KeptAt, Stored
    <2>6. Entered(fil', pc', reg') /\ Marked(FatNow', pc', reg')
      BY <1>2 DEF Entered, Marked
    <2> QED
      BY <2>4, <2>5, <2>6 DEF NextKept, KeptAt
  <1> QED
    BY <1>1, <1>2

\* A file object with nothing to store is closed: its entry has its start.
LEMMA CloseKept ==
  ASSUME TypeOK, NowApart, KeptInv, FatNow' = FatNow, DirNow' = DirNow,
         Held(win', fil', pc'),
         NEW h \in Handles, fil[h].open, ~fil[h].written, fil' = [fil EXCEPT ![h] = Closed],
         pc \notin {"link", "data", "remove"}, pc' \notin {"link", "flush"}
  PROVE  NextKept
  <1> PICK own \in Owners : Vol(FatNow, DirNow, fil, own)
    BY DEF NowApart, Apart
  <1>1. fil \in Fils /\ ~fil'[h].open /\ \A g \in Handles \ {h} : fil'[g] = fil[g]
    BY NowTyped DEF Fils, Closed
  <1>2. \A g \in Handles : fil'[g].open => g # h /\ fil'[g] = fil[g]
    BY <1>1
  <1>3. \A x \in Clusters : Root(DirNow, fil, pc, reg, x) => Root(DirNow', fil', pc', reg', x)
    <2> TAKE x \in Clusters
    <2>1. CASE \E s \in Slots : /\ DirNow[s].name \in Names /\ DirNow[s].clust = x
                                /\ \A g \in Handles : fil[g].open => fil[g].slot # s
      BY <1>2, <2>1 DEF Root
    <2>2. CASE \E g \in Handles : fil[g].open /\ fil[g].org = x
      <3> PICK g \in Handles : fil[g].open /\ fil[g].org = x
        BY <2>2
      <3>1. CASE g = h
        <4>1. fil[h].slot \in Slots
          BY <1>1 DEF Fils, Fil
        <4>2. DirNow[fil[h].slot].clust = x
          BY <3>1 DEF KeptInv, KeptAt, Stored
        <4>3. DirNow[fil[h].slot].name \in Names
          BY DEF Vol, ObjectsOK, ObjectOK
        <4>4. \A k \in Handles : fil'[k].open => fil'[k].slot # fil[h].slot
          BY <1>2 DEF Vol, ObjectsOK
        <4> QED
          BY <4>1, <4>2, <4>3, <4>4 DEF Root
      <3>2. CASE g # h
        BY <1>1, <3>2 DEF Root
      <3> QED
        BY <3>1, <3>2
    <2> QED
      BY <2>1, <2>2 DEF Root
  <1>4. \A x \in Clusters : ~Pending(pc, reg, x)
    BY DEF Pending
  <1>5. Reached(FatNow, DirNow, fil, pc, reg)
    BY DEF KeptInv, KeptAt
  <1>6. Reached(FatNow, DirNow', fil', pc', reg')
    BY <1>3, <1>4, <1>5, MoreRoots
  <1>7. Stored(DirNow', fil', pc', reg')
    BY <1>2 DEF KeptInv, KeptAt, Stored
  <1> QED
    BY <1>6, <1>7 DEF NextKept, KeptAt, Entered, Marked

\* A call begins, or f_close forgets a file object with nothing to store.
LEMMA CallKept ==
  ASSUME TypeOK, NowApart, "admin" \notin Habits, "abandon" \notin Habits, KeptInv, Call
  PROVE  NextKept
  <1> USE DEF Idle
  <1>1. /\ pc = "idle" /\ FatNow' = FatNow /\ DirNow' = DirNow /\ win' = win
        /\ fil \in Fils
    BY SameNow, NowTyped DEF Call, f_open, f_unlink, f_write, f_sync, f_close, Syncs, f_getfree,
       f_stat, f_utime, f_chmod, f_rename, f_opendir, Named, card
  <1>2. pc' \notin {"link", "flush"}
    BY <1>1 DEF Call, f_open, f_unlink, f_write, f_sync, f_close, Syncs, f_getfree,
       f_stat, f_utime, f_chmod, f_rename, f_opendir, Named, Begin, ScanFrom
  <1>3. CASE Similar(fil, fil')
    <2>1. Held(win', fil', pc')
      BY <1>1, <1>3, HeldStays DEF KeptInv, Changing
    <2> QED
      BY <1>1, <1>2, <1>3, <2>1, KeptQuiet
  <1>4. ASSUME NEW h \in Handles, NEW n \in Names, NEW mode \in Modes, f_open(h, n, mode)
        PROVE  Similar(fil, fil')
    <2>1. ~fil[h].open /\ fil' = [fil EXCEPT ![h] = Closed] /\ ~Closed.open
      BY <1>4 DEF f_open, Closed
    <2> QED
      BY <1>1, <2>1 DEF Similar, Fils
  <1>5. ASSUME NEW h \in Handles, f_write(h)
        PROVE  Similar(fil, fil')
    <2>1. \/ fil' = fil \/ fil' = [fil EXCEPT ![h].curr = fil[h].org]
          \/ fil' = [fil EXCEPT ![h].error = TRUE]
      BY <1>5 DEF f_write
    <2>2. \A g \in Handles : fil[g] \in Fil
      BY <1>1 DEF Fils
    <2> QED
      BY <1>1, <2>1, <2>2 DEF Similar, Fils, Fil
  <1>6. ASSUME NEW h \in Handles, NEW op, Syncs(h, op)
        PROVE  NextKept
    <2>1. CASE fil' = fil
      BY <1>3, <2>1 DEF Similar
    <2>2. CASE fil' = [fil EXCEPT ![h] = Closed] /\ ~fil[h].written
      <3>1. Closed.open = FALSE
        BY DEF Closed
      <3>2. \A g \in Handles : fil[g].open /\ fil[g].written => fil'[g] = fil[g]
        BY <1>1, <2>2 DEF Fils
      <3>3. Held(win', fil', pc')
        BY <1>1, <3>2 DEF KeptInv, Held, Changing
      <3> QED
        BY <1>1, <1>2, <1>6, <2>2, <3>3, CloseKept DEF Syncs
    <2> QED
      BY <1>6, <2>1, <2>2 DEF Syncs
  <1>7. CASE fil' = fil
    BY <1>3, <1>7 DEF Similar
  <1> QED
    BY <1>3, <1>4, <1>5, <1>6, <1>7 DEF Call, f_unlink, f_sync, f_close, f_getfree,
       f_stat, f_utime, f_chmod, f_rename, f_opendir, Named

\* Moving the window changes nothing the program sees, and marks nothing.
LEMMA MoveKept ==
  ASSUME TypeOK, WindowCoherent, NoFaults, KeptInv, move_window
  PROVE  NextKept
  <1>1. UNCHANGED <<fil, pc, reg>>
    BY DEF NoFaults, move_window, WriteBack, WriteCopy, ReadWindow
  <1>2. FatNow' = FatNow /\ DirNow' = DirNow /\ (win'.dirty => win.dirty)
    <2>1. CASE WriteBack
      BY <2>1, WrittenNow DEF WriteBack, NoFaults
    <2>2. CASE WriteCopy
      BY <2>2, SameNow DEF WriteCopy
    <2>3. CASE ReadWindow
      <3>1. FatNow = fat /\ DirNow = dir
        BY <2>3, CleanNow DEF ReadWindow, WindowCoherent
      <3>2. FatNow' = fat /\ DirNow' = dir /\ ~win'.dirty
        BY <2>3, ReadNow DEF ReadWindow, NoFaults, card, ReadSector
      <3> QED
        BY <3>1, <3>2
    <2> QED
      BY <2>1, <2>2, <2>3 DEF move_window
  <1>3. Similar(fil, fil')
    BY <1>1 DEF Similar
  <1>4. Held(win', fil', pc')
    BY <1>1, <1>2 DEF KeptInv, Held
  <1> QED
    BY <1>1, <1>2, <1>3, <1>4, KeptQuiet

\* f_open succeeds: the entry, as it is now, has the start of the object.
LEMMA OpenFileKept ==
  ASSUME TypeOK, KeptInv, NEW d \in Dirs, FatNow' = FatNow, DirNow' = d,
         pc \notin {"link", "data"},
         pc = "remove" => reg.clust \notin Clusters,
         reg.h \in Handles, ~fil[reg.h].open, reg.slot \in Slots,
         \A h \in Handles : fil[h].open => fil[h].slot # reg.slot,
         \A s \in Slots \ {reg.slot} : d[s] = DirNow[s],
         DirNow[reg.slot].name \in Names /\ DirNow[reg.slot].clust \in Clusters =>
             DirNow[reg.slot].clust = d[reg.slot].clust,
         NEW e, e.clust = d[reg.slot].clust, NEW created, OpenFile(e, created),
         Held(win', fil', pc')
  PROVE  NextKept
  <1> DEFINE h == reg.h
             s == reg.slot
  <1>1. fil \in Fils
    BY NowTyped
  <1>2. fil'[h].open /\ fil'[h].slot = s /\ fil'[h].org = e.clust
    BY <1>1 DEF OpenFile, Closed, Fils
  <1>3. \A g \in Handles \ {h} : fil'[g] = fil[g]
    BY <1>1 DEF OpenFile, Fils
  <1> HIDE DEF h
  <1>4. \A x \in Clusters : Root(DirNow, fil, pc, reg, x) => Root(d, fil', pc', reg', x)
    <2> TAKE x \in Clusters
    <2>1. ASSUME NEW z \in Slots, DirNow[z].name \in Names, DirNow[z].clust = x,
                 \A g \in Handles : fil[g].open => fil[g].slot # z
          PROVE  Root(d, fil', pc', reg', x)
      <3>1. CASE z = s
        BY <1>2, <2>1, <3>1 DEF Root, h
      <3>2. CASE z # s
        BY <1>2, <1>3, <2>1, <3>2 DEF Root
      <3> QED
        BY <3>1, <3>2
    <2>2. ASSUME NEW g \in Handles, fil[g].open, fil[g].org = x
          PROVE  Root(d, fil', pc', reg', x)
      BY <1>3, <2>2 DEF Root, h
    <2> QED
      BY <2>1, <2>2 DEF Root
  <1>5. \A x \in Clusters : ~Pending(pc, reg, x)
    BY DEF Pending
  <1>6. Reached(FatNow, DirNow, fil, pc, reg)
    BY DEF KeptInv, KeptAt
  <1>7. Reached(FatNow, d, fil', pc', reg')
    BY <1>4, <1>5, <1>6, MoreRoots
  <1>8. Stored(d, fil', pc', reg')
    <2> SUFFICES ASSUME NEW g \in Handles, fil'[g].open, ~fil'[g].written
                 PROVE  d[fil'[g].slot].clust = fil'[g].org
      BY DEF Stored
    <2>1. CASE g = h
      BY <1>2, <2>1
    <2>2. CASE g # h
      <3>1. fil'[g] = fil[g] /\ fil[g].slot # s /\ fil[g].slot \in Slots
        BY <1>1, <1>3, <2>2 DEF Fils, Fil
      <3>2. DirNow[fil[g].slot].clust = fil[g].org
        BY <3>1 DEF KeptInv, KeptAt, Stored
      <3> QED
        BY <3>1, <3>2
    <2> QED
      BY <2>1, <2>2
  <1>9. pc' = "idle"
    BY DEF OpenFile, Return
  <1> QED
    BY <1>7, <1>8, <1>9 DEF NextKept, KeptAt, Entered, Marked

LEMMA TraceKept ==
  ASSUME TypeOK, TypeOK', NowApart, KeptInv, TracePath
  PROVE  NextKept
  <1> PICK own \in Owners : /\ Vol(FatNow, DirNow, fil, own)
                            /\ Found(FatNow, DirNow, fil, own, pc, reg)
    BY DEF NowApart, Apart
  <1> DEFINE s == reg.slot
             e == win.dir[s]
  <1>1. /\ FatNow \in Tables /\ DirNow \in Dirs /\ fil \in Fils /\ reg \in Regs
        /\ s \in DirIn(win.sect) /\ s \in Slots /\ e = DirNow[s] /\ e \in Entry
    <2>1. s \in DirIn(win.sect)
      BY Shown DEF TracePath
    <2> QED
      BY <2>1, NowTyped, Showing DEF DirIn, Dirs
  <1>2. /\ pc = "trace" /\ reg.op \in {"open", "unlink"} /\ reg.n \in Names /\ reg.old = 0
        /\ reg.op = "open" => reg.h \in Handles /\ ~fil[reg.h].open
        /\ \A h \in Handles : fil[h].open => fil[h].name # reg.n
    BY DEF TracePath, Here, TypeOK, CallOK, Found
  <1>3. UNCHANGED <<fat, dir>>
    BY DEF TracePath, card
  <1>4. e.name = reg.n => \A h \in Handles : fil[h].open => fil[h].slot # s
    BY <1>1, <1>2, NotOpen
  <1> HIDE DEF e
  <1>5. CASE UNCHANGED <<win, fil>> /\ pc' \notin {"link", "flush"}
    <2>1. FatNow' = FatNow /\ DirNow' = DirNow
      BY <1>3, <1>5, SameNow
    <2>2. Similar(fil, fil')
      BY <1>5 DEF Similar
    <2>3. Held(win', fil', pc')
      BY <1>2, <1>5, <2>2, HeldStays DEF KeptInv, Changing
    <2> QED
      BY <1>2, <1>5, <2>1, <2>2, <2>3, KeptQuiet
  <1>6. CASE /\ e.name = reg.n /\ pc' = "remove" /\ reg'.clust = e.clust /\ fil' = fil
             /\ \E x : SetEntry(s, x)
    <2> PICK x : SetEntry(s, x)
      BY <1>6
    <2>1. FatNow' = FatNow /\ DirNow' = [DirNow EXCEPT ![s] = x]
      BY <1>1, <1>3, SetEntryNow
    <2>2. \A z \in Slots \ {s} : DirNow'[z] = DirNow[z]
      BY <1>1, <2>1 DEF Dirs
    <2>3. \A c \in Clusters : Root(DirNow, fil, pc, reg, c) => Root(DirNow', fil', pc', reg', c)
      <3> TAKE c \in Clusters
      <3>1. ASSUME NEW z \in Slots, DirNow[z].name \in Names, DirNow[z].clust = c,
                   \A h \in Handles : fil[h].open => fil[h].slot # z
            PROVE  Root(DirNow', fil', pc', reg', c)
        <4>1. CASE z = s
          BY <1>1, <1>6, <3>1, <4>1 DEF Root
        <4>2. CASE z # s
          BY <1>6, <2>2, <3>1, <4>2 DEF Root
        <4> QED
          BY <4>1, <4>2
      <3>2. ASSUME NEW h \in Handles, fil[h].open, fil[h].org = c
            PROVE  Root(DirNow', fil', pc', reg', c)
        BY <1>6, <3>2 DEF Root
      <3> QED
        BY <1>2, <3>1, <3>2 DEF Root
    <2>4. \A c \in Clusters : ~Pending(pc, reg, c)
      BY <1>2 DEF Pending
    <2>5. Reached(FatNow, DirNow, fil, pc, reg)
      BY DEF KeptInv, KeptAt
    <2>6. Reached(FatNow, DirNow', fil', pc', reg')
      BY <2>3, <2>4, <2>5, MoreRoots
    <2>7. Stored(DirNow', fil', pc', reg')
      <3> SUFFICES ASSUME NEW h \in Handles, fil[h].open, ~fil[h].written
                   PROVE  DirNow'[fil[h].slot].clust = fil[h].org
        BY <1>6 DEF Stored
      <3>1. fil[h].slot # s /\ fil[h].slot \in Slots
        BY <1>1, <1>4, <1>6 DEF Fils, Fil
      <3> QED
        BY <1>2, <2>2, <3>1 DEF KeptInv, KeptAt, Stored
    <2> QED
      BY <1>6, <2>1, <2>6, <2>7 DEF NextKept, KeptAt, Entered, Marked, Held, Changing
  <1>7. CASE /\ e.name = reg.n /\ reg.op = "open" /\ OpenFile(e, FALSE) /\ UNCHANGED win
    <2>1. FatNow' = FatNow /\ DirNow' = DirNow
      BY <1>3, <1>7, SameNow
    <2>2. pc' = "idle" /\ \A h \in Handles : fil[h].open => fil'[h] = fil[h]
      BY <1>1, <1>2, <1>7 DEF OpenFile, Return, Fils
    <2>3. Held(win', fil', pc')
      BY <1>2, <1>7, <2>2 DEF KeptInv, Held, Changing
    <2> QED
      BY <1>1, <1>2, <1>4, <1>7, <2>1, <2>3, OpenFileKept
  <1>8. \/ UNCHANGED <<win, fil>> /\ pc' \notin {"link", "flush"}
        \/ /\ e.name = reg.n /\ pc' = "remove" /\ reg'.clust = e.clust /\ fil' = fil
           /\ \E x : SetEntry(s, x)
        \/ e.name = reg.n /\ reg.op = "open" /\ OpenFile(e, FALSE) /\ UNCHANGED win
    BY <1>1, <1>2 DEF TracePath, NotFound, Return, Head, Regs, e
  <1> QED
    BY <1>5, <1>6, <1>7, <1>8

LEMMA ReserveKept ==
  ASSUME TypeOK, TypeOK', NowApart, KeptInv, ReserveEntry
  PROVE  NextKept
  <1> PICK own \in Owners : /\ Vol(FatNow, DirNow, fil, own)
                            /\ Found(FatNow, DirNow, fil, own, pc, reg)
    BY DEF NowApart, Apart
  <1> DEFINE s == reg.slot
             e == win.dir[s]
  <1>1. /\ FatNow \in Tables /\ DirNow \in Dirs /\ fil \in Fils /\ reg \in Regs
        /\ s \in DirIn(win.sect) /\ s \in Slots /\ e = DirNow[s] /\ e \in Entry
    <2>1. s \in DirIn(win.sect)
      BY Shown DEF ReserveEntry
    <2> QED
      BY <2>1, NowTyped, Showing DEF DirIn, Dirs
  <1>2. /\ pc = "reserve" /\ reg.op = "open" /\ reg.n \in Names
        /\ reg.h \in Handles /\ ~fil[reg.h].open
    BY DEF ReserveEntry, Here, TypeOK, CallOK, Found
  <1>3. UNCHANGED <<fat, dir>>
    BY DEF ReserveEntry, card
  <1> HIDE DEF e
  <1>4. CASE /\ e.name \in {End, Deleted}
             /\ SetEntry(s, Blank(reg.n)) /\ OpenFile(Blank(reg.n), TRUE)
    <2>1. \A h \in Handles : fil[h].open => fil[h].slot # s
      BY <1>1, <1>4, NotOpen, NameAssumption
    <2>2. FatNow' = FatNow /\ DirNow' = [DirNow EXCEPT ![s] = Blank(reg.n)]
      BY <1>1, <1>3, <1>4, SetEntryNow
    <2>3. /\ DirNow' \in Dirs /\ DirNow'[s] = Blank(reg.n)
          /\ \A z \in Slots \ {s} : DirNow'[z] = DirNow[z]
      BY <1>1, <1>2, <2>2, BlankTyped DEF Dirs
    <2>4. DirNow[s].name \notin Names
      BY <1>1, <1>4, NameAssumption
    <2>5. Held(win', fil', pc')
      <3>1. fil'[reg.h].open /\ fil'[reg.h].written
        BY <1>1, <1>2, <1>4 DEF OpenFile, Closed, Fils
      <3> QED
        BY <1>2, <3>1 DEF Held
    <2> QED
      BY <1>1, <1>2, <1>4, <2>1, <2>2, <2>3, <2>4, <2>5, OpenFileKept
  <1>5. CASE UNCHANGED <<win, fil>> /\ pc' \in {"reserve", "idle"}
    <2>1. FatNow' = FatNow /\ DirNow' = DirNow
      BY <1>3, <1>5, SameNow
    <2>2. Similar(fil, fil')
      BY <1>5 DEF Similar
    <2>3. Held(win', fil', pc')
      BY <1>2, <1>5, <2>2, HeldStays DEF KeptInv, Changing
    <2> QED
      BY <1>2, <1>5, <2>1, <2>2, <2>3, KeptQuiet
  <1>6. \/ /\ e.name \in {End, Deleted}
           /\ SetEntry(s, Blank(reg.n)) /\ OpenFile(Blank(reg.n), TRUE)
        \/ UNCHANGED <<win, fil>> /\ pc' \in {"reserve", "idle"}
    BY <1>1, <1>2 DEF ReserveEntry, Return, e
  <1> QED
    BY <1>4, <1>5, <1>6

\* The head of the chain that is removed goes, and the next cluster is a head.
LEMMA RemoveKept ==
  ASSUME TypeOK, NowApart, KeptInv, RemoveChain
  PROVE  NextKept
  <1>1. FatNow \in Tables /\ fil \in Fils /\ reg \in Regs /\ pc = "remove"
    BY NowTyped DEF RemoveChain, Here, ChainEnd
  <1>2. CASE /\ Here("remove") /\ SetLink(reg.clust, 0)
             /\ reg' = [reg EXCEPT !.clust = win.fat[reg.clust]]
             /\ UNCHANGED <<fat, dir, fil, pc>>
    <2> DEFINE c == reg.clust
               t2 == [FatNow EXCEPT ![c] = 0]
    <2>1. c \in Clusters
      BY <1>1, <1>2 DEF Here, Looking, ChainEnd
    <2>2. c \in FatIn(win.sect) /\ win.fat[c] = FatNow[c]
      BY <1>2, <2>1, Shown, Showing
    <2>3. FatNow' = t2 /\ DirNow' = DirNow
      BY <1>2, <2>2, SetLinkNow
    <2>4. reg'.clust = FatNow[c] /\ reg'.op = reg.op
      BY <1>1, <1>2, <2>2 DEF Regs
    <2> PICK rank \in Ranks : Ranked(FatNow, DirNow, fil, pc, reg, rank)
      BY DEF KeptInv, KeptAt, Reached
    <2>5. /\ t2[c] = 0 /\ \A x \in Clusters \ {c} : t2[x] = FatNow[x]
      BY <1>1, <2>1 DEF Tables
    <2> HIDE DEF t2
    <2>6. ASSUME NEW x \in Clusters, t2[x] # 0
          PROVE  Root(DirNow, fil, pc, reg', x) \/ After(t2, rank, x)
      <3>1. x # c /\ FatNow[x] # 0
        BY <2>5, <2>6
      <3>2. ~Pending(pc, reg, x)
        BY <1>1 DEF Pending
      <3>3. CASE Root(DirNow, fil, pc, reg, x)
        BY <3>1, <3>3 DEF Root
      <3>4. CASE After(FatNow, rank, x)
        <4> PICK y \in Clusters : FatNow[y] = x /\ rank[x] = rank[y] + 1
          BY <3>4 DEF After
        <4>1. CASE y = c
          BY <1>1, <2>4, <4>1 DEF Root
        <4>2. CASE y # c
          BY <2>5, <4>2 DEF After
        <4> QED
          BY <4>1, <4>2
      <3> QED
        BY <3>1, <3>2, <3>3, <3>4 DEF Ranked
    <2>7. Reached(FatNow', DirNow', fil', pc', reg')
      BY <1>2, <2>3, <2>6 DEF Reached, Ranked
    <2>8. Stored(DirNow', fil', pc', reg')
      BY <1>1, <1>2, <2>3 DEF KeptInv, KeptAt, Stored
    <2> QED
      BY <1>1, <1>2, <2>7, <2>8 DEF NextKept, KeptAt, Entered, Marked, Held, Changing
  <1>3. CASE /\ reg.clust \notin Clusters /\ UNCHANGED <<fat, dir, fil, reg>>
             /\ \/ reg.op = "unlink" /\ pc' = "flush" /\ win' = [win EXCEPT !.dirty = TRUE]
                \/ pc' = "reopen" /\ win' = win
    <2>1. FatNow' = FatNow /\ DirNow' = DirNow
      BY <1>3, SameNow
    <2>2. Similar(fil, fil') /\ Held(win', fil', pc')
      BY <1>3 DEF Similar, Held, Changing
    <2> QED
      BY <1>1, <1>3, <2>1, <2>2, KeptQuiet
  <1> QED
    BY <1>2, <1>3 DEF RemoveChain, ChainEnd, card

LEMMA ReopenKept ==
  ASSUME TypeOK, TypeOK', NowApart, KeptInv, Reopen
  PROVE  NextKept
  <1> PICK own \in Owners : /\ Vol(FatNow, DirNow, fil, own)
                            /\ Found(FatNow, DirNow, fil, own, pc, reg)
    BY DEF NowApart, Apart
  <1>1. /\ FatNow' = FatNow /\ DirNow' = DirNow /\ DirNow \in Dirs /\ reg.slot \in Slots
        /\ fil \in Fils
    BY NowTyped, SameNow DEF Reopen, card, Regs
  <1>2. /\ pc = "reopen" /\ reg.op = "open" /\ reg.h \in Handles /\ reg.n \in Names
        /\ ~fil[reg.h].open
    BY DEF Reopen, Here, TypeOK, CallOK, Found
  <1>3. /\ DirNow[reg.slot] = Blank(reg.n)
        /\ \A h \in Handles : fil[h].open => fil[h].name # reg.n
    BY <1>2 DEF Found
  <1>4. DirNow[reg.slot].name = reg.n /\ Blank(reg.n).clust = DirNow[reg.slot].clust
    BY <1>3 DEF Blank
  <1>5. \A h \in Handles : fil[h].open => fil[h].slot # reg.slot
    BY <1>1, <1>3, <1>4, NotOpen
  <1>6. OpenFile(Blank(reg.n), TRUE)
    BY DEF Reopen
  <1>7. Held(win', fil', pc')
    <2>1. fil'[reg.h].open /\ fil'[reg.h].written
      BY <1>1, <1>2, <1>6 DEF OpenFile, Closed, Fils
    <2> QED
      BY <1>2, <2>1 DEF Held
  <1> QED
    BY <1>1, <1>2, <1>4, <1>5, <1>6, <1>7, OpenFileKept

\* f_write has a cluster: an open file object that had no start gets one, and
\* the call is at its data.
LEMMA WriteToKept ==
  ASSUME TypeOK, KeptInv, NEW c \in Clusters, WriteTo(c), reg.h \in Handles,
         pc \in {"stat", "scan", "link"}, DirNow' = DirNow,
         Reached(FatNow', DirNow, fil', pc', reg')
  PROVE  NextKept
  <1>1. fil \in Fils /\ pc' = "data" /\ reg' = reg
    BY NowTyped DEF WriteTo
  <1>2. /\ \A g \in Handles \ {reg.h} : fil'[g] = fil[g]
    BY <1>1 DEF WriteTo, Fils
  <1>3. Stored(DirNow', fil', pc', reg')
    BY <1>1, <1>2 DEF KeptInv, KeptAt, Stored
  <1> QED
    BY <1>1, <1>3 DEF NextKept, KeptAt, Entered, Marked, Held, Changing

\* The start changes at most from none to c.
LEMMA WriteToRoots ==
  ASSUME TypeOK, NEW c \in Clusters, WriteTo(c), reg.h \in Handles, pc # "remove"
  PROVE  /\ \A x \in Clusters : Root(DirNow, fil, pc, reg, x) => Root(DirNow, fil', pc', reg', x)
         /\ fil[reg.h].open /\ fil[reg.h].org = 0 => Root(DirNow, fil', pc', reg', c)
  <1>1. fil \in Fils
    BY NowTyped
  <1>2. \A g \in Handles : /\ fil'[g].open = fil[g].open /\ fil'[g].slot = fil[g].slot
                           /\ fil[g].org # 0 => fil'[g].org = fil[g].org
    BY <1>1 DEF WriteTo, Fils, Fil
  <1>3. fil[reg.h].org = 0 => fil'[reg.h].org = c
    BY <1>1 DEF WriteTo, Fils, Fil
  <1>4. \A x \in Clusters : Root(DirNow, fil, pc, reg, x) => Root(DirNow, fil', pc', reg', x)
    BY <1>2, Special DEF Root
  <1>5. fil[reg.h].open /\ fil[reg.h].org = 0 => Root(DirNow, fil', pc', reg', c)
    BY <1>2, <1>3 DEF Root
  <1> QED
    BY <1>4, <1>5

\* The chain goes on, or the search for a cluster begins; a cluster in use
\* never leads to a free one, so create_chain has nothing to complain of.
LEMMA StatKept ==
  ASSUME TypeOK, NowApart, KeptInv, ChainStat
  PROVE  NextKept
  <1> PICK own \in Owners : /\ Vol(FatNow, DirNow, fil, own)
                            /\ Found(FatNow, DirNow, fil, own, pc, reg)
    BY DEF NowApart, Apart
  <1> DEFINE c == reg.clust
             next == win.fat[c]
  <1>1. FatNow' = FatNow /\ DirNow' = DirNow /\ win' = win
    BY SameNow DEF ChainStat, card
  <1>2. pc = "stat" /\ reg.op = "write" /\ reg.h \in Handles /\ c \in Clusters
    BY DEF ChainStat, Here, TypeOK, CallOK
  <1>3. next = FatNow[c]
    BY <1>2, Shown, Showing DEF ChainStat
  <1>4. next # 0
    BY <1>2, <1>3 DEF Found, Vol, ObjectsOK, ObjectOK
  <1> HIDE DEF next
  <1>5. CASE next \in Clusters /\ WriteTo(next)
    <2>1. \A x \in Clusters : Root(DirNow, fil, pc, reg, x) => Root(DirNow, fil', pc', reg', x)
      BY <1>2, <1>5, WriteToRoots
    <2>2. \A x \in Clusters : ~Pending(pc, reg, x)
      BY <1>2 DEF Pending
    <2>3. Reached(FatNow, DirNow, fil, pc, reg)
      BY DEF KeptInv, KeptAt
    <2>4. Reached(FatNow, DirNow, fil', pc', reg')
      BY <2>1, <2>2, <2>3, MoreRoots
    <2> QED
      BY <1>1, <1>2, <1>5, <2>4, WriteToKept
  <1>6. CASE ScanFrom(c, reg) /\ UNCHANGED fil
    <2>1. pc' = "scan" /\ Similar(fil, fil')
      BY <1>6 DEF ScanFrom, Begin, Similar
    <2>2. Held(win', fil', pc')
      BY <2>1 DEF Held, Changing
    <2> QED
      BY <1>1, <1>2, <2>1, <2>2, KeptQuiet
  <1> QED
    BY <1>4, <1>5, <1>6 DEF ChainStat, next

LEMMA FullKept ==
  ASSUME TypeOK, NowApart, KeptInv, DiskFull, pc = "scan",
         FatNow' = FatNow, DirNow' = DirNow
  PROVE  NextKept
  <1> PICK own \in Owners : Found(FatNow, DirNow, fil, own, pc, reg)
    BY DEF NowApart, Apart
  <1>1. reg.op = "write" /\ reg.h \in Handles /\ fil \in Fils /\ fil[reg.h].open
    BY NowTyped DEF TypeOK, CallOK, Found
  <1>2. \A g \in Handles : /\ fil'[g].open = fil[g].open /\ fil'[g].slot = fil[g].slot
                           /\ fil'[g].org = fil[g].org
                           /\ fil'[g].written = (g = reg.h \/ fil[g].written)
    BY <1>1 DEF DiskFull, Fils, Fil
  <1>3. Similar(fil, fil')
    BY <1>2 DEF Similar
  <1>4. Held(win', fil', pc')
    BY <1>1, <1>2 DEF Held
  <1>5. pc' = "idle"
    BY DEF DiskFull, Return
  <1> QED
    BY <1>3, <1>4, <1>5, KeptQuiet

\* A free cluster is marked: it is the head of the file, or still pending.
LEMMA ScanKept ==
  ASSUME TypeOK, NowApart, KeptInv, ChainScan
  PROVE  NextKept
  <1> PICK own \in Owners : /\ Vol(FatNow, DirNow, fil, own)
                            /\ Found(FatNow, DirNow, fil, own, pc, reg)
    BY DEF NowApart, Apart
  <1> DEFINE n == reg.ncl
  <1>1. /\ pc = "scan" /\ reg.op = "write" /\ reg.h \in Handles /\ fil[reg.h].open
        /\ reg \in Regs /\ FatNow \in Tables /\ fil \in Fils
    BY NowTyped DEF ChainScan, ScanEnd, Here, TypeOK, CallOK, Found
  <1>2. CASE DiskFull /\ UNCHANGED <<fat, dir, win>>
    BY <1>1, <1>2, SameNow, FullKept
  <1>3. CASE UNCHANGED <<fil, pc, fat, dir, win>>
    <2>1. FatNow' = FatNow /\ DirNow' = DirNow /\ Similar(fil, fil')
      BY <1>3, SameNow DEF Similar
    <2>2. Held(win', fil', pc')
      BY <1>3 DEF KeptInv, Held
    <2> QED
      BY <1>1, <1>3, <2>1, <2>2, KeptQuiet
  <1>4. CASE /\ Here("scan") /\ win.fat[n] = 0 /\ SetLink(n, Eoc)
             /\ UNCHANGED <<fat, dir>>
             /\ \/ reg.clust = 0 /\ WriteTo(n)
                \/ reg.clust # 0 /\ pc' = "link" /\ UNCHANGED <<fil, reg>>
    <2> DEFINE t2 == [FatNow EXCEPT ![n] = Eoc]
    <2>1. n \in FatIn(win.sect) /\ n \in Clusters /\ FatNow[n] = 0
      BY <1>4, Shown, Showing DEF FatIn
    <2>2. FatNow' = t2 /\ DirNow' = DirNow
      BY <1>4, <2>1, SetLinkNow
    <2>3. t2[n] = Eoc /\ \A x \in Clusters \ {n} : t2[x] = FatNow[x]
      BY <1>1, <2>1 DEF Tables
    <2> HIDE DEF t2, n
    <2> PICK rank \in Ranks : Ranked(FatNow, DirNow, fil, pc, reg, rank)
      BY DEF KeptInv, KeptAt, Reached
    <2>4. ASSUME NEW x \in Clusters \ {n}, t2[x] # 0
          PROVE  Root(DirNow, fil, pc, reg, x) \/ After(t2, rank, x)
      <3>1. ~Pending(pc, reg, x)
        BY <1>1 DEF Pending
      <3>2. After(FatNow, rank, x) => After(t2, rank, x)
        BY <2>1, <2>3, Special DEF After
      <3> QED
        BY <2>3, <2>4, <3>1, <3>2 DEF Ranked
    <2>5. CASE reg.clust = 0 /\ WriteTo(n)
      <3>1. fil[reg.h].org = 0
        BY <1>1, <2>5 DEF Found
      <3>2. /\ Root(DirNow, fil', pc', reg', n)
            /\ \A x \in Clusters : Root(DirNow, fil, pc, reg, x) => Root(DirNow, fil', pc', reg', x)
        BY <1>1, <2>1, <2>5, <3>1, WriteToRoots
      <3>3. Ranked(t2, DirNow, fil', pc', reg', rank)
        BY <2>4, <3>2 DEF Ranked
      <3>4. Reached(FatNow', DirNow, fil', pc', reg')
        BY <2>2, <3>3 DEF Reached
      <3> QED
        BY <1>1, <2>1, <2>2, <2>5, <3>4, WriteToKept
    <2>6. CASE reg.clust # 0 /\ pc' = "link" /\ UNCHANGED <<fil, reg>>
      <3>1. \A x \in Clusters : Root(DirNow, fil, pc, reg, x) => Root(DirNow, fil', pc', reg', x)
        BY <1>1, <2>6 DEF Root
      <3>2. Pending(pc', reg', n)
        BY <2>6 DEF Pending, n
      <3>3. Ranked(t2, DirNow, fil', pc', reg', rank)
        BY <2>4, <3>1, <3>2 DEF Ranked
      <3>4. Reached(FatNow', DirNow', fil', pc', reg')
        BY <2>2, <3>3 DEF Reached
      <3>5. Stored(DirNow', fil', pc', reg')
        BY <1>1, <2>2, <2>6 DEF KeptInv, KeptAt, Stored
      <3>6. Marked(FatNow', pc', reg')
        BY <2>2, <2>3, <2>6 DEF Marked, n
      <3> QED
        BY <2>6, <3>4, <3>5, <3>6 DEF NextKept, KeptAt, Entered, Held, Changing
    <2> QED
      BY <1>4, <2>5, <2>6
  <1> QED
    BY <1>2, <1>3, <1>4 DEF ChainScan, InUse, card

\* The pending cluster is linked behind the last one of the chain.
LEMMA LinkKept ==
  ASSUME TypeOK, NowApart, KeptInv, ChainLink
  PROVE  NextKept
  <1> PICK own \in Owners : Found(FatNow, DirNow, fil, own, pc, reg)
    BY DEF NowApart, Apart
  <1> DEFINE c == reg.clust
             n == reg.ncl
             t2 == [FatNow EXCEPT ![c] = n]
  <1>1. /\ pc = "link" /\ reg.op = "write" /\ reg.h \in Handles /\ n \in Clusters
        /\ FatNow \in Tables
    BY NowTyped DEF ChainLink, Here, TypeOK, CallOK
  <1>2. c # n /\ c \in Clusters /\ FatNow[c] = Eoc
    BY <1>1 DEF Found
  <1>3. FatNow[n] = Eoc
    BY <1>1 DEF KeptInv, KeptAt, Marked
  <1>4. c \in FatIn(win.sect)
    BY <1>2, Shown DEF ChainLink
  <1>5. FatNow' = t2 /\ DirNow' = DirNow
    BY <1>4, SetLinkNow DEF ChainLink, card
  <1>6. t2[c] = n /\ \A x \in Clusters \ {c} : t2[x] = FatNow[x]
    BY <1>1, <1>2 DEF Tables
  <1>7. WriteTo(n)
    BY DEF ChainLink
  <1>8. \A x \in Clusters : Root(DirNow, fil, pc, reg, x) => Root(DirNow, fil', pc', reg', x)
    BY <1>1, <1>7, WriteToRoots
  <1> PICK rank \in Ranks : Ranked(FatNow, DirNow, fil, pc, reg, rank)
    BY DEF KeptInv, KeptAt, Reached
  <1> DEFINE rank2 == [rank EXCEPT ![n] = rank[c] + 1]
  <1>9. /\ rank2 \in Ranks /\ rank2[n] = rank2[c] + 1
        /\ \A x \in Clusters \ {n} : rank2[x] = rank[x]
    BY <1>1, <1>2 DEF Ranks
  <1>10. ASSUME NEW x \in Clusters, t2[x] # 0
         PROVE  Root(DirNow, fil', pc', reg', x) \/ After(t2, rank2, x)
    <2> HIDE DEF t2, rank2
    <2>1. CASE x = n
      BY <1>2, <1>6, <1>9, <2>1 DEF After
    <2>2. CASE x # n
      <3>1. FatNow[x] # 0
        BY <1>2, <1>6, <1>10, Special
      <3>2. ~Pending(pc, reg, x)
        BY <2>2 DEF Pending
      <3>3. After(FatNow, rank, x) => After(t2, rank2, x)
        <4> SUFFICES ASSUME NEW e \in Clusters, FatNow[e] = x, rank[x] = rank[e] + 1
                     PROVE  After(t2, rank2, x)
          BY DEF After
        <4>1. e # c /\ e # n
          BY <1>2, <1>3, Special
        <4> QED
          BY <1>6, <1>9, <2>2, <4>1 DEF After
      <3> QED
        BY <1>8, <3>1, <3>2, <3>3 DEF Ranked
    <2> QED
      BY <2>1, <2>2
  <1> HIDE DEF t2, rank2
  <1>11. Reached(FatNow', DirNow, fil', pc', reg')
    BY <1>5, <1>9, <1>10 DEF Reached, Ranked
  <1> QED
    BY <1>1, <1>5, <1>7, <1>11, WriteToKept

LEMMA DataKept ==
  ASSUME TypeOK, NowApart, NoFaults, KeptInv, WriteData
  PROVE  NextKept
  <1> PICK own \in Owners : Found(FatNow, DirNow, fil, own, pc, reg)
    BY DEF NowApart, Apart
  <1>1. pc = "data" /\ reg.h \in Handles /\ fil \in Fils
    BY NowTyped DEF WriteData, TypeOK, CallOK
  <1>2. fil[reg.h].open
    BY <1>1 DEF Found, TypeOK, CallOK
  <1>3. FatNow' = FatNow /\ DirNow' = DirNow
    BY SameNow DEF WriteData
  <1>4. \E k, m : fil' = [fil EXCEPT ![reg.h] =
                    [fil[reg.h] EXCEPT !.fptr = k, !.written = TRUE, !.changed = TRUE,
                                       !.failed = FALSE, !.fsize = m]]
    <2>1. fil' = [fil EXCEPT ![reg.h] =
                    [fil[reg.h] EXCEPT !.fptr = @ + 1, !.written = TRUE, !.changed = TRUE,
                          !.failed = FALSE,
                          !.fsize = IF fil[reg.h].fptr + 1 > @ THEN fil[reg.h].fptr + 1 ELSE @]]
      BY DEF WriteData, NoFaults
    <2> QED
      BY <2>1
  <1>5. \A g \in Handles : /\ fil'[g].open = fil[g].open /\ fil'[g].slot = fil[g].slot
                           /\ fil'[g].org = fil[g].org
                           /\ fil'[g].written = (g = reg.h \/ fil[g].written)
    <2> PICK k, m : fil' = [fil EXCEPT ![reg.h] =
                    [fil[reg.h] EXCEPT !.fptr = k, !.written = TRUE, !.changed = TRUE,
                                       !.failed = FALSE, !.fsize = m]]
      BY <1>4
    <2> QED
      BY <1>1 DEF Fils, Fil
  <1>6. Similar(fil, fil') /\ fil'[reg.h].written
    BY <1>1, <1>5 DEF Similar
  <1>7. Held(win', fil', pc')
    BY <1>1, <1>2, <1>5 DEF Held
  <1>8. pc' = "idle"
    BY DEF WriteData, Return
  <1> QED
    BY <1>1, <1>3, <1>6, <1>7, <1>8, KeptQuiet

\* The entry gets the start of the file object.
LEMMA EntryKept ==
  ASSUME TypeOK, NowApart, KeptInv, SyncEntry
  PROVE  NextKept
  <1> PICK own \in Owners : /\ Vol(FatNow, DirNow, fil, own)
                            /\ Found(FatNow, DirNow, fil, own, pc, reg)
    BY DEF NowApart, Apart
  <1> DEFINE f == fil[reg.h]
             s == reg.slot
             e == [win.dir[s] EXCEPT !.clust = f.org, !.size = f.fsize]
  <1>1. /\ pc = "entry" /\ reg.op \in {"sync", "close"} /\ reg.h \in Handles
        /\ s \in DirIn(win.sect)
    BY Shown DEF SyncEntry, Here, TypeOK, CallOK
  <1>2. f.open /\ s = f.slot /\ fil \in Fils /\ DirNow \in Dirs /\ s \in Slots
    BY <1>1, NowTyped DEF Found, DirIn
  <1>3. win.dir[s] = DirNow[s] /\ DirNow[s] \in Entry
    BY <1>1, <1>2, Showing DEF Dirs
  <1>4. e.clust = f.org
    BY <1>3 DEF Entry
  <1>5. SetEntry(s, e)
    BY <1>1 DEF SyncEntry, SetEntry, TypeOK, Window
  <1> HIDE DEF e
  <1>6. DirNow' = [DirNow EXCEPT ![s] = e] /\ FatNow' = FatNow
    BY <1>1, <1>5, SetEntryNow DEF SyncEntry, card
  <1>7. DirNow'[s].clust = f.org /\ \A z \in Slots \ {s} : DirNow'[z] = DirNow[z]
    BY <1>2, <1>4, <1>6 DEF Dirs
  <1>8. \A g \in Handles : /\ fil'[g].open = fil[g].open /\ fil'[g].slot = fil[g].slot
                           /\ fil'[g].org = fil[g].org
                           /\ g # reg.h => fil'[g].written = fil[g].written
    BY <1>1, <1>2 DEF SyncEntry, Fils, Fil
  <1>9. fil'[reg.h].written = FALSE
    BY <1>1, <1>2 DEF SyncEntry, Fils, Fil
  <1>10. \A x \in Clusters : Root(DirNow, fil, pc, reg, x) => Root(DirNow', fil', pc', reg', x)
    <2> TAKE x \in Clusters
    <2>1. ASSUME NEW z \in Slots, DirNow[z].name \in Names, DirNow[z].clust = x,
                 \A h \in Handles : fil[h].open => fil[h].slot # z
          PROVE  Root(DirNow', fil', pc', reg', x)
      <3>1. z # s
        BY <1>1, <1>2, <2>1
      <3> QED
        BY <1>7, <1>8, <2>1, <3>1 DEF Root
    <2>2. ASSUME NEW h \in Handles, fil[h].open, fil[h].org = x
          PROVE  Root(DirNow', fil', pc', reg', x)
      BY <1>8, <2>2 DEF Root
    <2> QED
      BY <1>1, <2>1, <2>2 DEF Root
  <1>11. \A x \in Clusters : ~Pending(pc, reg, x)
    BY <1>1 DEF Pending
  <1>12. Reached(FatNow, DirNow, fil, pc, reg)
    BY DEF KeptInv, KeptAt
  <1>13. Reached(FatNow, DirNow', fil', pc', reg')
    BY <1>10, <1>11, <1>12, MoreRoots
  <1>14. Stored(DirNow', fil', pc', reg')
    <2> SUFFICES ASSUME NEW g \in Handles, fil'[g].open, ~fil'[g].written
                 PROVE  DirNow'[fil'[g].slot].clust = fil'[g].org
      BY DEF Stored
    <2>1. CASE g = reg.h
      BY <1>1, <1>2, <1>7, <1>8, <2>1
    <2>2. CASE g # reg.h
      <3>1. fil[g].open /\ ~fil[g].written /\ fil[g].slot \in Slots
        BY <1>2, <1>8, <2>2 DEF Fils, Fil
      <3>2. fil[g].slot # s
        BY <1>1, <1>2, <2>2, <3>1 DEF Vol, ObjectsOK
      <3> QED
        BY <1>1, <1>7, <1>8, <3>1, <3>2 DEF KeptInv, KeptAt, Stored
    <2> QED
      BY <2>1, <2>2
  <1>15. pc' = "flush" /\ reg' = reg
    BY DEF SyncEntry
  <1> QED
    BY <1>6, <1>9, <1>13, <1>14, <1>15 DEF NextKept, KeptAt, Entered, Marked, Held, Changing

LEMMA SyncedKept ==
  ASSUME TypeOK, WindowCoherent, NowApart, KeptInv, Synced
  PROVE  NextKept
  <1> PICK own \in Owners : Found(FatNow, DirNow, fil, own, pc, reg)
    BY DEF NowApart, Apart
  <1>1. FatNow' = FatNow /\ DirNow' = DirNow /\ pc = "flush" /\ pc' = "idle"
    BY SameNow DEF Synced, card, Flushed, Return
  <1>2. ~win'.dirty
    BY DEF Synced, Flushed, WindowCoherent
  <1>3. Held(win', fil', pc')
    BY <1>2 DEF Held
  <1>4. CASE fil' = fil
    <2>1. Similar(fil, fil')
      BY <1>4 DEF Similar
    <2> QED
      BY <1>1, <1>3, <2>1, KeptQuiet
  <1>5. CASE fil' = [fil EXCEPT ![reg.h] = Closed] /\ reg.op = "close"
    <2>1. reg.h \in Handles /\ fil[reg.h].open
      BY <1>5 DEF TypeOK, CallOK, Found
    <2>2. ~fil[reg.h].written
      BY <1>1, <1>5 DEF KeptInv, KeptAt, Entered
    <2> QED
      BY <1>1, <1>3, <1>5, <2>1, <2>2, CloseKept
  <1> QED
    BY <1>4, <1>5 DEF Synced

\* f_getfree counts; the root directory is not listed and nothing is renamed.
LEMMA OtherKept ==
  ASSUME TypeOK, NowApart, KeptInv, CountFree \/ f_readdir \/ EraseOld
  PROVE  NextKept
  <1>1. ~EraseOld
    <2>1. EraseOld => reg.op = "rename"
      BY DEF EraseOld, Here, TypeOK, CallOK
    <2>2. reg.op # "rename"
      BY DEF NowApart, Apart, Found
    <2> QED
      BY <2>1, <2>2
  <1>2. /\ FatNow' = FatNow /\ DirNow' = DirNow /\ win' = win /\ fil' = fil
        /\ pc \in {"count", "list"} /\ pc' \in {pc, "idle"}
    BY <1>1, SameNow DEF CountFree, f_readdir, card, Here, Return
  <1>3. Similar(fil, fil')
    BY <1>2 DEF Similar
  <1>4. Held(win', fil', pc')
    BY <1>2, <1>3, HeldStays DEF KeptInv, Changing
  <1> QED
    BY <1>2, <1>3, <1>4, KeptQuiet

\* The volume is mounted again while nothing is open: nothing was held back.
LEMMA MountKept ==
  ASSUME TypeOK, WindowCoherent, NowApart, "abandon" \notin Habits, KeptInv, f_mount
  PROVE  NextKept
  <1>1. pc = "idle" /\ \A h \in Handles : ~fil[h].open
    BY DEF f_mount, Idle
  <1>2. ~win.dirty
    BY <1>1 DEF KeptInv, Held, Changing
  <1>3. FatNow = fat /\ DirNow = dir
    BY <1>2, CleanNow DEF WindowCoherent
  <1>4. FatNow' = FatNow /\ DirNow' = DirNow
    BY <1>3, ReadNow DEF f_mount, Restart, card
  <1>5. Similar(fil, fil') /\ pc' = "idle"
    BY <1>1 DEF f_mount, Restart, Similar, Closed, Return
  <1>6. Held(win', fil', pc')
    BY DEF f_mount, Restart, ReadSector, Held
  <1> QED
    BY <1>1, <1>4, <1>5, <1>6, KeptQuiet

LEMMA NextKeeps ==
  ASSUME TypeOK, TypeOK', WindowCoherent, NowApart, KeptInv, [Next]_vars,
         "admin" \notin Habits, NoFaults, AllCloses
  PROVE  KeptInv'
  <1>1. NextKept
    <2>1. CASE Call
      BY <2>1, CallKept DEF AllCloses
    <2>2. CASE Step
      BY <2>2, MoveKept, TraceKept, ReserveKept, RemoveKept, ReopenKept, StatKept, ScanKept,
         LinkKept, DataKept, EntryKept, SyncedKept, OtherKept DEF Step
    <2>3. CASE f_mount
      BY <2>3, MountKept DEF AllCloses
    <2>4. CASE UNCHANGED vars
      <3>1. FatNow' = FatNow /\ DirNow' = DirNow /\ Similar(fil, fil')
        BY <2>4, SameNow DEF vars, card, Similar
      <3>2. Held(win', fil', pc')
        BY <2>4 DEF vars, KeptInv, Held
      <3> QED
        BY <2>4, <3>1, <3>2, KeptQuiet DEF vars
    <2> QED
      BY <2>1, <2>2, <2>3, <2>4 DEF Next, Crash, AllCloses
  <1> QED
    BY <1>1 DEF NextKept, KeptInv

-----------------------------------------------------------------------------
(* From the numbers to the chains.                                         *)

\* Every set of numbers that is not empty has a least one.
LEMMA LeastNumber ==
  ASSUME NEW T \in SUBSET Nat, T # {}
  PROVE  \E x \in T : \A y \in T : x <= y
  <1> DEFINE R == OpToRel(<, Nat)
  <1>1. IsWellFoundedOn(R, Nat)
    BY NatLessThanWellFounded
  <1>2. \A x, y \in Nat : <<x, y>> \in R <=> x < y
    BY DEF OpToRel
  <1> HIDE DEF R
  <1>3. PICK x \in T : \A y \in T : ~ (<<y, x>> \in R)
    BY <1>1, WFMin
  <1>4. ASSUME NEW y \in T PROVE x <= y
    <2>1. x \in Nat /\ y \in Nat /\ ~(y < x)
      BY <1>2, <1>3
    <2> QED
      BY <2>1
  <1> QED
    BY <1>4

\* A set of numbers with 0 and every successor is Nat.
LEMMA AllNumbers ==
  ASSUME NEW P \in SUBSET Nat, 0 \in P, \A n \in P : n + 1 \in P
  PROVE  P = Nat
  <1> SUFFICES ASSUME P # Nat PROVE FALSE
    OBVIOUS
  <1>1. PICK x \in Nat \ P : \A y \in Nat \ P : x <= y
    BY LeastNumber
  <1>2. x - 1 \in Nat /\ x - 1 \in P
    BY <1>1
  <1> QED
    BY <1>1, <1>2

\* w leads along links from x to c, in k steps, and the numbers count them.
Walk(t, rank, w, x, k, c) ==
    /\ w \in [0 .. k -> Clusters] /\ w[0] = x /\ w[k] = c
    /\ \A i \in 1 .. k : t[w[i - 1]] = w[i]
    /\ \A i \in 0 .. k : rank[w[i]] = rank[x] + i

\* Every cluster in use is at the end of a walk from a head.
LEMMA WalksExist ==
  ASSUME NEW t \in Tables, NEW rank \in Ranks, NEW S,
         \A x \in Clusters : t[x] # 0 => x \in S \/ After(t, rank, x)
  PROVE  \A c \in Clusters : t[c] # 0 =>
             \E x \in S, k \in Nat : \E w : Walk(t, rank, w, x, k, c)
  <1> DEFINE Led(c) == \E x \in S, k \in Nat : \E w : Walk(t, rank, w, x, k, c)
             P == {n \in Nat : \A c \in Clusters : t[c] # 0 /\ rank[c] = n => Led(c)}
  <1>0. \A c \in Clusters : rank[c] \in Nat
    BY DEF Ranks
  <1>1. ASSUME NEW c \in Clusters \cap S PROVE Led(c)
    <2> DEFINE w == [i \in 0 .. 0 |-> c]
    <2>1. Walk(t, rank, w, c, 0, c)
      BY <1>0 DEF Walk
    <2> HIDE DEF w
    <2> QED
      BY <2>1
  <1>2. ASSUME NEW e \in Clusters, NEW c \in Clusters, Led(e), t[e] = c, rank[c] = rank[e] + 1
        PROVE  Led(c)
    <2> PICK x \in S, k \in Nat : \E w : Walk(t, rank, w, x, k, e)
      BY <1>2
    <2>1. PICK w : Walk(t, rank, w, x, k, e)
      OBVIOUS
    <2> DEFINE w2 == [i \in 0 .. k + 1 |-> IF i = k + 1 THEN c ELSE w[i]]
    <2>2. w2 \in [0 .. k + 1 -> Clusters] /\ w2[0] = x /\ w2[k + 1] = c
      BY <2>1 DEF Walk
    <2>3. \A i \in 1 .. k + 1 : t[w2[i - 1]] = w2[i]
      <3> TAKE i \in 1 .. k + 1
      <3>1. CASE i = k + 1
        <4>1. w2[i - 1] = e
          BY <2>1, <3>1 DEF Walk
        <4> QED
          BY <1>2, <2>2, <3>1, <4>1
      <3>2. CASE i # k + 1
        <4>1. i \in 1 .. k /\ i - 1 \in 0 .. k /\ i - 1 # k + 1
          BY <3>2
        <4>2. w2[i - 1] = w[i - 1] /\ w2[i] = w[i]
          BY <3>2, <4>1
        <4> QED
          BY <2>1, <4>1, <4>2 DEF Walk
      <3> QED
        BY <3>1, <3>2
    <2>4. \A i \in 0 .. k + 1 : rank[w2[i]] = rank[x] + i
      <3> TAKE i \in 0 .. k + 1
      <3>0. x \in Clusters /\ rank[x] \in Nat
        BY <1>0, <2>1 DEF Walk
      <3>1. CASE i = k + 1
        <4>1. rank[e] = rank[x] + k
          BY <2>1 DEF Walk
        <4> QED
          BY <1>2, <2>2, <3>0, <3>1, <4>1
      <3>2. CASE i # k + 1
        BY <2>1, <3>2 DEF Walk
      <3> QED
        BY <3>1, <3>2
    <2> HIDE DEF w2
    <2>5. Walk(t, rank, w2, x, k + 1, c)
      BY <2>2, <2>3, <2>4 DEF Walk
    <2> QED
      BY <2>5
  <1> HIDE DEF Led
  <1>3. 0 \in P
    <2> SUFFICES ASSUME NEW c \in Clusters, t[c] # 0, rank[c] = 0 PROVE Led(c)
      OBVIOUS
    <2>1. ~After(t, rank, c)
      <3> SUFFICES ASSUME NEW e \in Clusters, rank[c] = rank[e] + 1 PROVE FALSE
        BY DEF After
      <3> QED
        BY <1>0
    <2> QED
      BY <1>1, <2>1
  <1>4. ASSUME NEW n \in P PROVE n + 1 \in P
    <2> SUFFICES ASSUME NEW c \in Clusters, t[c] # 0, rank[c] = n + 1 PROVE Led(c)
      OBVIOUS
    <2>1. CASE After(t, rank, c)
      <3> PICK e \in Clusters : t[e] = c /\ rank[c] = rank[e] + 1
        BY <2>1 DEF After
      <3>1. rank[e] = n
        BY <1>0
      <3>2. t[e] # 0
        BY Special
      <3> QED
        BY <1>2, <3>1, <3>2
    <2> QED
      BY <1>1, <2>1
  <1> HIDE DEF P
  <1>5. P = Nat
    BY <1>3, <1>4, AllNumbers DEF P
  <1> QED
    BY <1>0, <1>5 DEF P, Led

\* Such a walk meets no cluster twice, and so is no longer than the volume.
LEMMA WalkIsShort ==
  ASSUME NEW t, NEW rank \in Ranks, NEW x, NEW k \in Nat, NEW c, NEW w,
         Walk(t, rank, w, x, k, c)
  PROVE  k \in 0 .. MaxClust
  <1>1. x \in Clusters /\ rank[x] \in Nat
    BY DEF Walk, Ranks
  <1>2. w \in Injection(0 .. k, Clusters)
    <2>1. ASSUME NEW i \in 0 .. k, NEW j \in 0 .. k, w[i] = w[j] PROVE i = j
      <3>1. rank[x] + i = rank[x] + j
        BY <2>1 DEF Walk
      <3> QED
        BY <1>1, <3>1
    <2> QED
      BY <2>1 DEF Walk, Injection, IsInjective
  <1>3. IsFiniteSet(Clusters) /\ Cardinality(Clusters) <= MaxClust
    <2>1. 2 \in Int /\ MaxClust - 1 \in Int /\ ~(2 > MaxClust - 1)
      BY Numbers
    <2>2. Cardinality(Clusters) = (MaxClust - 1) - 2 + 1
      BY <2>1, FS_Interval DEF Clusters
    <2> QED
      BY <2>2, ClustersFinite, Numbers
  <1>4. IsFiniteSet(0 .. k) /\ Cardinality(0 .. k) = k + 1
    BY FS_Interval
  <1>5. Cardinality(0 .. k) <= Cardinality(Clusters)
    BY <1>2, <1>3, FS_Injection
  <1>6. Cardinality(Clusters) \in Nat
    BY <1>3, FS_CardinalityType
  <1> QED
    BY <1>3, <1>4, <1>5, <1>6, Numbers

\* Chain follows the links, so it comes where the walk does.
ChainIs(t, x, k, g) ==
    g = [i \in 0 .. k |-> IF i = 0 THEN x
                          ELSE IF g[i - 1] \in Clusters THEN t[g[i - 1]] ELSE Eoc]

LEMMA WalkIsChain ==
  ASSUME NEW t, NEW rank \in Ranks, NEW x, NEW k \in Nat, NEW c, NEW w,
         Walk(t, rank, w, x, k, c)
  PROVE  Chain(t, x, k) = c
  <1> DEFINE g == CHOOSE g : ChainIs(t, x, k, g)
             v == [i \in 0 .. k |-> IF i = 0 THEN x
                                    ELSE IF w[i - 1] \in Clusters THEN t[w[i - 1]] ELSE Eoc]
  <1>1. ChainIs(t, x, k, w)
    <2>1. ASSUME NEW i \in 0 .. k PROVE w[i] = v[i]
      <3>1. CASE i = 0
        BY <3>1 DEF Walk
      <3>2. CASE i # 0
        <4>1. i \in 1 .. k /\ i - 1 \in 0 .. k
          BY <3>2
        <4>2. w[i - 1] \in Clusters /\ t[w[i - 1]] = w[i]
          BY <4>1 DEF Walk
        <4> QED
          BY <3>2, <4>2
      <3> QED
        BY <3>1, <3>2
    <2>2. w = [i \in 0 .. k |-> w[i]]
      BY DEF Walk
    <2>3. w = v
      BY <2>1, <2>2
    <2> QED
      BY <2>3 DEF ChainIs
  <1>2. ChainIs(t, x, k, g)
    BY <1>1
  <1>3. Chain(t, x, k) = g[k]
    BY DEF Chain, ChainIs
  <1> HIDE DEF g, v
  <1> DEFINE P == {i \in Nat : i <= k => g[i] = w[i]}
  <1>4. 0 \in P
    BY <1>2 DEF ChainIs, Walk
  <1>5. ASSUME NEW n \in P PROVE n + 1 \in P
    <2> SUFFICES ASSUME n + 1 <= k PROVE g[n + 1] = w[n + 1]
      OBVIOUS
    <2>1. n \in 0 .. k /\ n + 1 \in 1 .. k /\ (n + 1) - 1 = n /\ g[n] = w[n]
      OBVIOUS
    <2>2. w[n] \in Clusters /\ t[w[n]] = w[n + 1]
      BY <2>1 DEF Walk
    <2>3. g[n + 1] = t[g[n]]
      BY <1>2, <2>1, <2>2 DEF ChainIs
    <2> QED
      BY <2>1, <2>2, <2>3
  <1> HIDE DEF P
  <1>6. P = Nat
    BY <1>4, <1>5, AllNumbers DEF P
  <1>7. g[k] = w[k]
    BY <1>6 DEF P
  <1> QED
    BY <1>3, <1>7 DEF Walk

\* Between two calls the heads are the starts of the files.
LEMMA RootsAreStarts ==
  ASSUME TypeOK, NowApart, pc = "idle", NEW x \in Clusters, Root(DirNow, fil, pc, reg, x)
  PROVE  \E s \in LiveSlots(DirNow) : StartNow(s) = x
  <1> PICK own \in Owners : Vol(FatNow, DirNow, fil, own)
    BY DEF NowApart, Apart
  <1>1. fil \in Fils
    BY NowTyped
  <1>2. CASE \E s \in Slots : /\ DirNow[s].name \in Names /\ DirNow[s].clust = x
                              /\ \A h \in Handles : fil[h].open => fil[h].slot # s
    BY <1>2 DEF LiveSlots, StartNow
  <1>3. CASE \E h \in Handles : fil[h].open /\ fil[h].org = x
    <2> PICK h \in Handles : fil[h].open /\ fil[h].org = x
      BY <1>3
    <2> DEFINE s == fil[h].slot
               g == CHOOSE g \in Handles : fil[g].open /\ fil[g].slot = s
    <2>1. s \in Slots /\ DirNow[s].name \in Names
      BY <1>1 DEF Fils, Fil, Vol, ObjectsOK, ObjectOK
    <2>2. g \in Handles /\ fil[g].open /\ fil[g].slot = s
      OBVIOUS
    <2>3. g = h
      BY <2>2 DEF Vol, ObjectsOK
    <2>4. StartNow(s) = x
      BY <2>3 DEF StartNow
    <2> QED
      BY <2>1, <2>4 DEF LiveSlots
  <1> QED
    BY <1>2, <1>3 DEF Root

LEMMA KeptIsOwned ==
  ASSUME TypeOK, NowApart, KeptInv
  PROVE  NoLostCluster
  <1> SUFFICES ASSUME pc = "idle", NEW c \in Clusters, FatNow[c] # 0
               PROVE  \E s \in LiveSlots(DirNow) : c \in Owned(s)
    BY DEF NoLostCluster, Idle
  <1> PICK rank \in Ranks : Ranked(FatNow, DirNow, fil, pc, reg, rank)
    BY DEF KeptInv, KeptAt, Reached
  <1> DEFINE S == {x \in Clusters : Root(DirNow, fil, pc, reg, x)}
  <1>1. \A x \in Clusters : FatNow[x] # 0 => x \in S \/ After(FatNow, rank, x)
    BY DEF Ranked, Pending
  <1> HIDE DEF S
  <1>2. FatNow \in Tables
    BY NowTyped
  <1>3. PICK x \in S, k \in Nat : \E w : Walk(FatNow, rank, w, x, k, c)
    BY <1>1, <1>2, WalksExist
  <1>4. k \in 0 .. MaxClust /\ Chain(FatNow, x, k) = c
    BY <1>3, WalkIsShort, WalkIsChain
  <1>5. PICK s \in LiveSlots(DirNow) : StartNow(s) = x
    BY RootsAreStarts DEF S
  <1> QED
    BY <1>4, <1>5 DEF Owned

LEMMA InitKept == Init => KeptInv
  <1> SUFFICES ASSUME Init PROVE KeptInv
    OBVIOUS
  <1>1. FatNow = fat
    BY InitType, CleanNow DEF Init
  <1>2. \A x \in Clusters : FatNow[x] = 0
    BY <1>1 DEF Init
  <1>3. [x \in Clusters |-> 0] \in Ranks
    BY DEF Ranks
  <1>4. Reached(FatNow, DirNow, fil, pc, reg)
    BY <1>2, <1>3 DEF Reached, Ranked
  <1>5. Stored(DirNow, fil, pc, reg)
    BY DEF Init, Closed, Stored
  <1> QED
    BY <1>4, <1>5 DEF Init, ReadSector, KeptInv, KeptAt, Entered, Marked, Held

\* While transfers succeed (a mount and the copy of the table may fail), power
\* stays, and no file object is abandoned while it is open, every cluster in
\* use belongs to a file whenever no call is in progress: creating, emptying,
\* deleting and running into a full card leave no chain behind.
THEOREM NothingIsLost ==
  ASSUME "admin" \notin Habits, NoFaults, AllCloses
  PROVE  Spec => []NoLostCluster
  <1>1. TypeOK /\ TypeOK' /\ WindowCoherent /\ ApartInv /\ KeptInv /\ [Next]_vars => KeptInv'
    BY NextKeeps DEF ApartInv
  <1>2. TypeOK /\ ApartInv /\ KeptInv => NoLostCluster
    BY KeptIsOwned DEF ApartInv
  <1> QED
    BY <1>1, <1>2, InitKept, AlwaysApart, WindowAlwaysCoherent, PTL DEF Spec
=============================================================================
