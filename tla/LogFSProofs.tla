------------------------------ MODULE LogFSProofs ------------------------------
(*****************************************************************************)
(* LogFS: the rows of the log and its readers, for any number of threads,    *)
(* any block size, any device and any failures.                              *)
(*****************************************************************************)
EXTENDS LogFS, TLAPS

InFile(t) == pc[t] \notin {"closed", "oops"}
InWrite(t) == pc[t] \in {"w_data", "w_size"}

\* The dentry keeps the inode, whose size never falls below the one on the device.
CacheInv ==
  /\ dentry => inode = "cached"
  /\ inode = "cached" => HeaderLen <= i_size

\* An open file keeps the dentry; the holder of the mutex has the size as it is;
\* a write that has copied its row has only to publish it; a reader has read a
\* part of the file, with a size that covers what was acknowledged.
ThreadInv(t) ==
  /\ InFile(t) => dentry
  /\ InWrite(t) <=> mutex = t
  /\ InWrite(t) => file_size[t] = i_size
  /\ pc[t] = "w_size" =>
       /\ Offset(t) + payload[t] <= Capacity
       /\ \A o \in Offset(t) .. Offset(t) + payload[t] - 1 : data[o] = row[t]
  /\ pos[t] <= i_size /\ (InFile(t) \/ pos[t] = 0)
  /\ Len(got[t]) = pos[t]
  /\ \A k \in 1 .. pos[t] : got[t][k] = data[k - 1]
  /\ pc[t] = "r_lock" => acked[t] <= file_size[t] /\ file_size[t] <= i_size
  /\ pc[t] = "r_end" => acked[t] <= pos[t]

Inv == TypeOK /\ CacheInv /\ (\A t \in Threads : ThreadInv(t)) /\ RowsAreWhole

\* The device.
LEMMA Sizes ==
  /\ Capacity \in Nat /\ BlockSize \in Nat \ {0} /\ BlockSize <= Capacity
  /\ HeaderLen \in 0 .. Capacity
<1>1. BlockSize \in Nat \ {0} /\ Blocks \in Nat \ {0} /\ HeaderLen \in 0 .. BlockSize
  BY Zenon, SizesAssumption
<1>2. Blocks * BlockSize \in Nat /\ BlockSize <= Blocks * BlockSize
  BY SMT, <1>1
<1> QED
  BY SMT, <1>1, <1>2 DEF Capacity

\* A number is the sum of the blocks before it and of its offset in its block.
LEMMA Division ==
  ASSUME NEW B \in Nat \ {0}, NEW x \in Nat
  PROVE  /\ x \div B \in Nat /\ x % B \in 0 .. B - 1
         /\ x = B * (x \div B) + (x % B)
BY SMT

LEMMA NextBlock ==
  ASSUME NEW B \in Nat \ {0}, NEW x \in Nat
  PROVE  x + (B - (x % B)) \in Nat /\ (x + (B - (x % B))) % B = 0
<1> DEFINE q == x \div B
           o == x % B
<1>1. q \in Nat /\ o \in 0 .. B - 1 /\ x = B * q + o
  BY Zenon, Division
<1>2. \A m \in Nat : (B * m) % B = 0 /\ B * m \in Nat
  BY SMT
<1> HIDE DEF q, o
<1>3. x + (B - o) = B * (q + 1) /\ q + 1 \in Nat
  BY SMT, <1>1
<1> QED
  BY Zenon, <1>2, <1>3 DEF o

\* A row goes behind the end of the file, into one block, and into the device if
\* its block is one of the device.
LEMMA Placed ==
  ASSUME NEW t, file_size[t] \in 0 .. Capacity, payload[t] \in 0 .. BlockSize
  PROVE  /\ Offset(t) \in Nat /\ file_size[t] <= Offset(t)
         /\ (Offset(t) % BlockSize) + payload[t] <= BlockSize
         /\ Offset(t) \div BlockSize < Blocks => Offset(t) + payload[t] <= Capacity
<1> DEFINE B == BlockSize
           x == file_size[t]
           n == payload[t]
           off == Offset(t)
<1>1. B \in Nat \ {0} /\ Blocks \in Nat /\ x \in Nat /\ n \in 0 .. B
  BY SMT, Sizes, SizesAssumption
<1>2. off = x + IF B - (x % B) < n THEN B - (x % B) ELSE 0
  BY Zenon DEF Offset
<1> HIDE DEF B, x, n, off
<1>3. x % B \in 0 .. B - 1 /\ x + (B - (x % B)) \in Nat /\ (x + (B - (x % B))) % B = 0
  BY Zenon, <1>1, Division, NextBlock
<1>4. off \in Nat /\ x <= off /\ (off % B) + n <= B
  <2>1. CASE B - (x % B) < n
    <3>1. off = x + (B - (x % B)) /\ off % B = 0
      BY Zenon, <1>2, <1>3, <2>1
    <3> QED
      BY SMT, <1>1, <1>3, <3>1
  <2>2. CASE ~(B - (x % B) < n)
    <3>1. off = x
      BY SMT, <1>1, <1>2, <2>2
    <3> QED
      BY SMT, <1>1, <1>3, <2>2, <3>1
  <2> QED
    BY Zenon, <2>1, <2>2
<1>5. ASSUME off \div B < Blocks PROVE off + n <= Blocks * B
  <2> DEFINE q == off \div B
             o == off % B
  <2>1. q \in Nat /\ o \in Nat /\ off = B * q + o /\ o + n <= B /\ q < Blocks
    <3>1. q \in Nat /\ o \in 0 .. B - 1 /\ off = B * q + o
      BY Zenon, <1>1, <1>4, Division
    <3>2. o + n <= B /\ q < Blocks
      BY Zenon, <1>4, <1>5
    <3> HIDE DEF q, o
    <3> QED
      BY SMT, <1>1, <3>1, <3>2
  <2> HIDE DEF q, o
  <2>2. B * q + B <= Blocks * B /\ B * q \in Nat
    BY SMT, <1>1, <2>1
  <2>3. Blocks * B \in Nat
    BY SMT, <1>1
  <2> QED
    BY SMT, <1>1, <2>1, <2>2, <2>3
<1> QED
  BY Zenon, <1>4, <1>5 DEF B, x, n, off, Capacity

LEMMA LeqSelf == \A x \in 0 .. Capacity : x <= x
BY SMT, Sizes

\* What TypeOK says of one thread.
LEMMA Own ==
  ASSUME Inv, NEW t \in Threads
  PROVE  /\ TypeOK /\ CacheInv /\ ThreadInv(t) /\ RowsAreWhole
         /\ file_size[t] \in 0 .. Capacity /\ payload[t] \in 0 .. BlockSize
         /\ row[t] \in 0 .. MaxWrites /\ len[t] \in Nat /\ pos[t] \in 0 .. Capacity
         /\ got[t] \in Seq(Nat) /\ acked[t] \in 0 .. Capacity /\ i_size \in 0 .. Capacity
         /\ t # NoThread
BY Zenon, ThreadsAssumption DEF Inv, TypeOK

\* What it says of the rows.
RowSet == [id : Nat, at : 0 .. Capacity, len : 0 .. BlockSize]

LEMMA RowType ==
  ASSUME TypeOK
  PROVE  /\ Len(rows) \in Nat /\ since \in Nat
         /\ \A i \in since + 1 .. Len(rows) : i \in 1 .. Len(rows)
         /\ \A i \in 1 .. Len(rows) : rows[i].at \in Nat /\ rows[i].len \in Nat
         /\ \A i \in 1 .. Len(rows) : rows[i].at + rows[i].len \in Nat
<1>1. rows \in Seq(RowSet) /\ since \in 0 .. Len(rows)
  BY Zenon DEF TypeOK, RowSet
<1>2. Len(rows) \in Nat /\ \A i \in 1 .. Len(rows) : rows[i] \in RowSet
  BY SMT, <1>1
<1>3. since \in Nat /\ \A i \in since + 1 .. Len(rows) : i \in 1 .. Len(rows)
  BY SMT, <1>1, <1>2
<1>4. \A r \in RowSet : r.at \in Nat /\ r.len \in Nat /\ r.at + r.len \in Nat
  BY SMT, Sizes DEF RowSet
<1> QED
  BY Zenon, <1>2, <1>3, <1>4

LEMMA Update ==
  ASSUME NEW S, NEW T, NEW f \in [S -> T], NEW s \in S, NEW v \in T
  PROVE  [f EXCEPT ![s] = v] \in [S -> T]
OBVIOUS

\* What lies below a size.
LEMMA Span ==
  ASSUME NEW a \in Nat, NEW n \in Nat, NEW s \in Nat, a + n <= s
  PROVE  \A o \in a .. a + n - 1 : o \in Nat /\ o < s
BY SMT

\* A position moves on by at most what is available.
LEMMA Advance ==
  ASSUME NEW C \in Nat, NEW x \in 0 .. C, NEW f \in 0 .. C, NEW s \in 0 .. C,
         NEW n \in Nat, NEW v \in Nat, n <= v, x + v <= f, f <= s
  PROVE  x \in Nat /\ x + n \in 0 .. C /\ x + n <= s
BY SMT

LEMMA Ahead ==
  ASSUME NEW C \in Nat, NEW x \in Nat, NEW n \in Nat, x + n \in 0 .. C
  PROVE  \A k \in 1 .. n : x + k - 1 \in 0 .. C - 1
BY SMT

LEMMA Parts ==
  ASSUME NEW x \in Nat, NEW n \in Nat, NEW k \in 1 .. x + n
  PROVE  /\ k <= x \/ k > x
         /\ k <= x => k \in 1 .. x
         /\ k > x => k - x \in 1 .. n /\ x + (k - x) - 1 = k - 1
BY SMT

LEMMA Members ==
  /\ {"closed", "oops", "open", "w_lock", "w_data", "w_size", "r_lock", "r_end"} \subseteq Labels
  /\ << >> \in Seq(Nat) /\ Len(<< >>) = 0 /\ 0 \in 0 .. Capacity
BY SMT, Sizes DEF Labels

LEMMA GotoType ==
  ASSUME TypeOK, NEW t \in Threads, NEW label \in Labels, Goto(t, label)
  PROVE  /\ pc' \in [Threads -> Labels] /\ pc'[t] = label
         /\ \A u \in Threads \ {t} : pc'[u] = pc[u]
BY ZenonT(30), Update DEF TypeOK, Goto

\* A step of another thread: it may write behind the end of the file, and move it.
Apart(u) ==
  /\ pc'[u] = pc[u] /\ row'[u] = row[u] /\ payload'[u] = payload[u]
  /\ file_size'[u] = file_size[u] /\ pos'[u] = pos[u] /\ got'[u] = got[u] /\ acked'[u] = acked[u]
  /\ InFile(u) => (dentry => dentry') /\ i_size <= i_size'
  /\ mutex = u <=> mutex' = u
  /\ mutex = u => UNCHANGED <<i_size, data>>
  /\ \A o \in Nat : o < i_size => data'[o] = data[o]

LEMMA ApartKeeps ==
  ASSUME Inv, TypeOK', NEW u \in Threads, Apart(u)
  PROVE  ThreadInv(u)'
<1>1. /\ ThreadInv(u) /\ pos[u] \in Nat /\ i_size \in Nat /\ i_size' \in Nat
      /\ file_size[u] \in Nat
  <2>1. i_size' \in 0 .. Capacity
    BY Zenon DEF TypeOK
  <2> QED
    BY SMT, <2>1, Own, Sizes
<1>2. (InFile(u) => dentry)' /\ (InWrite(u) <=> mutex = u)' /\ (InWrite(u) => file_size[u] = i_size)'
  BY Zenon, <1>1 DEF ThreadInv, Apart, InFile, InWrite
<1>3. (pc[u] = "w_size" =>
         /\ Offset(u) + payload[u] <= Capacity
         /\ \A o \in Offset(u) .. Offset(u) + payload[u] - 1 : data[o] = row[u])'
  <2>1. Offset(u)' = Offset(u)
    BY Zenon DEF Apart, Offset
  <2>2. pc[u] = "w_size" => mutex = u
    BY Zenon, <1>1 DEF ThreadInv, InWrite
  <2> QED
    BY Zenon, <1>1, <2>1, <2>2 DEF ThreadInv, Apart
<1>4. (pos[u] <= i_size /\ (InFile(u) \/ pos[u] = 0))'
  <2>1. InFile(u)' <=> InFile(u)
    BY Zenon DEF Apart, InFile
  <2>2. pos[u] <= i_size /\ (InFile(u) \/ pos[u] = 0) /\ (InFile(u) => i_size <= i_size')
    BY Zenon, <1>1 DEF ThreadInv, Apart
  <2>3. pos'[u] = pos[u]
    BY Zenon DEF Apart
  <2> QED
    BY SMT, <1>1, <2>1, <2>2, <2>3
<1>5. (\A k \in 1 .. pos[u] : got[u][k] = data[k - 1])' /\ (Len(got[u]) = pos[u])'
  <2>1. \A k \in 1 .. pos[u] : k - 1 \in Nat /\ k - 1 < i_size
    BY SMT, <1>1 DEF ThreadInv
  <2> QED
    BY Zenon, <1>1, <2>1 DEF ThreadInv, Apart
<1>6. /\ (pc[u] = "r_lock" => acked[u] <= file_size[u] /\ file_size[u] <= i_size)'
      /\ (pc[u] = "r_end" => acked[u] <= pos[u])'
  <2>1. pc[u] = "r_lock" => file_size[u] <= i_size'
    <3>1. pc[u] = "r_lock" => file_size[u] <= i_size /\ i_size <= i_size'
      BY Zenon, <1>1 DEF ThreadInv, Apart, InFile
    <3> QED
      BY SMT, <1>1, <3>1
  <2> QED
    BY Zenon, <1>1, <2>1 DEF ThreadInv, Apart
<1> QED
  BY Zenon, <1>2, <1>3, <1>4, <1>5, <1>6 DEF ThreadInv

\* Steps that leave the file alone.
LEMMA Still ==
  ASSUME Inv, NEW u \in Threads, UNCHANGED <<data, i_size, dentry>>,
         mutex = u <=> mutex' = u,
         pc'[u] = pc[u], row'[u] = row[u], payload'[u] = payload[u],
         file_size'[u] = file_size[u], pos'[u] = pos[u], got'[u] = got[u], acked'[u] = acked[u]
  PROVE  Apart(u)
<1>1. i_size <= i_size'
  BY SMT, Own, Sizes
<1> QED
  BY Zenon, <1>1 DEF Apart

LEMMA StepInv ==
  ASSUME Inv, NEW t \in Threads, TypeOK', CacheInv', ThreadInv(t)', RowsAreWhole',
         \A u \in Threads \ {t} : Apart(u)
  PROVE  Inv'
BY Zenon, ApartKeeps DEF Inv

\* Rows stay what they are while the file and its size do.
LEMMA SameRows ==
  ASSUME RowsAreWhole, UNCHANGED <<data, i_size, rows, since>>
  PROVE  RowsAreWhole'
BY Zenon DEF RowsAreWhole, Whole

--------------------------------------------------------------------------------
(*****************************************************************************)
(* Mounting and the caches                                                   *)
(*****************************************************************************)
LEMMA KernelInv ==
  ASSUME Inv, Kernel
  PROVE  Inv'
<1>1. /\ UNCHANGED <<data, i_size, mutex, pc, local, writes, rows, since, acked>>
      /\ mounted' \in {"no", "yes", "dead"} /\ inode' \in {"none", "new", "cached"}
      /\ dentry' \in BOOLEAN
      /\ dentry' => dentry /\ inode' = inode
      /\ inode' = inode \/ inode' = "none"
      /\ dentry' = dentry \/ Idle
  <2>0. /\ mounted \in {"no", "yes", "dead"} /\ inode \in {"none", "new", "cached"}
        /\ dentry \in BOOLEAN /\ (dentry => inode = "cached")
    BY Zenon DEF Inv, TypeOK, CacheInv
  <2>1. CASE singlefilefs_fill_super \/ FillSuperDies
    BY SMT, <2>0, <2>1 DEF singlefilefs_fill_super, FillSuperDies
  <2>2. CASE singlefilefs_kill_superblock
    BY Zenon, <2>0, <2>2 DEF singlefilefs_kill_superblock
  <2>3. CASE ReclaimDentry
    BY Zenon, <2>0, <2>3 DEF ReclaimDentry
  <2>4. CASE ReclaimInode
    BY Zenon, <2>0, <2>4 DEF ReclaimInode
  <2> QED
    BY Zenon, <2>1, <2>2, <2>3, <2>4 DEF Kernel
<1>2. TypeOK'
  BY Zenon, <1>1 DEF Inv, TypeOK, local
<1>3. CacheInv'
  BY Zenon, <1>1 DEF Inv, CacheInv
<1>4. ASSUME NEW t \in Threads PROVE ThreadInv(t)'
  <2>1. InFile(t) => dentry' = dentry
    BY Zenon, <1>1 DEF Idle, InFile
  <2>2. i_size <= i_size'
    BY SMT, <1>1, Own, Sizes
  <2>3. Apart(t)
    BY SMT, <1>1, <2>1, <2>2 DEF Apart, local
  <2> QED
    BY Zenon, <1>2, <2>3, ApartKeeps
<1>5. RowsAreWhole'
  BY Zenon, <1>1, SameRows DEF Inv
<1> QED
  BY Zenon, <1>2, <1>3, <1>4, <1>5 DEF Inv

LEMMA OpenOrCloseInv ==
  ASSUME Inv, NEW t \in Threads, OpenOrClose(t)
  PROVE  Inv'
<1>0. TypeOK /\ CacheInv /\ ThreadInv(t) /\ RowsAreWhole
  BY Zenon, Own
<1>1. CASE OpenCached(t) \/ LookupCached(t)
  <2>1. UNCHANGED <<cache, data, mutex, local, writes, rows, since, acked>> /\ pc[t] = "closed"
    BY Zenon, <1>1 DEF OpenCached, LookupCached
  <2>2. PICK label \in {"open", "closed", "oops"} :
          Goto(t, label) /\ (label = "open" => dentry)
    BY Zenon, <1>1 DEF OpenCached, LookupCached
  <2>3. /\ pc' \in [Threads -> Labels] /\ pc'[t] = label
        /\ \A u \in Threads \ {t} : pc'[u] = pc[u]
    BY Zenon, <1>0, <2>2, Members, GotoType
  <2>4. TypeOK' /\ CacheInv' /\ RowsAreWhole'
    BY Zenon, <1>0, <2>1, <2>3, SameRows DEF TypeOK, CacheInv, cache, local
  <2>5. ThreadInv(t)'
    BY Zenon, <1>0, <2>1, <2>2, <2>3 DEF ThreadInv, InFile, InWrite, cache, local
  <2>6. \A u \in Threads \ {t} : Apart(u)
    BY Zenon, <2>1, <2>3, Still DEF local, cache
  <2> QED
    BY Zenon, <2>4, <2>5, <2>6, StepInv
<1>2. CASE LookupNew(t)
  <2>1. /\ inode' = "cached" /\ i_size' = HeaderLen /\ dentry' = TRUE /\ since' = Len(rows)
        /\ UNCHANGED <<mounted, data, mutex, local, writes, rows, acked>>
        /\ pc[t] = "closed" /\ ~dentry /\ Goto(t, "open")
    BY Zenon, <1>2 DEF LookupNew
  <2>2. /\ pc' \in [Threads -> Labels] /\ pc'[t] = "open"
        /\ \A u \in Threads \ {t} : pc'[u] = pc[u]
    BY Zenon, <1>0, <2>1, Members, GotoType
  <2>3. Len(rows) \in 0 .. Len(rows) /\ ~ \E i : i \in Len(rows) + 1 .. Len(rows)
    <3>1. Len(rows) \in Nat
      BY SMT, <1>0 DEF TypeOK
    <3> QED
      BY SMT, <3>1
  <2>4. TypeOK'
    BY Zenon, <1>0, <2>1, <2>2, <2>3, Sizes DEF TypeOK, local
  <2>5. CacheInv' /\ RowsAreWhole'
    <3>1. HeaderLen <= HeaderLen
      BY SMT, Sizes
    <3> QED
      BY Zenon, <2>1, <2>3, <3>1 DEF CacheInv, RowsAreWhole
  <2>6. ASSUME NEW u \in Threads PROVE ThreadInv(u)'
    <3>1. /\ ~InFile(u) /\ ~InWrite(u) /\ pos[u] = 0 /\ mutex # u /\ Len(got[u]) = 0
      BY Zenon, <2>1 DEF Inv, ThreadInv, InFile, InWrite
    <3>2. pc'[u] \in {"closed", "oops", "open"} /\ mutex' # u
      BY Zenon, <2>1, <2>2, <3>1 DEF InFile
    <3>3. 0 <= i_size' /\ ~ \E k : k \in 1 .. 0
      BY SMT, <2>1, Sizes
    <3> QED
      BY Zenon, <2>1, <3>1, <3>2, <3>3 DEF ThreadInv, InFile, InWrite, local
  <2> QED
    BY Zenon, <2>4, <2>5, <2>6 DEF Inv
<1>3. CASE LookupFails(t)
  <2>1. /\ inode' = "new" /\ ~dentry
        /\ UNCHANGED <<mounted, i_size, dentry, data, mutex, pc, local, writes, rows, since, acked>>
    BY Zenon, <1>3 DEF LookupFails
  <2>2. TypeOK' /\ CacheInv' /\ RowsAreWhole'
    BY Zenon, <1>0, <2>1, SameRows DEF TypeOK, CacheInv, local
  <2>3. \A u \in Threads : ThreadInv(u)'
    BY ZenonT(30), <2>1 DEF Inv, ThreadInv, InFile, InWrite, Offset, local
  <2> QED
    BY Zenon, <2>2, <2>3 DEF Inv
<1>4. CASE Close(t)
  <2>1. /\ UNCHANGED <<cache, data, mutex, row, payload, file_size, len, writes, rows, since, acked>>
        /\ pc[t] \in {"open", "r_end"} /\ Goto(t, "closed")
        /\ pos' = [pos EXCEPT ![t] = 0] /\ got' = [got EXCEPT ![t] = << >>]
    BY Zenon, <1>4 DEF Close
  <2>2. /\ pc' \in [Threads -> Labels] /\ pc'[t] = "closed"
        /\ \A u \in Threads \ {t} : pc'[u] = pc[u]
    BY Zenon, <1>0, <2>1, Members, GotoType
  <2>3. /\ pos' \in [Threads -> 0 .. Capacity] /\ got' \in [Threads -> Seq(Nat)]
        /\ pos'[t] = 0 /\ got'[t] = << >>
        /\ \A u \in Threads \ {t} : pos'[u] = pos[u] /\ got'[u] = got[u]
    <3>1. pos \in [Threads -> 0 .. Capacity] /\ got \in [Threads -> Seq(Nat)]
      BY Zenon, <1>0 DEF TypeOK
    <3>2. pos' \in [Threads -> 0 .. Capacity]
      BY Zenon, <2>1, <3>1, Members, Update
    <3>3. got' \in [Threads -> Seq(Nat)]
      BY Zenon, <2>1, <3>1, Members, Update
    <3> QED
      BY Zenon, <2>1, <3>1, <3>2, <3>3
  <2>4. TypeOK' /\ CacheInv' /\ RowsAreWhole'
    <3>1. TypeOK'
      BY Zenon, <1>0, <2>1, <2>2, <2>3 DEF TypeOK, cache
    <3> QED
      BY Zenon, <1>0, <2>1, <3>1, SameRows DEF CacheInv, cache
  <2>5. ThreadInv(t)'
    <3>1. 0 <= i_size /\ ~ \E k : k \in 1 .. 0
      BY SMT, Own, Sizes
    <3> QED
      BY Zenon, <1>0, <2>1, <2>2, <2>3, <3>1, Members DEF ThreadInv, InFile, InWrite, cache
  <2>6. \A u \in Threads \ {t} : Apart(u)
    BY Zenon, <2>1, <2>2, <2>3, Still DEF cache
  <2> QED
    BY Zenon, <2>4, <2>5, <2>6, StepInv
<1> QED
  BY Zenon, <1>1, <1>2, <1>3, <1>4 DEF OpenOrClose

--------------------------------------------------------------------------------
(*****************************************************************************)
(* onefile_write                                                             *)
(*****************************************************************************)
LEMMA WriteCallInv ==
  ASSUME Inv, NEW t \in Writers, NEW n \in Payloads, WriteCall(t, n)
  PROVE  Inv'
<1>0. t \in Threads /\ TypeOK /\ CacheInv /\ ThreadInv(t) /\ RowsAreWhole
  BY Zenon, Own DEF Threads
<1>1. /\ UNCHANGED <<cache, data, mutex, file_size, len, pos, got, rows, since, acked>>
      /\ row' = [row EXCEPT ![t] = writes + 1] /\ payload' = [payload EXCEPT ![t] = n]
      /\ writes' = writes + 1 /\ writes < MaxWrites /\ pc[t] = "open" /\ Goto(t, "w_lock")
  BY Zenon DEF WriteCall
<1>2. /\ pc' \in [Threads -> Labels] /\ pc'[t] = "w_lock"
      /\ \A u \in Threads \ {t} : pc'[u] = pc[u]
  BY Zenon, <1>0, <1>1, Members, GotoType
<1>3. writes + 1 \in 0 .. MaxWrites /\ n \in 0 .. BlockSize
  <2>1. writes \in 0 .. MaxWrites /\ MaxWrites \in Nat /\ n \in 0 .. BlockSize
    BY Zenon, <1>0, SizesAssumption DEF TypeOK
  <2> QED
    BY SMT, <1>1, <2>1
<1>4. /\ row' \in [Threads -> 0 .. MaxWrites] /\ payload' \in [Threads -> 0 .. BlockSize]
      /\ \A u \in Threads \ {t} : row'[u] = row[u] /\ payload'[u] = payload[u]
  <2>1. row \in [Threads -> 0 .. MaxWrites] /\ payload \in [Threads -> 0 .. BlockSize]
    BY Zenon, <1>0 DEF TypeOK
  <2> QED
    BY Zenon, <1>0, <1>1, <1>3, <2>1, Update
<1>5. TypeOK'
  BY Zenon, <1>0, <1>1, <1>2, <1>3, <1>4 DEF TypeOK, cache
<1>6. CacheInv' /\ RowsAreWhole'
  BY Zenon, <1>0, <1>1, SameRows DEF CacheInv, cache
<1>7. ThreadInv(t)'
  BY Zenon, <1>0, <1>1, <1>2 DEF ThreadInv, InFile, InWrite, cache
<1>8. \A u \in Threads \ {t} : Apart(u)
  BY Zenon, <1>1, <1>2, <1>4, Still DEF cache
<1> QED
  BY Zenon, <1>0, <1>5, <1>6, <1>7, <1>8, StepInv

LEMMA WriteLockInv ==
  ASSUME Inv, NEW t \in Writers, WriteLock(t)
  PROVE  Inv'
<1>0. t \in Threads /\ TypeOK /\ CacheInv /\ ThreadInv(t) /\ RowsAreWhole /\ t # NoThread
  BY Zenon, Own DEF Threads
<1>1. /\ UNCHANGED <<cache, data, row, payload, len, pos, got, writes, rows, since, acked>>
      /\ mutex = NoThread /\ mutex' = t /\ file_size' = [file_size EXCEPT ![t] = i_size]
      /\ pc[t] = "w_lock" /\ Goto(t, "w_data")
  BY Zenon DEF WriteLock
<1>2. /\ pc' \in [Threads -> Labels] /\ pc'[t] = "w_data"
      /\ \A u \in Threads \ {t} : pc'[u] = pc[u]
  BY Zenon, <1>0, <1>1, Members, GotoType
<1>3. /\ file_size' \in [Threads -> 0 .. Capacity] /\ file_size'[t] = i_size
      /\ \A u \in Threads \ {t} : file_size'[u] = file_size[u]
  BY SMT, <1>0, <1>1 DEF TypeOK
<1>4. TypeOK'
  BY Zenon, <1>0, <1>1, <1>2, <1>3 DEF TypeOK, cache
<1>5. CacheInv' /\ RowsAreWhole'
  BY Zenon, <1>0, <1>1, SameRows DEF CacheInv, cache
<1>6. ThreadInv(t)'
  BY Zenon, <1>0, <1>1, <1>2, <1>3 DEF ThreadInv, InFile, InWrite, cache
<1>7. \A u \in Threads \ {t} : Apart(u)
  <2>1. \A u \in Threads \ {t} : mutex # u /\ mutex' # u
    BY Zenon, <1>1, ThreadsAssumption
  <2> QED
    BY Zenon, <1>1, <1>2, <1>3, <2>1, Still DEF cache
<1> QED
  BY Zenon, <1>0, <1>4, <1>5, <1>6, <1>7, StepInv

\* The returns that have written nothing.
LEMMA WriteFailsInv ==
  ASSUME Inv, NEW t \in Writers, WriteNothing(t) \/ WriteEIO(t)
  PROVE  Inv'
<1>0. t \in Threads /\ TypeOK /\ CacheInv /\ ThreadInv(t) /\ RowsAreWhole /\ t # NoThread
  BY Zenon, Own DEF Threads
<1>1. /\ UNCHANGED <<cache, data, local, writes, rows, since, acked>>
      /\ mutex' = NoThread /\ pc[t] = "w_data" /\ Goto(t, "open")
  BY Zenon DEF WriteNothing, WriteEIO, WriteReturn
<1>2. /\ pc' \in [Threads -> Labels] /\ pc'[t] = "open"
      /\ \A u \in Threads \ {t} : pc'[u] = pc[u]
  BY Zenon, <1>0, <1>1, Members, GotoType
<1>3. TypeOK'
  BY Zenon, <1>0, <1>1, <1>2 DEF TypeOK, cache, local
<1>4. CacheInv' /\ RowsAreWhole'
  BY Zenon, <1>0, <1>1, SameRows DEF CacheInv, cache
<1>5. mutex = t
  BY Zenon, <1>0, <1>1 DEF ThreadInv, InWrite
<1>6. ThreadInv(t)'
  BY Zenon, <1>0, <1>1, <1>2 DEF ThreadInv, InFile, InWrite, cache, local
<1>7. \A u \in Threads \ {t} : Apart(u)
  <2>1. \A u \in Threads \ {t} : mutex # u /\ mutex' # u
    BY Zenon, <1>1, <1>5, ThreadsAssumption
  <2> QED
    BY Zenon, <1>1, <1>2, <2>1, Still DEF cache, local
<1> QED
  BY Zenon, <1>0, <1>3, <1>4, <1>6, <1>7, StepInv

\* The row is copied behind the end of the file, where no other row is.
LEMMA WriteDataInv ==
  ASSUME Inv, NEW t \in Writers, WriteData(t)
  PROVE  Inv'
<1>0. t \in Threads /\ TypeOK /\ CacheInv /\ ThreadInv(t) /\ RowsAreWhole /\ t # NoThread
  BY Zenon, Own DEF Threads
<1>1. /\ UNCHANGED <<cache, mutex, local, writes, rows, since, acked>>
      /\ pc[t] = "w_data" /\ Goto(t, "w_size")
  BY Zenon DEF WriteData
<1>2. /\ pc' \in [Threads -> Labels] /\ pc'[t] = "w_size"
      /\ \A u \in Threads \ {t} : pc'[u] = pc[u]
  BY Zenon, <1>0, <1>1, Members, GotoType
<1>3. mutex = t /\ file_size[t] = i_size
  BY Zenon, <1>0, <1>1 DEF ThreadInv, InWrite
<1>4. /\ Offset(t) \in Nat /\ i_size <= Offset(t) /\ Offset(t) + payload[t] <= Capacity
      /\ payload[t] \in Nat /\ i_size \in Nat
  <2>1. file_size[t] \in 0 .. Capacity /\ payload[t] \in 0 .. BlockSize /\ i_size \in 0 .. Capacity
    BY Zenon, <1>0, Own
  <2>2. Offset(t) \div BlockSize < Blocks
    BY Zenon DEF WriteData
  <2>3. Offset(t) \in Nat /\ file_size[t] <= Offset(t) /\ Offset(t) + payload[t] <= Capacity
    BY Zenon, <2>1, <2>2, Placed
  <2> QED
    BY SMT, <1>3, <2>1, <2>3, Sizes
<1>5. /\ data' \in [0 .. Capacity - 1 -> 0 .. MaxWrites]
      /\ \A o \in 0 .. Capacity - 1 :
           data'[o] = IF Offset(t) <= o /\ o < Offset(t) + payload[t] THEN row[t] ELSE data[o]
  <2>1. /\ data \in [0 .. Capacity - 1 -> 0 .. MaxWrites] /\ row[t] \in 0 .. MaxWrites
        /\ DOMAIN data = 0 .. Capacity - 1
    BY Zenon, <1>0 DEF TypeOK
  <2>2. data' = [o \in 0 .. Capacity - 1 |->
                   IF Offset(t) <= o /\ o < Offset(t) + payload[t] THEN row[t] ELSE data[o]]
    BY Zenon, <2>1 DEF WriteData
  <2> HIDE DEF Offset
  <2> QED
    BY Zenon, <2>1, <2>2
<1>6. \A o \in Nat : o < i_size => data'[o] = data[o]
  <2>1. \A o \in Nat : o < i_size => o \in 0 .. Capacity - 1 /\ ~(Offset(t) <= o)
    BY SMT, <1>4, Sizes
  <2> QED
    BY Zenon, <1>5, <2>1
<1>7. TypeOK'
  BY Zenon, <1>0, <1>1, <1>2, <1>5 DEF TypeOK, cache, local
<1>8. CacheInv'
  BY Zenon, <1>0, <1>1 DEF CacheInv, cache
<1>9. RowsAreWhole'
  <2>1. UNCHANGED <<i_size, rows, since>>
    BY Zenon, <1>1 DEF cache
  <2>2. ASSUME NEW i \in since + 1 .. Len(rows) PROVE Whole(rows[i])'
    <3>1. Whole(rows[i]) /\ rows[i].at \in Nat /\ rows[i].len \in Nat
      BY Zenon, <1>0, RowType DEF RowsAreWhole
    <3>2. \A o \in rows[i].at .. rows[i].at + rows[i].len - 1 : o \in Nat /\ o < i_size
      BY Zenon, <1>4, <3>1, Span DEF Whole
    <3> QED
      BY Zenon, <1>6, <2>1, <3>1, <3>2 DEF Whole
  <2> QED
    BY Zenon, <1>0, <2>1, <2>2 DEF RowsAreWhole
<1>10. ThreadInv(t)'
  <2>1. Offset(t)' = Offset(t)
    BY Zenon, <1>1 DEF Offset, local
  <2>2. \A o \in Offset(t) .. Offset(t) + payload[t] - 1 : data'[o] = row[t]
    <3>1. \A o \in Offset(t) .. Offset(t) + payload[t] - 1 :
            o \in 0 .. Capacity - 1 /\ Offset(t) <= o /\ o < Offset(t) + payload[t]
      BY SMT, <1>4, Sizes
    <3> QED
      BY Zenon, <1>5, <3>1
  <2>3. \A k \in 1 .. pos[t] : k - 1 \in Nat /\ k - 1 < i_size
    <3>1. pos[t] \in 0 .. Capacity /\ pos[t] <= i_size
      BY Zenon, <1>0, Own DEF ThreadInv
    <3> QED
      BY SMT, <1>4, <3>1
  <2>4. \A k \in 1 .. pos[t] : got[t][k] = data'[k - 1]
    BY Zenon, <1>0, <1>6, <2>3 DEF ThreadInv
  <2> QED
    BY Zenon, <1>0, <1>1, <1>2, <1>3, <1>4, <2>1, <2>2, <2>4
       DEF ThreadInv, InFile, InWrite, cache, local
<1>11. ASSUME NEW u \in Threads \ {t} PROVE Apart(u)
  <2>1. mutex # u /\ mutex' # u
    BY Zenon, <1>1, <1>3
  <2>2. i_size <= i_size'
    BY SMT, <1>1, <1>4 DEF cache
  <2> QED
    BY Zenon, <1>1, <1>2, <1>6, <2>1, <2>2 DEF Apart, cache, local
<1> QED
  BY Zenon, <1>0, <1>7, <1>8, <1>9, <1>10, <1>11, StepInv

\* The size is stored: the row is in the file.
LEMMA WriteSizeInv ==
  ASSUME Inv, NEW t \in Writers, WriteSize(t)
  PROVE  Inv'
<1> DEFINE at == Offset(t)
           end == Offset(t) + payload[t]
           r == [id |-> row[t], at |-> Offset(t), len |-> payload[t]]
<1>0. t \in Threads /\ TypeOK /\ CacheInv /\ ThreadInv(t) /\ RowsAreWhole /\ t # NoThread
  BY Zenon, Own DEF Threads
<1>1. /\ UNCHANGED <<mounted, inode, dentry, data, local, writes, since, acked>>
      /\ rows' = Append(rows, r) /\ i_size' = IF end > file_size[t] THEN end ELSE i_size
      /\ mutex' = NoThread /\ pc[t] = "w_size" /\ Goto(t, "open")
  BY Zenon DEF WriteSize, WriteReturn
<1>2. /\ pc' \in [Threads -> Labels] /\ pc'[t] = "open"
      /\ \A u \in Threads \ {t} : pc'[u] = pc[u]
  BY Zenon, <1>0, <1>1, Members, GotoType
<1>3. /\ mutex = t /\ file_size[t] = i_size /\ end <= Capacity
      /\ \A o \in at .. at + payload[t] - 1 : data[o] = row[t]
  <2>1. InWrite(t) /\ pc[t] = "w_size"
    BY Zenon, <1>1 DEF InWrite
  <2>2. mutex = t /\ file_size[t] = i_size
    BY Zenon, <1>0, <2>1 DEF ThreadInv
  <2>3. end <= Capacity
    BY Zenon, <1>0, <2>1 DEF ThreadInv
  <2>4. \A o \in at .. at + payload[t] - 1 : data[o] = row[t]
    BY Zenon, <1>0, <2>1 DEF ThreadInv
  <2> QED
    BY Zenon, <2>2, <2>3, <2>4
<1>4. /\ file_size[t] \in 0 .. Capacity /\ payload[t] \in 0 .. BlockSize
      /\ i_size \in 0 .. Capacity /\ row[t] \in 0 .. MaxWrites
  BY Zenon, <1>0, Own
<1>5. at \in Nat /\ file_size[t] <= at /\ (at % BlockSize) + payload[t] <= BlockSize
  BY Zenon, <1>4, Placed
<1> HIDE DEF at
<1>6. end = at + payload[t] /\ r.id = row[t] /\ r.at = at /\ r.len = payload[t]
  BY Zenon DEF at
<1> HIDE DEF end, r
<1>7. /\ i_size' = end /\ end \in 0 .. Capacity /\ at \in 0 .. Capacity /\ i_size <= end
      /\ payload[t] \in Nat /\ i_size \in Nat
  <2>1. i_size' = IF end > i_size THEN end ELSE i_size
    BY Zenon, <1>1, <1>3
  <2>2. i_size <= at /\ at \in Nat /\ end <= Capacity /\ end = at + payload[t]
    BY Zenon, <1>3, <1>5, <1>6
  <2> QED
    BY SMT, <1>4, <2>1, <2>2, Sizes
<1>8. /\ rows' \in Seq(RowSet) /\ since \in 0 .. Len(rows') /\ Len(rows') = Len(rows) + 1
      /\ rows'[Len(rows')] = r /\ \A i \in 1 .. Len(rows) : rows'[i] = rows[i]
  <2>1. r \in RowSet
    <3>1. row[t] \in Nat
      BY SMT, <1>4, SizesAssumption
    <3> QED
      BY Zenon, <1>4, <1>7, <3>1 DEF RowSet, r, at
  <2>2. rows \in Seq(RowSet) /\ since \in 0 .. Len(rows)
    BY Zenon, <1>0 DEF TypeOK, RowSet
  <2> QED
    BY SMT, <1>1, <2>1, <2>2
<1>9. TypeOK'
  BY Zenon, <1>0, <1>1, <1>2, <1>7, <1>8 DEF TypeOK, RowSet, local
<1>10. CacheInv'
  <2>1. HeaderLen <= i_size => HeaderLen <= i_size'
    BY SMT, <1>7, Sizes
  <2> QED
    BY Zenon, <1>0, <1>1, <2>1 DEF CacheInv
<1>11. RowsAreWhole'
  <2>0. /\ Len(rows) \in Nat /\ since \in Nat /\ since' = since /\ Len(rows') = Len(rows) + 1
        /\ \A i \in since + 1 .. Len(rows) :
             /\ i \in 1 .. Len(rows) /\ rows'[i] = rows[i] /\ Whole(rows[i])
             /\ rows[i].at \in Nat /\ rows[i].len \in Nat /\ rows[i].at + rows[i].len \in Nat
    BY Zenon, <1>0, <1>1, <1>8, RowType DEF RowsAreWhole
  <2>1. /\ r.at + r.len <= i_size' /\ (r.at % BlockSize) + r.len <= BlockSize
        /\ \A o \in r.at .. r.at + r.len - 1 : data'[o] = r.id
    <3>1. end <= i_size'
      BY Zenon, <1>7, LeqSelf
    <3>2. r.at + r.len = end /\ r.at = at /\ data' = data /\ r.id = row[t]
      BY Zenon, <1>1, <1>6
    <3>3. \A o \in r.at .. r.at + r.len - 1 : data'[o] = r.id
      BY Zenon, <1>3, <1>6, <3>2
    <3> QED
      BY Zenon, <1>5, <1>6, <3>1, <3>2, <3>3
  <2>2. ASSUME NEW i \in since + 1 .. Len(rows)
        PROVE  /\ Whole(rows[i])' /\ rows'[i] = rows[i]
               /\ rows[i].at + rows[i].len <= r.at
    <3>1. rows[i].at + rows[i].len <= i_size
      BY Zenon, <2>0 DEF Whole
    <3>2. rows[i].at + rows[i].len <= i_size' /\ rows[i].at + rows[i].len <= at
      BY SMT, <1>3, <1>5, <1>7, <2>0, <3>1
    <3> QED
      BY ZenonT(30), <1>1, <1>6, <2>0, <3>2 DEF Whole
  <2>3. \A i \in since' + 1 .. Len(rows') : i \in since + 1 .. Len(rows) \/ i = Len(rows')
    BY SMT, <2>0
  <2>4. \A i, j \in since' + 1 .. Len(rows') : i < j => i \in since + 1 .. Len(rows)
    BY SMT, <2>0
  <2>5. \A i \in since' + 1 .. Len(rows') : Whole(rows[i])'
    BY Zenon, <1>8, <2>1, <2>2, <2>3 DEF Whole
  <2>6. ASSUME NEW i \in since' + 1 .. Len(rows'), NEW j \in since' + 1 .. Len(rows'), i < j
        PROVE  rows'[i].at + rows'[i].len <= rows'[j].at
    <3>1. i \in since + 1 .. Len(rows)
      BY Zenon, <2>4, <2>6
    <3>2. CASE j = Len(rows')
      BY Zenon, <1>8, <2>2, <3>1, <3>2
    <3>3. CASE j \in since + 1 .. Len(rows)
      BY Zenon, <1>0, <2>2, <2>6, <3>1, <3>3 DEF RowsAreWhole
    <3> QED
      BY Zenon, <2>3, <3>2, <3>3
  <2> QED
    BY Zenon, <2>5, <2>6 DEF RowsAreWhole
<1>12. ThreadInv(t)'
  <2>1. pos[t] <= i_size'
    <3>1. pos[t] \in 0 .. Capacity /\ pos[t] <= i_size
      BY Zenon, <1>0, Own DEF ThreadInv
    <3> QED
      BY SMT, <1>7, <3>1, Sizes
  <2> QED
    BY Zenon, <1>0, <1>1, <1>2, <2>1 DEF ThreadInv, InFile, InWrite, local
<1>13. ASSUME NEW u \in Threads \ {t} PROVE Apart(u)
  <2>1. mutex # u /\ mutex' # u
    BY Zenon, <1>1, <1>3, ThreadsAssumption
  <2> QED
    BY Zenon, <1>1, <1>2, <1>7, <2>1 DEF Apart, local
<1> QED
  BY Zenon, <1>0, <1>9, <1>10, <1>11, <1>12, <1>13, StepInv

--------------------------------------------------------------------------------
(*****************************************************************************)
(* onefilefs_read                                                            *)
(*****************************************************************************)
LEMMA ReadSizeInv ==
  ASSUME Inv, NEW t \in Readers, NEW n \in Lengths, ReadSize(t, n)
  PROVE  Inv'
<1> DEFINE known == IF Len(rows) > since THEN rows[Len(rows)].at + rows[Len(rows)].len
                    ELSE HeaderLen
<1>0. /\ t \in Threads /\ TypeOK /\ CacheInv /\ ThreadInv(t) /\ RowsAreWhole
      /\ i_size \in 0 .. Capacity
  BY Zenon, Own DEF Threads
<1>1. /\ UNCHANGED <<cache, data, mutex, row, payload, pos, got, writes, rows, since>>
      /\ file_size' = [file_size EXCEPT ![t] = i_size] /\ len' = [len EXCEPT ![t] = n]
      /\ acked' = [acked EXCEPT ![t] = known]
      /\ pc[t] \in {"open", "r_end"} /\ Goto(t, "r_lock")
  BY Zenon DEF ReadSize
<1>2. /\ pc' \in [Threads -> Labels] /\ pc'[t] = "r_lock"
      /\ \A u \in Threads \ {t} : pc'[u] = pc[u]
  BY Zenon, <1>0, <1>1, Members, GotoType
<1>3. known \in 0 .. Capacity /\ known <= i_size
  <2>1. CASE Len(rows) > since
    <3>1. Len(rows) \in since + 1 .. Len(rows)
      BY SMT, <1>0, <2>1, RowType
    <3>2. /\ rows[Len(rows)].at + rows[Len(rows)].len \in Nat
          /\ rows[Len(rows)].at + rows[Len(rows)].len <= i_size
      BY Zenon, <1>0, <3>1, RowType DEF RowsAreWhole, Whole
    <3>3. known = rows[Len(rows)].at + rows[Len(rows)].len
      BY Zenon, <2>1
    <3> HIDE DEF known
    <3> QED
      BY SMT, <1>0, <3>2, <3>3, Sizes
  <2>2. CASE ~(Len(rows) > since)
    <3>1. known = HeaderLen /\ HeaderLen <= i_size
      BY Zenon, <1>0, <1>1, <2>2 DEF CacheInv, ThreadInv, InFile
    <3> QED
      BY Zenon, <3>1, Sizes
  <2> QED
    BY Zenon, <2>1, <2>2
<1> HIDE DEF known
<1>4. /\ file_size' \in [Threads -> 0 .. Capacity] /\ len' \in [Threads -> Nat]
      /\ acked' \in [Threads -> 0 .. Capacity]
      /\ file_size'[t] = i_size /\ acked'[t] = known
      /\ \A u \in Threads \ {t} : file_size'[u] = file_size[u] /\ acked'[u] = acked[u]
  <2>1. /\ file_size \in [Threads -> 0 .. Capacity] /\ len \in [Threads -> Nat]
        /\ acked \in [Threads -> 0 .. Capacity] /\ n \in Nat
    BY Zenon, <1>0, SizesAssumption DEF TypeOK
  <2> QED
    BY Zenon, <1>0, <1>1, <1>3, <2>1, Update
<1>5. TypeOK'
  BY Zenon, <1>0, <1>1, <1>2, <1>4 DEF TypeOK, cache
<1>6. CacheInv' /\ RowsAreWhole'
  BY Zenon, <1>0, <1>1, SameRows DEF CacheInv, cache
<1>7. ThreadInv(t)'
  <2>1. i_size <= i_size
    BY SMT, <1>0, Sizes
  <2> QED
    BY Zenon, <1>0, <1>1, <1>2, <1>3, <1>4, <2>1 DEF ThreadInv, InFile, InWrite, cache
<1>8. \A u \in Threads \ {t} : Apart(u)
  BY Zenon, <1>1, <1>2, <1>4, Still DEF cache
<1> QED
  BY Zenon, <1>0, <1>5, <1>6, <1>7, <1>8, StepInv

LEMMA ReadEndInv ==
  ASSUME Inv, NEW t \in Readers, ReadEnd(t) \/ ReadEIO(t)
  PROVE  Inv'
<1>0. t \in Threads /\ TypeOK /\ CacheInv /\ ThreadInv(t) /\ RowsAreWhole
  BY Zenon, Own DEF Threads
<1>1. /\ UNCHANGED <<cache, data, mutex, local, writes, rows, since, acked>> /\ pc[t] = "r_lock"
      /\ \/ pos[t] >= file_size[t] /\ Goto(t, "r_end")
         \/ Goto(t, "open")
  BY Zenon DEF ReadEnd, ReadEIO
<1>2. /\ pc' \in [Threads -> Labels]
      /\ \A u \in Threads \ {t} : pc'[u] = pc[u]
      /\ \/ pos[t] >= file_size[t] /\ pc'[t] = "r_end"
         \/ pc'[t] = "open"
  BY Zenon, <1>0, <1>1, Members, GotoType
<1>3. TypeOK'
  BY Zenon, <1>0, <1>1, <1>2 DEF TypeOK, cache, local
<1>4. CacheInv' /\ RowsAreWhole'
  BY Zenon, <1>0, <1>1, SameRows DEF CacheInv, cache
<1>5. pos[t] >= file_size[t] => acked[t] <= pos[t]
  <2>1. acked[t] <= file_size[t]
    BY Zenon, <1>0, <1>1 DEF ThreadInv
  <2>2. /\ acked[t] \in 0 .. Capacity /\ file_size[t] \in 0 .. Capacity
        /\ pos[t] \in 0 .. Capacity
    BY Zenon, <1>0, Own
  <2> QED
    BY SMT, <2>1, <2>2, Sizes
<1>6. ThreadInv(t)'
  <2>1. CASE pc'[t] = "open"
    BY Zenon, <1>0, <1>1, <2>1 DEF ThreadInv, InFile, InWrite, cache, local
  <2>2. CASE pos[t] >= file_size[t] /\ pc'[t] = "r_end"
    BY Zenon, <1>0, <1>1, <1>5, <2>2 DEF ThreadInv, InFile, InWrite, cache, local
  <2> QED
    BY Zenon, <1>2, <2>1, <2>2
<1>7. \A u \in Threads \ {t} : Apart(u)
  BY Zenon, <1>1, <1>2, Still DEF cache, local
<1> QED
  BY Zenon, <1>0, <1>3, <1>4, <1>6, <1>7, StepInv

\* A read stays within the size it has seen.
LEMMA Bounded ==
  ASSUME Inv, NEW t \in Threads, pos[t] < file_size[t]
  PROVE  Available(t) \in Nat /\ pos[t] + Available(t) <= file_size[t]
<1>1. /\ pos[t] \in Nat /\ file_size[t] \in Nat /\ len[t] \in Nat
      /\ (pos[t] % BlockSize) \in 0 .. BlockSize - 1 /\ BlockSize \in Nat
  <2>1. pos[t] \in Nat /\ file_size[t] \in Nat /\ len[t] \in Nat /\ BlockSize \in Nat \ {0}
    BY SMT, Own, Sizes
  <2> QED
    BY Zenon, <2>1, Division
<1> DEFINE o == pos[t] % BlockSize
<1>2. Available(t) = MIN(MIN(len[t], file_size[t] - pos[t]), BlockSize - o)
  BY Zenon DEF Available
<1> HIDE DEF o
<1>3. o \in 0 .. BlockSize - 1
  BY Zenon, <1>1 DEF o
<1>4. MIN(len[t], file_size[t] - pos[t]) \in 0 .. file_size[t] - pos[t]
  BY SMT, <1>1 DEF MIN
<1> DEFINE m == MIN(len[t], file_size[t] - pos[t])
<1> HIDE DEF m
<1>5. m \in 0 .. file_size[t] - pos[t] /\ Available(t) = MIN(m, BlockSize - o)
  BY Zenon, <1>2, <1>4 DEF m
<1> QED
  BY SMT, <1>1, <1>3, <1>5 DEF MIN

LEMMA Longer ==
  ASSUME NEW s \in Seq(Nat), NEW e \in Seq(Nat)
  PROVE  /\ s \o e \in Seq(Nat) /\ Len(s \o e) = Len(s) + Len(e)
         /\ \A k \in 1 .. Len(s) : (s \o e)[k] = s[k]
BY SMT

LEMMA Behind ==
  ASSUME NEW s \in Seq(Nat), NEW e \in Seq(Nat), NEW k \in 1 .. Len(s \o e), k > Len(s)
  PROVE  (s \o e)[k] = e[k - Len(s)]
BY SMT

LEMMA ReadDataInv ==
  ASSUME Inv, NEW t \in Readers, ReadData(t)
  PROVE  Inv'
<1>0. t \in Threads /\ TypeOK /\ CacheInv /\ ThreadInv(t) /\ RowsAreWhole
  BY Zenon, Own DEF Threads
<1>1. PICK n \in (IF Faults THEN 0 .. Available(t) ELSE {Available(t)}) :
        /\ got' = [got EXCEPT ![t] = got[t] \o [k \in 1 .. n |-> data[pos[t] + k - 1]]]
        /\ pos' = [pos EXCEPT ![t] = pos[t] + n]
  BY Zenon, <1>0 DEF ReadData, TypeOK
<1>2. /\ UNCHANGED <<cache, data, mutex, row, payload, file_size, len, writes, rows, since, acked>>
      /\ pc[t] = "r_lock" /\ pos[t] < file_size[t] /\ Goto(t, "open")
  BY Zenon DEF ReadData
<1>3. /\ pc' \in [Threads -> Labels] /\ pc'[t] = "open"
      /\ \A u \in Threads \ {t} : pc'[u] = pc[u]
  BY Zenon, <1>0, <1>2, Members, GotoType
<1> DEFINE e == [k \in 1 .. n |-> data[pos[t] + k - 1]]
<1>4. n \in Nat /\ n <= Available(t)
  <2>1. Available(t) \in Nat
    BY Zenon, <1>0, <1>2, Bounded
  <2>2. n \in 0 .. Available(t) \/ n = Available(t)
    BY Zenon, <1>1
  <2> QED
    BY SMT, <2>1, <2>2
<1>5. /\ pos[t] \in Nat /\ pos[t] + n \in 0 .. Capacity /\ pos[t] + n <= i_size
      /\ got[t] \in Seq(Nat) /\ Len(got[t]) = pos[t]
      /\ \A k \in 1 .. pos[t] : got[t][k] = data[k - 1]
  <2>1. Available(t) \in Nat /\ pos[t] + Available(t) <= file_size[t] /\ file_size[t] <= i_size
    BY Zenon, <1>0, <1>2, Bounded DEF ThreadInv
  <2>2. /\ pos[t] \in 0 .. Capacity /\ file_size[t] \in 0 .. Capacity /\ i_size \in 0 .. Capacity
        /\ got[t] \in Seq(Nat)
    BY Zenon, <1>0, Own
  <2>3. pos[t] \in Nat /\ pos[t] + n \in 0 .. Capacity /\ pos[t] + n <= i_size
    BY Zenon, <1>4, <2>1, <2>2, Sizes, Advance
  <2> QED
    BY Zenon, <1>0, <2>2, <2>3 DEF ThreadInv
<1>6. e \in Seq(Nat) /\ Len(e) = n
  <2>1. data \in [0 .. Capacity - 1 -> 0 .. MaxWrites]
    BY Zenon, <1>0 DEF TypeOK
  <2>2. \A k \in 1 .. n : pos[t] + k - 1 \in 0 .. Capacity - 1
    BY Zenon, <1>4, <1>5, Sizes, Ahead
  <2>3. \A k \in 1 .. n : data[pos[t] + k - 1] \in 0 .. MaxWrites
    BY Zenon, <2>1, <2>2
  <2>4. \A k \in 1 .. n : data[pos[t] + k - 1] \in Nat
    BY SMT, <2>3, SizesAssumption
  <2> QED
    BY SMT, <1>4, <2>4
<1>7. \A k \in 1 .. n : e[k] = data[pos[t] + k - 1]
  BY Zenon
<1>8. got' = [got EXCEPT ![t] = got[t] \o e]
  BY Zenon, <1>1
<1> HIDE DEF e
<1>9. /\ got' \in [Threads -> Seq(Nat)] /\ pos' \in [Threads -> 0 .. Capacity]
      /\ got'[t] = got[t] \o e /\ pos'[t] = pos[t] + n
      /\ \A u \in Threads \ {t} : got'[u] = got[u] /\ pos'[u] = pos[u]
  <2>1. got \in [Threads -> Seq(Nat)] /\ pos \in [Threads -> 0 .. Capacity]
    BY Zenon, <1>0 DEF TypeOK
  <2>2. got[t] \o e \in Seq(Nat)
    BY Zenon, <1>4, <1>5, <1>6, Longer
  <2>3. got' \in [Threads -> Seq(Nat)]
    BY Zenon, <1>0, <1>8, <2>1, <2>2, Update
  <2>4. pos' \in [Threads -> 0 .. Capacity]
    BY Zenon, <1>0, <1>1, <1>5, <2>1, Update
  <2> QED
    BY Zenon, <1>0, <1>1, <1>8, <2>1, <2>3, <2>4
<1>10. Len(got'[t]) = pos'[t] /\ \A k \in 1 .. pos'[t] : got'[t][k] = data'[k - 1]
  <2>1. /\ Len(got[t] \o e) = pos[t] + n
        /\ \A k \in 1 .. pos[t] : (got[t] \o e)[k] = got[t][k]
        /\ \A k \in 1 .. pos[t] + n : k > pos[t] => (got[t] \o e)[k] = e[k - pos[t]]
    <3>1. /\ got[t] \in Seq(Nat) /\ e \in Seq(Nat) /\ pos[t] \in Nat /\ n \in Nat
          /\ Len(got[t]) = pos[t] /\ Len(e) = n
      BY Zenon, <1>4, <1>5, <1>6
    <3>2. Len(got[t] \o e) = pos[t] + n
      BY ZenonT(30), <3>1, Longer
    <3>3. \A k \in 1 .. pos[t] : (got[t] \o e)[k] = got[t][k]
      BY Zenon, <3>1, Longer
    <3>4. ASSUME NEW k \in 1 .. pos[t] + n, k > pos[t]
          PROVE  (got[t] \o e)[k] = e[k - pos[t]]
      <4>1. k \in 1 .. Len(got[t] \o e) /\ k > Len(got[t])
        BY Zenon, <3>1, <3>2, <3>4
      <4>2. (got[t] \o e)[k] = e[k - Len(got[t])]
        BY Zenon, <3>1, <4>1, Behind
      <4> QED
        BY Zenon, <3>1, <4>2
    <3> QED
      BY Zenon, <3>2, <3>3, <3>4
  <2>2. ASSUME NEW k \in 1 .. pos[t] + n PROVE (got[t] \o e)[k] = data[k - 1]
    <3>1. CASE k <= pos[t]
      <4>1. k \in 1 .. pos[t]
        BY Zenon, <1>4, <1>5, <3>1, Parts
      <4> QED
        BY Zenon, <1>5, <2>1, <4>1
    <3>2. CASE k > pos[t]
      <4>1. k - pos[t] \in 1 .. n /\ pos[t] + (k - pos[t]) - 1 = k - 1
        BY Zenon, <1>4, <1>5, <3>2, Parts
      <4> QED
        BY Zenon, <1>7, <2>1, <3>2, <4>1
    <3>3. k <= pos[t] \/ k > pos[t]
      BY Zenon, <1>4, <1>5, Parts
    <3> QED
      BY Zenon, <3>1, <3>2, <3>3
  <2> QED
    BY Zenon, <1>2, <1>9, <2>1, <2>2
<1>11. TypeOK'
  BY Zenon, <1>0, <1>2, <1>3, <1>9 DEF TypeOK, cache
<1>12. CacheInv' /\ RowsAreWhole'
  BY Zenon, <1>0, <1>2, SameRows DEF CacheInv, cache
<1>13. ThreadInv(t)'
  <2>1. pos'[t] <= i_size'
    BY Zenon, <1>2, <1>5, <1>9 DEF cache
  <2>2. InFile(t)' /\ dentry' /\ ~InWrite(t)' /\ mutex' # t
    BY Zenon, <1>0, <1>2, <1>3 DEF ThreadInv, InFile, InWrite, cache
  <2> QED
    BY Zenon, <1>3, <1>10, <2>1, <2>2 DEF ThreadInv
<1>14. \A u \in Threads \ {t} : Apart(u)
  BY Zenon, <1>2, <1>3, <1>9, Still DEF cache
<1> QED
  BY Zenon, <1>0, <1>11, <1>12, <1>13, <1>14, StepInv

--------------------------------------------------------------------------------
(*****************************************************************************)
(* The theorems                                                              *)
(*****************************************************************************)
LEMMA InitInv == Init => Inv
<1> SUFFICES ASSUME Init PROVE Inv
  OBVIOUS
<1>1. 0 \in 0 .. Capacity /\ 0 \in 0 .. BlockSize /\ 0 \in 0 .. MaxWrites /\ 0 \in Nat /\ 0 <= 0
  BY SMT, Sizes, SizesAssumption
<1>2. /\ rows \in Seq(RowSet) /\ Len(rows) = 0 /\ since \in 0 .. Len(rows)
      /\ \A i \in since + 1 .. Len(rows) : FALSE
  <2>1. rows = << >> /\ since = 0
    BY Zenon DEF Init
  <2> QED
    BY SMT, <2>1
<1>3. /\ Len(<< >>) = 0 /\ << >> \in Seq(Nat) /\ \A k \in 1 .. 0 : FALSE
  BY SMT
<1>4. TypeOK
  BY Zenon, <1>1, <1>2, <1>3, Members DEF Init, TypeOK, RowSet
<1>5. CacheInv
  BY Zenon DEF Init, CacheInv
<1>6. ASSUME NEW t \in Threads PROVE ThreadInv(t)
  <2>1. pc[t] = "closed" /\ pos[t] = 0 /\ got[t] = << >> /\ mutex # t /\ i_size = 0
    BY Zenon, ThreadsAssumption DEF Init
  <2> QED
    BY Zenon, <1>1, <1>3, <2>1 DEF ThreadInv, InFile, InWrite
<1>7. RowsAreWhole
  BY Zenon, <1>2 DEF RowsAreWhole
<1> QED
  BY Zenon, <1>4, <1>5, <1>6, <1>7 DEF Inv

LEMMA NextInv == Inv /\ [Next]_vars => Inv'
<1> SUFFICES ASSUME Inv, [Next]_vars PROVE Inv'
  OBVIOUS
<1>1. CASE Next
  <2>1. ASSUME NEW t \in Writers, WriteStep(t) PROVE Inv'
    BY Zenon, <2>1, WriteFailsInv, WriteDataInv, WriteSizeInv DEF WriteStep
  <2>2. ASSUME NEW t \in Readers, ReadStep(t) PROVE Inv'
    BY Zenon, <2>2, ReadEndInv, ReadDataInv DEF ReadStep
  <2> QED
    BY Zenon, <1>1, <2>1, <2>2, KernelInv, OpenOrCloseInv, WriteCallInv, WriteLockInv,
       ReadSizeInv DEF Next
<1>2. CASE UNCHANGED vars
  <2>1. /\ UNCHANGED <<mounted, inode, i_size, dentry, data, mutex, pc, writes, rows, since, acked>>
        /\ UNCHANGED <<row, payload, file_size, len, pos, got>>
    BY Zenon, <1>2 DEF vars, cache, local
  <2>2. TypeOK' /\ CacheInv' /\ RowsAreWhole'
    BY Zenon, <2>1, SameRows DEF Inv, TypeOK, CacheInv
  <2>3. ASSUME NEW t \in Threads PROVE ThreadInv(t)'
    BY Zenon, <2>1, <2>2, Still, ApartKeeps
  <2> QED
    BY Zenon, <2>2, <2>3 DEF Inv
<1> QED
  BY Zenon, <1>1, <1>2

\* The inductive invariant holds in every state.
THEOREM Invariance == Spec => []Inv
BY InitInv, NextInv, PTL DEF Spec

\* The log never outgrows its device, whatever its writers ask for: onefile_write
\* refuses a row whose block is not one of the device.
THEOREM TypeCorrect == Spec => []TypeOK
<1>1. Inv => TypeOK
  BY Zenon DEF Inv
<1> QED
  BY <1>1, Invariance, PTL

\* Rows that were acknowledged are in the file, whole, each in one block, in the
\* order of their acknowledgements: the mutex covers everything from the read of
\* the size to its store, and a write that fails publishes nothing.
THEOREM RowsStayWhole == Spec => []RowsAreWhole
<1>1. Inv => RowsAreWhole
  BY Zenon DEF Inv
<1> QED
  BY <1>1, Invariance, PTL

\* A reader reads what the file holds, and is told that the file ends behind
\* every row that was acknowledged before its call, although onefilefs_read has
\* read the size before it takes the mutex.
THEOREM ReadersSeeRows == Spec => []ReadersFollow
<1>1. Inv => ReadersFollow
  <2> SUFFICES ASSUME Inv, NEW t \in Readers
               PROVE  /\ Len(got[t]) = pos[t]
                      /\ \A k \in 1 .. Len(got[t]) : got[t][k] = data[k - 1]
                      /\ pc[t] = "r_end" => pos[t] >= acked[t]
    BY Zenon DEF ReadersFollow
  <2>1. t \in Threads /\ ThreadInv(t) /\ pos[t] \in 0 .. Capacity /\ acked[t] \in 0 .. Capacity
    BY Zenon, Own DEF Threads
  <2>2. acked[t] <= pos[t] => pos[t] >= acked[t]
    BY SMT, <2>1, Sizes
  <2> QED
    BY Zenon, <2>1, <2>2 DEF ThreadInv
<1> QED
  BY <1>1, Invariance, PTL
================================================================================
