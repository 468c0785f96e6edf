--------------------------------- MODULE LogFS ---------------------------------
(*****************************************************************************)
(* The log file system: one file on a block device, written at its end only. *)
(*                                                                           *)
(*   onefile_write, onefilefs_read, onefilefs_lookup            (file.c)     *)
(*   singlefilefs_fill_super, singlefilefs_kill_superblock (file_system.c)   *)
(*   the device that singlefilemakefs.c prepares                             *)
(*                                                                           *)
(* A byte of the file is the number of the write it comes from.  The caches  *)
(* of the kernel (the dentry and the inode of the file, which are kept while *)
(* the file is open and may be reclaimed otherwise) are modelled from how    *)
(* file.c uses them.                                                         *)
(*****************************************************************************)
EXTENDS Integers, Sequences

CONSTANTS
  Writers,      \* threads that open the file and write
  Readers,      \* threads that open the file and read it from the start
  NoThread,     \* the mutex is free
  BlockSize,    \* DEFAULT_BLOCK_SIZE
  Blocks,       \* data blocks of the device
  HeaderLen,    \* strlen(file_body): the file_size that mkfs stores on the device
  Payloads,     \* byte counts of writes (a row of the log has at most 255)
  Lengths,      \* byte counts of reads
  MaxWrites,    \* bound: number of writes ever begun
  AllocFails,   \* the kernel allocator may fail
  Faults,       \* the device, or a copy from or to user space, may fail
  Reclaims      \* the kernel reclaims caches, and the file system is unmounted

Threads  == Writers \cup Readers
Capacity == Blocks * BlockSize

ASSUME ThreadsAssumption ==
  /\ NoThread \notin Threads
  /\ Writers \cap Readers = {}
ASSUME SizesAssumption ==
  /\ BlockSize \in Nat \ {0}
  /\ Blocks \in Nat \ {0}
  /\ HeaderLen \in 0 .. BlockSize
  /\ Payloads \subseteq 0 .. BlockSize
  /\ Lengths \subseteq Nat
  /\ MaxWrites \in Nat
ASSUME FailuresAssumption ==
  AllocFails \in BOOLEAN /\ Faults \in BOOLEAN /\ Reclaims \in BOOLEAN

VARIABLES
  mounted,      \* "no", "yes", or "dead": a mount died in singlefilefs_fill_super
  data,         \* offset in the data blocks -> the write the byte comes from
  inode,        \* the file's inode: "none", "cached", or "new": locked for ever
  i_size,       \* its size
  dentry,       \* the dentry cache has the file
  mutex,        \* who holds it
  pc,           \* where each thread is
  row,          \* the number of a write
  payload,      \* bytes to write
  file_size,    \* the size a call has read
  len,          \* bytes to read
  pos,          \* f_pos of a reader
  got,          \* the bytes a reader has read since it opened the file
  writes,       \* number of writes begun
  (* History variables: no action reads them. *)
  rows,         \* the writes that returned their payload: id, at, len
  since,        \* how many of them were made before the inode was last read
  acked         \* where the file ended when the reader's call began

cache == <<mounted, inode, i_size, dentry>>
local == <<row, payload, file_size, len, pos, got>>
vars  == <<cache, data, mutex, pc, local, writes, rows, since, acked>>

MIN(a, b) == IF a < b THEN a ELSE b

\* The device as mkfs leaves it: the header is byte 0 of no write.
Init ==
  /\ mounted = "no"
  /\ data = [o \in 0 .. Capacity - 1 |-> 0]
  /\ inode = "none"
  /\ i_size = 0
  /\ dentry = FALSE
  /\ mutex = NoThread
  /\ pc = [t \in Threads |-> "closed"]
  /\ row = [t \in Threads |-> 0]
  /\ payload = [t \in Threads |-> 0]
  /\ file_size = [t \in Threads |-> 0]
  /\ len = [t \in Threads |-> 0]
  /\ pos = [t \in Threads |-> 0]
  /\ got = [t \in Threads |-> << >>]
  /\ writes = 0
  /\ rows = << >>
  /\ since = 0
  /\ acked = [t \in Threads |-> 0]

Goto(t, label) == pc' = [pc EXCEPT ![t] = label]

\* Nobody has the file open.
Idle == \A t \in Threads : pc[t] \in {"closed", "oops"}

(*****************************************************************************)
(* Mounting                                                                  *)
(*****************************************************************************)
singlefilefs_fill_super ==
  /\ mounted = "no"
  /\ mounted' = "yes"
  /\ UNCHANGED <<data, inode, i_size, dentry, mutex, pc, local, writes, rows, since, acked>>

\* The superblock cannot be read: sb is tested where bh is meant, and the NULL
\* buffer is read.
FillSuperDies ==
  /\ Faults
  /\ mounted = "no"
  /\ mounted' = "dead"
  /\ UNCHANGED <<data, inode, i_size, dentry, mutex, pc, local, writes, rows, since, acked>>

\* kill_block_super writes the data blocks back and drops the caches.
singlefilefs_kill_superblock ==
  /\ Reclaims
  /\ mounted = "yes"
  /\ Idle
  /\ inode # "new"
  /\ mounted' = "no"
  /\ dentry' = FALSE
  /\ inode' = "none"
  /\ UNCHANGED <<data, i_size, mutex, pc, local, writes, rows, since, acked>>

\* Memory is short: the dentry goes first, the inode it kept may follow.
ReclaimDentry ==
  /\ Reclaims
  /\ dentry
  /\ Idle
  /\ dentry' = FALSE
  /\ UNCHANGED <<mounted, inode, i_size, data, mutex, pc, local, writes, rows, since, acked>>

ReclaimInode ==
  /\ Reclaims
  /\ inode = "cached"
  /\ ~dentry
  /\ inode' = "none"
  /\ UNCHANGED <<mounted, i_size, dentry, data, mutex, pc, local, writes, rows, since, acked>>

(*****************************************************************************)
(* Opening: the dentry cache, and onefilefs_lookup where it has no entry.    *)
(* While the inode is "new" an open waits for it.                            *)
(*****************************************************************************)
OpenCached(t) ==
  /\ pc[t] = "closed"
  /\ mounted = "yes"
  /\ dentry
  /\ Goto(t, "open")
  /\ UNCHANGED <<cache, data, mutex, local, writes, rows, since, acked>>

\* The inode is not in memory: the size is read from the device.
LookupNew(t) ==
  /\ pc[t] = "closed"
  /\ mounted = "yes"
  /\ ~dentry
  /\ inode = "none"
  /\ inode' = "cached"
  /\ i_size' = HeaderLen
  /\ dentry' = TRUE
  /\ since' = Len(rows)
  /\ Goto(t, "open")
  /\ UNCHANGED <<mounted, data, mutex, local, writes, rows, acked>>

\* The inode block cannot be read: iput leaves the inode in the cache, locked.
LookupFails(t) ==
  /\ Faults
  /\ pc[t] = "closed"
  /\ mounted = "yes"
  /\ ~dentry
  /\ inode = "none"
  /\ inode' = "new"
  /\ UNCHANGED <<mounted, i_size, dentry, data, mutex, pc, local, writes, rows, since, acked>>

\* "already cached inode": the dentry is returned without the inode, and with
\* one reference too few.  The open fails, or its thread dies.
LookupCached(t) ==
  /\ pc[t] = "closed"
  /\ mounted = "yes"
  /\ ~dentry
  /\ inode = "cached"
  /\ \E label \in {"closed", "oops"} : Goto(t, label)
  /\ UNCHANGED <<cache, data, mutex, local, writes, rows, since, acked>>

Close(t) ==
  /\ pc[t] \in {"open", "r_end"}
  /\ Goto(t, "closed")
  /\ pos' = [pos EXCEPT ![t] = 0]
  /\ got' = [got EXCEPT ![t] = << >>]
  /\ UNCHANGED <<cache, data, mutex, row, payload, file_size, len, writes, rows, since, acked>>

(*****************************************************************************)
(* onefile_write                                                             *)
(*****************************************************************************)
WriteCall(t, n) ==
  /\ pc[t] = "open"
  /\ writes < MaxWrites
  /\ writes' = writes + 1
  /\ row' = [row EXCEPT ![t] = writes + 1]
  /\ payload' = [payload EXCEPT ![t] = n]
  /\ Goto(t, "w_lock")
  /\ UNCHANGED <<cache, data, mutex, file_size, len, pos, got, rows, since, acked>>

WriteLock(t) ==
  /\ pc[t] = "w_lock"
  /\ mutex = NoThread
  /\ mutex' = t
  /\ file_size' = [file_size EXCEPT ![t] = i_size]
  /\ Goto(t, "w_data")
  /\ UNCHANGED <<cache, data, row, payload, len, pos, got, writes, rows, since, acked>>

\* Faulty variant: a payload that is one byte too long for the block goes there.
OffsetStraddles(t) ==
  LET room == BlockSize - (file_size[t] % BlockSize)
  IN  file_size[t] + IF room + 1 < payload[t] THEN room ELSE 0

\* Where the payload goes: the end of the file, or the start of the next block
\* if the rest of the block is too small for it.
Offset(t) ==
  LET room == BlockSize - (file_size[t] % BlockSize)
  IN  file_size[t] + IF room < payload[t] THEN room ELSE 0

\* Every return of onefile_write.
WriteReturn(t) ==
  /\ mutex' = NoThread
  /\ Goto(t, "open")

\* No memory for the copy, or the copy fails: 0 bytes are written.
WriteNothing(t) ==
  /\ AllocFails \/ Faults
  /\ pc[t] = "w_data"
  /\ WriteReturn(t)
  /\ UNCHANGED <<cache, data, local, writes, rows, since, acked>>

\* Faulty variant: the error path keeps the mutex.
WriteEIOKeepsMutex(t) ==
  /\ pc[t] = "w_data"
  /\ Faults \/ Offset(t) \div BlockSize >= Blocks
  /\ Goto(t, "open")
  /\ UNCHANGED <<cache, data, mutex, local, writes, rows, since, acked>>

\* sb_bread fails, at the end of the device in any case: -EIO.
WriteEIO(t) ==
  /\ pc[t] = "w_data"
  /\ Faults \/ Offset(t) \div BlockSize >= Blocks
  /\ WriteReturn(t)
  /\ UNCHANGED <<cache, data, local, writes, rows, since, acked>>

\* Faulty variant: the result of sb_bread is not tested.
WriteDataUntested(t) ==
  /\ pc[t] = "w_data"
  /\ data' = [o \in DOMAIN data |->
                IF Offset(t) <= o /\ o < Offset(t) + payload[t] THEN row[t] ELSE data[o]]
  /\ Goto(t, "w_size")
  /\ UNCHANGED <<cache, mutex, local, writes, rows, since, acked>>

\* memcpy
WriteData(t) ==
  /\ pc[t] = "w_data"
  /\ Offset(t) \div BlockSize < Blocks
  /\ data' = [o \in DOMAIN data |->
                IF Offset(t) <= o /\ o < Offset(t) + payload[t] THEN row[t] ELSE data[o]]
  /\ Goto(t, "w_size")
  /\ UNCHANGED <<cache, mutex, local, writes, rows, since, acked>>

WriteSize(t) ==
  LET end == Offset(t) + payload[t]
  IN  /\ pc[t] = "w_size"
      /\ i_size' = IF end > file_size[t] THEN end ELSE i_size
      /\ rows' = Append(rows, [id |-> row[t], at |-> Offset(t), len |-> payload[t]])
      /\ WriteReturn(t)
      /\ UNCHANGED <<mounted, inode, dentry, data, local, writes, since, acked>>

(*****************************************************************************)
(* onefilefs_read: the size is read before the mutex is taken.               *)
(*****************************************************************************)
ReadSize(t, n) ==
  /\ pc[t] \in {"open", "r_end"}
  /\ file_size' = [file_size EXCEPT ![t] = i_size]
  /\ len' = [len EXCEPT ![t] = n]
  /\ acked' = [acked EXCEPT ![t] =
                 IF Len(rows) > since THEN rows[Len(rows)].at + rows[Len(rows)].len
                 ELSE HeaderLen]
  /\ Goto(t, "r_lock")
  /\ UNCHANGED <<cache, data, mutex, row, payload, pos, got, writes, rows, since>>

\* Faulty variant: the read is bounded by the block only.
AvailableInBlock(t) == MIN(len[t], BlockSize - (pos[t] % BlockSize))

\* What is left of the file and of the block bounds the read.
Available(t) ==
  LET inFile  == MIN(len[t], file_size[t] - pos[t])
      inBlock == BlockSize - (pos[t] % BlockSize)
  IN  MIN(inFile, inBlock)

\* The offset is not within the file: 0 bytes are read.
ReadEnd(t) ==
  /\ pc[t] = "r_lock"
  /\ mutex = NoThread
  /\ pos[t] >= file_size[t]
  /\ Goto(t, "r_end")
  /\ UNCHANGED <<cache, data, mutex, local, writes, rows, since, acked>>

ReadEIO(t) ==
  /\ Faults
  /\ pc[t] = "r_lock"
  /\ mutex = NoThread
  /\ pos[t] < file_size[t]
  /\ Goto(t, "open")
  /\ UNCHANGED <<cache, data, mutex, local, writes, rows, since, acked>>

\* copy_to_user may copy less than it was asked for.
ReadData(t) ==
  /\ pc[t] = "r_lock"
  /\ mutex = NoThread
  /\ pos[t] < file_size[t]
  /\ \E n \in IF Faults THEN 0 .. Available(t) ELSE {Available(t)} :
       /\ got' = [got EXCEPT ![t] = @ \o [k \in 1 .. n |-> data[pos[t] + k - 1]]]
       /\ pos' = [pos EXCEPT ![t] = @ + n]
  /\ Goto(t, "open")
  /\ UNCHANGED <<cache, data, mutex, row, payload, file_size, len, writes, rows, since, acked>>

--------------------------------------------------------------------------------
Kernel ==
  \/ singlefilefs_fill_super \/ FillSuperDies \/ singlefilefs_kill_superblock
  \/ ReclaimDentry \/ ReclaimInode

OpenOrClose(t) ==
  OpenCached(t) \/ LookupNew(t) \/ LookupFails(t) \/ LookupCached(t) \/ Close(t)

WriteStep(t) == WriteNothing(t) \/ WriteEIO(t) \/ WriteData(t) \/ WriteSize(t)

ReadStep(t) == ReadEnd(t) \/ ReadEIO(t) \/ ReadData(t)

Next ==
  \/ Kernel
  \/ \E t \in Threads : OpenOrClose(t)
  \/ \E t \in Writers : (\E n \in Payloads : WriteCall(t, n)) \/ WriteLock(t) \/ WriteStep(t)
  \/ \E t \in Readers : (\E n \in Lengths : ReadSize(t, n)) \/ ReadStep(t)

Spec == Init /\ [][Next]_vars

(*****************************************************************************)
(* A thread inside a call keeps running, and the mutex is handed to every    *)
(* waiter in the end; nobody has to call anything.                           *)
(*****************************************************************************)
Fairness ==
  /\ \A t \in Writers : SF_vars(WriteLock(t)) /\ WF_vars(WriteStep(t))
  /\ \A t \in Readers : SF_vars(ReadStep(t))

FairSpec == Spec /\ Fairness

--------------------------------------------------------------------------------
(*****************************************************************************)
(* Properties                                                                *)
(*****************************************************************************)
Labels == {"closed", "oops", "open", "w_lock", "w_data", "w_size", "r_lock", "r_end"}

\* The type of every variable: the file does not outgrow the device.
TypeOK ==
  /\ mounted \in {"no", "yes", "dead"}
  /\ data \in [0 .. Capacity - 1 -> 0 .. MaxWrites]
  /\ inode \in {"none", "new", "cached"}
  /\ i_size \in 0 .. Capacity
  /\ dentry \in BOOLEAN
  /\ mutex \in Threads \cup {NoThread}
  /\ pc \in [Threads -> Labels]
  /\ row \in [Threads -> 0 .. MaxWrites]
  /\ payload \in [Threads -> 0 .. BlockSize]
  /\ file_size \in [Threads -> 0 .. Capacity]
  /\ len \in [Threads -> Nat]
  /\ pos \in [Threads -> 0 .. Capacity]
  /\ got \in [Threads -> Seq(Nat)]
  /\ writes \in 0 .. MaxWrites
  /\ rows \in Seq([id : Nat, at : 0 .. Capacity, len : 0 .. BlockSize])
  /\ since \in 0 .. Len(rows)
  /\ acked \in [Threads -> 0 .. Capacity]

\* The row is in the file, unbroken, and in one block.
Whole(r) ==
  /\ r.at + r.len <= i_size
  /\ (r.at % BlockSize) + r.len <= BlockSize
  /\ \A o \in r.at .. r.at + r.len - 1 : data[o] = r.id

\* Whoever writes at the same time, and whichever writes fail half way: while
\* the inode stays in memory, a row whose write was acknowledged is in the file,
\* whole, in one block (a block is all that onefile_write has in memory), and
\* the rows are in the order of their acknowledgements.
RowsAreWhole ==
  /\ \A i \in since + 1 .. Len(rows) : Whole(rows[i])
  /\ \A i, j \in since + 1 .. Len(rows) :
       i < j => rows[i].at + rows[i].len <= rows[j].at

\* A reader that goes through the file while rows are added, with a size that is
\* read outside the mutex: what it has read is what the file holds, and when it
\* is told that the file ends, no row that was acknowledged before is missing.
ReadersFollow ==
  \A t \in Readers :
    /\ Len(got[t]) = pos[t]
    /\ \A k \in 1 .. Len(got[t]) : got[t][k] = data[k - 1]
    /\ pc[t] = "r_end" => pos[t] >= acked[t]

\* Every read and every write returns, on the error paths too: none keeps the
\* mutex.
CallsReturn ==
  \A t \in Threads :
    pc[t] \in {"w_lock", "w_data", "w_size", "r_lock"} ~> pc[t] \in {"open", "r_end"}

(*****************************************************************************)
(* What the documentation says, and the code does not do.                    *)
(*****************************************************************************)
\* "a single append-only file": a row that was acknowledged is still there
\* whenever the file can be read.
RowsAreKept == inode = "cached" => \A i \in DOMAIN rows : Whole(rows[i])
================================================================================
