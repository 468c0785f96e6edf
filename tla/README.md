# Verification of the reference monitor

TLA+ specifications of the Linux reference monitor in this repository, checked
with TLC on small instances; every safety property that a passing run checks is
also proved with TLAPS, for every instance that satisfies the named assumptions.
`PROJECT.json` has the runs, the lines each definition models, the hazards, the
findings and the theorems in machine-readable form.

## 1. The system

| component | state | operations | interacts with |
|---|---|---|---|
| blacklist (`utils/blacklist.c`) | linked list, `blacklist_size`, one spinlock, all in `struct reference_monitor` | `add_to_blacklist`, `remove_from_blacklist` | called by two system calls; read by `is_blacklisted` and `sys_print_blacklist` |
| monitor (`stack_reference_monitor.c`, `utils/utils.c`) | `state` (ON 0, OFF 1, REC_ON 2, REC_OFF 3), password hash | switch, get state, add, remove, get size, print; `is_blacklisted` | enables and disables the kretprobes |
| kretprobes (`kprobes/kprobes.c`) | ten probes, enabled or not, with a limited number of instances | ten entry handlers, one return handler, enable, disable, register | entry handlers call `is_blacklisted`; the return handler calls `write_on_log` |
| logger (`log/logger.c`) | works in the kernel's work queue | `write_on_log`, `deferred_work` | opens and writes the log, which passes through the probes |
| log file system (`log-filesystem/`) | blocks of a device, size of an in-memory inode, one mutex | mkfs, mount, unmount, lookup, read, write | written by the logger, read by users |
| life cycle (`init_module`, `cleanup_module`, `syscall-mount/`) | system call table entries | insertion and removal of the modules, restoring the table | system calls arrive while it runs |
| system call table discoverer | address of the table, free entries | scan of kernel memory | gives the table's address to the monitor |
| client | what its page and its menu were made for | commands on the modules, menu over the system calls | uses fixed system call numbers |
| test programs, scripts | none shared | | |

What is hard: every operation runs in the context of any thread on any
processor. `is_blacklisted` reads size, state and head before it takes the lock.
`sys_print_blacklist` takes no lock. The state is stored under the lock and the
probes are switched after it. A refusal is logged later, by another thread, whose
own open is intercepted. Allocations and copies fail, and several failures are
not tested by the code. The log's size is kept in memory only. The system calls
are in the table before the monitor is initialised, and the module is freed while
calls may be inside.

What makes each part correct:

* blacklist: no path twice; a check overlooks no entry and invents none; a print
  is complete and shows nothing removed before; a size of 0 means an empty list;
  every call that ends releases the lock. In one sentence: the list is an atomic set.
* monitor and probes: what is protected is refused once a switch is complete; the
  probes agree with the state. The list should change in the REC states only.
* logger: every refusal is recorded once, in the end, or known to be lost.
* log file system: rows are whole, ordered, in one block; readers see what was
  acknowledged; reads and writes return; the file does not outgrow the device.
* life cycle and client: the table that is found is the table, and it is put back;
  the client's numbers reach their calls; a switch that meets no other leaves the
  probes as the state says; who is not disturbed does not die in the kernel.

## 2. Modules

`Blacklist` has one action for each access to shared memory by
`add_to_blacklist`, `remove_from_blacklist`, `is_blacklisted`,
`sys_print_blacklist` and the store of `sys_switch_rf_state`. Nodes are numbered
in the order in which they are linked; the code never frees one, so a number is
never used again. The variables `removedAt`, `start`, `gone` and `modes` are
history: no action reads them. A NULL or wild pointer that is dereferenced kills
the thread (`oops`), and a lock it holds stays locked. `new->next` is never set by
the code: `ZeroedAlloc` says whether the kernel clears allocations
(`init_on_alloc=1`); otherwise the field is NULL or wild, as the allocator pleases.

`BlacklistSet` is what the list promises: a set changed atomically, and checks
whose answer was right at some moment of the check, for the list and for the
state each. `BlacklistRefinement` maps the list to it: an addition takes effect
when it is counted, a removal when the node is unlinked. The history variable `hits`
collects, with every step (`Collect`), the answers the list would have given to each
check in progress.

`Monitor` composes the system calls, the probes, the entry and return handlers
and the deferred work. Its blacklist is a set that changes in one step, which is
what the refinement justifies. A path is a model value and `Matches` says which
entry protects which path, so prefix comparison is an input of the model.
`lasting`, `steady` and `armed` are history: entries listed since an operation
began, a probed operation in a monitor that stayed on, and an operation begun
with the monitor on and no switch under way since. "Protected" is relative to the
paths that the entry handler of the function looks up. `Body`, `Begin` and the
pool of instances are the kernel's, modelled from how the handlers use them.
A worker's write is not probed: `kernel_write` is taken not to go through `vfs_write`,
as on recent kernels; on older ones it does, and the write of the log would be looked
up like its open.
`add_to_blacklist` without memory for `new->path` is in `Blacklist` only. A worker
whose open of the log is refused dies in `write_on_log`, which reads `current->mm`
(`WorkerRefused`), unless it has no memory and returns before (`WorkerNoMemory`).

`LogFS` has mounting, lookup, read and write. A byte is the number of the write
it came from. The dentry and inode caches are the kernel's: both stay while the
file is open, and may be reclaimed otherwise, the dentry first.

`Lifecycle` has the three kernel modules over their life. Memory is a function from
word addresses to words; the words are model values, and an image of it says what
is mapped, which pages are large and where the table lies. The discoverer takes a
step per page (`sys_vtpmo`, `validate_page` and `good_area` are operators), the
monitor one per store into the table, for its fields, the password, the array of
probes and their registration. `disc.hacked_ni_syscall` is the word that
`validate_page` saves and `init_module` compares with later, when the table may have
changed. A system call is dispatched through the word of the table that its number
selects, so that it meets the monitor in every phase of its insertion and removal. It
has a step for its checks and one for every access to what calls share: the store of
the state, each probe, the link and the counter of the list, the head and the size in
a print. The critical sections that change the list exclude each other (`Locked`),
and a print takes no lock. The list has one path, so that `Blacklist` remains the
module about lists. A call that uses what is not set yet, code that was freed, or
memory of size 0 kills its process (`Dies`). `Client` is what the processes do: the
page of the modules, the menu, the calls and what is done with their answers.
`settled` and `crowded` are history: the last store of a state was made in a live
monitor while nobody went through the probes; and another process was inside an
insertion, a removal, or between the two stores that change the list and its size,
since a command or call began. A variable that will be written before it is read has
its initial value, which keeps states few.

`MC*` modules give the constants their small values.

## 3. Runs

Runs that pass:

| run | instance | what it shows |
|---|---|---|
| `blacklist` | 2 threads, 2 paths, one a prefix of the other, 3 nodes; 0.9 M states | the list implements the set; no duplicates; checks and prints miss nothing that stayed and invent nothing; the counter covers the entries |
| `blacklist_faults` | 2 threads, 1 path and the empty one that a fault leaves, 2 nodes, switches to ON, failing allocations and copies, fairness; 0.23 M states | the inductive invariant of the proofs, with threads that die; a call ends, or its thread dies, or it waits for a lock whose holder has died |
| `monitor` | 1 administrator, 1 user, all ten probes, 22 requests, states -1..4, fairness; 0.25 M states | protection, probes that agree with the state, every refusal is logged in the end |
| `monitor_race` | 2 administrators, 1 instance per probe, failing allocations, log missing or protected; 0.7 M states | a probed operation is refused; every refusal is accounted for |
| `logfs` | 2 writers, 1 reader, 2 blocks of 3 bytes, all failures; 0.16 M states | rows whole and ordered, readers follow, calls return, the file fits the device |
| `client` | 2 clients, 3 pages of 9 words, a table of 9 entries across two pages, 2 probes; 0.8 M states | the table is found and put back, numbers reach their calls, a lone switch settles the probes, nobody dies undisturbed |

Runs that show a disagreement between the code and what its documentation says
(details and quotations under "findings" in `PROJECT.json`):

| run | what TLC finds |
|---|---|
| `blacklist_size` | removing an entry that is not the first leaves the size too high |
| `blacklist_fresh` | an added node may end the list with a pointer that was never set |
| `monitor_admins` | two overlapping switches leave the monitor on with a probe disabled |
| `monitor_rec` | an addition that found a REC state changes the list in a monitor that has been switched off |
| `monitor_write` | a write answered `-EACCES` has taken place |
| `logfs_remount` | the size is never stored: after a remount acknowledged rows are gone |

**Bounds.** Three nodes give a first, a centre and a last one, and a node linked
behind one that was unlinked under a reader. With the two nodes and the one
path of `blacklist_faults` a scan never goes past the first node that it compares
(`AddScan`, `ChkScan`): that is left to `blacklist`. Both runs are of
`BlacklistRefinement`, whose step is one conjunction with the history variable, so
TLC reports it as one action; which actions of `Blacklist` were taken is in the
counts that it gives for their conjuncts, and between them the two runs take all. With two paths at most two of them
are listed at once. Two threads give every pair of operations; the proofs cover
any number. `Inv` was also checked once, outside the runs, with failures and 3
nodes, with 1 path (1.2 M states) and with 2 (10.3 M states). One protected
directory and one file in it distinguish hit, miss and parent. `MaxOps` 1 lets one
operation meet every step of a switch. Blocks of 3 bytes with payloads of 0, 2 and 3
meet the exact fit, the overflow by one and the full device. Threads and administrators
that are interchangeable are a symmetry set; liveness runs have none. The image of
`client` has a mapped page, a hole and a large page that covers two; the table lies
across these two, after an array of equal pointers, which the pattern without
`good_area` would take for it, and three offsets stand for the seven of `usctm.c`.
Six entries are free and the monitor takes all of them, so that a discovery that runs
while the monitor publishes its calls or restores the entries meets every mixture.
In a second image, three entries are free: the table is found and the monitor is
refused. Two probes give a switch a first, an intermediate and a last point. Two
clients give every pair of commands and calls, and two switches that overlap.

**Restrictions of the runs.** `Protection` and `ProbesFollowState` are checked with
one administrator at a time; with two, `monitor_admins` shows that the first fails.
They are checked with enough instances of each probe, with allocations that succeed,
and with probes that were registered (`Registered` is TRUE in the runs of `Monitor`).
`RefusalsAreLogged` is checked with one user, the log mounted, not protected, and
allocations that succeed; that the device is full and the write of a row fails with
`-EIO` is an action of `LogFS`, and is not followed into `Monitor`. In `client` every
process is root, and the allocations of `encrypt_password` and `kretprobe_init`
succeed; switches go to ON and REC_OFF. `AloneIsSafe` is about processes that were
not disturbed: a client that inserts the monitor while another inserts the
discoverer, that calls the monitor while it is inserted or removed, or that prints
the list while a path is added or removed, may die. `LoneSwitchSettles` says nothing
between an overlap of two switches, or a switch before the end of the insertion, and
the next switch that is alone: there the state and the probes may disagree.
`CallsReturn` of `Blacklist` excepts two cases that the code has: a thread that dies
(without memory, or in a print that got memory of size 0), and the calls that wait
for the spinlock of one that died holding it. Except in
`blacklist_fresh` the kernel clears allocations. Writes are at most a block long
(a row has at most 255 bytes). A copy from user space that faults leaves the whole
string or the empty one; a truncated one is not modelled. Unmounting while an
inode is locked for ever is not modelled.

**Deadlock** is checked in `monitor`, where someone can always go on. It is not in
the others: with all nodes, writes or threads used up, with clients that were left, or
with a thread that died holding the lock, the system really stops.

**Fairness.** A thread inside the kernel keeps running (weak fairness of its
steps), and a work that was scheduled is run. The kernel's spinlocks are queued
and its mutexes hand over, so a waiter is not passed over for ever (strong
fairness of taking them). Nobody has to call anything: calls are not fair.

## 4. Proofs

The theorems hold for every value of the constants that satisfies the named
assumptions of the specification.

### Blacklist

`BlacklistProofs` proves, for any number of threads, paths and nodes and with
failing allocations and copies, assuming `ZeroedAlloc`, that `Inv` holds always
(`Invariance`), and from it `TypeOK`, `NoDuplicates`, `CheckHonoursEntries`,
`CheckIsGrounded`, `PrintIsComplete`, `PrintIsGrounded` and `SizeCoversEntries`.

The properties are not inductive. The argument is this. Nodes are numbered in list
order and never freed, so a reader that stands on an unlinked node can still go
on. `Covers(n, m)` says that `n` comes before `m` and was on the list together
with it. `ListInv` says that the next pointer of every node, unlinked ones
included, leads towards every listed node it covers. `CursorInv` then says that
what a walk still has to meet is covered by its cursor, and `WindowInv` that what
was unlinked before the call cannot be reached from what was not. `WriterInv`
describes the threads in a critical section, `LockIsHeld` that there is one at
most, and `SizeInv` counts the removal that has unlinked the head and not yet
decremented the size.

`BlacklistSteps` splits the invariant into a shared part and a part per thread,
shows what a step that leaves some of the state alone keeps of it, and has a lemma
for each action.

`ListImplementsSet` proves, under the same assumption, that the list implements the
set (`ImplementsSet`). `BlacklistImplements` has the simulation. Its invariant `HInv`
is `Inv` and `Trail`, about the answers collected so far:

* `Past`: what an unlinked node points to was on the list when it was unlinked.
* `Scan`: what a removal has passed is not what it looks for, and the node that is
  linked and not yet counted is the one to be added.
* `Answers`: the present answer has been collected; so has "hit", if a node that was
  there during the check matches; and "miss", or else the walk is `Caught`: it is
  inside a set of nodes that it can leave only by a match. A check that waits for
  the lock stands at or before every listed node.

`AddCount` is the set's `Add`, `RemHead` and `RemUnlink` are its `Remove`, and
`AddLink` and `RemCount` leave the set alone. A check that answers does so with an
answer it has collected: a match is a node that was there, and the end of the list
cannot be reached by a walk that is caught. The hard case is the removal of a
matching node while a check that already stands on it waits for the lock: the check
may answer "hit" although the node is gone, which was right when the call began.
`HInv` was checked with TLC on the instance of `blacklist` (0.9 M states) before it
was proved.

### Monitor

`MonitorProofs` proves, for any users, administrators, workers, probes, requests and
paths:

| theorem | states | assuming |
|---|---|---|
| `TypeCorrect` | `TypeOK` | |
| `ProbedRefused` | `ProbedOpsAreRefused` | |
| `RefusalsAccounted` | `RefusalsAreAccounted` | |
| `ProbesAgree` | `ProbesFollowState` | `OneAdmin`, `Registered` |
| `ProtectionHolds` | `Protection` | `OneAdmin`, `Ample` |

`OneAdmin` says that there is one administrator at most; `monitor_admins` shows why it is
needed. `Ample` says that the probes are registered, that every function users call
has one, and that a probe has an instance for every user and worker. Each invariant
needs its own strengthening. For refusals, `FileInv` describes an operation between
its probe and its return: no lasting entry protects a path that has been looked up,
or the operation is already marked. For one administrator,
`SoleInv` says how far the loop over the probes has come and that the state is the
one it works for. For protection, both are combined with a count of the
instances in use. For the records, every step moves at most one record from the
queue to a worker, to the log, or to the lost ones. `Apart` says what a step leaves
alone of the other threads.

### Log file system

`LogFSProofs` proves `TypeOK`, `RowsAreWhole` and `ReadersFollow` for any threads,
block size, device and payloads of at most a block, with every failure, reclaim and
remount. The inductive invariant adds two things. `CacheInv`: the dentry keeps the
inode, whose size is never below the header. `ThreadInv`: a thread is between
`mutex_lock` and `mutex_unlock` exactly if it holds the mutex, its size is then the
inode's, what it has copied lies behind the end of the file and within the device,
and a reader's size covers what was acknowledged when it was read. `Placed` is the
arithmetic: a row goes behind the end of the file and into one block.

### Life cycle and client

`ClientTheorems` proves all six invariants of `Client` for any number of processes,
any size of memory and table, and any image of memory that satisfies the assumptions:
`TypesAreKept` (`TypeOK`), `TheTableIsRestored` (`TableIsRestored`), `NumbersAreRight`
(`NumbersReachTheirCalls`), `TheDiscoveryIsSound` (`DiscoveryIsSound`),
`WhoIsAloneIsSafe` (`AloneIsSafe`) and `LoneSwitchesSettle` (`LoneSwitchSettles`). The
inductive invariant `IInv` has five layers:

* `Inv` (`ClientProofs`) says who is where. The kernel lets one process at a time
  into the insertion or the removal of a module (`AloneInv`, `DiscInv`); a module
  that is coming or going has a process inside, unless that one died before it had
  stored anything (`StatusInv`); whatever differs from boot in memory is in an entry
  that the monitor remembers, and all of these held `the_ni_syscall` (`TableInv`);
  `InsertInv` says how far insertion and removal are, in particular that the removal
  has put back the entries below its index; `CallInv` that a call is inside a
  monitor that has what it needs, or its process is crowded.
* `PlaceInv` (`ClientPlaces`) says where. What was found is the table and the entries
  of `client.h` (`Located`); a word that is not the kernel's is a call at its own
  number (`Stored`); `FillInv` says which calls an insertion has stored, and that the
  word the discoverer has saved was free at boot or is the call in its first entry
  (`Saved`).
* `RangeInv` (`ClientPlaces`) bounds what each process and the monitor hold.
* `ListInv` (`ClientPlaces`) says that the size is that of the list except between the
  two stores of the one holder of the lock, and that a print which has read a head and
  would now find a size of 0 was disturbed.
* `SettledInv` (`ClientTheorems`) says of a settled monitor that one process at most
  goes through the probes, that it is the one that stored the state, and that the
  probes behind its index agree with the state; with nobody there, all agree.

The first layer does not need `TableAssumption` and `HeaderAssumption`. The second
needs the first, because the discoverer may run while the monitor is in the table:
it then reads a memory in which some calls are published. `OnlyTheTable` shows that
even there nothing but the table has the pattern: a call is at its own entry only, so
a place with a call at one of the offsets lacks it at the others, and any other place
holds at the offsets what it held at boot. That `good_area` accepts it now, because a
call has been stored over a free entry in front of it, is excluded by the second half
of the assumption. `ClientTheorems` has the lemmas about the
operators (`get_entries` returns distinct entries that hold one word, the entries the
discoverer exposes are at most `MAX_FREE`, `validate_page` accepts only what has the
pattern) and combines the layers. `IInv` was checked with TLC on the 782,833 states of
`client` before it was proved.

The assumptions on the constants, which TLC evaluates in the run `client`:

| assumption | says | justified by |
|---|---|---|
| `MemoryAssumption` | sizes are positive, a table fits a page, the table of an image is where the scan goes | the constants of `usctm.c` |
| `NumbersAssumption`, `HeaderAssumption` | the numbers of `client.h` are entries of the table, those which `get_entries` finds in the booted kernel unless that has too few | `client.h` is written for one kernel |
| `ImagesAssumption` | at boot no word is a call of the monitor | the module is not loaded yet |
| `TableAssumption` | at boot no scanned place but the table has the pattern, and none holds the word of the entries that will be taken at all the offsets | the discoverer takes the first match; with a second one it would be wrong |
| `GoalsAssumption` | the menu switches to the four states | `client.c` |

`TableAssumption` rests on the kernel and cannot be derived from this code. It speaks
of memory at boot only. What is proved from it is that the scan, which may run while
the monitor stores its calls or restores the entries, exposes the table and nothing
else, reads no hole, and exposes entries that were free at boot although the table may
have changed since the word was saved; and that a discoverer that is coming has a
process inside. The images of `client` have an array of equal pointers before the
table, which satisfies the first half of the assumption only thanks to `good_area`.

### Only model-checked

Liveness: `CallsReturn` of `Blacklist` and of `LogFS`, and `RefusalsAreLogged` of
`Monitor`. The prover has no rules for fairness and for `ENABLED`.

## 5. Not modelled

* Characters of paths and rows, the byte of a path that `get_path_from_dentry` leaves
  unset (`full_path[len]`, `utils.c:182`), buffer sizes (`temp_string[256]`,
  `error_message[256]`, the reallocation of the print), SHA-256.
* The fingerprint: `deferred_work` hashes the path of the program, where the
  specification of the project asks for its contents.
* Works of the logger that are queued when the module is removed; failing
  allocations in `init_module`; a registered probe that cannot be enabled; the single
  probes within `register_kretprobes`, which is one step; the write protection of the table (CR0) and the
  processor it belongs to.
* Terminal handling of the client, `getpasswd`, whose editing of a line has no
  effect on anything else, and input that is not a number.
* Directory listing of the log file system, which keeps no state that others see;
  test programs; build scripts.
* Power loss: data blocks are lost or kept as the block layer decides.

## 6. Plan

1. Composition of the logger with `LogFS`, so that a refusal is followed into the
   blocks of the device.
2. Removal of the monitor with works in flight, and `init_module` without memory.
3. Pure operators: prefix matching on sequences of characters against a reference
   definition, lengths of the print buffer.
