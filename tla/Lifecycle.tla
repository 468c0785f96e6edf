------------------------------- MODULE Lifecycle -------------------------------
(*****************************************************************************)
(* The three kernel modules over their life, and the system calls that       *)
(* arrive meanwhile.                                                         *)
(*                                                                           *)
(*   init_module of the discoverer             (syscall-table-discoverer/)   *)
(*   initialize_syscalls, init_module, cleanup_module, the six system calls  *)
(*                                             (stack_reference_monitor.c)   *)
(*   get_entries                               (syscall-mount/scth.c)        *)
(*   singlefilefs_init, singlefilefs_exit      (file_system.c)               *)
(*                                                                           *)
(* The processes that insert and remove modules and make the calls are those *)
(* of module Client.  A call has one step for its checks and one for each    *)
(* access to what calls share; modules Monitor and Blacklist have the rest.  *)
(* The loader, /sys/module and the registration of probes are the kernel's.  *)
(* Every process runs as root, and allocations succeed.                      *)
(* A variable that a process will not read before it writes it has its       *)
(* initial value.                                                            *)
(*****************************************************************************)
EXTENDS Integers, Sequences, FiniteSets

CONSTANTS
  Procs,        \* processes
  Images,       \* what memory may look like at boot: table, words, valid, large
  PageSize,     \* words of a page
  Pages,        \* pages that syscall_table_finder goes through
  Fanout,       \* entries of a table of the page table
  NiOffsets,    \* FIRST_NI_SYSCALL .. SEVENTH_NI_SYSCALL
  TableSize,    \* ENTRIES_TO_EXPLORE, and the 256 of get_entries
  MAX_FREE,     \* length of free_entries
  NUM_KRETPROBES,
  KernelWords,  \* words that are aligned kernel addresses
  Number,       \* call -> the number that client.h has for it
  Path          \* the path that is added and removed

NULL == -1
NoWord == "null"
FIRST_NI_SYSCALL   == NiOffsets[1]
SEVENTH_NI_SYSCALL == NiOffsets[Len(NiOffsets)]

\* new_sys_call_array
Calls == <<"switch", "get", "add", "remove", "print", "size">>
HACKED_ENTRIES == Len(Calls)
CallNames == {Calls[i] : i \in 1 .. HACKED_ENTRIES}

\* A table that begins on the last page that is gone through may end on the next one.
Scanned   == 0 .. Pages * PageSize - 1
Addresses == 0 .. (Pages + 1) * PageSize - 1

ASSUME MemoryAssumption ==
  /\ PageSize \in Nat \ {0} /\ Pages \in Nat \ {0} /\ Fanout \in Nat \ {0}
  /\ TableSize \in 1 .. PageSize /\ MAX_FREE \in Nat /\ NUM_KRETPROBES \in Nat \ {0}
  /\ NiOffsets \in Seq(0 .. TableSize - 1) /\ Len(NiOffsets) >= 2
  /\ \A i, j \in DOMAIN NiOffsets : i < j => NiOffsets[i] < NiOffsets[j]
  /\ \A m \in Images : m.table \in Scanned
ASSUME NumbersAssumption == Number \in [CallNames -> 0 .. TableSize - 1]

VARIABLES
  boot,         \* the image the machine started with
  memory,       \* word address -> word
  disc,         \* the_usctm: its status and its variables
  fs,           \* singlefilefs: "none", "live", "mounted"
  mon,          \* the_stack_reference_monitor: its status and its variables
  pc,           \* where each process is
  idx,          \* its loop index: page, entry or probe; 1 for a head that is not NULL
  call,         \* its system call
  arg,          \* the number given to the call or to insmod, and the password
  ret,          \* the answer of the call
  all, rf_state, purpose, \* what its program keeps: see Client
  (* History variables: no action reads them. *)
  settled,      \* the last switch to store the state was alone, in a live monitor
  crowded       \* others disturbed the command or call since it began

request == <<call, arg, ret>>
client  == <<all, rf_state, purpose>>

RF_ON      == 0
RF_OFF     == 1
RF_REC_ON  == 2
RF_REC_OFF == 3

Enforcing(s) == s = RF_ON \/ s = RF_REC_ON

Probes == 1 .. NUM_KRETPROBES

\* Labels at which a command or a call begins, those inside an insertion or a
\* removal, those inside the code of a call, and those of a critical section that
\* changes the blacklist.
Beginning == {"disc_insert", "fs_insert", "mon_read", "disc_remove", "fs_remove",
              "mon_remove", "call"}
Inserting == {"disc_scan", "disc_free", "mon_insert", "mon_entries", "mon_publish",
              "mon_fields", "mon_password", "mon_probes", "mon_register", "rm_restore",
              "rm_probes", "fs_mount"}
Changing == {"add_count", "rem_count"}
Calling  == {"call", "sw_store", "sw_probe", "add_link", "rem_unlink", "prt_size"}
              \cup Changing
Disturbing == Inserting \cup Changing
Busy == Beginning \cup Inserting \cup Calling \cup {"oops"}

Goto(c, label) ==
  /\ pc' = [pc EXCEPT ![c] = label]
  /\ crowded' = [p \in Procs |->
       /\ pc'[p] \in Busy
       /\ \/ \E q \in Procs \ {p} : pc'[q] \in Disturbing
          \/ crowded[p] /\ ~(p = c /\ label \in Beginning)]

\* A number, and whether the password is right.
NoArgument == [number |-> NULL, right |-> FALSE]

\* system() returns, and the client displays the modules again.
Finish(c) ==
  /\ Goto(c, "info")
  /\ idx' = [idx EXCEPT ![c] = 0]
  /\ arg' = [arg EXCEPT ![c] = NoArgument]
  /\ UNCHANGED <<call, ret>>

\* A process dies in the kernel.
Die(c) ==
  /\ Goto(c, "oops")
  /\ idx' = [idx EXCEPT ![c] = 0]
  /\ arg' = [arg EXCEPT ![c] = NoArgument]
  /\ call' = [call EXCEPT ![c] = "get"]
  /\ purpose' = [purpose EXCEPT ![c] = "home"]
  /\ UNCHANGED <<ret, all, rf_state>>

(*****************************************************************************)
(* The discoverer                                                            *)
(*****************************************************************************)
\* The walk of the page table: a page is mapped by a valid entry on every level,
\* the last of which a large page does without.
sys_vtpmo(page) ==
  LET index    == <<page \div Fanout ^ 3, (page \div Fanout ^ 2) % Fanout,
                    (page \div Fanout) % Fanout, page % Fanout>>
      valid(n) == SubSeq(index, 1, n) \in boot.valid
  IN  /\ valid(1) /\ valid(2) /\ valid(3)
      /\ SubSeq(index, 1, 3) \in boot.large \/ valid(4)

good_area(w, a) ==
  \A i \in 1 .. FIRST_NI_SYSCALL - 1 : w[a + i] # w[a + FIRST_NI_SYSCALL]

\* What validate_page compares in a memory w.
Pattern(w, a) ==
  /\ w[a + FIRST_NI_SYSCALL] \in KernelWords
  /\ \A n \in DOMAIN NiOffsets : w[a + NiOffsets[n]] = w[a + FIRST_NI_SYSCALL]
  /\ good_area(w, a)

\* Faulty variant: the next page is not looked at.
EndIsMappedAlways(a) == TRUE

\* Where the table would end on the next page, that page is mapped.
EndIsMapped(a) ==
  LET end == (a + SEVENTH_NI_SYSCALL) \div PageSize
  IN  end # a \div PageSize => sys_vtpmo(end)

\* The addresses of a page that are compared: the loop of validate_page ends at
\* the first one that has no mapped end, after which none has.
Tested(page) == {a \in page * PageSize .. (page + 1) * PageSize - 1 : EndIsMapped(a)}

\* The first address that fits, NULL if there is none.
validate_page(page) ==
  LET found == {a \in Tested(page) : Pattern(memory, a)}
  IN  IF found = {} THEN NULL
      ELSE CHOOSE a \in found : \A b \in found : a <= b

\* A word is read that is not mapped.
ReadsHole(page) ==
  \E a \in Tested(page) : ~sys_vtpmo((a + SEVENTH_NI_SYSCALL) \div PageSize)

\* The loader takes a name once.
DiscInsert(c) ==
  /\ pc[c] = "disc_insert"
  /\ \/ /\ disc.status = "none"
        /\ disc' = [disc EXCEPT !.status = "coming"]
        /\ idx' = [idx EXCEPT ![c] = 0]
        /\ Goto(c, "disc_scan")
        /\ UNCHANGED request
     \/ disc.status # "none" /\ Finish(c) /\ UNCHANGED disc
  /\ UNCHANGED <<boot, memory, fs, mon, settled, client>>

\* Faulty variant: every other page is skipped.
AfterPageSkips(page) == page + 2

AfterPage(page) == page + 1

\* syscall_table_finder, one page.
DiscScan(c) ==
  LET page == idx[c]
  IN  /\ pc[c] = "disc_scan"
      /\ page < Pages
      /\ \/ /\ sys_vtpmo(page) /\ ReadsHole(page)
            /\ Die(c)
            /\ UNCHANGED disc
         \/ /\ sys_vtpmo(page) => ~ReadsHole(page) /\ validate_page(page) = NULL
            /\ idx' = [idx EXCEPT ![c] = AfterPage(@)]
            /\ Goto(c, "disc_scan")
            /\ UNCHANGED <<disc, request, client>>
         \/ /\ sys_vtpmo(page) /\ ~ReadsHole(page) /\ validate_page(page) # NULL
            /\ disc' = [disc EXCEPT !.sys_call_table_address = validate_page(page),
                          !.hacked_ni_syscall = memory[validate_page(page) + FIRST_NI_SYSCALL]]
            /\ idx' = [idx EXCEPT ![c] = 0]
            /\ Goto(c, "disc_free")
            /\ UNCHANGED <<request, client>>
      /\ UNCHANGED <<boot, memory, fs, mon, settled>>

\* The table was not found: -1, and the loader drops the module.
DiscFail(c) ==
  /\ pc[c] = "disc_scan"
  /\ idx[c] = Pages
  /\ disc' = [disc EXCEPT !.status = "none"]
  /\ Finish(c)
  /\ UNCHANGED <<boot, memory, fs, mon, settled, client>>

\* The first MAX_FREE entries that hold the word that validate_page has saved.
DiscFree(c) ==
  LET free == {i \in 0 .. TableSize - 1 :
                 memory[disc.sys_call_table_address + i] = disc.hacked_ni_syscall}
  IN  /\ pc[c] = "disc_free"
      /\ disc' = [disc EXCEPT !.status = "live",
                    !.free_entries = {i \in free : Cardinality({j \in free : j < i}) < MAX_FREE}]
      /\ Finish(c)
      /\ UNCHANGED <<boot, memory, fs, mon, settled, client>>

NoDisc == [status |-> "none", sys_call_table_address |-> NULL,
           hacked_ni_syscall |-> NoWord, free_entries |-> {}]

\* Nothing depends on the module: the loader refuses only one that is still coming.
DiscRemove(c) ==
  /\ pc[c] = "disc_remove"
  /\ disc' = IF disc.status = "live" THEN NoDisc ELSE disc
  /\ Finish(c)
  /\ UNCHANGED <<boot, memory, fs, mon, settled, client>>

(*****************************************************************************)
(* The file system: insmod, then a new device is made and mounted.           *)
(*****************************************************************************)
FsInsert(c) ==
  /\ pc[c] = "fs_insert"
  /\ \/ fs = "none" /\ fs' = "live" /\ Goto(c, "fs_mount") /\ UNCHANGED <<idx, request>>
     \/ fs # "none" /\ Finish(c) /\ UNCHANGED fs
  /\ UNCHANGED <<boot, memory, disc, mon, settled, client>>

FsMount(c) ==
  /\ pc[c] = "fs_mount"
  /\ fs' = IF fs = "live" THEN "mounted" ELSE fs
  /\ Finish(c)
  /\ UNCHANGED <<boot, memory, disc, mon, settled, client>>

\* A file system in use is not removed.
FsRemove(c) ==
  /\ pc[c] = "fs_remove"
  /\ fs' = IF fs = "live" THEN "none" ELSE fs
  /\ Finish(c)
  /\ UNCHANGED <<boot, memory, disc, mon, settled, client>>

(*****************************************************************************)
(* Inserting the monitor                                                     *)
(*****************************************************************************)
\* The variables of a module start as zero: state 0 is ON.
NoMon == [status |-> "none", syscalls_table_address |-> NULL, restore |-> << >>,
          the_ni_syscall |-> NoWord, state |-> 0, list |-> {}, size |-> 0,
          password |-> FALSE, probes |-> "none", enabled |-> {}]

\* The command line of insmod has the address that the discoverer exposes, also
\* while it is still looking for it.
MonRead(c) ==
  /\ pc[c] = "mon_read"
  /\ \/ disc.status = "none" /\ Finish(c)
     \/ /\ disc.status # "none"
        /\ arg' = [arg EXCEPT ![c].number = disc.sys_call_table_address]
        /\ Goto(c, "mon_insert")
        /\ UNCHANGED <<idx, call, ret>>
  /\ UNCHANGED <<boot, memory, disc, fs, mon, settled, client>>

MonInsert(c) ==
  /\ pc[c] = "mon_insert"
  /\ \/ /\ mon.status = "none"
        /\ mon' = [NoMon EXCEPT !.status = "coming", !.syscalls_table_address = arg[c].number]
        /\ arg' = [arg EXCEPT ![c] = NoArgument]
        /\ settled' = TRUE
        /\ Goto(c, "mon_entries")
        /\ UNCHANGED <<idx, call, ret>>
     \/ mon.status # "none" /\ Finish(c) /\ UNCHANGED <<mon, settled>>
  /\ UNCHANGED <<boot, memory, disc, fs, client>>

\* The entries from i on that hold what i holds.
SameWord(w, table, i) == {k \in i .. TableSize - 1 : w[table + k] = w[table + i]}

\* The first word that occurs twice is taken for sys_ni_syscall, and its first
\* entries are the result, none if there are too few.
get_entries(w, table) ==
  LET twice  == {i \in 0 .. TableSize - 1 :
                   \E z \in i + 1 .. TableSize - 1 : w[table + i] = w[table + z]}
      first  == CHOOSE i \in twice : \A j \in twice : i <= j
      same   == SameWord(w, table, first)
      Nth(n) == CHOOSE k \in same : Cardinality({j \in same : j < k}) = n - 1
  IN  IF twice = {} \/ Cardinality(same) < HACKED_ENTRIES
      THEN << >>
      ELSE [n \in 1 .. HACKED_ENTRIES |-> Nth(n)]

\* initialize_syscalls goes on with an address of 0, and get_entries reads there:
\* the process dies, and the module stays as it is.
MonEntries(c) ==
  LET table == mon.syscalls_table_address
  IN  /\ pc[c] = "mon_entries"
      /\ \/ table = NULL /\ Die(c) /\ UNCHANGED mon
         \/ /\ table # NULL /\ get_entries(memory, table) = << >>
            /\ mon' = NoMon
            /\ Finish(c)
            /\ UNCHANGED client
         \/ /\ table # NULL /\ get_entries(memory, table) # << >>
            /\ mon' = [mon EXCEPT !.restore = get_entries(memory, table),
                                  !.the_ni_syscall = memory[table + get_entries(memory, table)[1]]]
            /\ idx' = [idx EXCEPT ![c] = 1]
            /\ Goto(c, "mon_publish")
            /\ UNCHANGED <<request, client>>
      /\ UNCHANGED <<boot, memory, disc, fs, settled>>

\* One turn of a loop over the entries: a store into the table.
Store(c, word, last, loop, after) ==
  /\ pc[c] = loop
  /\ memory' = [memory EXCEPT ![mon.syscalls_table_address + mon.restore[idx[c]]] = word]
  /\ idx' = [idx EXCEPT ![c] = IF @ = last THEN 0 ELSE @ + 1]
  /\ Goto(c, IF idx[c] = last THEN after ELSE loop)
  /\ UNCHANGED <<boot, disc, fs, mon, request, settled, client>>

\* Faulty variant: the last entry is not filled.
MonPublishShort(c) == Store(c, Calls[idx[c]], HACKED_ENTRIES - 1, "mon_publish", "mon_fields")

MonPublish(c) == Store(c, Calls[idx[c]], HACKED_ENTRIES, "mon_publish", "mon_fields")

\* A process is in a critical section of the spinlock.
Locked == \E p \in Procs : pc[p] \in Changing /\ call[p] # "freed"

\* A step of init_module or cleanup_module on the variables of the monitor.
MonUpdate(c, at, m, after) ==
  /\ pc[c] = at
  /\ mon' = m
  /\ Goto(c, after)
  /\ UNCHANGED <<boot, memory, disc, fs, idx, arg, ret, settled, client>>

MonFields(c) ==
  /\ ~Locked
  /\ MonUpdate(c, "mon_fields", [mon EXCEPT !.state = RF_OFF, !.list = {}, !.size = 0],
               "mon_password")
  /\ UNCHANGED call

\* Faulty variant: the hash of the password is not stored.
HashedForgets(m) == m

Hashed(m) == [m EXCEPT !.password = TRUE]

MonPassword(c) ==
  MonUpdate(c, "mon_password", Hashed(mon), "mon_probes") /\ UNCHANGED call

\* kretprobe_init: the array, whose allocation succeeds, like those of
\* encrypt_password before it; then the registration of the probes as disabled,
\* whose failure is ignored.
MonProbes(c) ==
  MonUpdate(c, "mon_probes", [mon EXCEPT !.probes = "array"], "mon_register") /\ UNCHANGED call

MonRegister(c) ==
  /\ \E r \in {"array", "registered"} :
       MonUpdate(c, "mon_register", [mon EXCEPT !.probes = r, !.status = "live"], "info")
  /\ UNCHANGED call

(*****************************************************************************)
(* Removing the monitor                                                      *)
(*****************************************************************************)
MonRemove(c) ==
  /\ pc[c] = "mon_remove"
  /\ \/ /\ mon.status = "live"
        /\ mon' = [mon EXCEPT !.status = "going"]
        /\ idx' = [idx EXCEPT ![c] = 1]
        /\ Goto(c, "rm_restore")
        /\ UNCHANGED request
     \/ mon.status # "live" /\ Finish(c) /\ UNCHANGED mon
  /\ UNCHANGED <<boot, memory, disc, fs, settled, client>>

\* Faulty variant: the last entry is not restored.
RestoreShort(c) == Store(c, mon.the_ni_syscall, HACKED_ENTRIES - 1, "rm_restore", "rm_probes")

Restore(c) == Store(c, mon.the_ni_syscall, HACKED_ENTRIES, "rm_restore", "rm_probes")

\* kretprobe_clean; the loader then frees the module, whoever is inside.
CleanProbes(c) ==
  /\ MonUpdate(c, "rm_probes", NoMon, "info")
  /\ call' = [p \in Procs |-> IF pc[p] \in Calling THEN "freed" ELSE call[p]]

(*****************************************************************************)
(* System calls.  A negative answer is an error.                             *)
(*****************************************************************************)
ENOSYS == -38
EEXIST == -17
EACCES == -13
EPERM  == -1

\* The number of the call selects an entry of the table: sys_ni_syscall, or code of the module.
SysCall(c, k, a) ==
  LET entry == memory[boot.table + Number[k]]
  IN  /\ \/ /\ entry \in CallNames
            /\ call' = [call EXCEPT ![c] = entry]
            /\ arg' = [arg EXCEPT ![c] = a]
            /\ Goto(c, "call")
            /\ UNCHANGED ret
         \/ /\ entry \notin CallNames
            /\ Goto(c, "answer")
            /\ ret' = [ret EXCEPT ![c] = ENOSYS]
            /\ UNCHANGED <<call, arg>>
      /\ UNCHANGED <<boot, memory, disc, fs, mon, idx, settled>>

\* The code is no longer there; password_check compares with a password that is
\* not set; there is no array of probes yet; or a print has read a head that is not
\* NULL, and then a size of 0, for which kmalloc gives no memory.
Dies(c) ==
  \/ call[c] = "freed"
  \/ pc[c] = "call" /\ call[c] \in {"add", "remove"} /\ mon.state >= RF_REC_ON /\ ~mon.password
  \/ pc[c] = "call" /\ call[c] = "switch" /\ ~mon.password
  \/ pc[c] = "sw_probe" /\ mon.probes = "none"
  \/ pc[c] = "prt_size" /\ idx[c] = 1 /\ mon.size = 0 /\ arg[c].number = 0

CallDies(c) ==
  /\ pc[c] \in Calling
  /\ Dies(c)
  /\ Die(c)
  /\ UNCHANGED <<boot, memory, disc, fs, mon, settled>>

InCall(c, k) == pc[c] = "call" /\ call[c] = k /\ ~Dies(c)

\* The call goes on, with its loop index i and the monitor as m.
Proceed(c, m, i, label) ==
  /\ mon' = m
  /\ idx' = [idx EXCEPT ![c] = i]
  /\ Goto(c, label)
  /\ UNCHANGED <<boot, memory, disc, fs, request, client>>

\* The call leaves the monitor as m and answers v.
Answer(c, m, v) ==
  /\ mon' = m
  /\ ret' = [ret EXCEPT ![c] = v]
  /\ call' = [call EXCEPT ![c] = "get"]
  /\ arg' = [arg EXCEPT ![c] = NoArgument]
  /\ idx' = [idx EXCEPT ![c] = 0]
  /\ Goto(c, "answer")
  /\ UNCHANGED <<boot, memory, disc, fs, settled, client>>

sys_switch_rf_state(c) ==
  /\ InCall(c, "switch")
  /\ \/ ~arg[c].right /\ Answer(c, mon, EACCES)
     \/ arg[c].right /\ Proceed(c, mon, 0, "sw_store") /\ UNCHANGED settled

\* The processes that go through the probes of the monitor.
Switching == {p \in Procs : pc[p] = "sw_probe" /\ call[p] # "freed"}

\* The assignment under the lock.
SwitchStore(c) ==
  /\ pc[c] = "sw_store" /\ ~Dies(c) /\ ~Locked
  /\ settled' = (mon.status = "live" /\ Switching = {})
  /\ Proceed(c, [mon EXCEPT !.state = arg[c].number], 1, "sw_probe")

\* Faulty variant: the loop ends before the last probe.
LastProbeShort == NUM_KRETPROBES - 1

LastProbe == NUM_KRETPROBES

\* enable_kprobes or disable_kprobes, one probe: a failure is printed at most.
SwitchProbe(c) ==
  /\ pc[c] = "sw_probe" /\ ~Dies(c)
  /\ idx[c] <= LastProbe
  /\ Proceed(c, [mon EXCEPT !.enabled = IF mon.probes = "registered" /\ Enforcing(arg[c].number)
                                        THEN @ \cup {idx[c]} ELSE @ \ {idx[c]}],
             idx[c] + 1, "sw_probe")
  /\ UNCHANGED settled

\* The answer is the state at this moment.
SwitchReturn(c) ==
  /\ pc[c] = "sw_probe" /\ ~Dies(c)
  /\ idx[c] > LastProbe
  /\ Answer(c, mon, mon.state)

\* is_rf_rec, then password_check, before the list is changed.
Reconfigure(c, label) ==
  \/ mon.state < RF_REC_ON /\ Answer(c, mon, EPERM)
  \/ mon.state >= RF_REC_ON /\ ~arg[c].right /\ Answer(c, mon, EACCES)
  \/ mon.state >= RF_REC_ON /\ arg[c].right /\ Proceed(c, mon, 0, label) /\ UNCHANGED settled

sys_add_to_blacklist(c) == InCall(c, "add") /\ Reconfigure(c, "add_link")

sys_remove_from_blacklist(c) == InCall(c, "remove") /\ Reconfigure(c, "rem_unlink")

\* add_to_blacklist: the node is linked, then counted, under the lock.
AddLink(c) ==
  /\ pc[c] = "add_link" /\ ~Dies(c) /\ ~Locked
  /\ \/ Path \in mon.list /\ Answer(c, mon, EEXIST)
     \/ /\ Path \notin mon.list
        /\ Proceed(c, [mon EXCEPT !.list = @ \cup {Path}], 0, "add_count")
        /\ UNCHANGED settled

AddCount(c) ==
  /\ pc[c] = "add_count" /\ ~Dies(c)
  /\ Answer(c, [mon EXCEPT !.size = @ + 1], 0)

\* remove_from_blacklist: with one path, the node is the head.
RemUnlink(c) ==
  /\ pc[c] = "rem_unlink" /\ ~Dies(c) /\ ~Locked
  /\ \/ Path \notin mon.list /\ Answer(c, mon, 1)
     \/ /\ Path \in mon.list
        /\ Proceed(c, [mon EXCEPT !.list = @ \ {Path}], 0, "rem_count")
        /\ UNCHANGED settled

RemCount(c) ==
  /\ pc[c] = "rem_count" /\ ~Dies(c)
  /\ Answer(c, [mon EXCEPT !.size = @ - 1], 0)

sys_get_rf_state(c) == InCall(c, "get") /\ Answer(c, mon, mon.state)

sys_get_blacklist_size(c) == InCall(c, "size") /\ Answer(c, mon, mon.size)

\* The head is read first, and the size compared with the caller's later.
sys_print_blacklist(c) ==
  /\ InCall(c, "print")
  /\ Proceed(c, mon, IF mon.list = {} THEN 0 ELSE 1, "prt_size")
  /\ UNCHANGED settled

PrintSize(c) ==
  /\ pc[c] = "prt_size" /\ ~Dies(c)
  /\ Answer(c, mon, IF arg[c].number = mon.size THEN 0 ELSE -1)

--------------------------------------------------------------------------------
DiscStep(c) ==
  DiscInsert(c) \/ DiscScan(c) \/ DiscFail(c) \/ DiscFree(c) \/ DiscRemove(c)

FsStep(c) == FsInsert(c) \/ FsMount(c) \/ FsRemove(c)

MonStep(c) ==
  \/ MonRead(c) \/ MonInsert(c) \/ MonEntries(c) \/ MonPublish(c) \/ MonFields(c)
  \/ MonPassword(c) \/ MonProbes(c) \/ MonRegister(c)
  \/ MonRemove(c) \/ Restore(c) \/ CleanProbes(c)

CallStep(c) ==
  \/ CallDies(c)
  \/ sys_switch_rf_state(c) \/ SwitchStore(c) \/ SwitchProbe(c) \/ SwitchReturn(c)
  \/ sys_add_to_blacklist(c) \/ AddLink(c) \/ AddCount(c)
  \/ sys_remove_from_blacklist(c) \/ RemUnlink(c) \/ RemCount(c)
  \/ sys_get_rf_state(c) \/ sys_get_blacklist_size(c)
  \/ sys_print_blacklist(c) \/ PrintSize(c)

KernelStep(c) == DiscStep(c) \/ FsStep(c) \/ MonStep(c) \/ CallStep(c)

\* The words that memory may hold.
Words == CallNames \cup UNION {{m.words[a] : a \in DOMAIN m.words} : m \in Images}

\* The kernel has none of the calls of the module.
ASSUME ImagesAssumption ==
  \A m \in Images : m.words \in [Addresses -> Words \ CallNames]
\* At boot nothing but the table has the pattern, and nothing but the table holds the
\* word of the entries that will be taken at all the offsets, good_area or not; the
\* words of a page that is not mapped are none of the kernel's.
ASSUME TableAssumption ==
  \A m \in Images : \A a \in Scanned \ {m.table} :
    /\ ~Pattern(m.words, a)
    /\ \E n \in DOMAIN NiOffsets :
         m.words[a + NiOffsets[n]] # m.words[m.table + Number[Calls[1]]]
\* client.h is written for the kernel: its numbers are the entries that are found,
\* where there are enough of them.
ASSUME HeaderAssumption ==
  \A m \in Images :
    get_entries(m.words, m.table) \in {<< >>, [n \in 1 .. HACKED_ENTRIES |-> Number[Calls[n]]]}

\* The machine has booted, and no module is inserted.
KernelInit ==
  /\ boot \in Images
  /\ memory = boot.words
  /\ disc = NoDisc /\ fs = "none" /\ mon = NoMon
  /\ idx = [c \in Procs |-> 0]
  /\ call = [c \in Procs |-> "get"]
  /\ arg = [c \in Procs |-> NoArgument]
  /\ ret = [c \in Procs |-> 0]
  /\ settled = FALSE
  /\ crowded = [c \in Procs |-> FALSE]
================================================================================
