----------------------------- MODULE ClientProofs ------------------------------
(*****************************************************************************)
(* Client: the life of the modules and the calls that arrive meanwhile, for  *)
(* any number of processes and any memory the machine may boot with.         *)
(*****************************************************************************)
EXTENDS Client, TLAPS

Turns   == 1 .. HACKED_ENTRIES
Cell(n) == mon.syscalls_table_address + mon.restore[n]

\* Inside the insertion of the discoverer; inside that of the monitor, once it has
\* its entries; inside its removal.
Scanning == {"disc_scan", "disc_free"}
Filling  == {"mon_publish", "mon_fields", "mon_password", "mon_probes", "mon_register"}
Emptying == {"rm_restore", "rm_probes"}
Holding  == {"mon_entries"} \cup Filling \cup Emptying

DiscType ==
  [status : {"none", "coming", "live"}, sys_call_table_address : {NULL} \cup Scanned,
   hacked_ni_syscall : {NoWord} \cup Words, free_entries : SUBSET (0 .. TableSize - 1)]
\* The state is any number: a call may enter by another number than its own.
MonType ==
  [status : {"none", "coming", "live", "going"}, syscalls_table_address : {NULL} \cup Scanned,
   restore : {<< >>} \cup [Turns -> 0 .. TableSize - 1], the_ni_syscall : {NoWord} \cup Words,
   state : Int, list : SUBSET {Path}, size : Int, password : BOOLEAN,
   probes : {"none", "array", "registered"}, enabled : SUBSET Probes]

Types ==
  /\ boot \in Images /\ memory \in [Addresses -> Words] /\ disc \in DiscType /\ mon \in MonType
  /\ settled \in BOOLEAN /\ pc \in [Procs -> Labels] /\ idx \in [Procs -> Nat]
  /\ call \in [Procs -> CallNames \cup {"freed"}]
  /\ arg \in [Procs -> [number : Int, right : BOOLEAN]] /\ ret \in [Procs -> Int]
  /\ crowded \in [Procs -> BOOLEAN]

\* Without entries the table is as it was at boot; with them, what the monitor has
\* stored is in them, and all of them held the_ni_syscall.
TableInv ==
  /\ mon.status = "none" => mon.restore = << >>
  /\ mon.restore = << >> => memory = boot.words
  /\ mon.restore # << >> =>
       /\ mon.syscalls_table_address # NULL
       /\ \A n \in Turns : boot.words[Cell(n)] = mon.the_ni_syscall
       /\ \A a \in Addresses : memory[a] # boot.words[a] => \E n \in Turns : a = Cell(n)

\* A module that is coming or going has a process inside, unless that died before
\* it stored anything.
StatusInv ==
  /\ mon.status = "coming" /\ mon.restore # << >> => \E c \in Procs : pc[c] \in Filling
  /\ mon.status = "going" => mon.restore # << >> /\ \E c \in Procs : pc[c] \in Emptying
  /\ mon.status = "live" => mon.restore # << >> /\ mon.password /\ mon.probes # "none"

\* The discoverer: nobody dies in its insertion.
DiscInv ==
  /\ disc.status = "coming" => \E c \in Procs : pc[c] \in Scanning
  /\ disc.status = "live" => disc.sys_call_table_address # NULL
  /\ \A c, d \in Procs : pc[c] \in Scanning /\ pc[d] \in Scanning => c = d
  /\ \A c \in Procs :
       /\ pc[c] \in Scanning => disc.status = "coming"
       /\ pc[c] = "disc_free" => disc.sys_call_table_address # NULL
       /\ pc[c] = "disc_scan" => idx[c] <= Pages

\* The loader lets one process in; who is among others that disturb is crowded.
AloneInv ==
  /\ \A c, d \in Procs : pc[c] \in Holding /\ pc[d] \in Holding => c = d
  /\ \A c, d \in Procs : c # d /\ pc[c] \in Busy /\ pc[d] \in Disturbing => crowded[c]

\* The insertion and the removal, at each of their steps.
InsertInv(c) ==
  /\ pc[c] \in {"mon_entries"} \cup Filling => mon.status = "coming"
  /\ pc[c] \in Emptying => mon.status = "going"
  /\ pc[c] = "mon_entries" => mon.restore = << >>
  /\ pc[c] \in Filling => mon.restore # << >>
  /\ pc[c] \in {"mon_publish", "rm_restore"} => idx[c] \in Turns
  /\ pc[c] = "rm_restore" =>
       \A a \in Addresses :
         memory[a] # boot.words[a] => \E n \in idx[c] .. HACKED_ENTRIES : a = Cell(n)
  /\ pc[c] = "rm_probes" => memory = boot.words
  /\ pc[c] \in {"mon_probes", "mon_register"} => mon.password
  /\ pc[c] = "mon_register" => mon.probes # "none"

\* A call is inside the module, or the module is gone; who is not crowded has the
\* address of the table, and is in the code of a live module.
CallInv(c) ==
  /\ pc[c] = "mon_insert" =>
       /\ arg[c].number \in {NULL} \cup Scanned
       /\ arg[c].number = NULL => crowded[c]
  /\ pc[c] = "mon_entries" /\ mon.syscalls_table_address = NULL => crowded[c]
  /\ pc[c] \in Calling => call[c] = "freed" \/ mon.restore # << >>
  /\ pc[c] \in Calling /\ ~crowded[c] => mon.status = "live" /\ call[c] # "freed"
  /\ pc[c] = "sw_probe" => idx[c] # 0

Inv ==
  /\ Types /\ DiscInv /\ TableInv /\ StatusInv /\ AloneInv
  /\ \A c \in Procs : InsertInv(c) /\ CallInv(c)

\* The invariant, for one process.
LEMMA Own ==
  ASSUME Inv, NEW c \in Procs
  PROVE  /\ Types /\ DiscInv /\ TableInv /\ StatusInv /\ AloneInv
         /\ InsertInv(c) /\ CallInv(c)
         /\ pc[c] \in Labels /\ idx[c] \in Nat /\ call[c] \in CallNames \cup {"freed"}
         /\ arg[c] \in [number : Int, right : BOOLEAN] /\ ret[c] \in Int /\ crowded[c] \in BOOLEAN
BY Zenon DEF Inv, Types

LEMMA Update ==
  ASSUME NEW S, NEW T, NEW f \in [S -> T], NEW s \in S, NEW v \in T
  PROVE  /\ [f EXCEPT ![s] = v] \in [S -> T]
         /\ [f EXCEPT ![s] = v][s] = v
         /\ \A u \in S \ {s} : [f EXCEPT ![s] = v][u] = f[u]
OBVIOUS

\* The calls of new_sys_call_array.
LEMMA TheCalls ==
  /\ HACKED_ENTRIES = 6
  /\ CallNames = {"switch", "get", "add", "remove", "print", "size"}
  /\ \A n \in Turns : Calls[n] \in CallNames
<1>1. HACKED_ENTRIES = 6
  BY SMT DEF HACKED_ENTRIES, Calls
<1>2. CallNames = {"switch", "get", "add", "remove", "print", "size"}
  BY SMT, <1>1 DEF CallNames, Calls
<1> QED
  BY Zenon, <1>1, <1>2 DEF Turns, CallNames

\* Who goes to a label.
LEMMA GotoType ==
  ASSUME Types, NEW c \in Procs, NEW label \in Labels, Goto(c, label)
  PROVE  /\ pc' \in [Procs -> Labels] /\ pc'[c] = label
         /\ \A u \in Procs \ {c} : pc'[u] = pc[u]
         /\ crowded' \in [Procs -> BOOLEAN]
<1>1. pc \in [Procs -> Labels]
  BY Zenon DEF Types
<1>2. pc' = [pc EXCEPT ![c] = label]
  BY Zenon DEF Goto
<1>3. crowded' \in [Procs -> BOOLEAN]
  BY Zenon DEF Goto
<1> QED
  BY Zenon, <1>1, <1>2, <1>3, Update

\* Who is crowded stays so until its next command or call, and who is among others
\* that disturb becomes so.
LEMMA GotoCrowd ==
  ASSUME Types, NEW c \in Procs, NEW label \in Labels, Goto(c, label)
  PROVE  /\ \A u \in Procs \ {c} : pc[u] \in Busy /\ crowded[u] => crowded'[u]
         /\ label \in Busy \ Beginning /\ crowded[c] => crowded'[c]
         /\ \A p, q \in Procs : p # q /\ pc'[p] \in Busy /\ pc'[q] \in Disturbing => crowded'[p]
<1>1. pc'[c] = label /\ \A u \in Procs \ {c} : pc'[u] = pc[u]
  BY Zenon, GotoType
<1>2. \A p \in Procs :
        crowded'[p] <=> /\ pc'[p] \in Busy
                        /\ \/ \E q \in Procs \ {p} : pc'[q] \in Disturbing
                           \/ crowded[p] /\ ~(p = c /\ label \in Beginning)
  BY Zenon DEF Goto
<1> QED
  BY Zenon, <1>1, <1>2

\* A step that leaves the table and the life of the monitor alone.
Kept ==
  /\ UNCHANGED <<boot, memory>> /\ disc' \in DiscType /\ mon' \in MonType
  /\ mon'.status = mon.status /\ mon'.restore = mon.restore
  /\ mon'.syscalls_table_address = mon.syscalls_table_address
  /\ mon'.the_ni_syscall = mon.the_ni_syscall
  /\ mon'.password = mon.password /\ mon'.probes = mon.probes
  /\ settled' \in BOOLEAN

\* The local variables of the other processes.
Others(c) ==
  \A u \in Procs \ {c} : idx'[u] = idx[u] /\ call'[u] = call[u] /\ arg'[u] = arg[u]

Locals ==
  /\ idx' \in [Procs -> Nat] /\ call' \in [Procs -> CallNames \cup {"freed"}]
  /\ arg' \in [Procs -> [number : Int, right : BOOLEAN]] /\ ret' \in [Procs -> Int]

LEMMA SameCells ==
  ASSUME mon'.restore = mon.restore, mon'.syscalls_table_address = mon.syscalls_table_address
  PROVE  \A n : Cell(n)' = Cell(n)
BY Zenon DEF Cell

\* What holds of a process that does not move.
LEMMA Beside ==
  ASSUME Inv, NEW c \in Procs, NEW label \in Labels, Goto(c, label), Kept, Others(c),
         NEW u \in Procs \ {c}
  PROVE  InsertInv(u)' /\ CallInv(u)'
<1>1. InsertInv(u) /\ CallInv(u) /\ Types
  BY Zenon, Own
<1>2. pc'[u] = pc[u] /\ idx'[u] = idx[u] /\ call'[u] = call[u] /\ arg'[u] = arg[u]
  BY Zenon, <1>1, GotoType DEF Others
<1>3. /\ pc[u] \in Busy /\ crowded[u] => crowded'[u]
      /\ {"mon_insert", "mon_entries"} \cup Calling \subseteq Busy
  BY Zenon, <1>1, GotoCrowd DEF Busy, Beginning, Inserting
<1>4. \A n : Cell(n)' = Cell(n)
  BY Zenon, SameCells DEF Kept
<1>5. InsertInv(u)'
  <2>1. /\ memory' = memory /\ boot' = boot
        /\ mon'.status = mon.status /\ mon'.restore = mon.restore /\ mon'.password = mon.password
        /\ mon'.probes = mon.probes
    BY Zenon DEF Kept
  <2>2. ASSUME pc[u] = "rm_restore", NEW a \in Addresses, memory[a] # boot.words[a]
        PROVE  \E n \in idx'[u] .. HACKED_ENTRIES : a = Cell(n)'
    BY Zenon, <1>1, <1>2, <1>4, <2>2 DEF InsertInv
  <2> QED
    BY Zenon, <1>1, <1>2, <2>1, <2>2 DEF InsertInv
<1>6. CallInv(u)'
  BY Zenon, <1>1, <1>2, <1>3 DEF CallInv, Kept
<1> QED
  BY Zenon, <1>5, <1>6

\* Labels of which the invariant says nothing.
Plain == Labels \ (Scanning \cup Holding \cup Calling \cup {"mon_insert"})

LEMMA PlainInv ==
  ASSUME NEW c, pc'[c] \in Plain
  PROVE  InsertInv(c)' /\ CallInv(c)'
<1>1. /\ pc'[c] \notin {"mon_entries"} \cup Filling \cup Emptying
      /\ pc'[c] \notin Calling \cup {"mon_insert"}
  BY Zenon DEF Plain, Holding
<1>2. InsertInv(c)'
  BY Zenon, <1>1 DEF InsertInv, Filling, Emptying
<1> QED
  BY Zenon, <1>1, <1>2 DEF CallInv, Calling

\* The processes inside the loaders.
LEMMA AloneStep ==
  ASSUME Inv, NEW c \in Procs, NEW label \in Labels, Goto(c, label),
         label \in Holding => \A u \in Procs \ {c} : pc[u] \notin Holding
  PROVE  AloneInv'
<1>1. pc'[c] = label /\ \A u \in Procs \ {c} : pc'[u] = pc[u]
  BY Zenon, Own, GotoType
<1>2. AloneInv /\ Types
  BY Zenon, Own
<1>3. \A p, d \in Procs : pc'[p] \in Holding /\ pc'[d] \in Holding => p = d
  BY Zenon, <1>1, <1>2 DEF AloneInv
<1> QED
  BY Zenon, <1>2, <1>3, GotoCrowd DEF AloneInv

LEMMA DiscKept ==
  ASSUME Inv, NEW c \in Procs, NEW label \in Labels, Goto(c, label), UNCHANGED disc,
         pc[c] \notin Scanning, label \notin Scanning, \A u \in Procs \ {c} : idx'[u] = idx[u]
  PROVE  DiscInv'
<1>1. /\ pc'[c] = label /\ \A u \in Procs \ {c} : pc'[u] = pc[u]
      /\ DiscInv
  BY Zenon, Own, GotoType
<1>2. "disc_scan" \in Scanning /\ "disc_free" \in Scanning
  BY Zenon DEF Scanning
<1>3. disc.status = "coming" => \E d \in Procs : pc'[d] \in Scanning
  BY Zenon, <1>1 DEF DiscInv
<1> QED
  BY Zenon, <1>1, <1>2, <1>3 DEF DiscInv

LEMMA StatusKept ==
  ASSUME Inv, NEW c \in Procs, NEW label \in Labels, Goto(c, label), Kept,
         pc[c] \notin Filling \cup Emptying
  PROVE  TableInv' /\ StatusInv'
<1>1. /\ pc'[c] = label /\ \A u \in Procs \ {c} : pc'[u] = pc[u]
      /\ TableInv /\ StatusInv
  BY Zenon, Own, GotoType
<1>2. \A n : Cell(n)' = Cell(n)
  BY Zenon, SameCells DEF Kept
<1>3. TableInv'
  BY Zenon, <1>1, <1>2 DEF TableInv, Kept
<1>4. /\ \A d \in Procs : pc[d] \in Filling => pc'[d] \in Filling
      /\ \A d \in Procs : pc[d] \in Emptying => pc'[d] \in Emptying
  BY Zenon, <1>1
<1>5. StatusInv'
  BY Zenon, <1>1, <1>4 DEF StatusInv, Kept
<1> QED
  BY Zenon, <1>3, <1>5

LEMMA TypesStep ==
  ASSUME Inv, NEW c \in Procs, NEW label \in Labels, Goto(c, label), Kept, Locals
  PROVE  Types'
<1>1. Types
  BY Zenon, Own
<1>2. pc' \in [Procs -> Labels] /\ crowded' \in [Procs -> BOOLEAN]
  BY Zenon, <1>1, GotoType
<1> QED
  BY Zenon, <1>1, <1>2 DEF Types, Kept, Locals

\* A step outside the insertion and the removal of the monitor.
LEMMA OutsideMonitor ==
  ASSUME Inv, NEW c \in Procs, NEW label \in Labels, Goto(c, label), Kept, Others(c), Locals,
         pc[c] \notin Filling \cup Emptying, label \notin Holding,
         DiscInv', InsertInv(c)' /\ CallInv(c)'
  PROVE  Inv'
<1>1. TableInv' /\ StatusInv'
  BY Zenon, StatusKept
<1>2. AloneInv'
  BY Zenon, AloneStep
<1>3. Types'
  BY Zenon, TypesStep
<1>4. \A u \in Procs : InsertInv(u)' /\ CallInv(u)'
  BY Zenon, Beside
<1> QED
  BY Zenon, <1>1, <1>2, <1>3, <1>4 DEF Inv

\* A step outside the insertions and removals.
LEMMA Outside ==
  ASSUME Inv, NEW c \in Procs, NEW label \in Labels, Goto(c, label), Kept, UNCHANGED disc,
         Others(c), Locals,
         pc[c] \notin Scanning \cup Filling \cup Emptying, label \notin Scanning \cup Holding,
         InsertInv(c)' /\ CallInv(c)'
  PROVE  Inv'
<1>1. DiscInv'
  BY Zenon, DiscKept DEF Others
<1> QED
  BY Zenon, <1>1, OutsideMonitor

\* A step that touches neither the modules nor the table.
LEMMA Aside ==
  ASSUME Inv, NEW c \in Procs, NEW label \in Plain, Goto(c, label),
         UNCHANGED <<boot, memory, disc, mon, settled>>, Others(c), Locals,
         pc[c] \notin Scanning \cup Holding
  PROVE  Inv'
<1>1. label \in Labels /\ label \notin Scanning \cup Holding
  BY Zenon DEF Plain
<1>2. Types
  BY Zenon, Own
<1>3. Kept
  BY Zenon, <1>2 DEF Kept, Types
<1>5. pc'[c] = label
  BY Zenon, <1>1, <1>2, GotoType
<1>6. InsertInv(c)' /\ CallInv(c)'
  BY Zenon, <1>5, PlainInv
<1> QED
  BY Zenon, <1>1, <1>3, <1>6, Outside DEF Holding

LEMMA SameLocals ==
  ASSUME Inv, NEW c \in Procs, UNCHANGED <<idx, call, arg>>, ret' \in [Procs -> Int]
  PROVE  Others(c) /\ Locals
BY Zenon, Own DEF Others, Locals, Types

LEMMA Nothing ==
  /\ 0 \in Nat /\ NoArgument \in [number : Int, right : BOOLEAN] /\ NoArgument.number = NULL
  /\ "get" \in CallNames \cup {"freed"}
<1>1. 0 \in Nat /\ NoArgument \in [number : Int, right : BOOLEAN] /\ NoArgument.number = NULL
  BY SMT DEF NoArgument, NULL
<1> QED
  BY Zenon, <1>1, TheCalls

\* A loop index is set, and nothing else of the process.
LEMMA IndexLocals ==
  ASSUME Inv, NEW c \in Procs, NEW i \in Nat, idx' = [idx EXCEPT ![c] = i], UNCHANGED request
  PROVE  Others(c) /\ Locals /\ idx'[c] = i
<1>1. Types /\ idx \in [Procs -> Nat]
  BY Zenon, Own DEF Types
<1>2. /\ idx' \in [Procs -> Nat] /\ idx'[c] = i
      /\ \A u \in Procs \ {c} : idx'[u] = idx[u]
  BY Zenon, <1>1, Update
<1> QED
  BY Zenon, <1>1, <1>2 DEF Others, Locals, Types, request

LEMMA FinishLocals ==
  ASSUME Inv, NEW c \in Procs, Finish(c)
  PROVE  Others(c) /\ Locals /\ Goto(c, "info")
<1>1. /\ idx \in [Procs -> Nat] /\ call \in [Procs -> CallNames \cup {"freed"}]
      /\ arg \in [Procs -> [number : Int, right : BOOLEAN]] /\ ret \in [Procs -> Int]
  BY Zenon, Own DEF Types
<1>2. /\ Goto(c, "info") /\ idx' = [idx EXCEPT ![c] = 0] /\ arg' = [arg EXCEPT ![c] = NoArgument]
      /\ call' = call /\ ret' = ret
  BY Zenon DEF Finish
<1>3. idx' \in [Procs -> Nat] /\ \A u \in Procs \ {c} : idx'[u] = idx[u]
  BY Zenon, <1>1, <1>2, Nothing, Update
<1>4. /\ arg' \in [Procs -> [number : Int, right : BOOLEAN]]
      /\ \A u \in Procs \ {c} : arg'[u] = arg[u]
  BY Zenon, <1>1, <1>2, Nothing, Update
<1> QED
  BY Zenon, <1>1, <1>2, <1>3, <1>4 DEF Others, Locals

LEMMA PlainLabels ==
  {"info", "command", "home", "menu", "answer", "oops", "gone", "disc_insert", "fs_insert", "mon_read",
   "disc_remove", "fs_remove", "mon_remove", "fs_mount"} \subseteq Plain
BY Zenon DEF Plain, Labels, Beginning, Inserting, Calling, Changing, Scanning, Holding, Filling,
   Emptying

\* A label that is plain is neither Scanning nor Holding.
LEMMA FromPlain ==
  ASSUME NEW l \in Plain \cup Calling \cup {"mon_insert"}
  PROVE  l \notin Scanning \cup Holding
BY Zenon DEF Plain, Labels, Beginning, Inserting, Calling, Changing, Scanning, Holding, Filling,
   Emptying

\* system() returns without having changed a module.
LEMMA FinishInv ==
  ASSUME Inv, NEW c \in Procs, Finish(c), UNCHANGED <<boot, memory, disc, mon, settled>>,
         pc[c] \notin Scanning \cup Holding
  PROVE  Inv'
BY Zenon, FinishLocals, PlainLabels, Aside

\* The steps of the client that make no call.
LEMMA PageInv ==
  ASSUME Inv, NEW c \in Procs, display_module_info(c) \/ Command(c)
  PROVE  Inv'
<1>0. ret \in [Procs -> Int]
  BY Zenon, Own DEF Types
<1>1. UNCHANGED <<boot, memory, disc, mon, settled>> /\ UNCHANGED <<idx, call, arg, ret>>
  BY Zenon DEF display_module_info, Command, request
<1>2. pc[c] \in Plain
  BY Zenon, PlainLabels DEF display_module_info, Command
<1>3. \E label \in Plain : Goto(c, label)
  BY Zenon, PlainLabels DEF display_module_info, Command
<1> QED
  BY Zenon, <1>0, <1>1, <1>2, <1>3, Aside, SameLocals, FromPlain

LEMMA MenuInv ==
  ASSUME Inv, NEW c \in Procs,
         Menu(c) \/ Refuse(c) \/ Leave(c) \/ change_state(c) \/ Report(c)
  PROVE  Inv'
<1>0. ret \in [Procs -> Int] /\ 0 \in Int
  BY SMT, Own DEF Types
<1>1. /\ UNCHANGED <<boot, memory, disc, mon, settled>> /\ UNCHANGED <<idx, call, arg>>
      /\ ret' = [ret EXCEPT ![c] = 0] \/ ret' = ret
  BY Zenon DEF Menu, Refuse, Leave, change_state, Report, Quit, Used, request
<1>4. ret' \in [Procs -> Int]
  <2>1. [ret EXCEPT ![c] = 0] \in [Procs -> Int]
    BY Zenon, <1>0, Update
  <2> QED
    BY Zenon, <1>0, <1>1, <2>1
<1>2. pc[c] \in Plain
  BY Zenon, PlainLabels DEF Menu, Refuse, Leave, change_state, Report
<1>3. \E label \in Plain : Goto(c, label)
  BY Zenon, PlainLabels DEF Menu, Refuse, Leave, change_state, Report, Quit
<1> QED
  BY Zenon, <1>1, <1>2, <1>3, <1>4, Aside, SameLocals, FromPlain

\* An entry of a table that was found is an address.
LEMMA EntryAddress ==
  ASSUME NEW t \in {NULL} \cup Scanned, t # NULL, NEW e \in 0 .. TableSize - 1
  PROVE  t + e \in Addresses
<1>1. PageSize \in Nat \ {0} /\ Pages \in Nat \ {0} /\ TableSize \in 1 .. PageSize
  BY Zenon, MemoryAssumption
<1>2. ASSUME NEW P \in Nat, NEW N \in Nat, NEW S \in 1 .. P, NEW x \in 0 .. N * P - 1, NEW y \in 0 .. S - 1
      PROVE  x + y \in 0 .. (N + 1) * P - 1
  BY SMT
<1> QED
  BY Zenon, <1>1, <1>2 DEF Scanned, Addresses

LEMMA FirstNumber == FIRST_NI_SYSCALL \in 0 .. TableSize - 1
BY SMT, MemoryAssumption DEF FIRST_NI_SYSCALL

\* An address of the table, and what the kernel had there.
LEMMA AtBoot ==
  ASSUME Inv, NEW k \in CallNames
  PROVE  /\ boot.table + Number[k] \in Addresses
         /\ \A a \in Addresses : boot.words[a] \notin CallNames
<1>1. boot \in Images
  BY Zenon DEF Inv, Types
<1>2. boot.table \in Scanned /\ Number[k] \in 0 .. TableSize - 1
  BY Zenon, <1>1, MemoryAssumption, NumbersAssumption
<1>3. PageSize \in Nat \ {0} /\ Pages \in Nat \ {0} /\ TableSize \in 1 .. PageSize
  BY Zenon, MemoryAssumption
<1>4. \A a \in Addresses : boot.words[a] \notin CallNames
  BY Zenon, <1>1, ImagesAssumption
<1>5. ASSUME NEW P \in Nat, NEW N \in Nat, NEW S \in 1 .. P, NEW t \in 0 .. N * P - 1, NEW e \in 0 .. S - 1
      PROVE  t + e \in 0 .. (N + 1) * P - 1
  BY SMT
<1> QED
  BY Zenon, <1>2, <1>3, <1>4, <1>5 DEF Scanned, Addresses

\* A call enters the module, or finds sys_ni_syscall.
LEMMA SysCallInv ==
  ASSUME Inv, NEW c \in Procs, pc[c] \in Plain, NEW k \in CallNames,
         NEW a \in [number : Int, right : BOOLEAN], SysCall(c, k, a), UNCHANGED all
  PROVE  Inv'
<1> DEFINE entry == memory[boot.table + Number[k]]
<1>0. /\ Types /\ TableInv /\ StatusInv
      /\ call \in [Procs -> CallNames \cup {"freed"}] /\ idx \in [Procs -> Nat]
      /\ arg \in [Procs -> [number : Int, right : BOOLEAN]] /\ ret \in [Procs -> Int]
      /\ pc[c] \notin Scanning \cup Holding
  BY Zenon, Own, FromPlain DEF Types
<1>1. UNCHANGED <<boot, memory, disc, mon, idx, settled>> /\ ret' \in [Procs -> Int]
  <2>1. ret' = ret \/ ret' = [ret EXCEPT ![c] = ENOSYS]
    BY Zenon DEF SysCall
  <2>2. ENOSYS \in Int
    BY SMT DEF ENOSYS
  <2>3. [ret EXCEPT ![c] = ENOSYS] \in [Procs -> Int]
    BY Zenon, <1>0, <2>2, Update
  <2> QED
    BY Zenon, <1>0, <2>1, <2>3 DEF SysCall
<1>2. CASE entry \notin CallNames
  <2>1. Goto(c, "answer") /\ UNCHANGED <<call, arg>>
    BY Zenon, <1>2 DEF SysCall
  <2> QED
    BY Zenon, <1>0, <1>1, <2>1, PlainLabels, Aside, SameLocals
<1>3. CASE entry \in CallNames
  <2>1. /\ call' = [call EXCEPT ![c] = entry] /\ arg' = [arg EXCEPT ![c] = a] /\ Goto(c, "call")
    BY Zenon, <1>3 DEF SysCall
  <2>2. /\ call' \in [Procs -> CallNames \cup {"freed"}] /\ call'[c] = entry
        /\ \A u \in Procs \ {c} : call'[u] = call[u]
    BY Zenon, <1>0, <1>3, <2>1, Update
  <2>3. /\ arg' \in [Procs -> [number : Int, right : BOOLEAN]]
        /\ \A u \in Procs \ {c} : arg'[u] = arg[u]
    BY Zenon, <1>0, <2>1, Update
  <2>4. Others(c) /\ Locals
    BY Zenon, <1>0, <1>1, <2>2, <2>3 DEF Others, Locals
  <2>6. Kept
    BY Zenon, <1>0, <1>1 DEF Kept, Types
  <2>8. /\ "call" \in Labels /\ "call" \notin Scanning \cup Holding /\ "call" \in Busy
        /\ "call" \in Calling
    BY Zenon DEF Labels, Beginning, Calling, Scanning, Holding, Filling, Emptying, Busy
  <2>9. pc'[c] = "call" /\ \A u \in Procs \ {c} : pc'[u] = pc[u]
    BY Zenon, <1>0, <2>1, <2>8, GotoType
  <2>10. mon.restore # << >> /\ mon.status # "none"
    BY Zenon, <1>0, <1>3, AtBoot DEF TableInv
  <2>11. ASSUME ~crowded'[c] PROVE mon.status = "live"
    <3>1. ASSUME NEW q \in Procs \ {c} PROVE pc'[q] \notin Disturbing
      <4>1. q # c /\ pc'[c] \in Busy /\ pc'[q] \in Disturbing => crowded'[c]
        BY Zenon, <1>0, <2>1, <2>8, GotoCrowd
      <4> QED
        BY Zenon, <2>8, <2>9, <2>11, <4>1
    <3>2. \A q \in Procs : pc[q] \notin Filling \cup Emptying
      BY Zenon, <1>0, <2>9, <3>1 DEF Disturbing, Inserting, Filling, Emptying, Holding
    <3>3. mon.status \in {"none", "coming", "live", "going"}
      BY SMT, <1>0 DEF Types, MonType
    <3> QED
      BY Zenon, <1>0, <2>10, <3>2, <3>3 DEF StatusInv
  <2>12. "freed" \notin CallNames
    BY Zenon, TheCalls
  <2>13. CallInv(c)'
    <3>1. mon'.status = mon.status /\ mon'.restore = mon.restore
      BY Zenon, <1>1
    <3> QED
      BY Zenon, <1>3, <2>2, <2>9, <2>10, <2>11, <2>12, <3>1 DEF CallInv
  <2>14. InsertInv(c)'
    BY Zenon, <2>9 DEF InsertInv, Filling, Emptying
  <2> QED
    BY Zenon, <1>0, <1>1, <2>1, <2>4, <2>6, <2>8, <2>13, <2>14, Outside DEF Holding
<1> QED
  BY Zenon, <1>2, <1>3

LEMMA AskInv ==
  ASSUME Inv, NEW c \in Procs, get_function_number(c) \/ Choose(c) \/ print_blacklist(c)
  PROVE  Inv'
<1>1. pc[c] \in Plain
  BY Zenon, PlainLabels DEF get_function_number, Choose, print_blacklist
<1>2. {"get", "switch", "add", "remove", "size", "print"} \subseteq CallNames
  BY Zenon, TheCalls
<1>3. /\ NoArgument \in [number : Int, right : BOOLEAN]
      /\ [NoArgument EXCEPT !.number = ret[c]] \in [number : Int, right : BOOLEAN]
      /\ Arguments({NULL}) \subseteq [number : Int, right : BOOLEAN]
      /\ Arguments(Goals) \subseteq [number : Int, right : BOOLEAN]
  <2>1. ret[c] \in Int
    BY Zenon, Own
  <2>2. [NoArgument EXCEPT !.number = ret[c]] \in [number : Int, right : BOOLEAN]
    BY SMT, <2>1, Nothing
  <2>3. {NULL} \subseteq Int /\ Goals \subseteq Int
    BY SMT, GoalsAssumption DEF NULL, RF_ON, RF_REC_OFF
  <2>4. \A S \in SUBSET Int : Arguments(S) \subseteq [number : Int, right : BOOLEAN]
    <3>1. ASSUME NEW S \in SUBSET Int, NEW x \in [number : S, right : BOOLEAN]
          PROVE  x \in [number : Int, right : BOOLEAN]
      <4>1. x.number \in Int
        BY Zenon
      <4> QED
        BY SMT, <4>1
    <3> QED
      BY Zenon, <3>1 DEF Arguments
  <2> QED
    BY Zenon, <2>2, <2>3, <2>4, Nothing
<1>4. \E k \in CallNames, a \in [number : Int, right : BOOLEAN] : \E why : Ask(c, k, a, why)
  <2>1. CASE get_function_number(c)
    BY Zenon, <1>2, <1>3, <2>1 DEF get_function_number
  <2>2. CASE print_blacklist(c)
    BY Zenon, <1>2, <1>3, <2>2 DEF print_blacklist
  <2>3. CASE Choose(c)
    BY Zenon, <1>2, <1>3, <2>3 DEF Choose
  <2> QED
    BY Zenon, <2>1, <2>2, <2>3
<1> QED
  BY Zenon, <1>1, <1>4, SysCallInv DEF Ask

(*****************************************************************************)
(* The calls, inside the module                                              *)
(*****************************************************************************)
\* What a call may do to the monitor: its state, its probes and its list.
Reached(m) ==
  /\ m \in MonType
  /\ m.status = mon.status /\ m.restore = mon.restore
  /\ m.syscalls_table_address = mon.syscalls_table_address
  /\ m.the_ni_syscall = mon.the_ni_syscall
  /\ m.password = mon.password /\ m.probes = mon.probes

LEMMA ReachedKept ==
  ASSUME Inv, UNCHANGED <<boot, memory, disc>>, settled' \in BOOLEAN, Reached(mon')
  PROVE  Kept
<1>1. Types
  BY Zenon DEF Inv
<1> QED
  BY Zenon, <1>1 DEF Kept, Reached, Types

LEMMA AnswerInv ==
  ASSUME Inv, NEW c \in Procs, pc[c] \in Calling, NEW m, NEW v \in Int, Reached(m), Answer(c, m, v)
  PROVE  Inv'
<1>0. /\ Types /\ call \in [Procs -> CallNames \cup {"freed"}] /\ idx \in [Procs -> Nat]
      /\ arg \in [Procs -> [number : Int, right : BOOLEAN]] /\ ret \in [Procs -> Int]
      /\ settled \in BOOLEAN
  BY Zenon, Own DEF Types
<1>1. /\ mon' = m /\ ret' = [ret EXCEPT ![c] = v] /\ call' = [call EXCEPT ![c] = "get"]
      /\ arg' = [arg EXCEPT ![c] = NoArgument] /\ idx' = [idx EXCEPT ![c] = 0] /\ Goto(c, "answer")
      /\ UNCHANGED <<boot, memory, disc, settled>>
  BY Zenon DEF Answer
<1>2. Kept
  BY Zenon, <1>0, <1>1, ReachedKept
<1>3. ret' \in [Procs -> Int]
  BY Zenon, <1>0, <1>1, Update
<1>4. call' \in [Procs -> CallNames \cup {"freed"}] /\ \A u \in Procs \ {c} : call'[u] = call[u]
  BY Zenon, <1>0, <1>1, Nothing, Update
<1>5. /\ arg' \in [Procs -> [number : Int, right : BOOLEAN]]
      /\ \A u \in Procs \ {c} : arg'[u] = arg[u]
  BY Zenon, <1>0, <1>1, Nothing, Update
<1>6. idx' \in [Procs -> Nat] /\ \A u \in Procs \ {c} : idx'[u] = idx[u]
  BY Zenon, <1>0, <1>1, Nothing, Update
<1>7. Others(c) /\ Locals
  BY Zenon, <1>0, <1>1, <1>3, <1>4, <1>5, <1>6 DEF Others, Locals
<1>8. /\ "answer" \in Labels /\ "answer" \in Plain /\ "answer" \notin Scanning \cup Holding
      /\ pc[c] \notin Scanning \cup Holding
  BY Zenon, PlainLabels, FromPlain DEF Plain
<1>9. pc'[c] = "answer"
  BY Zenon, <1>0, <1>1, <1>8, GotoType
<1>10. InsertInv(c)' /\ CallInv(c)'
  BY Zenon, <1>8, <1>9, PlainInv
<1> QED
  BY Zenon, <1>1, <1>2, <1>7, <1>8, <1>10, Outside DEF Holding

\* A step from one label of a call to the next.
LEMMA ProceedInv ==
  ASSUME Inv, NEW c \in Procs, pc[c] \in Calling, call[c] # "freed", NEW m, NEW i \in Nat,
         NEW label \in Calling \ {"call"}, Reached(m), Proceed(c, m, i, label), settled' \in BOOLEAN,
         label = "sw_probe" => i # 0
  PROVE  Inv'
<1>0. Types /\ CallInv(c)
  BY Zenon, Own
<1>1. /\ mon' = m /\ idx' = [idx EXCEPT ![c] = i] /\ Goto(c, label)
      /\ UNCHANGED <<boot, memory, disc, request>>
  BY Zenon DEF Proceed
<1>2. Kept
  BY Zenon, <1>1, ReachedKept
<1>3. Others(c) /\ Locals /\ call' = call /\ idx'[c] = i
  BY Zenon, <1>1, IndexLocals DEF request
<1>4. /\ label \in Labels /\ label \notin Scanning \cup Holding /\ label \in Busy \ Beginning
      /\ pc[c] \notin Scanning \cup Holding /\ label # "mon_insert"
  BY Zenon, FromPlain DEF Labels, Busy, Beginning, Calling, Changing
<1>5. pc'[c] = label /\ (crowded[c] => crowded'[c])
  BY Zenon, <1>0, <1>1, <1>4, GotoType, GotoCrowd
<1>6. InsertInv(c)'
  BY Zenon, <1>4, <1>5 DEF InsertInv, Holding, Filling, Emptying
<1>7. CallInv(c)'
  <2>1. mon'.restore = mon.restore /\ mon'.status = mon.status /\ call'[c] = call[c]
    BY Zenon, <1>1, <1>3 DEF Reached
  <2> QED
    BY Zenon, <1>0, <1>3, <1>4, <1>5, <2>1 DEF CallInv, Holding
<1> QED
  BY Zenon, <1>1, <1>2, <1>3, <1>4, <1>6, <1>7, Outside DEF Holding

LEMMA DieInv ==
  ASSUME Inv, NEW c \in Procs, pc[c] \in Calling \cup {"mon_entries"}, Die(c), Kept, UNCHANGED disc
  PROVE  Inv'
<1>0. /\ Types /\ call \in [Procs -> CallNames \cup {"freed"}] /\ idx \in [Procs -> Nat]
      /\ arg \in [Procs -> [number : Int, right : BOOLEAN]] /\ ret \in [Procs -> Int]
  BY Zenon, Own DEF Types
<1>1. /\ Goto(c, "oops") /\ idx' = [idx EXCEPT ![c] = 0] /\ arg' = [arg EXCEPT ![c] = NoArgument]
      /\ call' = [call EXCEPT ![c] = "get"] /\ ret' = ret
  BY Zenon DEF Die
<1>2. idx' \in [Procs -> Nat] /\ \A u \in Procs \ {c} : idx'[u] = idx[u]
  BY Zenon, <1>0, <1>1, Nothing, Update
<1>3. call' \in [Procs -> CallNames \cup {"freed"}] /\ \A u \in Procs \ {c} : call'[u] = call[u]
  BY Zenon, <1>0, <1>1, Nothing, Update
<1>4. /\ arg' \in [Procs -> [number : Int, right : BOOLEAN]]
      /\ \A u \in Procs \ {c} : arg'[u] = arg[u]
  BY Zenon, <1>0, <1>1, Nothing, Update
<1>5. Others(c) /\ Locals
  BY Zenon, <1>0, <1>1, <1>2, <1>3, <1>4 DEF Others, Locals
<1>6. /\ "oops" \in Labels /\ "oops" \notin Scanning \cup Holding /\ "oops" \in Plain
      /\ pc[c] \notin Scanning \cup Filling \cup Emptying
  <2>1. "mon_entries" \notin Scanning \cup Filling \cup Emptying
    BY Zenon DEF Scanning, Filling, Emptying
  <2> QED
    BY Zenon, <2>1, PlainLabels, FromPlain DEF Plain, Holding
<1>7. pc'[c] = "oops"
  BY Zenon, <1>0, <1>1, <1>6, GotoType
<1>8. InsertInv(c)' /\ CallInv(c)'
  BY Zenon, <1>6, <1>7, PlainInv
<1> QED
  BY Zenon, <1>1, <1>5, <1>6, <1>8, Outside

\* What the operators of Lifecycle return: ClientTheorems shows it.
Operators ==
  /\ \A w, t : get_entries(w, t) # << >> =>
       /\ get_entries(w, t) \in [Turns -> 0 .. TableSize - 1]
       /\ \A m, n \in Turns :
            /\ w[t + get_entries(w, t)[m]] = w[t + get_entries(w, t)[n]]
            /\ m # n => get_entries(w, t)[m] # get_entries(w, t)[n]
  /\ \A page \in Nat : validate_page(page) # NULL =>
       validate_page(page) \in Tested(page) /\ Pattern(memory, validate_page(page))
  /\ \A S \in SUBSET (0 .. TableSize - 1) :
       Cardinality({i \in S : Cardinality({j \in S : j < i}) < MAX_FREE}) <= MAX_FREE

LEMMA StateTypes ==
  ASSUME mon \in MonType
  PROVE  /\ mon.state \in Int /\ mon.password \in BOOLEAN /\ mon.list \in SUBSET {Path}
         /\ mon.size \in Int /\ mon.enabled \in SUBSET Probes
         /\ mon.status \in {"none", "coming", "live", "going"}
         /\ mon.probes \in {"none", "array", "registered"}
BY Zenon DEF MonType

\* The assignments of the calls, each of which leaves the other fields.
SetState(m, s)   == m = [mon EXCEPT !.state = s]
SetEnabled(m, E) == m = [mon EXCEPT !.enabled = E]
SetList(m, L)    == m = [mon EXCEPT !.list = L]
SetSize(m, n)    == m = [mon EXCEPT !.size = n]

LEMMA SetTypes ==
  ASSUME mon \in MonType, NEW m
  PROVE  /\ Reached(mon)
         /\ \A s \in Int : SetState(m, s) =>
              /\ Reached(m) /\ m.state = s /\ m.enabled = mon.enabled /\ m.list = mon.list
              /\ m.size = mon.size
         /\ \A E \in SUBSET Probes : SetEnabled(m, E) =>
              /\ Reached(m) /\ m.enabled = E /\ m.state = mon.state /\ m.list = mon.list
              /\ m.size = mon.size
         /\ \A L \in SUBSET {Path} : SetList(m, L) =>
              /\ Reached(m) /\ m.list = L /\ m.state = mon.state /\ m.enabled = mon.enabled
              /\ m.size = mon.size
         /\ \A n \in Int : SetSize(m, n) =>
              /\ Reached(m) /\ m.size = n /\ m.state = mon.state /\ m.enabled = mon.enabled
              /\ m.list = mon.list
<1>1. Reached(mon)
  BY Zenon DEF Reached
<1>2. ASSUME NEW s \in Int, SetState(m, s)
      PROVE  /\ Reached(m) /\ m.state = s /\ m.enabled = mon.enabled /\ m.list = mon.list
             /\ m.size = mon.size
  BY Zenon, <1>2 DEF SetState, Reached, MonType
<1>3. ASSUME NEW E \in SUBSET Probes, SetEnabled(m, E)
      PROVE  /\ Reached(m) /\ m.enabled = E /\ m.state = mon.state /\ m.list = mon.list
             /\ m.size = mon.size
  BY Zenon, <1>3 DEF SetEnabled, Reached, MonType
<1>4. ASSUME NEW L \in SUBSET {Path}, SetList(m, L)
      PROVE  /\ Reached(m) /\ m.list = L /\ m.state = mon.state /\ m.enabled = mon.enabled
             /\ m.size = mon.size
  BY Zenon, <1>4 DEF SetList, Reached, MonType
<1>5. ASSUME NEW n \in Int, SetSize(m, n)
      PROVE  /\ Reached(m) /\ m.size = n /\ m.state = mon.state /\ m.enabled = mon.enabled
             /\ m.list = mon.list
  BY Zenon, <1>5 DEF SetSize, Reached, MonType
<1> QED
  BY Zenon, <1>1, <1>2, <1>3, <1>4, <1>5

\* The steps of the calls, by what they do.
OnlyAnswers(c) ==
  /\ \E v \in {mon.state, mon.size, 0, 1, -1, EPERM, EACCES, EEXIST} : Answer(c, mon, v)
  /\ pc[c] \in Calling \ Changing /\ (pc[c] = "sw_probe" => idx[c] > LastProbe)
OnlyProceeds(c) ==
  /\ pc[c] = "call" /\ settled' = settled
  /\ \/ call[c] = "switch" /\ Proceed(c, mon, 0, "sw_store")
     \/ Proceed(c, mon, 0, "add_link")
     \/ Proceed(c, mon, 0, "rem_unlink")
     \/ Proceed(c, mon, IF mon.list = {} THEN 0 ELSE 1, "prt_size")
Stores(c) ==
  /\ pc[c] = "sw_store" /\ settled' = (mon.status = "live" /\ Switching = {})
  /\ \E m : SetState(m, arg[c].number) /\ Proceed(c, m, 1, "sw_probe")
Turned(c) == IF mon.probes = "registered" /\ Enforcing(arg[c].number)
             THEN mon.enabled \cup {idx[c]} ELSE mon.enabled \ {idx[c]}
TurnsProbe(c) ==
  /\ pc[c] = "sw_probe" /\ idx[c] <= LastProbe /\ mon.probes # "none" /\ settled' = settled
  /\ \E m : SetEnabled(m, Turned(c)) /\ Proceed(c, m, idx[c] + 1, "sw_probe")
Links(c) ==
  /\ ~Locked /\ settled' = settled
  /\ \/ /\ pc[c] = "add_link" /\ Path \notin mon.list
        /\ \E m : SetList(m, mon.list \cup {Path}) /\ Proceed(c, m, 0, "add_count")
     \/ /\ pc[c] = "rem_unlink" /\ Path \in mon.list
        /\ \E m : SetList(m, mon.list \ {Path}) /\ Proceed(c, m, 0, "rem_count")
Counts(c) ==
  \/ pc[c] = "add_count" /\ \E m : SetSize(m, mon.size + 1) /\ Answer(c, m, 0)
  \/ pc[c] = "rem_count" /\ \E m : SetSize(m, mon.size - 1) /\ Answer(c, m, 0)

LEMMA Outcomes ==
  ASSUME NEW c \in Procs, CallStep(c)
  PROVE  \/ CallDies(c)
         \/ /\ call[c] # "freed" /\ pc[c] \in Calling
            /\ \/ OnlyAnswers(c) \/ OnlyProceeds(c) \/ Stores(c) \/ TurnsProbe(c) \/ Links(c)
               \/ Counts(c)
<1>1. /\ {"call", "sw_store", "sw_probe", "add_link", "rem_unlink", "prt_size", "add_count",
          "rem_count"} \subseteq Calling
      /\ {"call", "sw_probe", "add_link", "rem_unlink", "prt_size"} \subseteq Calling \ Changing
  BY Zenon DEF Calling, Changing
<1>2. ~Dies(c) => call[c] # "freed" /\ ~(pc[c] = "sw_probe" /\ mon.probes = "none")
  BY Zenon DEF Dies
<1>3. CASE sys_switch_rf_state(c)
  BY Zenon, <1>1, <1>2, <1>3 DEF sys_switch_rf_state, InCall, OnlyAnswers, OnlyProceeds
<1>4. CASE SwitchStore(c)
  BY Zenon, <1>1, <1>2, <1>4 DEF SwitchStore, Stores, SetState
<1>5. CASE SwitchProbe(c)
  <2>1. pc[c] = "sw_probe" /\ ~Dies(c) /\ idx[c] <= LastProbe /\ settled' = settled
    BY Zenon, <1>5 DEF SwitchProbe
  <2>2. Proceed(c, [mon EXCEPT !.enabled = Turned(c)], idx[c] + 1, "sw_probe")
    BY Zenon, <1>5 DEF SwitchProbe, Turned
  <2> QED
    BY Zenon, <1>1, <1>2, <2>1, <2>2 DEF TurnsProbe, SetEnabled
<1>6. CASE SwitchReturn(c)
  BY Zenon, <1>1, <1>2, <1>6 DEF SwitchReturn, OnlyAnswers
<1>7. CASE sys_add_to_blacklist(c) \/ sys_remove_from_blacklist(c)
  BY Zenon, <1>1, <1>2, <1>7 DEF sys_add_to_blacklist, sys_remove_from_blacklist, Reconfigure,
     InCall, OnlyAnswers, OnlyProceeds
<1>8. CASE AddLink(c) \/ RemUnlink(c)
  BY Zenon, <1>1, <1>2, <1>8 DEF AddLink, RemUnlink, OnlyAnswers, Links, SetList
<1>9. CASE AddCount(c) \/ RemCount(c)
  BY Zenon, <1>1, <1>2, <1>9 DEF AddCount, RemCount, Counts, SetSize
<1>10. CASE sys_get_rf_state(c) \/ sys_get_blacklist_size(c)
  BY Zenon, <1>1, <1>2, <1>10 DEF sys_get_rf_state, sys_get_blacklist_size, InCall, OnlyAnswers
<1>11. CASE sys_print_blacklist(c)
  BY Zenon, <1>1, <1>2, <1>11 DEF sys_print_blacklist, InCall, OnlyProceeds
<1>12. CASE PrintSize(c)
  BY Zenon, <1>1, <1>2, <1>12 DEF PrintSize, OnlyAnswers
<1> QED
  BY Zenon, <1>3, <1>4, <1>5, <1>6, <1>7, <1>8, <1>9, <1>10, <1>11, <1>12 DEF CallStep

\* What the assignments of the calls leave.
LEMMA CallTypes ==
  ASSUME Inv, NEW c \in Procs
  PROVE  /\ mon \in MonType /\ Reached(mon) /\ mon.state \in Int /\ mon.size \in Int
         /\ \A m : SetState(m, arg[c].number) =>
              /\ Reached(m) /\ m.state = arg[c].number /\ m.enabled = mon.enabled
              /\ m.list = mon.list /\ m.size = mon.size
         /\ \A m : idx[c] \in Probes /\ SetEnabled(m, Turned(c)) =>
              /\ Reached(m) /\ m.enabled = Turned(c) /\ m.state = mon.state
              /\ m.list = mon.list /\ m.size = mon.size
         /\ \A m : \A L \in {mon.list \cup {Path}, mon.list \ {Path}} : SetList(m, L) =>
              /\ Reached(m) /\ m.list = L /\ m.state = mon.state /\ m.enabled = mon.enabled
              /\ m.size = mon.size
         /\ \A m : \A n \in {mon.size + 1, mon.size - 1} : SetSize(m, n) =>
              /\ Reached(m) /\ m.size = n /\ m.state = mon.state /\ m.enabled = mon.enabled
              /\ m.list = mon.list
<1>1. mon \in MonType /\ arg[c].number \in Int
  <2>1. arg[c] \in [number : Int, right : BOOLEAN]
    BY Zenon, Own
  <2> QED
    BY Zenon, <2>1, Own DEF Types
<1>2. mon.state \in Int /\ mon.list \in SUBSET {Path} /\ mon.size \in Int /\ mon.enabled \in SUBSET Probes
  BY Zenon, <1>1, StateTypes
<1>3. mon.size + 1 \in Int /\ mon.size - 1 \in Int
  BY SMT, <1>2
<1>4. mon.list \cup {Path} \in SUBSET {Path} /\ mon.list \ {Path} \in SUBSET {Path}
  BY Zenon, <1>2
<1>5. idx[c] \in Probes => Turned(c) \in SUBSET Probes
  BY Zenon, <1>2 DEF Turned
<1>6. \A m : SetState(m, arg[c].number) =>
        /\ Reached(m) /\ m.state = arg[c].number /\ m.enabled = mon.enabled
        /\ m.list = mon.list /\ m.size = mon.size
  BY Zenon, <1>1, SetTypes
<1>7. \A m : idx[c] \in Probes /\ SetEnabled(m, Turned(c)) =>
        /\ Reached(m) /\ m.enabled = Turned(c) /\ m.state = mon.state
        /\ m.list = mon.list /\ m.size = mon.size
  BY Zenon, <1>1, <1>5, SetTypes
<1>8. \A m : \A L \in {mon.list \cup {Path}, mon.list \ {Path}} : SetList(m, L) =>
        /\ Reached(m) /\ m.list = L /\ m.state = mon.state /\ m.enabled = mon.enabled
        /\ m.size = mon.size
  BY Zenon, <1>1, <1>4, SetTypes
<1>9. \A m : \A n \in {mon.size + 1, mon.size - 1} : SetSize(m, n) =>
        /\ Reached(m) /\ m.size = n /\ m.state = mon.state /\ m.enabled = mon.enabled
        /\ m.list = mon.list
  BY Zenon, <1>1, <1>3, SetTypes
<1> QED
  BY Zenon, <1>1, <1>2, <1>6, <1>7, <1>8, <1>9, SetTypes

LEMMA CallStepInv ==
  ASSUME Inv, NEW c \in Procs, CallStep(c)
  PROVE  Inv'
<1>0. Types /\ settled \in BOOLEAN /\ idx[c] \in Nat /\ CallInv(c)
  BY Zenon, Own DEF Types
<1>1. CASE CallDies(c)
  <2>1. pc[c] \in Calling /\ Die(c) /\ UNCHANGED <<boot, memory, disc, mon, settled>>
    BY Zenon, <1>1 DEF CallDies
  <2>2. Kept
    BY Zenon, <1>0, <2>1 DEF Kept, Types
  <2> QED
    BY Zenon, <2>1, <2>2, DieInv
<1>2. ASSUME call[c] # "freed", pc[c] \in Calling, OnlyAnswers(c) PROVE Inv'
  <2>1. {mon.state, mon.size, 0, 1, -1, EPERM, EACCES, EEXIST} \subseteq Int
    BY SMT, CallTypes DEF EPERM, EACCES, EEXIST
  <2> QED
    BY Zenon, <1>2, <2>1, CallTypes, AnswerInv DEF OnlyAnswers
<1>3. ASSUME call[c] # "freed", pc[c] \in Calling, OnlyProceeds(c) PROVE Inv'
  <2>1. {"sw_store", "add_link", "rem_unlink", "prt_size"} \subseteq Calling \ {"call", "sw_probe"}
    BY Zenon DEF Calling
  <2>2. 0 \in Nat /\ (IF mon.list = {} THEN 0 ELSE 1) \in Nat
    BY SMT
  <2>3. settled' \in BOOLEAN
    BY Zenon, <1>0, <1>3 DEF OnlyProceeds
  <2>4. \E i \in Nat, label \in Calling \ {"call", "sw_probe"} : Proceed(c, mon, i, label)
    BY Zenon, <1>3, <2>1, <2>2 DEF OnlyProceeds
  <2> QED
    BY Zenon, <1>3, <2>3, <2>4, CallTypes, ProceedInv
<1>4. ASSUME call[c] # "freed", pc[c] \in Calling, Stores(c) PROVE Inv'
  <2>1. settled' \in BOOLEAN /\ "sw_probe" \in Calling \ {"call"}
    BY Zenon, <1>4 DEF Stores, Calling
  <2>4. 1 \in Nat /\ 1 # 0
    BY SMT
  <2>2. PICK m : SetState(m, arg[c].number) /\ Proceed(c, m, 1, "sw_probe")
    BY Zenon, <1>4 DEF Stores
  <2>3. Reached(m)
    BY Zenon, <2>2, CallTypes
  <2> QED
    BY Zenon, <1>4, <2>1, <2>2, <2>3, <2>4, ProceedInv
<1>5. ASSUME call[c] # "freed", pc[c] \in Calling, TurnsProbe(c) PROVE Inv'
  <2>1. settled' \in BOOLEAN /\ "sw_probe" \in Calling \ {"call"} /\ pc[c] = "sw_probe"
        /\ idx[c] <= LastProbe
    BY Zenon, <1>0, <1>5 DEF TurnsProbe, Calling
  <2>2. PICK m : SetEnabled(m, Turned(c)) /\ Proceed(c, m, idx[c] + 1, "sw_probe")
    BY Zenon, <1>5 DEF TurnsProbe
  <2>3. idx[c] \in Probes /\ idx[c] + 1 \in Nat /\ idx[c] + 1 # 0
    <3>1. idx[c] # 0
      BY Zenon, <1>0, <2>1 DEF CallInv
    <3> QED
      BY SMT, <1>0, <2>1, <3>1, MemoryAssumption DEF Probes, LastProbe
  <2>4. Reached(m)
    BY Zenon, <2>2, <2>3, CallTypes
  <2> QED
    BY Zenon, <1>5, <2>1, <2>2, <2>3, <2>4, ProceedInv
<1>6. ASSUME call[c] # "freed", pc[c] \in Calling, Links(c) PROVE Inv'
  <2>1. settled' \in BOOLEAN /\ {"add_count", "rem_count"} \subseteq Calling \ {"call"} /\ 0 \in Nat
    BY Zenon, <1>0, <1>6, Nothing DEF Links, Calling, Changing
  <2>2. \E m : \E L \in {mon.list \cup {Path}, mon.list \ {Path}}, label \in {"add_count", "rem_count"} :
          SetList(m, L) /\ Proceed(c, m, 0, label)
    BY Zenon, <1>6 DEF Links
  <2>3. PICK m : \E L \in {mon.list \cup {Path}, mon.list \ {Path}}, label \in {"add_count", "rem_count"} :
                   SetList(m, L) /\ Proceed(c, m, 0, label)
    BY Zenon, <2>2
  <2>4. Reached(m)
    BY Zenon, <2>3, CallTypes
  <2> QED
    BY Zenon, <1>6, <2>1, <2>3, <2>4, ProceedInv
<1>7. ASSUME call[c] # "freed", pc[c] \in Calling, Counts(c) PROVE Inv'
  <2>1. \E m : \E n \in {mon.size + 1, mon.size - 1} : SetSize(m, n) /\ Answer(c, m, 0)
    BY Zenon, <1>7 DEF Counts
  <2>2. PICK m : \E n \in {mon.size + 1, mon.size - 1} : SetSize(m, n) /\ Answer(c, m, 0)
    BY Zenon, <2>1
  <2>3. Reached(m)
    BY Zenon, <2>2, CallTypes
  <2>4. 0 \in Int
    BY SMT
  <2> QED
    BY Zenon, <1>7, <2>2, <2>3, <2>4, AnswerInv
<1> QED
  BY Zenon, <1>1, <1>2, <1>3, <1>4, <1>5, <1>6, <1>7, Outcomes

(*****************************************************************************)
(* The discoverer and the file system                                        *)
(*****************************************************************************)
LEMMA FsInv ==
  ASSUME Inv, NEW c \in Procs, FsStep(c)
  PROVE  Inv'
<1>1. UNCHANGED <<boot, memory, disc, mon, settled>>
  BY Zenon DEF FsStep, FsInsert, FsMount, FsRemove
<1>2. pc[c] \notin Scanning \cup Holding
  BY Zenon, PlainLabels, FromPlain DEF FsStep, FsInsert, FsMount, FsRemove
<1>3. Finish(c) \/ (Goto(c, "fs_mount") /\ UNCHANGED <<idx, request>>)
  BY Zenon DEF FsStep, FsInsert, FsMount, FsRemove
<1>4. CASE Goto(c, "fs_mount") /\ UNCHANGED <<idx, request>>
  <2>1. UNCHANGED <<idx, call, arg>> /\ ret' \in [Procs -> Int]
    BY Zenon, <1>4, Own DEF Types, request
  <2> QED
    BY Zenon, <1>1, <1>2, <1>4, <2>1, SameLocals, PlainLabels, Aside
<1> QED
  BY Zenon, <1>1, <1>2, <1>3, <1>4, FinishInv

\* A step on the discoverer, once what it says of it is shown.
LEMMA DiscStepInv ==
  ASSUME Inv, NEW c \in Procs, NEW label \in Plain \cup Scanning, Goto(c, label),
         UNCHANGED <<boot, memory, mon, settled>>, disc' \in DiscType, Others(c), Locals,
         pc[c] \in Plain \cup Scanning, DiscInv'
  PROVE  Inv'
<1>1. /\ label \in Labels /\ label \notin Holding /\ pc[c] \notin Filling \cup Emptying
      /\ label \notin Calling \cup {"mon_insert"}
  <2>1. \A l \in Plain \cup Scanning :
          l \in Labels /\ l \notin Holding /\ l \notin Calling \cup {"mon_insert"}
    BY Zenon DEF Plain, Labels, Inserting, Calling, Changing, Scanning, Holding, Filling, Emptying
  <2> QED
    BY Zenon, <2>1 DEF Holding
<1>2. Types
  BY Zenon, Own
<1>3. Kept
  BY Zenon, <1>2 DEF Kept, Types
<1>5. pc'[c] = label
  BY Zenon, <1>1, <1>2, GotoType
<1>6. InsertInv(c)' /\ CallInv(c)'
  <2>1. InsertInv(c)'
    BY Zenon, <1>1, <1>5 DEF InsertInv, Holding, Filling, Emptying
  <2> QED
    BY Zenon, <1>1, <1>5, <2>1 DEF CallInv, Calling, Holding
<1> QED
  BY Zenon, <1>1, <1>3, <1>6, OutsideMonitor

LEMMA DiscTypes ==
  ASSUME disc \in DiscType
  PROVE  /\ \A s \in {"none", "coming", "live"} :
              /\ [disc EXCEPT !.status = s] \in DiscType
              /\ [disc EXCEPT !.status = s].status = s
              /\ [disc EXCEPT !.status = s].sys_call_table_address = disc.sys_call_table_address
         /\ \A a \in Scanned, w \in Words :
              LET d == [disc EXCEPT !.sys_call_table_address = a, !.hacked_ni_syscall = w]
              IN  /\ d \in DiscType /\ d.status = disc.status
                  /\ d.sys_call_table_address = a /\ d.hacked_ni_syscall = w
                  /\ d.free_entries = disc.free_entries
         /\ \A F \in SUBSET (0 .. TableSize - 1) :
              /\ [disc EXCEPT !.status = "live", !.free_entries = F] \in DiscType
              /\ [disc EXCEPT !.status = "live", !.free_entries = F].status = "live"
              /\ [disc EXCEPT !.status = "live", !.free_entries = F].sys_call_table_address
                   = disc.sys_call_table_address
         /\ NoDisc \in DiscType /\ NoDisc.status = "none"
BY Zenon DEF DiscType, NoDisc

\* The addresses of a page.
LEMMA PageArithmetic ==
  ASSUME NEW P \in Nat \ {0}, NEW page \in Nat, NEW a \in page * P .. (page + 1) * P - 1
  PROVE  a \div P = page
<1>1. /\ page * P \in Nat /\ (page + 1) * P = page * P + P /\ a \in Nat
      /\ page * P <= a /\ a < page * P + P
  BY SMT
<1>2. \E r \in 0 .. P - 1 : a = P * page + r
  <2>1. a - page * P \in 0 .. P - 1 /\ a = P * page + (a - page * P)
    BY SMT, <1>1
  <2> QED
    BY Zenon, <2>1
<1> QED
  BY SMT, <1>1, <1>2

LEMMA PageRange ==
  ASSUME NEW P \in Nat \ {0}, NEW N \in Nat, NEW page \in Nat, page < N,
         NEW a \in page * P .. (page + 1) * P - 1
  PROVE  a \in 0 .. N * P - 1
<1>1. page * P \in Nat /\ (page + 1) * P \in Nat /\ N * P \in Nat
  BY SMT
<1>2. (page + 1) * P <= N * P
  BY SMT
<1> QED
  BY SMT, <1>1, <1>2

\* validate_page reads no word that is not mapped.
LEMMA NoHole ==
  ASSUME NEW page \in Nat, sys_vtpmo(page)
  PROVE  ~ReadsHole(page)
<1>1. PageSize \in Nat \ {0}
  BY Zenon, MemoryAssumption
<1>2. ASSUME NEW a \in Tested(page) PROVE sys_vtpmo((a + SEVENTH_NI_SYSCALL) \div PageSize)
  <2>1. a \div PageSize = page
    BY Zenon, <1>1, PageArithmetic DEF Tested
  <2>2. EndIsMapped(a)
    BY Zenon DEF Tested
  <2>3. CASE (a + SEVENTH_NI_SYSCALL) \div PageSize = page
    BY Zenon, <2>3
  <2>4. CASE (a + SEVENTH_NI_SYSCALL) \div PageSize # page
    BY Zenon, <2>1, <2>2, <2>4 DEF EndIsMapped
  <2> QED
    BY Zenon, <2>3, <2>4
<1> QED
  BY Zenon, <1>2 DEF ReadsHole

LEMMA DiscInsertInv ==
  ASSUME Inv, NEW c \in Procs, DiscInsert(c)
  PROVE  Inv'
<1>0. /\ DiscInv /\ Types /\ disc \in DiscType /\ pc[c] \in Plain
      /\ UNCHANGED <<boot, memory, mon, settled>>
  BY Zenon, Own, PlainLabels DEF DiscInsert, Types
<1>1. CASE Finish(c) /\ UNCHANGED disc
  BY Zenon, <1>0, <1>1, FinishInv, FromPlain
<1>2. CASE /\ disc.status = "none" /\ disc' = [disc EXCEPT !.status = "coming"]
           /\ idx' = [idx EXCEPT ![c] = 0] /\ Goto(c, "disc_scan") /\ UNCHANGED request
  <2>1. Others(c) /\ Locals /\ idx'[c] = 0
    BY Zenon, <1>2, Nothing, IndexLocals
  <2>2. disc' \in DiscType /\ disc'.status = "coming"
    BY Zenon, <1>0, <1>2, DiscTypes
  <2>3. "disc_scan" \in Scanning /\ "disc_scan" \in Labels /\ "disc_scan" # "disc_free"
    BY Zenon DEF Scanning, Labels, Inserting
  <2>4. pc'[c] = "disc_scan" /\ \A u \in Procs \ {c} : pc'[u] = pc[u]
    BY Zenon, <1>0, <1>2, <2>3, GotoType
  <2>5. \A u \in Procs \ {c} : pc'[u] \notin Scanning
    BY Zenon, <1>0, <1>2, <2>4 DEF DiscInv
  <2>6. idx'[c] <= Pages
    BY SMT, <2>1, MemoryAssumption
  <2>7. DiscInv'
    BY Zenon, <2>2, <2>3, <2>4, <2>5, <2>6 DEF DiscInv, Scanning
  <2> QED
    BY Zenon, <1>0, <1>2, <2>1, <2>2, <2>3, <2>7, DiscStepInv
<1> QED
  BY Zenon, <1>1, <1>2 DEF DiscInsert

LEMMA DiscScanInv ==
  ASSUME Inv, Operators, NEW c \in Procs, DiscScan(c)
  PROVE  Inv'
<1> DEFINE page == idx[c]
<1>0. /\ DiscInv /\ Types /\ disc \in DiscType /\ pc[c] = "disc_scan" /\ page \in Nat
      /\ page < Pages /\ UNCHANGED <<boot, memory, mon, settled>>
  BY Zenon, Own DEF DiscScan, Types
<1>1. /\ {"disc_scan", "disc_free"} \subseteq Scanning /\ Scanning \subseteq Labels
      /\ "disc_scan" # "disc_free"
  BY Zenon DEF Scanning, Labels, Inserting
<1>2. disc.status = "coming" /\ \A u \in Procs \ {c} : pc[u] \notin Scanning
  BY Zenon, <1>0, <1>1 DEF DiscInv
<1>3. CASE /\ idx' = [idx EXCEPT ![c] = AfterPage(page)] /\ Goto(c, "disc_scan")
           /\ UNCHANGED <<disc, request, client>>
  <2>1. AfterPage(page) \in Nat /\ AfterPage(page) <= Pages
    BY SMT, <1>0, MemoryAssumption DEF AfterPage
  <2>2. Others(c) /\ Locals /\ idx'[c] = AfterPage(page)
    BY Zenon, <1>3, <2>1, IndexLocals
  <2>3. pc'[c] = "disc_scan" /\ \A u \in Procs \ {c} : pc'[u] = pc[u]
    BY Zenon, <1>0, <1>1, <1>3, GotoType
  <2>4. DiscInv'
    BY Zenon, <1>0, <1>1, <1>2, <1>3, <2>1, <2>2, <2>3 DEF DiscInv
  <2> QED
    BY Zenon, <1>0, <1>1, <1>3, <2>2, <2>4, DiscStepInv
<1>4. CASE /\ validate_page(page) # NULL
           /\ disc' = [disc EXCEPT !.sys_call_table_address = validate_page(page),
                         !.hacked_ni_syscall = memory[validate_page(page) + FIRST_NI_SYSCALL]]
           /\ idx' = [idx EXCEPT ![c] = 0] /\ Goto(c, "disc_free") /\ UNCHANGED <<request, client>>
  <2>1. validate_page(page) \in Scanned
    <3>1. validate_page(page) \in page * PageSize .. (page + 1) * PageSize - 1
      BY Zenon, <1>0, <1>4 DEF Operators, Tested
    <3>2. PageSize \in Nat \ {0} /\ Pages \in Nat
      BY Zenon, MemoryAssumption
    <3> QED
      BY Zenon, <1>0, <3>1, <3>2, PageRange DEF Scanned
  <2>2. Others(c) /\ Locals /\ idx'[c] = 0
    BY Zenon, <1>4, Nothing, IndexLocals
  <2>3. /\ disc' \in DiscType /\ disc'.status = "coming"
        /\ disc'.sys_call_table_address # NULL
    <3>1. memory[validate_page(page) + FIRST_NI_SYSCALL] \in Words
      BY Zenon, <1>0, <1>4, <2>1, FirstNumber, EntryAddress DEF Types
    <3> QED
      BY Zenon, <1>0, <1>2, <1>4, <2>1, <3>1, DiscTypes
  <2>4. pc'[c] = "disc_free" /\ \A u \in Procs \ {c} : pc'[u] = pc[u]
    BY Zenon, <1>0, <1>1, <1>4, GotoType
  <2>5. DiscInv'
    BY Zenon, <1>1, <1>2, <2>3, <2>4 DEF DiscInv
  <2> QED
    BY Zenon, <1>0, <1>1, <1>4, <2>2, <2>3, <2>5, DiscStepInv
<1>5. ~(sys_vtpmo(page) /\ ReadsHole(page))
  BY Zenon, <1>0, NoHole
<1> QED
  BY Zenon, <1>3, <1>4, <1>5 DEF DiscScan

\* The discoverer has come or is removed: nobody is inside any more.
LEMMA DiscDone ==
  ASSUME Inv, NEW c \in Procs, Finish(c), UNCHANGED <<boot, memory, mon, settled>>,
         disc' \in DiscType, disc'.status # "coming",
         disc'.status = "live" => disc'.sys_call_table_address # NULL,
         pc[c] \in Plain \cup Scanning, \A u \in Procs \ {c} : pc[u] \notin Scanning
  PROVE  Inv'
<1>1. Others(c) /\ Locals /\ Goto(c, "info")
  BY Zenon, FinishLocals
<1>2. "info" \in Labels /\ "info" \notin Scanning /\ "info" \in Plain
  BY Zenon, PlainLabels DEF Plain
<1>3. pc'[c] = "info" /\ \A u \in Procs \ {c} : pc'[u] = pc[u]
  BY Zenon, <1>1, <1>2, Own, GotoType
<1>4. \A u \in Procs : pc'[u] \notin Scanning
  BY Zenon, <1>2, <1>3
<1>5. DiscInv'
  BY Zenon, <1>4 DEF DiscInv, Scanning
<1> QED
  BY Zenon, <1>1, <1>2, <1>5, DiscStepInv

LEMMA DiscFinishInv ==
  ASSUME Inv, NEW c \in Procs, DiscFail(c) \/ DiscFree(c) \/ DiscRemove(c)
  PROVE  Inv'
<1>0. DiscInv /\ Types /\ disc \in DiscType
  BY Zenon, Own DEF Types
<1>1. UNCHANGED <<boot, memory, mon, settled>> /\ Finish(c)
  BY Zenon DEF DiscFail, DiscFree, DiscRemove
<1>2. CASE DiscFail(c)
  <2>1. pc[c] \in Scanning /\ disc' = [disc EXCEPT !.status = "none"]
    BY Zenon, <1>2 DEF DiscFail, Scanning
  <2>2. disc' \in DiscType /\ disc'.status = "none"
    BY Zenon, <1>0, <2>1, DiscTypes
  <2>3. \A u \in Procs \ {c} : pc[u] \notin Scanning
    BY Zenon, <1>0, <2>1 DEF DiscInv
  <2> QED
    BY Zenon, <1>1, <2>1, <2>2, <2>3, DiscDone
<1>3. CASE DiscFree(c)
  <2>1. pc[c] \in Scanning /\ disc.sys_call_table_address # NULL
    BY Zenon, <1>0, <1>3 DEF DiscFree, Scanning, DiscInv
  <2>2. \E F \in SUBSET (0 .. TableSize - 1) :
          disc' = [disc EXCEPT !.status = "live", !.free_entries = F]
    BY Zenon, <1>3 DEF DiscFree
  <2>3. /\ disc' \in DiscType /\ disc'.status = "live"
        /\ disc'.sys_call_table_address # NULL
    <3>1. PICK F \in SUBSET (0 .. TableSize - 1) :
            disc' = [disc EXCEPT !.status = "live", !.free_entries = F]
      BY Zenon, <2>2
    <3>2. /\ [disc EXCEPT !.status = "live", !.free_entries = F] \in DiscType
          /\ [disc EXCEPT !.status = "live", !.free_entries = F].status = "live"
          /\ [disc EXCEPT !.status = "live", !.free_entries = F].sys_call_table_address
               = disc.sys_call_table_address
      BY Zenon, <1>0, DiscTypes
    <3> QED
      BY Zenon, <2>1, <3>1, <3>2
  <2>4. \A u \in Procs \ {c} : pc[u] \notin Scanning
    BY Zenon, <1>0, <2>1 DEF DiscInv
  <2> QED
    BY Zenon, <1>1, <2>1, <2>3, <2>4, DiscDone
<1>4. CASE DiscRemove(c)
  <2>1. pc[c] \in Plain
    BY Zenon, <1>4, PlainLabels DEF DiscRemove
  <2>2. CASE disc.status = "live"
    <3>1. disc' = NoDisc
      BY Zenon, <1>4, <2>2 DEF DiscRemove
    <3>2. \A u \in Procs \ {c} : pc[u] \notin Scanning
      BY Zenon, <1>0, <2>2 DEF DiscInv
    <3>3. disc' \in DiscType /\ disc'.status = "none"
      BY Zenon, <1>0, <3>1, DiscTypes
    <3> QED
      BY Zenon, <1>1, <2>1, <3>2, <3>3, DiscDone
  <2>3. CASE disc.status # "live"
    <3>1. disc' = disc
      BY Zenon, <1>4, <2>3 DEF DiscRemove
    <3> QED
      BY Zenon, <1>1, <2>1, <3>1, FinishInv, FromPlain
  <2> QED
    BY Zenon, <2>2, <2>3
<1> QED
  BY Zenon, <1>2, <1>3, <1>4

(*****************************************************************************)
(* Inserting and removing the monitor                                        *)
(*****************************************************************************)
\* The process that steps is the one inside the loader, or becomes it: every call
\* is among others that insert, and the others are outside.
Inside(c, label) ==
  /\ pc[c] \in Inserting \/ label \in Inserting
  /\ pc[c] \notin Scanning /\ label \notin Scanning
  /\ \A u \in Procs \ {c} : pc[u] \notin Holding
  /\ \A u \in Procs \ {c} : idx'[u] = idx[u] /\ arg'[u] = arg[u]
  /\ \A u \in Procs \ {c} : pc[u] \in Calling => call'[u] = "freed" \/ mon'.restore # << >>

LEMMA InsideOthers ==
  ASSUME Inv, NEW c \in Procs, NEW label \in Labels, Goto(c, label), Inside(c, label),
         NEW u \in Procs \ {c}
  PROVE  InsertInv(u)' /\ CallInv(u)'
<1>1. /\ pc'[c] = label /\ pc'[u] = pc[u] /\ pc[u] \notin Holding /\ arg'[u] = arg[u]
      /\ AloneInv /\ CallInv(u) /\ Types
  BY Zenon, Own, GotoType DEF Inside
<1>2. pc[u] \in Busy /\ crowded[u] => crowded'[u]
  BY Zenon, <1>1, GotoCrowd
<1>3. {"mon_insert"} \cup Calling \subseteq Busy /\ Inserting \subseteq Disturbing
  BY Zenon DEF Busy, Beginning, Inserting, Disturbing
<1>4. pc[u] \in Calling => crowded'[u]
  <2>1. CASE label \in Inserting
    BY Zenon, <1>1, <1>3, <2>1, GotoCrowd
  <2>2. CASE pc[c] \in Inserting
    BY Zenon, <1>1, <1>2, <1>3, <2>2 DEF AloneInv
  <2> QED
    BY Zenon, <2>1, <2>2 DEF Inside
<1>5. InsertInv(u)'
  BY Zenon, <1>1 DEF InsertInv, Holding, Filling, Emptying
<1>6. CallInv(u)'
  BY Zenon, <1>1, <1>2, <1>3, <1>4 DEF CallInv, Holding, Inside
<1> QED
  BY Zenon, <1>5, <1>6

LEMMA InsideInv ==
  ASSUME Inv, NEW c \in Procs, NEW label \in Labels, Goto(c, label), Inside(c, label), Locals,
         UNCHANGED <<boot, disc>>, memory' \in [Addresses -> Words], mon' \in MonType,
         settled' \in BOOLEAN, TableInv', StatusInv',
         InsertInv(c)' /\ CallInv(c)'
  PROVE  Inv'
<1>1. Types /\ pc' \in [Procs -> Labels] /\ crowded' \in [Procs -> BOOLEAN]
  BY Zenon, Own, GotoType
<1>2. Types'
  BY Zenon, <1>1 DEF Types, Locals
<1>3. DiscInv'
  BY Zenon, DiscKept DEF Inside
<1>4. AloneInv'
  BY Zenon, AloneStep DEF Inside
<1>5. \A u \in Procs : InsertInv(u)' /\ CallInv(u)'
  BY Zenon, InsideOthers
<1> QED
  BY Zenon, <1>2, <1>3, <1>4, <1>5 DEF Inv

\* The labels of the loader.
LEMMA HoldingLabels ==
  /\ {"mon_insert", "mon_entries", "mon_publish", "mon_fields", "mon_password", "mon_probes",
      "mon_register", "rm_restore", "rm_probes"} \subseteq Inserting
  /\ Inserting \subseteq Labels /\ Holding \subseteq Inserting /\ Holding \cap Scanning = {}
  /\ "mon_insert" \notin Scanning \cup Holding /\ {"mon_entries"} \cup Filling \cup Emptying = Holding
BY Zenon DEF Inserting, Labels, Holding, Filling, Emptying, Scanning

LEMMA MonReadInv ==
  ASSUME Inv, NEW c \in Procs, MonRead(c)
  PROVE  Inv'
<1>0. /\ Types /\ DiscInv /\ disc \in DiscType /\ pc[c] \in Plain
      /\ UNCHANGED <<boot, memory, disc, mon, settled>>
  BY Zenon, Own, PlainLabels DEF MonRead, Types
<1>1. CASE Finish(c)
  BY Zenon, <1>0, <1>1, FinishInv, FromPlain
<1>2. CASE /\ disc.status # "none"
           /\ arg' = [arg EXCEPT ![c].number = disc.sys_call_table_address]
           /\ Goto(c, "mon_insert") /\ UNCHANGED <<idx, call, ret>>
  <2> DEFINE a == disc.sys_call_table_address
  <2>1. a \in {NULL} \cup Scanned /\ a \in Int /\ disc.status \in {"none", "coming", "live"}
    <3>1. a \in {NULL} \cup Scanned /\ disc.status \in {"none", "coming", "live"}
      BY Zenon, <1>0 DEF DiscType
    <3> QED
      BY SMT, <3>1 DEF NULL, Scanned
  <2>2. /\ arg \in [Procs -> [number : Int, right : BOOLEAN]] /\ idx \in [Procs -> Nat]
        /\ call \in [Procs -> CallNames \cup {"freed"}] /\ ret \in [Procs -> Int]
    BY Zenon, <1>0 DEF Types
  <2>3. /\ [arg[c] EXCEPT !.number = a] \in [number : Int, right : BOOLEAN]
        /\ [arg[c] EXCEPT !.number = a].number = a
    <3>1. arg[c] \in [number : Int, right : BOOLEAN]
      BY Zenon, <2>2
    <3> QED
      BY Zenon, <2>1, <3>1
  <2>4. arg' = [arg EXCEPT ![c] = [arg[c] EXCEPT !.number = a]]
    BY SMT, <1>2
  <2>5. /\ arg' \in [Procs -> [number : Int, right : BOOLEAN]] /\ arg'[c].number = a
        /\ \A u \in Procs \ {c} : arg'[u] = arg[u]
    <3> DEFINE r == [arg[c] EXCEPT !.number = a]
    <3>1. r \in [number : Int, right : BOOLEAN] /\ r.number = a /\ arg' = [arg EXCEPT ![c] = r]
      BY Zenon, <2>3, <2>4
    <3> HIDE DEF r
    <3>2. /\ [arg EXCEPT ![c] = r] \in [Procs -> [number : Int, right : BOOLEAN]]
          /\ [arg EXCEPT ![c] = r][c] = r
          /\ \A u \in Procs \ {c} : [arg EXCEPT ![c] = r][u] = arg[u]
      BY Zenon, <2>2, <3>1, Update
    <3> QED
      BY Zenon, <3>1, <3>2
  <2>6. Others(c) /\ Locals
    BY Zenon, <1>2, <2>2, <2>5 DEF Others, Locals
  <2>7. pc'[c] = "mon_insert" /\ \A u \in Procs \ {c} : pc'[u] = pc[u]
    BY Zenon, <1>0, <1>2, HoldingLabels, GotoType
  <2>8. a = NULL => crowded'[c]
    <3>1. ASSUME a = NULL PROVE \E d \in Procs \ {c} : pc'[d] \in Disturbing
      <4>1. disc.status = "coming"
        BY Zenon, <1>0, <1>2, <2>1, <3>1 DEF DiscInv
      <4>2. PICK d \in Procs : pc[d] \in Scanning
        BY Zenon, <1>0, <4>1 DEF DiscInv
      <4>3. d # c
        BY Zenon, <1>0, <4>2, FromPlain
      <4> QED
        BY Zenon, <2>7, <4>2, <4>3 DEF Scanning, Inserting, Disturbing
    <3>2. pc'[c] \in Busy
      BY Zenon, <2>7, HoldingLabels DEF Busy
    <3> QED
      BY Zenon, <1>0, <1>2, <3>1, <3>2, HoldingLabels, GotoCrowd
  <2>9. InsertInv(c)' /\ CallInv(c)'
    <3>1. InsertInv(c)'
      BY Zenon, <2>7 DEF InsertInv, Filling, Emptying
    <3> QED
      BY Zenon, <2>1, <2>5, <2>7, <2>8, <3>1 DEF CallInv, Calling, Changing
  <2>10. Kept
    BY Zenon, <1>0 DEF Kept, Types
  <2>11. pc[c] \notin Scanning \cup Filling \cup Emptying /\ "mon_insert" \in Labels
    BY Zenon, <1>0, FromPlain, HoldingLabels DEF Holding
  <2> QED
    BY Zenon, <1>0, <1>2, <2>6, <2>9, <2>10, <2>11, HoldingLabels, Outside
<1> QED
  BY Zenon, <1>1, <1>2 DEF MonRead

\* The loader takes the monitor in.
LEMMA MonInsertInv ==
  ASSUME Inv, NEW c \in Procs, MonInsert(c)
  PROVE  Inv'
<1>0. /\ Types /\ TableInv /\ pc[c] = "mon_insert" /\ CallInv(c)
      /\ UNCHANGED <<boot, memory, disc>>
  BY Zenon, Own DEF MonInsert, Types
<1>1. CASE mon.status # "none" /\ Finish(c) /\ UNCHANGED <<mon, settled>>
  BY Zenon, <1>0, <1>1, FinishInv, HoldingLabels
<1>2. CASE /\ mon.status = "none"
           /\ mon' = [NoMon EXCEPT !.status = "coming", !.syscalls_table_address = arg[c].number]
           /\ arg' = [arg EXCEPT ![c] = NoArgument] /\ settled' = TRUE
           /\ Goto(c, "mon_entries") /\ UNCHANGED <<idx, call, ret>>
  <2> DEFINE t == arg[c].number
  <2>1. t \in {NULL} \cup Scanned /\ (t = NULL => crowded[c])
    BY Zenon, <1>0 DEF CallInv
  <2>2. /\ arg \in [Procs -> [number : Int, right : BOOLEAN]] /\ idx \in [Procs -> Nat]
        /\ call \in [Procs -> CallNames \cup {"freed"}] /\ ret \in [Procs -> Int]
        /\ memory \in [Addresses -> Words]
    BY Zenon, <1>0 DEF Types
  <2>3. /\ arg' \in [Procs -> [number : Int, right : BOOLEAN]]
        /\ \A u \in Procs \ {c} : arg'[u] = arg[u]
    BY Zenon, <1>2, <2>2, Nothing, Update
  <2>4. Locals
    BY Zenon, <1>2, <2>2, <2>3 DEF Locals
  <2>5. /\ mon' \in MonType /\ mon'.status = "coming" /\ mon'.syscalls_table_address = t
        /\ mon'.restore = << >>
    <3>1. NoMon \in MonType /\ NoMon.restore = << >>
      BY SMT DEF NoMon, MonType
    <3> QED
      BY Zenon, <1>2, <2>1, <3>1 DEF MonType
  <2>6. mon.restore = << >> /\ memory = boot.words
    BY Zenon, <1>0, <1>2 DEF TableInv
  <2>7. \A u \in Procs \ {c} : pc[u] \notin Holding
    BY Zenon, <1>2, Own, HoldingLabels DEF InsertInv
  <2>8. \A u \in Procs \ {c} : pc[u] \in Calling => call'[u] = "freed"
    BY Zenon, <1>2, <2>6, Own DEF CallInv
  <2>9. Inside(c, "mon_entries")
    BY Zenon, <1>0, <1>2, <2>3, <2>7, <2>8, HoldingLabels DEF Inside, Scanning
  <2>10. TableInv' /\ StatusInv'
    BY Zenon, <1>0, <2>5, <2>6 DEF TableInv, StatusInv
  <2>11. "mon_entries" \in Labels /\ "mon_entries" \in Busy \ Beginning
    BY Zenon, HoldingLabels DEF Busy, Beginning
  <2>12. pc'[c] = "mon_entries" /\ (t = NULL => crowded'[c])
    BY Zenon, <1>0, <1>2, <2>1, <2>11, GotoType, GotoCrowd
  <2>13. InsertInv(c)'
    BY Zenon, <2>5, <2>12 DEF InsertInv, Filling, Emptying
  <2>14. CallInv(c)'
    BY Zenon, <2>5, <2>12 DEF CallInv, Calling, Changing
  <2>15. settled' \in BOOLEAN /\ memory' \in [Addresses -> Words]
    BY Zenon, <1>0, <1>2, <2>2
  <2> QED
    BY Zenon, <1>0, <1>2, <2>4, <2>5, <2>9, <2>10, <2>11, <2>13, <2>14, <2>15, InsideInv
<1> QED
  BY Zenon, <1>1, <1>2 DEF MonInsert

LEMMA Entries ==
  ASSUME Operators, NEW w, NEW t, get_entries(w, t) # << >>
  PROVE  /\ get_entries(w, t) \in [Turns -> 0 .. TableSize - 1]
         /\ \A m, n \in Turns : w[t + get_entries(w, t)[m]] = w[t + get_entries(w, t)[n]]
         /\ \A m, n \in Turns : m # n => get_entries(w, t)[m] # get_entries(w, t)[n]
<1>1. /\ get_entries(w, t) \in [Turns -> 0 .. TableSize - 1]
      /\ \A m, n \in Turns :
           /\ w[t + get_entries(w, t)[m]] = w[t + get_entries(w, t)[n]]
           /\ m # n => get_entries(w, t)[m] # get_entries(w, t)[n]
  BY SMT DEF Operators
<1> QED
  BY Zenon, <1>1

LEMMA MonEntriesInv ==
  ASSUME Inv, Operators, NEW c \in Procs, MonEntries(c)
  PROVE  Inv'
<1> DEFINE table == mon.syscalls_table_address
           found == get_entries(memory, table)
<1>0. /\ Types /\ TableInv /\ AloneInv /\ InsertInv(c) /\ CallInv(c)
      /\ pc[c] = "mon_entries" /\ UNCHANGED <<boot, memory, disc, settled>>
  BY Zenon, Own DEF MonEntries
<1>1. /\ arg \in [Procs -> [number : Int, right : BOOLEAN]] /\ idx \in [Procs -> Nat]
      /\ call \in [Procs -> CallNames \cup {"freed"}] /\ ret \in [Procs -> Int]
      /\ memory \in [Addresses -> Words] /\ mon \in MonType /\ settled \in BOOLEAN
      /\ table \in {NULL} \cup Scanned
  BY Zenon, <1>0 DEF Types, MonType
<1>2. /\ mon.status = "coming" /\ mon.restore = << >> /\ memory = boot.words
  BY Zenon, <1>0 DEF InsertInv, TableInv
<1>3. \A u \in Procs \ {c} : pc[u] \notin Holding
  BY Zenon, <1>0, HoldingLabels DEF AloneInv
<1>4. \A u \in Procs \ {c} : pc[u] \in Calling => call[u] = "freed"
  BY Zenon, <1>2, Own DEF CallInv
<1>5. CASE table = NULL /\ Die(c) /\ UNCHANGED mon
  <2>1. Kept
    BY Zenon, <1>0, <1>5 DEF Kept, Types
  <2> QED
    BY Zenon, <1>0, <1>5, <2>1, DieInv
<1>6. CASE mon' = NoMon /\ Finish(c)
  <2>1. Others(c) /\ Locals /\ Goto(c, "info") /\ call' = call
    BY Zenon, <1>6, FinishLocals DEF Finish
  <2>2. NoMon \in MonType /\ NoMon.restore = << >> /\ NoMon.status = "none"
    BY SMT DEF NoMon, MonType
  <2>3. "info" \in Labels /\ "info" \in Plain /\ "info" \notin Scanning
    BY Zenon, PlainLabels DEF Plain
  <2>4. Inside(c, "info")
    BY Zenon, <1>0, <1>3, <1>4, <2>1, <2>3, HoldingLabels DEF Inside, Scanning, Others
  <2>5. TableInv' /\ StatusInv'
    BY Zenon, <1>0, <1>2, <1>6, <2>2 DEF TableInv, StatusInv
  <2>6. pc'[c] = "info"
    BY Zenon, <1>0, <2>1, <2>3, GotoType
  <2>7. InsertInv(c)' /\ CallInv(c)'
    BY Zenon, <2>3, <2>6, PlainInv
  <2> QED
    <3>1. mon' \in MonType /\ memory' \in [Addresses -> Words] /\ settled' \in BOOLEAN
      BY Zenon, <1>0, <1>1, <1>6, <2>2
    <3> QED
      BY Zenon, <1>0, <2>1, <2>3, <2>4, <2>5, <2>7, <3>1, InsideInv
<1>7. CASE /\ table # NULL /\ found # << >>
           /\ mon' = [mon EXCEPT !.restore = found, !.the_ni_syscall = memory[table + found[1]]]
           /\ idx' = [idx EXCEPT ![c] = 1] /\ Goto(c, "mon_publish")
           /\ UNCHANGED <<request, client>>
  <2>1. /\ found \in [Turns -> 0 .. TableSize - 1]
        /\ \A m, n \in Turns : memory[table + found[m]] = memory[table + found[n]]
    <3>1. get_entries(memory, table) # << >>
      BY Zenon, <1>7
    <3> HIDE DEF table
    <3>2. found \in [Turns -> 0 .. TableSize - 1]
      BY Zenon, <3>1, Entries
    <3>3. \A m, n \in Turns : memory[table + found[m]] = memory[table + found[n]]
      BY SMT, <3>1, Entries
    <3> QED
      BY Zenon, <3>2, <3>3
  <2>2. 1 \in Turns /\ 1 \in Nat
    BY SMT, TheCalls DEF Turns
  <2>3. memory[table + found[1]] \in Words
    BY Zenon, <1>1, <1>7, <2>1, <2>2, EntryAddress
  <2> HIDE DEF found
  <2>4. /\ mon' \in MonType /\ mon'.status = "coming" /\ mon'.restore = found
        /\ mon'.the_ni_syscall = memory[table + found[1]] /\ mon'.syscalls_table_address = table
    BY Zenon, <1>1, <1>2, <1>7, <2>1, <2>3 DEF MonType
  <2>5. Others(c) /\ Locals /\ idx'[c] = 1 /\ call' = call
    BY Zenon, <1>7, <2>2, IndexLocals DEF request
  <2>6. "mon_publish" \in Labels /\ "mon_publish" \notin Scanning /\ "mon_publish" \in Filling
    BY Zenon, HoldingLabels DEF Scanning, Filling
  <2>7. Inside(c, "mon_publish")
    BY Zenon, <1>0, <1>3, <1>4, <2>5, <2>6, HoldingLabels DEF Inside, Scanning, Others
  <2>8. pc'[c] = "mon_publish"
    BY Zenon, <1>0, <1>7, <2>6, GotoType
  <2>9. TableInv'
    <3>1. \A n \in Turns : Cell(n)' = table + found[n]
      BY Zenon, <2>4 DEF Cell
    <3>2. memory' = boot.words /\ boot' = boot
      BY Zenon, <1>0, <1>2
    <3>3. \A n \in Turns : boot'.words[Cell(n)'] = mon'.the_ni_syscall
      <4> SUFFICES ASSUME NEW n \in Turns PROVE boot'.words[Cell(n)'] = mon'.the_ni_syscall
        OBVIOUS
      <4>1. memory[table + found[n]] = memory[table + found[1]]
        BY Zenon, <2>1, <2>2
      <4>2. Cell(n)' = table + found[n]
        BY Zenon, <3>1
      <4> QED
        BY Zenon, <1>0, <1>2, <2>4, <4>1, <4>2
    <3> QED
      BY Zenon, <1>7, <2>4, <3>2, <3>3 DEF TableInv
  <2>10. StatusInv'
    BY Zenon, <2>4, <2>6, <2>8 DEF StatusInv
  <2>11. InsertInv(c)' /\ CallInv(c)'
    <3>1. InsertInv(c)'
      BY Zenon, <1>0, <1>2, <1>7, <2>2, <2>4, <2>5, <2>6, <2>8 DEF InsertInv, Emptying
    <3> QED
      BY Zenon, <2>8, <3>1 DEF CallInv, Calling, Changing
  <2>12. memory' \in [Addresses -> Words] /\ settled' \in BOOLEAN
    BY Zenon, <1>0, <1>1
  <2> QED
    BY Zenon, <1>0, <1>7, <2>4, <2>5, <2>6, <2>7, <2>9, <2>10, <2>11, <2>12, InsideInv
<1> QED
  BY Zenon, <1>5, <1>6, <1>7 DEF MonEntries

\* A step inside the loader on the variables of the monitor.
SameEntries(m) ==
  /\ m.status \in {mon.status, "live"} /\ mon.status # "none"
  /\ m.restore = mon.restore /\ m.syscalls_table_address = mon.syscalls_table_address
  /\ m.the_ni_syscall = mon.the_ni_syscall

LEMMA MonUpdateInside ==
  ASSUME Inv, NEW c \in Procs, NEW at \in Holding, NEW m \in MonType, NEW after \in Labels \ Scanning,
         MonUpdate(c, at, m, after), UNCHANGED call,
         SameEntries(m)
  PROVE  /\ Types /\ InsertInv(c) /\ Locals /\ Goto(c, after) /\ Inside(c, after)
         /\ UNCHANGED <<boot, memory, disc, settled, idx>> /\ mon' = m
         /\ memory' \in [Addresses -> Words] /\ settled' \in BOOLEAN
         /\ pc[c] = at /\ pc'[c] = after /\ TableInv'
<1>0. /\ Types /\ TableInv /\ AloneInv /\ InsertInv(c) /\ pc[c] = at /\ mon' = m
      /\ Goto(c, after) /\ UNCHANGED <<boot, memory, disc, settled, idx, arg, ret, call>>
      /\ m.status \in {mon.status, "live"} /\ mon.status # "none"
      /\ m.restore = mon.restore /\ m.syscalls_table_address = mon.syscalls_table_address
      /\ m.the_ni_syscall = mon.the_ni_syscall
  BY Zenon, Own DEF MonUpdate, SameEntries
<1>1. Locals
  BY Zenon, <1>0 DEF Locals, Types
<1>2. memory' \in [Addresses -> Words] /\ settled' \in BOOLEAN
  BY Zenon, <1>0 DEF Types
<1>3. pc'[c] = after
  BY Zenon, <1>0, GotoType
<1>4. \A u \in Procs \ {c} : pc[u] \notin Holding
  BY Zenon, <1>0 DEF AloneInv
<1>5. \A u \in Procs \ {c} : pc[u] \in Calling => call'[u] = "freed" \/ mon'.restore # << >>
  <2>1. \A u \in Procs \ {c} : pc[u] \in Calling => call[u] = "freed" \/ mon.restore # << >>
    BY Zenon, Own DEF CallInv
  <2> QED
    BY Zenon, <1>0, <2>1
<1>6. Inside(c, after)
  BY Zenon, <1>0, <1>4, <1>5, HoldingLabels DEF Inside
<1>7. TableInv'
  <2>1. mon'.status # "none"
    BY Zenon, <1>0
  <2>2. \A n \in Turns : Cell(n)' = Cell(n)
    BY Zenon, <1>0 DEF Cell
  <2> QED
    BY Zenon, <1>0, <2>1, <2>2 DEF TableInv
<1> QED
  BY Zenon, <1>0, <1>1, <1>2, <1>3, <1>6, <1>7

LEMMA MonFieldsInv ==
  ASSUME Inv, NEW c \in Procs, MonFields(c)
  PROVE  Inv'
<1>1. mon \in MonType /\ pc[c] = "mon_fields" /\ InsertInv(c)
  BY Zenon, Own DEF MonFields, MonUpdate, Types
<1>2. "mon_fields" \in Holding /\ "mon_fields" \in Filling /\ "mon_password" \in Labels \ Scanning
      /\ "mon_password" \in Filling
  BY Zenon, HoldingLabels DEF Holding, Filling, Scanning
<1>3. mon.status = "coming" /\ mon.restore # << >>
  BY Zenon, <1>1, <1>2 DEF InsertInv
<1> DEFINE m == [mon EXCEPT !.state = RF_OFF, !.list = {}, !.size = 0]
<1>4. m \in MonType /\ m.status = mon.status /\ m.restore = mon.restore /\ SameEntries(m)
  <2>1. RF_OFF \in Int /\ 0 \in Int
    BY SMT DEF RF_OFF
  <2> QED
    BY Zenon, <1>1, <1>3, <2>1 DEF MonType, SameEntries
<1>5. MonUpdate(c, "mon_fields", m, "mon_password") /\ UNCHANGED call
  BY Zenon DEF MonFields
<1> HIDE DEF m
<1>6. /\ Types /\ Locals /\ Goto(c, "mon_password") /\ Inside(c, "mon_password")
      /\ UNCHANGED <<boot, memory, disc, settled, idx>> /\ mon' = m
      /\ memory' \in [Addresses -> Words] /\ settled' \in BOOLEAN
      /\ pc'[c] = "mon_password" /\ TableInv'
  BY Zenon, <1>2, <1>4, <1>5, MonUpdateInside
<1>7. StatusInv'
  BY Zenon, <1>2, <1>3, <1>4, <1>6 DEF StatusInv
<1>8. InsertInv(c)' /\ CallInv(c)'
  <2>1. InsertInv(c)'
    BY Zenon, <1>3, <1>4, <1>6 DEF InsertInv, Emptying
  <2> QED
    BY Zenon, <1>6, <2>1 DEF CallInv, Calling, Changing
<1> QED
  BY Zenon, <1>2, <1>4, <1>6, <1>7, <1>8, InsideInv

LEMMA MonPasswordInv ==
  ASSUME Inv, NEW c \in Procs, MonPassword(c)
  PROVE  Inv'
<1>1. mon \in MonType /\ pc[c] = "mon_password" /\ InsertInv(c)
  BY Zenon, Own DEF MonPassword, MonUpdate, Types
<1>2. "mon_password" \in Holding /\ "mon_password" \in Filling /\ "mon_probes" \in Labels \ Scanning
      /\ "mon_probes" \in Filling
  BY Zenon, HoldingLabels DEF Holding, Filling, Scanning
<1>3. mon.status = "coming" /\ mon.restore # << >>
  BY Zenon, <1>1, <1>2 DEF InsertInv
<1> DEFINE m == Hashed(mon)
<1>4. /\ m \in MonType /\ m.status = mon.status /\ m.restore = mon.restore
      /\ m.password /\ SameEntries(m)
  BY Zenon, <1>1, <1>3 DEF Hashed, MonType, SameEntries
<1>5. MonUpdate(c, "mon_password", m, "mon_probes") /\ UNCHANGED call
  BY Zenon DEF MonPassword
<1> HIDE DEF m
<1>6. /\ Types /\ Locals /\ Goto(c, "mon_probes") /\ Inside(c, "mon_probes")
      /\ UNCHANGED <<boot, memory, disc, settled, idx>> /\ mon' = m
      /\ memory' \in [Addresses -> Words] /\ settled' \in BOOLEAN
      /\ pc'[c] = "mon_probes" /\ TableInv'
  BY Zenon, <1>2, <1>4, <1>5, MonUpdateInside
<1>7. StatusInv'
  BY Zenon, <1>2, <1>3, <1>4, <1>6 DEF StatusInv
<1>8. InsertInv(c)' /\ CallInv(c)'
  <2>1. InsertInv(c)'
    BY Zenon, <1>3, <1>4, <1>6 DEF InsertInv, Emptying
  <2> QED
    BY Zenon, <1>6, <2>1 DEF CallInv, Calling, Changing
<1> QED
  BY Zenon, <1>2, <1>4, <1>6, <1>7, <1>8, InsideInv

LEMMA MonProbesInv ==
  ASSUME Inv, NEW c \in Procs, MonProbes(c)
  PROVE  Inv'
<1>1. mon \in MonType /\ pc[c] = "mon_probes" /\ InsertInv(c)
  BY Zenon, Own DEF MonProbes, MonUpdate, Types
<1>2. "mon_probes" \in Holding /\ "mon_probes" \in Filling /\ "mon_register" \in Labels \ Scanning
      /\ "mon_register" \in Filling
  BY Zenon, HoldingLabels DEF Holding, Filling, Scanning
<1>3. mon.status = "coming" /\ mon.restore # << >> /\ mon.password
  BY Zenon, <1>1, <1>2 DEF InsertInv
<1> DEFINE m == [mon EXCEPT !.probes = "array"]
<1>4. /\ m \in MonType /\ m.status = mon.status /\ m.restore = mon.restore
      /\ m.password /\ m.probes = "array" /\ SameEntries(m)
  BY Zenon, <1>1, <1>3 DEF MonType, SameEntries
<1>5. MonUpdate(c, "mon_probes", m, "mon_register") /\ UNCHANGED call
  BY Zenon DEF MonProbes
<1> HIDE DEF m
<1>6. /\ Types /\ Locals /\ Goto(c, "mon_register") /\ Inside(c, "mon_register")
      /\ UNCHANGED <<boot, memory, disc, settled, idx>> /\ mon' = m
      /\ memory' \in [Addresses -> Words] /\ settled' \in BOOLEAN
      /\ pc'[c] = "mon_register" /\ TableInv'
  BY Zenon, <1>2, <1>4, <1>5, MonUpdateInside
<1>7. StatusInv'
  BY Zenon, <1>2, <1>3, <1>4, <1>6 DEF StatusInv
<1>8. InsertInv(c)' /\ CallInv(c)'
  <2>1. InsertInv(c)'
    BY Zenon, <1>3, <1>4, <1>6 DEF InsertInv, Emptying
  <2> QED
    BY Zenon, <1>6, <2>1 DEF CallInv, Calling, Changing
<1> QED
  BY Zenon, <1>2, <1>4, <1>6, <1>7, <1>8, InsideInv

\* The monitor is live: it has a password and an array of probes.
LEMMA MonRegisterInv ==
  ASSUME Inv, NEW c \in Procs, MonRegister(c)
  PROVE  Inv'
<1>0. PICK r \in {"array", "registered"} :
        MonUpdate(c, "mon_register", [mon EXCEPT !.probes = r, !.status = "live"], "info")
  BY Zenon DEF MonRegister
<1>1. mon \in MonType /\ pc[c] = "mon_register" /\ InsertInv(c) /\ UNCHANGED call
  BY Zenon, <1>0, Own DEF MonRegister, MonUpdate, Types
<1>2. "mon_register" \in Holding /\ "mon_register" \in Filling /\ "info" \in Labels \ Scanning
      /\ "info" \in Plain
  BY Zenon, HoldingLabels, PlainLabels DEF Holding, Filling, Scanning, Plain
<1>3. mon.status = "coming" /\ mon.restore # << >> /\ mon.password
  BY Zenon, <1>1, <1>2 DEF InsertInv
<1> DEFINE m == [mon EXCEPT !.probes = r, !.status = "live"]
<1>4. /\ m \in MonType /\ m.status = "live" /\ m.restore = mon.restore
      /\ m.probes = r /\ m.password = mon.password /\ SameEntries(m)
  BY Zenon, <1>1, <1>3 DEF MonType, SameEntries
<1>5. MonUpdate(c, "mon_register", m, "info") /\ UNCHANGED call
  BY Zenon, <1>0, <1>1
<1> HIDE DEF m
<1>6. /\ Types /\ Locals /\ Goto(c, "info") /\ Inside(c, "info")
      /\ UNCHANGED <<boot, memory, disc, settled, idx>> /\ mon' = m
      /\ memory' \in [Addresses -> Words] /\ settled' \in BOOLEAN
      /\ pc'[c] = "info" /\ TableInv'
  BY ZenonT(30), <1>2, <1>4, <1>5, MonUpdateInside
<1>7. StatusInv'
  BY Zenon, <1>3, <1>4, <1>6 DEF StatusInv
<1>8. InsertInv(c)' /\ CallInv(c)'
  BY Zenon, <1>2, <1>6, PlainInv
<1> QED
  BY Zenon, <1>2, <1>4, <1>6, <1>7, <1>8, InsideInv

\* A store into an entry.
LEMMA StoreInside ==
  ASSUME Inv, NEW c \in Procs, NEW word \in Words, NEW loop \in {"mon_publish", "rm_restore"},
         NEW after \in Labels \ Scanning, Store(c, word, HACKED_ENTRIES, loop, after)
  PROVE  LET label == IF idx[c] = HACKED_ENTRIES THEN after ELSE loop
         IN  /\ label \in Labels /\ Goto(c, label) /\ Inside(c, label) /\ Locals /\ pc'[c] = label
             /\ idx[c] \in Turns /\ idx'[c] = IF idx[c] = HACKED_ENTRIES THEN 0 ELSE idx[c] + 1
             /\ UNCHANGED <<boot, disc, mon, settled>>
             /\ memory' \in [Addresses -> Words] /\ Cell(idx[c]) \in Addresses
             /\ memory'[Cell(idx[c])] = word
             /\ \A a \in Addresses \ {Cell(idx[c])} : memory'[a] = memory[a]
             /\ TableInv'
<1> DEFINE label == IF idx[c] = HACKED_ENTRIES THEN after ELSE loop
           e == Cell(idx[c])
           i == IF idx[c] = HACKED_ENTRIES THEN 0 ELSE idx[c] + 1
<1>0. /\ Types /\ TableInv /\ AloneInv /\ InsertInv(c) /\ pc[c] = loop
      /\ Goto(c, label) /\ UNCHANGED <<boot, disc, mon, settled, arg, ret, call>>
      /\ memory' = [memory EXCEPT ![e] = word]
  BY Zenon, Own DEF Store, request, Cell
<1>1. idx' = [idx EXCEPT ![c] = i]
  BY SMT DEF Store
<1>2. /\ loop \in Labels /\ loop \in Holding /\ loop \in Inserting /\ loop \notin Scanning
      /\ loop \in Filling \cup Emptying
  BY Zenon, HoldingLabels DEF Holding, Filling, Emptying, Scanning
<1>3. idx[c] \in Turns /\ mon.restore # << >> /\ mon.status # "none"
  BY Zenon, <1>0, <1>2, Own DEF InsertInv, StatusInv
<1>4. i \in Nat
  BY SMT, <1>3, TheCalls DEF Turns
<1>5. /\ idx \in [Procs -> Nat] /\ memory \in [Addresses -> Words]
      /\ mon.syscalls_table_address \in {NULL} \cup Scanned
      /\ mon.restore \in [Turns -> 0 .. TableSize - 1]
  BY Zenon, <1>0, <1>3 DEF Types, MonType
<1>6. e \in Addresses
  BY Zenon, <1>0, <1>3, <1>5, EntryAddress DEF Cell, TableInv
<1> HIDE DEF e, i
<1>7. idx' \in [Procs -> Nat] /\ idx'[c] = i /\ \A u \in Procs \ {c} : idx'[u] = idx[u]
  BY Zenon, <1>1, <1>4, <1>5, Update
<1>8. /\ memory' \in [Addresses -> Words] /\ memory'[e] = word
      /\ \A a \in Addresses \ {e} : memory'[a] = memory[a]
  BY Zenon, <1>0, <1>5, <1>6, Update
<1>9. Locals
  BY Zenon, <1>0, <1>7 DEF Locals, Types
<1>10. label \in Labels /\ label \notin Scanning /\ pc'[c] = label
  <2>1. label \in Labels /\ label \notin Scanning
    BY Zenon, <1>2
  <2> QED
    BY Zenon, <1>0, <2>1, GotoType
<1> HIDE DEF label
<1>11. \A u \in Procs \ {c} : pc[u] \notin Holding
  BY Zenon, <1>0, <1>2 DEF AloneInv
<1>12. \A u \in Procs \ {c} : pc[u] \in Calling => call'[u] = "freed" \/ mon'.restore # << >>
  BY Zenon, <1>0, <1>3
<1>13. Inside(c, label)
  BY Zenon, <1>0, <1>2, <1>7, <1>10, <1>11, <1>12 DEF Inside
<1>14. TableInv'
  <2>1. \A n \in Turns : Cell(n)' = Cell(n)
    BY Zenon, <1>0 DEF Cell
  <2>2. ASSUME NEW a \in Addresses, memory'[a] # boot.words[a] PROVE \E n \in Turns : a = Cell(n)
    BY Zenon, <1>0, <1>3, <1>8, <2>2 DEF TableInv, e
  <2> QED
    BY Zenon, <1>0, <1>3, <2>1, <2>2 DEF TableInv
<1> QED
  BY Zenon, <1>0, <1>3, <1>6, <1>7, <1>8, <1>9, <1>10, <1>13, <1>14 DEF label, e, i

LEMMA MonPublishInv ==
  ASSUME Inv, NEW c \in Procs, MonPublish(c)
  PROVE  Inv'
<1> DEFINE label == IF idx[c] = HACKED_ENTRIES THEN "mon_fields" ELSE "mon_publish"
<1>0. Store(c, Calls[idx[c]], HACKED_ENTRIES, "mon_publish", "mon_fields")
  BY Zenon DEF MonPublish
<1>1. pc[c] = "mon_publish" /\ InsertInv(c) /\ mon \in MonType
  BY Zenon, <1>0, Own DEF Store, Types
<1>2. "mon_fields" \in Labels \ Scanning /\ {"mon_publish", "mon_fields"} \subseteq Filling
  BY Zenon, HoldingLabels DEF Filling, Scanning
<1>3. idx[c] \in Turns /\ mon.status = "coming" /\ mon.restore # << >>
  BY Zenon, <1>1, <1>2 DEF InsertInv
<1>4. Calls[idx[c]] \in Words
  BY Zenon, <1>3, TheCalls DEF Words
<1>5. /\ label \in Labels /\ Goto(c, label) /\ Inside(c, label) /\ Locals /\ pc'[c] = label
      /\ idx'[c] = IF idx[c] = HACKED_ENTRIES THEN 0 ELSE idx[c] + 1
      /\ UNCHANGED <<boot, disc, mon, settled>> /\ memory' \in [Addresses -> Words] /\ TableInv'
  BY Zenon, <1>0, <1>2, <1>4, StoreInside
<1>6. label \in Filling /\ (label = "mon_publish" => idx'[c] \in Turns)
  <2>1. idx[c] # HACKED_ENTRIES => idx[c] + 1 \in Turns
    BY SMT, <1>3, TheCalls DEF Turns
  <2> QED
    BY Zenon, <1>2, <1>5, <2>1
<1>7. label \in {"mon_publish", "mon_fields"}
  BY Zenon
<1> HIDE DEF label
<1>8. StatusInv'
  BY Zenon, <1>3, <1>5, <1>6 DEF StatusInv
<1>9. InsertInv(c)' /\ CallInv(c)'
  <2>1. pc'[c] \in {"mon_publish", "mon_fields"} /\ (pc'[c] = "mon_publish" => idx'[c] \in Turns)
    BY Zenon, <1>5, <1>6, <1>7
  <2>2. InsertInv(c)'
    BY Zenon, <1>3, <1>5, <2>1 DEF InsertInv, Emptying
  <2> QED
    BY Zenon, <2>1, <2>2 DEF CallInv, Calling, Changing
<1>10. mon' \in MonType /\ settled' \in BOOLEAN /\ UNCHANGED <<boot, disc>>
  BY Zenon, <1>1, <1>5, Own DEF Types
<1> QED
  BY Zenon, <1>5, <1>8, <1>9, <1>10, InsideInv

\* The removal: from rm_restore on nothing is stored but what was there.
LEMMA MonRemoveInv ==
  ASSUME Inv, NEW c \in Procs, MonRemove(c)
  PROVE  Inv'
<1>0. /\ Types /\ TableInv /\ StatusInv /\ pc[c] = "mon_remove" /\ UNCHANGED <<boot, memory, disc, settled>>
      /\ memory \in [Addresses -> Words] /\ settled \in BOOLEAN /\ mon \in MonType
  BY Zenon, Own DEF MonRemove, Types
<1>1. pc[c] \notin Scanning \cup Holding
  BY Zenon, <1>0 DEF Scanning, Holding, Filling, Emptying
<1>2. CASE mon.status # "live" /\ Finish(c) /\ UNCHANGED mon
  BY Zenon, <1>0, <1>1, <1>2, FinishInv
<1>3. CASE /\ mon.status = "live" /\ mon' = [mon EXCEPT !.status = "going"]
           /\ idx' = [idx EXCEPT ![c] = 1] /\ Goto(c, "rm_restore") /\ UNCHANGED request
  <2>1. "rm_restore" \in Labels \ Scanning /\ "rm_restore" \in Inserting /\ "rm_restore" \in Emptying
    BY Zenon, HoldingLabels DEF Emptying, Scanning
  <2>2. /\ mon' \in MonType /\ mon'.status = "going" /\ mon'.restore = mon.restore
        /\ mon'.syscalls_table_address = mon.syscalls_table_address
        /\ mon'.the_ni_syscall = mon.the_ni_syscall
    BY Zenon, <1>0, <1>3 DEF MonType
  <2>3. mon.restore # << >>
    BY Zenon, <1>0, <1>3 DEF StatusInv
  <2>4. Others(c) /\ Locals /\ idx'[c] = 1 /\ call' = call
    BY Zenon, <1>3, IndexLocals DEF request
  <2>5. 1 \in Turns /\ 1 .. HACKED_ENTRIES = Turns
    BY SMT, TheCalls DEF Turns
  <2>6. \A u \in Procs \ {c} : pc[u] \notin Holding
    BY Zenon, <1>3, Own DEF InsertInv, Holding
  <2>7. Inside(c, "rm_restore")
    BY Zenon, <1>0, <1>1, <2>1, <2>2, <2>3, <2>4, <2>6 DEF Inside, Others
  <2>8. pc'[c] = "rm_restore"
    BY Zenon, <1>0, <1>3, <2>1, GotoType
  <2>9. \A n \in Turns : Cell(n)' = Cell(n)
    BY Zenon, <2>2 DEF Cell
  <2>10. TableInv'
    BY Zenon, <1>0, <2>2, <2>3, <2>9 DEF TableInv
  <2>11. StatusInv'
    BY Zenon, <2>1, <2>2, <2>3, <2>8 DEF StatusInv
  <2>12. InsertInv(c)' /\ CallInv(c)'
    <3>1. InsertInv(c)'
      BY Zenon, <1>0, <2>2, <2>3, <2>4, <2>5, <2>8, <2>10 DEF InsertInv, Filling, TableInv
    <3> QED
      BY Zenon, <2>8, <3>1 DEF CallInv, Calling, Changing
  <2> QED
    BY Zenon, <1>0, <1>3, <2>1, <2>2, <2>4, <2>7, <2>10, <2>11, <2>12, InsideInv
<1> QED
  BY Zenon, <1>2, <1>3 DEF MonRemove

LEMMA RestoreInv ==
  ASSUME Inv, NEW c \in Procs, Restore(c)
  PROVE  Inv'
<1> DEFINE label == IF idx[c] = HACKED_ENTRIES THEN "rm_probes" ELSE "rm_restore"
           word == mon.the_ni_syscall
<1>0. Store(c, word, HACKED_ENTRIES, "rm_restore", "rm_probes")
  BY Zenon DEF Restore
<1>1. pc[c] = "rm_restore" /\ InsertInv(c) /\ mon \in MonType /\ boot \in Images /\ TableInv /\ StatusInv
  BY Zenon, <1>0, Own DEF Store, Types
<1>2. "rm_probes" \in Labels \ Scanning /\ {"rm_restore", "rm_probes"} \subseteq Emptying
  BY Zenon, HoldingLabels DEF Emptying, Scanning
<1>3. /\ idx[c] \in Turns /\ mon.status = "going" /\ mon.restore # << >>
      /\ \A a \in Addresses :
           memory[a] # boot.words[a] => \E n \in idx[c] .. HACKED_ENTRIES : a = Cell(n)
  BY Zenon, <1>1, <1>2 DEF InsertInv, StatusInv
<1>4. boot.words[Cell(idx[c])] = word
  BY Zenon, <1>1, <1>3 DEF TableInv
<1>5. boot.words \in [Addresses -> Words]
  BY Zenon, <1>1, ImagesAssumption
<1>6. word \in Words
  <2>1. /\ mon.syscalls_table_address \in {NULL} \cup Scanned /\ mon.syscalls_table_address # NULL
        /\ mon.restore[idx[c]] \in 0 .. TableSize - 1
    BY Zenon, <1>1, <1>3 DEF MonType, TableInv
  <2>2. Cell(idx[c]) \in Addresses
    BY Zenon, <2>1, EntryAddress DEF Cell
  <2> QED
    BY Zenon, <1>4, <1>5, <2>2
<1> HIDE DEF word
<1>7. /\ label \in Labels /\ Goto(c, label) /\ Inside(c, label) /\ Locals /\ pc'[c] = label
      /\ idx'[c] = IF idx[c] = HACKED_ENTRIES THEN 0 ELSE idx[c] + 1
      /\ UNCHANGED <<boot, disc, mon, settled>> /\ memory' \in [Addresses -> Words] /\ TableInv'
      /\ memory'[Cell(idx[c])] = word
      /\ \A a \in Addresses \ {Cell(idx[c])} : memory'[a] = memory[a]
  BY ZenonT(30), <1>0, <1>2, <1>6, StoreInside
<1>8. ASSUME NEW a \in Addresses, memory'[a] # boot.words[a]
      PROVE  \E n \in idx[c] + 1 .. HACKED_ENTRIES : a = Cell(n)
  <2>1. a # Cell(idx[c])
    BY Zenon, <1>4, <1>7, <1>8
  <2>2. PICK n \in idx[c] .. HACKED_ENTRIES : a = Cell(n)
    BY Zenon, <1>3, <1>7, <1>8, <2>1
  <2>3. n # idx[c]
    BY Zenon, <2>1, <2>2
  <2>4. n \in idx[c] + 1 .. HACKED_ENTRIES
    BY SMT, <1>3, <2>2, <2>3, TheCalls DEF Turns
  <2> QED
    BY Zenon, <2>2, <2>4
<1>9. idx[c] # HACKED_ENTRIES => idx[c] + 1 \in Turns
  BY SMT, <1>3, TheCalls DEF Turns
<1>10. idx[c] = HACKED_ENTRIES => memory' = boot.words
  <2> SUFFICES ASSUME idx[c] = HACKED_ENTRIES PROVE memory' = boot.words
    OBVIOUS
  <2>1. HACKED_ENTRIES + 1 .. HACKED_ENTRIES = {}
    BY SMT, TheCalls
  <2>2. \A a \in Addresses : memory'[a] = boot.words[a]
    BY Zenon, <1>8, <2>1
  <2>3. memory' \in [Addresses -> Words] /\ boot.words \in [Addresses -> Words]
    BY Zenon, <1>5, <1>7
  <2> QED
    BY SMT, <2>2, <2>3
<1>11. /\ pc'[c] \in {"rm_restore", "rm_probes"}
       /\ pc'[c] = "rm_restore" => idx[c] # HACKED_ENTRIES /\ idx'[c] = idx[c] + 1
       /\ pc'[c] = "rm_probes" => idx[c] = HACKED_ENTRIES
  BY Zenon, <1>7
<1> HIDE DEF label
<1>12. StatusInv'
  BY Zenon, <1>2, <1>3, <1>7, <1>11 DEF StatusInv
<1>13. InsertInv(c)' /\ CallInv(c)'
  <2>1. \A n \in Turns : Cell(n)' = Cell(n)
    BY Zenon, <1>7 DEF Cell
  <2>2. ASSUME pc'[c] = "rm_restore"
        PROVE  /\ idx'[c] \in Turns
               /\ \A a \in Addresses :
                    memory'[a] # boot'.words[a] => \E n \in idx'[c] .. HACKED_ENTRIES : a = Cell(n)'
    <3>1. idx'[c] = idx[c] + 1 /\ idx'[c] \in Turns
      BY Zenon, <1>9, <1>11, <2>2
    <3>2. idx[c] + 1 .. HACKED_ENTRIES \subseteq Turns
      BY SMT, <1>3, TheCalls DEF Turns
    <3> QED
      BY Zenon, <1>7, <1>8, <2>1, <3>1, <3>2
  <2>3. pc'[c] = "rm_probes" => memory' = boot'.words
    BY Zenon, <1>7, <1>10, <1>11
  <2>4. mon'.status = "going"
    BY Zenon, <1>3, <1>7
  <2>5. InsertInv(c)'
    BY Zenon, <1>11, <2>2, <2>3, <2>4 DEF InsertInv, Filling
  <2> QED
    BY Zenon, <1>11, <2>5 DEF CallInv, Calling, Changing
<1>14. mon' \in MonType /\ settled' \in BOOLEAN /\ UNCHANGED <<boot, disc>>
  BY Zenon, <1>1, <1>7, Own DEF Types
<1> QED
  BY Zenon, <1>7, <1>12, <1>13, <1>14, InsideInv

\* The module is freed, and with it the code of the calls that are inside.
LEMMA CleanProbesInv ==
  ASSUME Inv, NEW c \in Procs, CleanProbes(c)
  PROVE  Inv'
<1>0. /\ Types /\ AloneInv /\ InsertInv(c) /\ pc[c] = "rm_probes" /\ mon' = NoMon /\ Goto(c, "info")
      /\ UNCHANGED <<boot, memory, disc, settled, idx, arg, ret>>
      /\ call' = [p \in Procs |-> IF pc[p] \in Calling THEN "freed" ELSE call[p]]
  BY Zenon, Own DEF CleanProbes, MonUpdate
<1>1. /\ idx \in [Procs -> Nat] /\ call \in [Procs -> CallNames \cup {"freed"}]
      /\ arg \in [Procs -> [number : Int, right : BOOLEAN]] /\ ret \in [Procs -> Int]
      /\ memory \in [Addresses -> Words] /\ settled \in BOOLEAN
  BY Zenon, <1>0 DEF Types
<1>2. "info" \in Labels /\ "info" \in Plain /\ "info" \notin Scanning
  BY Zenon, PlainLabels DEF Plain
<1>3. /\ pc[c] \in Inserting /\ pc[c] \in Holding /\ pc[c] \notin Scanning
  BY Zenon, <1>0, HoldingLabels DEF Holding, Emptying, Scanning
<1>4. call' \in [Procs -> CallNames \cup {"freed"}] /\ \A u \in Procs : pc[u] \in Calling => call'[u] = "freed"
  BY Zenon, <1>0, <1>1
<1>5. Locals
  BY Zenon, <1>0, <1>1, <1>4 DEF Locals
<1>6. memory' = boot'.words
  BY Zenon, <1>0 DEF InsertInv
<1>7. NoMon \in MonType /\ NoMon.restore = << >> /\ NoMon.status = "none"
  BY SMT DEF NoMon, MonType
<1>8. \A u \in Procs \ {c} : pc[u] \notin Holding
  BY Zenon, <1>0, <1>3 DEF AloneInv
<1>9. Inside(c, "info")
  BY Zenon, <1>0, <1>2, <1>3, <1>4, <1>8 DEF Inside
<1>10. TableInv' /\ StatusInv'
  BY Zenon, <1>0, <1>6, <1>7 DEF TableInv, StatusInv
<1>11. pc'[c] = "info"
  BY Zenon, <1>0, <1>2, GotoType
<1>12. InsertInv(c)' /\ CallInv(c)'
  BY Zenon, <1>2, <1>11, PlainInv
<1>13. mon' \in MonType /\ memory' \in [Addresses -> Words] /\ settled' \in BOOLEAN
  BY Zenon, <1>0, <1>1, <1>7
<1> QED
  BY Zenon, <1>0, <1>2, <1>5, <1>9, <1>10, <1>12, <1>13, InsideInv

LEMMA MonStepInv ==
  ASSUME Inv, Operators, NEW c \in Procs, MonStep(c)
  PROVE  Inv'
BY Zenon, MonReadInv, MonInsertInv, MonEntriesInv, MonPublishInv, MonFieldsInv, MonPasswordInv,
   MonProbesInv, MonRegisterInv, MonRemoveInv, RestoreInv, CleanProbesInv
   DEF MonStep

LEMMA NextInv ==
  ASSUME Inv, Operators, [Next]_vars
  PROVE  Inv'
<1>1. CASE Next
  <2>1. PICK c \in Procs : UserStep(c) \/ KernelStep(c)
    BY Zenon, <1>1 DEF Next
  <2>2. CASE UserStep(c)
    BY Zenon, <2>2, PageInv, MenuInv, AskInv DEF UserStep
  <2>3. CASE DiscStep(c)
    BY Zenon, <2>3, DiscInsertInv, DiscScanInv, DiscFinishInv DEF DiscStep
  <2>4. CASE FsStep(c) \/ MonStep(c) \/ CallStep(c)
    BY Zenon, <2>4, FsInv, MonStepInv, CallStepInv
  <2> QED
    BY Zenon, <2>1, <2>2, <2>3, <2>4 DEF KernelStep
<1>2. CASE UNCHANGED vars
  <2>1. UNCHANGED <<boot, memory, disc, mon, call, arg, ret, pc, idx, settled, crowded>>
    BY Zenon, <1>2 DEF vars, request, client
  <2>2. Types' /\ DiscInv' /\ TableInv' /\ StatusInv' /\ AloneInv'
    BY Zenon, <2>1 DEF Inv, Types, DiscInv, TableInv, StatusInv, AloneInv, Cell
  <2>3. ASSUME NEW c \in Procs PROVE InsertInv(c)' /\ CallInv(c)'
    <3>1. InsertInv(c) /\ CallInv(c)
      BY Zenon, Own
    <3>2. InsertInv(c)'
      BY Zenon, <2>1, <3>1 DEF InsertInv, Cell
    <3>3. CallInv(c)'
      BY Zenon, <2>1, <3>1 DEF CallInv
    <3> QED
      BY Zenon, <3>2, <3>3
  <2> QED
    BY Zenon, <2>2, <2>3 DEF Inv
<1> QED
  BY Zenon, <1>1, <1>2

LEMMA InitInv ==
  ASSUME Init
  PROVE  Inv
<1>0. /\ boot \in Images /\ memory = boot.words /\ disc = NoDisc /\ mon = NoMon
      /\ idx = [c \in Procs |-> 0] /\ call = [c \in Procs |-> "get"]
      /\ arg = [c \in Procs |-> NoArgument] /\ ret = [c \in Procs |-> 0]
      /\ settled = FALSE /\ crowded = [c \in Procs |-> FALSE] /\ pc = [c \in Procs |-> "info"]
  BY Zenon DEF Init, KernelInit
<1>1. /\ NoMon \in MonType /\ NoMon.restore = << >> /\ NoMon.status = "none"
      /\ NoDisc \in DiscType /\ NoDisc.status = "none"
  BY SMT DEF NoMon, MonType, NoDisc, DiscType
<1>2. boot.words \in [Addresses -> Words]
  BY Zenon, <1>0, ImagesAssumption
<1>3. "info" \in Labels /\ "info" \in Plain /\ "get" \in CallNames
  BY Zenon, PlainLabels, TheCalls DEF Plain
<1>4. Types
  <2>1. /\ 0 \in Nat /\ 0 \in Int /\ NoArgument \in [number : Int, right : BOOLEAN]
    BY SMT, Nothing
  <2>2. /\ idx \in [Procs -> Nat] /\ call \in [Procs -> CallNames \cup {"freed"}]
        /\ arg \in [Procs -> [number : Int, right : BOOLEAN]] /\ ret \in [Procs -> Int]
    BY Zenon, <1>0, <1>3, <2>1
  <2>3. pc \in [Procs -> Labels] /\ crowded \in [Procs -> BOOLEAN] /\ settled \in BOOLEAN
    BY Zenon, <1>0, <1>3
  <2> QED
    BY Zenon, <1>0, <1>1, <1>2, <2>2, <2>3 DEF Types
<1>5. \A c \in Procs : pc[c] = "info" /\ pc[c] \notin Scanning \cup Holding
  BY Zenon, <1>0 DEF Scanning, Holding, Filling, Emptying
<1>6. DiscInv /\ TableInv /\ StatusInv
  BY Zenon, <1>0, <1>1, <1>5 DEF DiscInv, TableInv, StatusInv, Scanning
<1>7. AloneInv
  BY Zenon, <1>5 DEF AloneInv, Inserting, Changing, Disturbing
<1>8. \A c \in Procs : InsertInv(c) /\ CallInv(c)
  BY Zenon, <1>5 DEF InsertInv, CallInv, Calling, Changing, Filling, Emptying
<1> QED
  BY Zenon, <1>4, <1>6, <1>7, <1>8 DEF Inv
================================================================================
