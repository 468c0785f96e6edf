----------------------------- MODULE ClientPlaces ------------------------------
(*****************************************************************************)
(* Client: where the discoverer and the monitor find the table, what they    *)
(* store in it, and what the variables may hold.                             *)
(*****************************************************************************)
EXTENDS ClientProofs

(*****************************************************************************)
(* Where the calls are: the second invariant                                 *)
(*****************************************************************************)
Entry(k) == boot.table + Number[k]
Header   == [n \in Turns |-> Number[Calls[n]]]
Distinct == \A k, l \in CallNames : Number[k] = Number[l] => k = l

\* What has been found is the table of the kernel and the entries of client.h, and
\* the free entries were free at boot.
Located ==
  /\ disc.sys_call_table_address \in {NULL, boot.table}
  /\ mon.syscalls_table_address \in {NULL, boot.table}
  /\ mon.restore # << >> => mon.restore = Header /\ Distinct
  /\ \A i \in disc.free_entries :
       boot.words[boot.table + i] = boot.words[boot.table + FIRST_NI_SYSCALL]

\* A word that is not the kernel's is a call, at its own number; a live monitor has
\* all of them there.
Stored ==
  /\ \A a \in Addresses :
       memory[a] = boot.words[a] \/ \E k \in CallNames : memory[a] = k /\ a = Entry(k)
  /\ mon.status = "live" => \A k \in CallNames : memory[Entry(k)] = k

\* The word that the discoverer has saved is what the kernel had in the first of the
\* entries it compares, or the call that is there.
Saved ==
  \/ disc.hacked_ni_syscall = boot.words[boot.table + FIRST_NI_SYSCALL]
  \/ \E k \in CallNames : disc.hacked_ni_syscall = k /\ Number[k] = FIRST_NI_SYSCALL

\* The insertions: what they have saved, what they were given, and how far they are.
FillInv(c) ==
  /\ pc[c] = "disc_free" => Saved
  /\ pc[c] = "mon_insert" => arg[c].number \in {NULL, boot.table}
  /\ pc[c] = "mon_publish" => \A n \in 1 .. idx[c] - 1 : memory[Entry(Calls[n])] = Calls[n]
  /\ pc[c] \in Filling \ {"mon_publish"} => \A k \in CallNames : memory[Entry(k)] = k

PlaceInv == Located /\ Stored /\ \A c \in Procs : FillInv(c)

\* A step that leaves the table, and where it is, alone, and after which its process
\* is outside the insertion of the monitor.
Quiet(c) ==
  /\ UNCHANGED <<boot, memory, disc>> /\ Others(c)
  /\ mon'.status = mon.status /\ mon'.restore = mon.restore
  /\ mon'.syscalls_table_address = mon.syscalls_table_address
  /\ \E label \in Plain \cup Calling : Goto(c, label)

LEMMA Elsewhere ==
  ASSUME NEW T, NEW f \in [Procs -> T], NEW c \in Procs, NEW v
  PROVE  \A u \in Procs \ {c} : [f EXCEPT ![c] = v][u] = f[u]
OBVIOUS

LEMMA StepOthers ==
  ASSUME Inv, NEW c \in Procs,
         idx' = idx \/ \E v : idx' = [idx EXCEPT ![c] = v],
         call' = call \/ \E v : call' = [call EXCEPT ![c] = v],
         arg' = arg \/ \E v : arg' = [arg EXCEPT ![c] = v]
  PROVE  Others(c)
<1>1. /\ idx \in [Procs -> Nat] /\ call \in [Procs -> CallNames \cup {"freed"}]
      /\ arg \in [Procs -> [number : Int, right : BOOLEAN]]
  BY Zenon, Own DEF Types
<1>2. \A u \in Procs \ {c} : idx'[u] = idx[u]
  BY Zenon, <1>1, Elsewhere
<1>3. \A u \in Procs \ {c} : call'[u] = call[u]
  BY Zenon, <1>1, Elsewhere
<1>4. \A u \in Procs \ {c} : arg'[u] = arg[u]
  BY Zenon, <1>1, Elsewhere
<1> QED
  BY Zenon, <1>2, <1>3, <1>4 DEF Others

LEMMA SysCallQuiet ==
  ASSUME Inv, NEW c \in Procs, NEW k, NEW a, SysCall(c, k, a)
  PROVE  Quiet(c)
<1>1. Others(c)
  BY Zenon, StepOthers DEF SysCall
<1>2. \E label \in Plain \cup Calling : Goto(c, label)
  BY Zenon, PlainLabels DEF SysCall, Calling
<1> QED
  BY Zenon, <1>1, <1>2 DEF Quiet, SysCall

LEMMA UserQuiet ==
  ASSUME Inv, NEW c \in Procs, UserStep(c)
  PROVE  Quiet(c)
<1>1. CASE get_function_number(c) \/ Choose(c) \/ print_blacklist(c)
  <2>1. \E k, a, why : Ask(c, k, a, why)
    BY Zenon, <1>1 DEF get_function_number, Choose, print_blacklist
  <2> QED
    BY Zenon, <2>1, SysCallQuiet DEF Ask
<1>2. CASE display_module_info(c) \/ Command(c)
  <2>1. UNCHANGED <<boot, memory, disc, mon, idx, call, arg>>
    BY Zenon, <1>2 DEF display_module_info, Command, request
  <2>2. \E label \in Plain : Goto(c, label)
    BY Zenon, <1>2, PlainLabels DEF display_module_info, Command
  <2> QED
    BY Zenon, <2>1, <2>2, StepOthers DEF Quiet
<1>3. CASE Menu(c) \/ Refuse(c) \/ Leave(c) \/ change_state(c) \/ Report(c)
  <2>1. UNCHANGED <<boot, memory, disc, mon, idx, call, arg>>
    BY Zenon, <1>3 DEF Menu, Refuse, Leave, change_state, Report, Quit, Used, request
  <2>2. \E label \in Plain : Goto(c, label)
    BY Zenon, <1>3, PlainLabels DEF Menu, Refuse, Leave, change_state, Report, Quit
  <2> QED
    BY Zenon, <2>1, <2>2, StepOthers DEF Quiet
<1> QED
  BY Zenon, <1>1, <1>2, <1>3 DEF UserStep

LEMMA FinishOthers ==
  ASSUME Inv, NEW c \in Procs, Finish(c) \/ Die(c)
  PROVE  Others(c) /\ \E label \in Plain \cup Calling : Goto(c, label)
<1>1. Others(c)
  BY Zenon, StepOthers DEF Finish, Die
<1> QED
  BY Zenon, <1>1, PlainLabels DEF Finish, Die

LEMMA FsQuiet ==
  ASSUME Inv, NEW c \in Procs, FsStep(c)
  PROVE  Quiet(c)
<1>1. UNCHANGED <<boot, memory, disc, mon>>
  BY Zenon DEF FsStep, FsInsert, FsMount, FsRemove
<1>2. Finish(c) \/ (Goto(c, "fs_mount") /\ UNCHANGED <<idx, call, arg>>)
  BY Zenon DEF FsStep, FsInsert, FsMount, FsRemove, request
<1>3. CASE Goto(c, "fs_mount") /\ UNCHANGED <<idx, call, arg>>
  BY Zenon, <1>1, <1>3, PlainLabels, StepOthers DEF Quiet
<1> QED
  BY Zenon, <1>1, <1>2, <1>3, FinishOthers DEF Quiet

LEMMA AnswerQuiet ==
  ASSUME Inv, NEW c \in Procs, NEW m, NEW v, Answer(c, m, v), Reached(m)
  PROVE  Quiet(c)
<1>1. Others(c)
  BY Zenon, StepOthers DEF Answer
<1> QED
  BY Zenon, <1>1, PlainLabels DEF Quiet, Answer, Reached

LEMMA ProceedQuiet ==
  ASSUME Inv, NEW c \in Procs, NEW m, NEW i, NEW label \in Calling, Proceed(c, m, i, label),
         Reached(m)
  PROVE  Quiet(c)
<1>1. Others(c)
  BY Zenon, StepOthers DEF Proceed, request
<1>2. \E l \in Plain \cup Calling : Goto(c, l)
  BY Zenon DEF Proceed
<1> QED
  BY Zenon, <1>1, <1>2 DEF Quiet, Proceed, Reached

\* The probe that a switch turns on or off.
LEMMA ProbeIndex ==
  ASSUME Inv, NEW c \in Procs, pc[c] = "sw_probe", idx[c] <= LastProbe
  PROVE  idx[c] \in Probes /\ idx[c] + 1 \in Nat /\ idx[c] + 1 <= NUM_KRETPROBES + 1
<1>1. idx[c] # 0 /\ idx[c] \in Nat
  BY Zenon, Own DEF CallInv
<1> QED
  BY SMT, <1>1, MemoryAssumption DEF Probes, LastProbe

LEMMA CallQuiet ==
  ASSUME Inv, NEW c \in Procs, CallStep(c)
  PROVE  Quiet(c)
<1>1. /\ {"sw_store", "sw_probe", "add_link", "rem_unlink", "prt_size", "add_count", "rem_count"}
           \subseteq Calling
      /\ Reached(mon)
  BY Zenon, CallTypes DEF Calling, Changing
<1>2. CASE CallDies(c)
  BY Zenon, <1>1, <1>2, FinishOthers DEF Quiet, CallDies
<1>3. CASE OnlyAnswers(c)
  BY Zenon, <1>1, <1>3, AnswerQuiet DEF OnlyAnswers
<1>4. CASE OnlyProceeds(c)
  BY Zenon, <1>1, <1>4, ProceedQuiet DEF OnlyProceeds
<1>5. CASE Stores(c)
  BY Zenon, <1>1, <1>5, CallTypes, ProceedQuiet DEF Stores
<1>6. CASE TurnsProbe(c)
  BY Zenon, <1>1, <1>6, CallTypes, ProbeIndex, ProceedQuiet DEF TurnsProbe
<1>7. CASE Links(c)
  BY Zenon, <1>1, <1>7, CallTypes, ProceedQuiet DEF Links
<1>8. CASE Counts(c)
  BY Zenon, <1>1, <1>8, CallTypes, AnswerQuiet DEF Counts
<1> QED
  BY Zenon, <1>2, <1>3, <1>4, <1>5, <1>6, <1>7, <1>8, Outcomes

\* The others, when the table does not change, and when they are outside the loader.
Undisturbed(c) ==
  /\ boot' = boot /\ \A u \in Procs \ {c} : idx'[u] = idx[u] /\ arg'[u] = arg[u]
  /\ memory' = memory \/ \A u \in Procs \ {c} : pc[u] \notin Holding
  /\ \/ disc'.hacked_ni_syscall = disc.hacked_ni_syscall
     \/ \A u \in Procs \ {c} : pc[u] \notin Scanning

LEMMA FillBeside ==
  ASSUME Inv, PlaceInv, NEW c \in Procs, NEW label \in Labels, Goto(c, label), Undisturbed(c),
         NEW u \in Procs \ {c}
  PROVE  FillInv(u)'
<1>1. pc'[u] = pc[u] /\ idx'[u] = idx[u] /\ arg'[u] = arg[u] /\ FillInv(u)
  BY Zenon, Own, GotoType DEF PlaceInv, Undisturbed
<1>2. boot' = boot /\ (pc[u] \in Filling => memory' = memory)
  BY Zenon DEF Holding, Undisturbed
<1>3. \A k : Entry(k)' = Entry(k)
  BY Zenon, <1>2 DEF Entry
<1>4. pc[u] = "disc_free" => disc'.hacked_ni_syscall = disc.hacked_ni_syscall
  BY Zenon DEF Scanning, Undisturbed
<1>5. pc[u] = "disc_free" => Saved'
  BY Zenon, <1>1, <1>2, <1>4 DEF FillInv, Saved
<1> QED
  BY Zenon, <1>1, <1>2, <1>3, <1>5 DEF FillInv, Filling

LEMMA QuietPlace ==
  ASSUME Inv, PlaceInv, NEW c \in Procs, Quiet(c)
  PROVE  PlaceInv'
<1>1. PICK label \in Plain \cup Calling : Goto(c, label)
  BY Zenon DEF Quiet
<1>2. label \in Labels /\ label \notin Filling /\ label \notin {"mon_insert", "disc_free"}
  BY Zenon, FromPlain DEF Plain, Labels, Calling, Changing, Holding, Scanning
<1>3. pc'[c] = label
  BY Zenon, <1>1, <1>2, Own, GotoType
<1>4. Located' /\ Stored'
  BY Zenon DEF Quiet, PlaceInv, Located, Stored, Entry
<1>5. FillInv(c)'
  BY Zenon, <1>2, <1>3 DEF FillInv, Filling
<1>6. \A u \in Procs \ {c} : FillInv(u)'
  BY Zenon, <1>1, <1>2, FillBeside DEF Quiet, Others, Undisturbed
<1> QED
  BY Zenon, <1>4, <1>5, <1>6 DEF PlaceInv


\* The entries that the monitor goes through are those of the calls.
LEMMA CellIsEntry ==
  ASSUME PlaceInv, TableInv, mon.restore # << >>, NEW n \in Turns
  PROVE  /\ Cell(n) = Entry(Calls[n]) /\ Calls[n] \in CallNames
         /\ mon.syscalls_table_address = boot.table
<1>1. mon.syscalls_table_address = boot.table /\ mon.restore = Header
  BY Zenon DEF PlaceInv, Located, TableInv
<1> QED
  BY Zenon, <1>1, TheCalls DEF Cell, Entry, Header

\* Only one of the calls can be in an entry.
LEMMA EntryOfOne ==
  ASSUME Inv, PlaceInv, mon.restore # << >>, NEW k \in CallNames, NEW l \in CallNames,
         Entry(k) = Entry(l)
  PROVE  k = l
<1>1. boot.table \in Int /\ Number[k] \in Int /\ Number[l] \in Int
  <2>1. Scanned \subseteq Int /\ 0 .. TableSize - 1 \subseteq Int /\ boot \in Images
    BY SMT DEF Scanned, Inv, Types
  <2> QED
    BY Zenon, <2>1, MemoryAssumption, NumbersAssumption
<1>2. ASSUME NEW x \in Int, NEW y \in Int, NEW z \in Int, x + y = x + z PROVE y = z
  BY SMT, <1>2
<1>3. Number[k] = Number[l]
  BY Zenon, <1>1, <1>2 DEF Entry
<1> QED
  BY Zenon, <1>3 DEF PlaceInv, Located, Distinct

LEMMA EntryHolds ==
  ASSUME Inv, PlaceInv, NEW k \in CallNames
  PROVE  memory[Entry(k)] = k \/ memory[Entry(k)] = boot.words[Entry(k)]
<1>1. TableInv /\ Entry(k) \in Addresses
  BY Zenon, AtBoot DEF Inv, Entry
<1>2. CASE mon.restore = << >>
  BY Zenon, <1>1, <1>2 DEF TableInv
<1>3. CASE mon.restore # << >>
  BY Zenon, <1>1, <1>3, EntryOfOne DEF PlaceInv, Stored
<1> QED
  BY Zenon, <1>2, <1>3

\* A word that is a call's is in one place, and another word is where the kernel had it.
LEMMA WordPlace ==
  ASSUME Inv, PlaceInv, NEW x \in Addresses
  PROVE  /\ memory[x] \in CallNames => x = Entry(memory[x])
         /\ memory[x] \notin CallNames => memory[x] = boot.words[x]
<1>1. boot.words[x] \notin CallNames
  BY Zenon, ImagesAssumption DEF Inv, Types
<1> QED
  BY Zenon, <1>1 DEF PlaceInv, Stored

LEMMA Offsets ==
  /\ \A n \in DOMAIN NiOffsets : NiOffsets[n] \in 0 .. TableSize - 1
  /\ {1, 2} \subseteq DOMAIN NiOffsets /\ NiOffsets[1] # NiOffsets[2]
  /\ \A i \in 1 .. FIRST_NI_SYSCALL - 1 : i \in 0 .. TableSize - 1
BY SMT, MemoryAssumption DEF FIRST_NI_SYSCALL

\* What looks like the table is the table: where the calls of the monitor make
\* good_area hold, the word at the offsets would be the one they have replaced.
LEMMA OnlyTheTable ==
  ASSUME Inv, PlaceInv, NEW a \in Scanned, Pattern(memory, a)
  PROVE  a = boot.table
<1> DEFINE w == memory[a + FIRST_NI_SYSCALL]
<1> SUFFICES ASSUME a # boot.table PROVE FALSE
  OBVIOUS
<1>0. boot \in Images /\ TableInv /\ 1 \in Turns
  <2>1. 1 \in Turns
    BY SMT, TheCalls DEF Turns
  <2> QED
    BY Zenon, <2>1 DEF Inv, Types
<1>1. /\ ~Pattern(boot.words, a)
      /\ \E n \in DOMAIN NiOffsets : boot.words[a + NiOffsets[n]] # boot.words[Entry(Calls[1])]
  BY Zenon, <1>0, TableAssumption DEF Entry
<1>2. \A x \in 0 .. TableSize - 1 : a + x \in Addresses
  <2>1. a # NULL
    BY SMT DEF Scanned, NULL
  <2> QED
    BY Zenon, <2>1, EntryAddress
<1>3. /\ w \in KernelWords /\ \A n \in DOMAIN NiOffsets : memory[a + NiOffsets[n]] = w
      /\ \A i \in 1 .. FIRST_NI_SYSCALL - 1 : memory[a + i] # w
  BY Zenon DEF Pattern, good_area
<1> HIDE DEF w
<1>4. w \notin CallNames
  <2> SUFFICES ASSUME w \in CallNames PROVE FALSE
    OBVIOUS
  <2>1. \A n \in {1, 2} : a + NiOffsets[n] \in Addresses /\ memory[a + NiOffsets[n]] = w
    BY Zenon, <1>2, <1>3, Offsets
  <2>4. \A x \in Addresses : memory[x] = w => x = Entry(w)
    BY Zenon, WordPlace
  <2>2. a \in Int /\ NiOffsets[1] \in Int /\ NiOffsets[2] \in Int
    BY SMT, Offsets DEF Scanned
  <2>3. a + NiOffsets[1] = a + NiOffsets[2]
    BY Zenon, <2>1, <2>4
  <2> QED
    BY SMT, <2>2, <2>3, Offsets
<1>5. \A n \in DOMAIN NiOffsets : boot.words[a + NiOffsets[n]] = w
  BY Zenon, <1>2, <1>3, <1>4, Offsets, WordPlace
<1>6. boot.words[a + FIRST_NI_SYSCALL] = w
  BY Zenon, <1>5, Offsets DEF FIRST_NI_SYSCALL
<1>7. ~good_area(boot.words, a)
  BY Zenon, <1>1, <1>3, <1>5, <1>6 DEF Pattern
<1>8. PICK i \in 1 .. FIRST_NI_SYSCALL - 1 : boot.words[a + i] = w
  BY Zenon, <1>6, <1>7 DEF good_area
<1>9. a + i \in Addresses /\ memory[a + i] # boot.words[a + i]
  BY Zenon, <1>2, <1>3, <1>8, Offsets
<1>10. mon.restore # << >>
  BY Zenon, <1>0, <1>9 DEF TableInv
<1>11. w = mon.the_ni_syscall /\ boot.words[Cell(1)] = mon.the_ni_syscall
  BY Zenon, <1>0, <1>8, <1>9, <1>10 DEF TableInv
<1>12. Cell(1) = Entry(Calls[1])
  BY Zenon, <1>0, <1>10, CellIsEntry
<1> QED
  BY Zenon, <1>1, <1>5, <1>11, <1>12

\* A step on the discoverer.
LEMMA DiscPlace ==
  ASSUME Inv, PlaceInv, NEW c \in Procs, UNCHANGED <<boot, memory, mon>>, Others(c),
         NEW label \in Plain \cup Scanning, Goto(c, label),
         disc'.sys_call_table_address \in {NULL, boot.table},
         \A i \in disc'.free_entries :
           boot.words[boot.table + i] = boot.words[boot.table + FIRST_NI_SYSCALL],
         \/ disc'.hacked_ni_syscall = disc.hacked_ni_syscall
         \/ \A u \in Procs \ {c} : pc[u] \notin Scanning,
         label = "disc_free" => Saved'
  PROVE  PlaceInv'
<1>1. label \in Labels /\ label \notin Filling /\ label # "mon_insert"
  BY Zenon DEF Plain, Labels, Beginning, Inserting, Holding, Filling, Scanning
<1>2. pc'[c] = label
  BY Zenon, <1>1, Own, GotoType
<1>3. Located'
  BY Zenon DEF PlaceInv, Located
<1>4. Stored'
  BY Zenon DEF PlaceInv, Stored, Entry
<1>5. FillInv(c)'
  BY Zenon, <1>1, <1>2 DEF FillInv, Filling
<1>6. \A u \in Procs \ {c} : FillInv(u)'
  BY Zenon, <1>1, FillBeside DEF Others, Undisturbed
<1> QED
  BY Zenon, <1>3, <1>4, <1>5, <1>6 DEF PlaceInv

\* An entry that holds the saved word was free at boot.
LEMMA FreeAtBoot ==
  ASSUME Inv, PlaceInv, Saved, NEW i \in 0 .. TableSize - 1,
         memory[boot.table + i] = disc.hacked_ni_syscall
  PROVE  boot.words[boot.table + i] = boot.words[boot.table + FIRST_NI_SYSCALL]
<1>1. boot.table \in Scanned /\ boot.table # NULL /\ boot \in Images
  <2>1. Scanned \subseteq Nat /\ NULL \notin Nat
    BY SMT DEF Scanned, NULL
  <2> QED
    BY Zenon, <2>1, MemoryAssumption DEF Inv, Types
<1>2. boot.table + i \in Addresses /\ boot.table + FIRST_NI_SYSCALL \in Addresses
  BY Zenon, <1>1, FirstNumber, EntryAddress
<1>3. CASE disc.hacked_ni_syscall = boot.words[boot.table + FIRST_NI_SYSCALL]
  <2>1. disc.hacked_ni_syscall \notin CallNames
    BY Zenon, <1>1, <1>2, <1>3, ImagesAssumption
  <2> QED
    BY Zenon, <1>2, <1>3, <2>1, WordPlace
<1>4. CASE \E k \in CallNames : disc.hacked_ni_syscall = k /\ Number[k] = FIRST_NI_SYSCALL
  <2>1. PICK k \in CallNames : disc.hacked_ni_syscall = k /\ Number[k] = FIRST_NI_SYSCALL
    BY Zenon, <1>4
  <2>2. \A x \in Addresses : memory[x] = k => x = Entry(k)
    BY Zenon, <2>1, WordPlace
  <2>3. boot.table + i = Entry(k)
    BY Zenon, <1>2, <2>1, <2>2
  <2> QED
    BY Zenon, <2>1, <2>3 DEF Entry
<1> QED
  BY Zenon, <1>3, <1>4 DEF Saved

\* What validate_page saves.
LEMMA SavedWord ==
  ASSUME Inv, PlaceInv
  PROVE  \/ memory[boot.table + FIRST_NI_SYSCALL] = boot.words[boot.table + FIRST_NI_SYSCALL]
         \/ \E k \in CallNames : /\ memory[boot.table + FIRST_NI_SYSCALL] = k
                                 /\ Number[k] = FIRST_NI_SYSCALL
<1> DEFINE x == boot.table + FIRST_NI_SYSCALL
<1>1. boot.table \in Int /\ boot.table # NULL /\ boot.table \in Scanned
      /\ \A k \in CallNames : Number[k] \in Int
  <2>1. Scanned \subseteq Nat /\ Nat \subseteq Int /\ NULL \notin Nat /\ 0 .. TableSize - 1 \subseteq Int
    BY SMT DEF Scanned, NULL
  <2> QED
    BY Zenon, <2>1, MemoryAssumption, NumbersAssumption DEF Inv, Types
<1>2. x \in Addresses
  BY Zenon, <1>1, FirstNumber, EntryAddress
<1>3. CASE memory[x] \notin CallNames
  BY Zenon, <1>2, <1>3, WordPlace
<1>4. CASE memory[x] \in CallNames
  <2>1. x = boot.table + Number[memory[x]]
    BY Zenon, <1>2, <1>4, WordPlace DEF Entry
  <2>2. Number[memory[x]] = FIRST_NI_SYSCALL
    <3>1. FIRST_NI_SYSCALL \in Int
      BY SMT, FirstNumber
    <3>2. ASSUME NEW t \in Int, NEW y \in Int, NEW z \in Int, t + y = t + z PROVE y = z
      BY SMT, <3>2
    <3> QED
      BY Zenon, <1>1, <1>4, <2>1, <3>1, <3>2
  <2> QED
    BY Zenon, <1>4, <2>2
<1> QED
  BY Zenon, <1>3, <1>4

LEMMA DiscStepPlace ==
  ASSUME Inv, PlaceInv, Operators, NEW c \in Procs, DiscStep(c)
  PROVE  PlaceInv'
<1>0. /\ UNCHANGED <<boot, memory, mon>> /\ disc \in DiscType /\ idx[c] \in Nat /\ DiscInv
      /\ disc.sys_call_table_address \in {NULL, boot.table}
      /\ \A i \in disc.free_entries :
           boot.words[boot.table + i] = boot.words[boot.table + FIRST_NI_SYSCALL]
  <2>1. UNCHANGED <<boot, memory, mon>>
    BY Zenon DEF DiscStep, DiscInsert, DiscScan, DiscFail, DiscFree, DiscRemove
  <2> QED
    BY Zenon, <2>1, Own DEF PlaceInv, Located, Types
<1>1. "disc_scan" \in Scanning /\ "disc_free" \in Scanning /\ "disc_free" \notin Plain \cup {"disc_scan"}
  BY Zenon DEF Scanning, Plain
<1>2. CASE /\ disc'.sys_call_table_address = disc.sys_call_table_address
           /\ disc'.free_entries = disc.free_entries
           /\ disc'.hacked_ni_syscall = disc.hacked_ni_syscall
           /\ \/ Finish(c) \/ Die(c)
              \/ /\ \E v : idx' = [idx EXCEPT ![c] = v]
                 /\ UNCHANGED <<call, arg>> /\ Goto(c, "disc_scan")
  <2>1. Others(c)
    BY Zenon, <1>2, StepOthers, FinishOthers
  <2>2. PICK label \in Plain \cup {"disc_scan"} : Goto(c, label)
    BY Zenon, <1>2, PlainLabels DEF Finish, Die
  <2> QED
    BY Zenon, <1>0, <1>1, <1>2, <2>1, <2>2, DiscPlace
<1>3. CASE DiscInsert(c)
  <2>1. [disc EXCEPT !.status = "coming"].sys_call_table_address = disc.sys_call_table_address
        /\ [disc EXCEPT !.status = "coming"].free_entries = disc.free_entries
        /\ [disc EXCEPT !.status = "coming"].hacked_ni_syscall = disc.hacked_ni_syscall
    BY Zenon, <1>0 DEF DiscType
  <2> QED
    BY Zenon, <1>2, <1>3, <2>1 DEF DiscInsert, request
<1>4. CASE DiscFail(c)
  <2>1. [disc EXCEPT !.status = "none"].sys_call_table_address = disc.sys_call_table_address
        /\ [disc EXCEPT !.status = "none"].free_entries = disc.free_entries
        /\ [disc EXCEPT !.status = "none"].hacked_ni_syscall = disc.hacked_ni_syscall
    BY Zenon, <1>0 DEF DiscType
  <2> QED
    BY Zenon, <1>2, <1>4, <2>1 DEF DiscFail
<1>5. CASE DiscRemove(c)
  <2>1. CASE disc.status = "live"
    <3>1. disc' = NoDisc /\ Finish(c)
      BY Zenon, <1>5, <2>1 DEF DiscRemove
    <3>2. NoDisc.sys_call_table_address = NULL /\ NoDisc.free_entries = {}
      BY Zenon DEF NoDisc
    <3>3. \A u \in Procs : pc[u] \notin Scanning
      BY Zenon, <1>0, <2>1 DEF DiscInv
    <3>4. "info" \in Plain \cup Scanning /\ "info" # "disc_free"
      BY Zenon, PlainLabels
    <3>5. /\ disc'.sys_call_table_address \in {NULL, boot.table}
          /\ \A i \in disc'.free_entries :
               boot.words[boot.table + i] = boot.words[boot.table + FIRST_NI_SYSCALL]
      BY Zenon, <3>1, <3>2
    <3> QED
      BY Zenon, <1>0, <3>1, <3>3, <3>4, <3>5, FinishLocals, DiscPlace
  <2>2. CASE disc.status # "live"
    BY Zenon, <1>2, <1>5, <2>2 DEF DiscRemove
  <2> QED
    BY Zenon, <2>1, <2>2
<1>6. CASE DiscFree(c)
  <2> DEFINE free == {i \in 0 .. TableSize - 1 :
                         memory[disc.sys_call_table_address + i] = disc.hacked_ni_syscall}
             F == {i \in free : Cardinality({j \in free : j < i}) < MAX_FREE}
  <2>1. disc' = [disc EXCEPT !.status = "live", !.free_entries = F] /\ Finish(c) /\ pc[c] = "disc_free"
    BY Zenon, <1>6 DEF DiscFree
  <2>2. disc.sys_call_table_address = boot.table
    BY Zenon, <1>0, <2>1 DEF DiscInv
  <2>3. \A i \in F : boot.words[boot.table + i] = boot.words[boot.table + FIRST_NI_SYSCALL]
    <3>1. Saved
      BY Zenon, <2>1 DEF PlaceInv, FillInv
    <3> QED
      BY Zenon, <2>2, <3>1, FreeAtBoot
  <2>4. F \in SUBSET (0 .. TableSize - 1)
    BY Zenon
  <2> HIDE DEF F
  <2>5. /\ disc'.sys_call_table_address = disc.sys_call_table_address /\ disc'.free_entries = F
        /\ disc'.hacked_ni_syscall = disc.hacked_ni_syscall
    BY Zenon, <1>0, <2>1, <2>4 DEF DiscType
  <2>6. "info" \in Plain \cup Scanning /\ "info" # "disc_free"
    BY Zenon, PlainLabels
  <2> QED
    BY Zenon, <1>0, <2>1, <2>3, <2>5, <2>6, FinishLocals, DiscPlace
<1>7. CASE DiscScan(c)
  <2>1. CASE /\ UNCHANGED disc
             /\ \/ Die(c)
                \/ /\ idx' = [idx EXCEPT ![c] = AfterPage(idx[c])] /\ Goto(c, "disc_scan")
                   /\ UNCHANGED request
    BY Zenon, <1>2, <2>1 DEF request
  <2>2. CASE /\ validate_page(idx[c]) # NULL /\ idx[c] < Pages
             /\ disc' = [disc EXCEPT !.sys_call_table_address = validate_page(idx[c]),
                           !.hacked_ni_syscall = memory[validate_page(idx[c]) + FIRST_NI_SYSCALL]]
             /\ pc[c] = "disc_scan"
             /\ idx' = [idx EXCEPT ![c] = 0] /\ Goto(c, "disc_free") /\ UNCHANGED request
    <3> DEFINE a == validate_page(idx[c])
    <3>1. a \in idx[c] * PageSize .. (idx[c] + 1) * PageSize - 1 /\ Pattern(memory, a)
      BY Zenon, <1>0, <2>2 DEF Operators, Tested
    <3>2. a \in Scanned
      <4>1. PageSize \in Nat \ {0} /\ Pages \in Nat
        BY Zenon, MemoryAssumption
      <4> QED
        BY Zenon, <1>0, <2>2, <3>1, <4>1, PageRange DEF Scanned
    <3>3. a = boot.table
      BY Zenon, <3>1, <3>2, OnlyTheTable
    <3>4. /\ disc'.sys_call_table_address = a /\ disc'.free_entries = disc.free_entries
          /\ disc'.hacked_ni_syscall = memory[a + FIRST_NI_SYSCALL]
      <4>1. memory[a + FIRST_NI_SYSCALL] \in Words
        <5>1. a # NULL /\ memory \in [Addresses -> Words]
          BY Zenon, <2>2 DEF Inv, Types
        <5> QED
          BY Zenon, <3>2, <5>1, FirstNumber, EntryAddress
      <4> HIDE DEF a
      <4> QED
        BY Zenon, <1>0, <2>2, <3>2, <4>1, DiscTypes DEF a
    <3> HIDE DEF a
    <3>5. Others(c)
      BY Zenon, <2>2, Nothing, IndexLocals
    <3>6. Saved'
      BY Zenon, <1>0, <3>3, <3>4, SavedWord DEF Saved
    <3>7. \A u \in Procs \ {c} : pc[u] \notin Scanning
      BY Zenon, <1>0, <1>1, <2>2 DEF DiscInv
    <3> QED
      BY Zenon, <1>0, <1>1, <2>2, <3>3, <3>4, <3>5, <3>6, <3>7, DiscPlace
  <2> QED
    BY Zenon, <1>7, <2>1, <2>2 DEF DiscScan
<1> QED
  BY Zenon, <1>3, <1>4, <1>5, <1>6, <1>7 DEF DiscStep

\* A step on the monitor.
LEMMA MonPlace ==
  ASSUME Inv, PlaceInv, NEW c \in Procs, NEW label \in Labels, Goto(c, label), Undisturbed(c),
         UNCHANGED disc, mon'.syscalls_table_address \in {NULL, boot.table},
         mon'.restore # << >> => mon'.restore = Header /\ Distinct, Stored', FillInv(c)'
  PROVE  PlaceInv'
<1>1. \A u \in Procs \ {c} : FillInv(u)'
  BY Zenon, FillBeside
<1>2. Located'
  BY Zenon DEF PlaceInv, Located, Undisturbed
<1> QED
  BY Zenon, <1>1, <1>2 DEF PlaceInv

\* The words stay, unless the monitor becomes live.
LEMMA SameStored ==
  ASSUME PlaceInv, UNCHANGED <<boot, memory>>, mon'.status = mon.status \/ mon'.status # "live"
  PROVE  Stored'
BY Zenon DEF PlaceInv, Stored, Entry

LEMMA FinishQuiet ==
  ASSUME Inv, PlaceInv, NEW c \in Procs, Finish(c) \/ Die(c), UNCHANGED <<boot, memory, disc, mon>>
  PROVE  PlaceInv'
BY Zenon, FinishOthers, QuietPlace DEF Quiet

LEMMA MonReadPlace ==
  ASSUME Inv, PlaceInv, NEW c \in Procs, MonRead(c)
  PROVE  PlaceInv'
<1>0. /\ UNCHANGED <<boot, memory, disc, mon>> /\ arg \in [Procs -> [number : Int, right : BOOLEAN]]
      /\ arg[c] \in [number : Int, right : BOOLEAN] /\ Located
  BY Zenon, Own DEF MonRead, Types, PlaceInv
<1>1. CASE Finish(c)
  BY Zenon, <1>0, <1>1, FinishQuiet
<1>2. CASE /\ arg' = [arg EXCEPT ![c].number = disc.sys_call_table_address]
           /\ Goto(c, "mon_insert") /\ UNCHANGED <<idx, call, ret>>
  <2> DEFINE a == disc.sys_call_table_address
             r == [arg[c] EXCEPT !.number = a]
  <2>1. arg' = [arg EXCEPT ![c] = r]
    BY SMT, <1>2
  <2>2. r.number = a
    BY Zenon, <1>0
  <2> HIDE DEF r
  <2>3. arg'[c] = r /\ \A u \in Procs \ {c} : arg'[u] = arg[u]
    BY Zenon, <1>0, <2>1
  <2>4. Undisturbed(c)
    BY Zenon, <1>0, <1>2, <2>3 DEF Undisturbed
  <2>5. pc'[c] = "mon_insert" /\ "mon_insert" \in Labels
    BY Zenon, <1>2, Own, HoldingLabels, GotoType
  <2>6. FillInv(c)'
    <3>1. arg'[c].number \in {NULL, boot'.table}
      BY Zenon, <1>0, <2>2, <2>3 DEF Located
    <3> QED
      BY Zenon, <2>5, <3>1 DEF FillInv, Filling
  <2>7. Stored'
    BY Zenon, <1>0, SameStored
  <2> QED
    BY Zenon, <1>0, <1>2, <2>4, <2>5, <2>6, <2>7, MonPlace DEF Located
<1> QED
  BY Zenon, <1>1, <1>2 DEF MonRead

LEMMA MonInsertPlace ==
  ASSUME Inv, PlaceInv, NEW c \in Procs, MonInsert(c)
  PROVE  PlaceInv'
<1>0. /\ UNCHANGED <<boot, memory, disc>> /\ arg \in [Procs -> [number : Int, right : BOOLEAN]]
      /\ pc[c] = "mon_insert" /\ FillInv(c)
  BY Zenon, Own DEF MonInsert, Types, PlaceInv
<1>1. CASE Finish(c) /\ UNCHANGED mon
  BY Zenon, <1>0, <1>1, FinishQuiet
<1>2. CASE /\ mon' = [NoMon EXCEPT !.status = "coming", !.syscalls_table_address = arg[c].number]
           /\ arg' = [arg EXCEPT ![c] = NoArgument]
           /\ Goto(c, "mon_entries") /\ UNCHANGED <<idx, call, ret>>
  <2>1. mon'.syscalls_table_address = arg[c].number /\ mon'.restore = << >> /\ mon'.status = "coming"
    BY Zenon, <1>2 DEF NoMon
  <2>2. arg[c].number \in {NULL, boot.table}
    BY Zenon, <1>0 DEF FillInv
  <2>3. Undisturbed(c)
    BY Zenon, <1>0, <1>2, Elsewhere DEF Undisturbed
  <2>4. pc'[c] = "mon_entries" /\ "mon_entries" \in Labels
    BY Zenon, <1>2, Own, HoldingLabels, GotoType
  <2>5. FillInv(c)'
    BY Zenon, <2>4 DEF FillInv, Filling
  <2>6. Stored'
    BY Zenon, <1>0, <2>1, SameStored
  <2> QED
    BY Zenon, <1>0, <1>2, <2>1, <2>2, <2>3, <2>4, <2>5, <2>6, MonPlace
<1> QED
  BY Zenon, <1>1, <1>2 DEF MonInsert

LEMMA MonEntriesPlace ==
  ASSUME Inv, PlaceInv, Operators, NEW c \in Procs, MonEntries(c)
  PROVE  PlaceInv'
<1> DEFINE table == mon.syscalls_table_address
           found == get_entries(memory, table)
<1>0. /\ UNCHANGED <<boot, memory, disc>> /\ pc[c] = "mon_entries" /\ mon \in MonType
      /\ memory = boot.words /\ boot \in Images /\ table \in {NULL, boot.table}
      /\ mon.status = "coming"
  BY Zenon, Own DEF MonEntries, Types, InsertInv, TableInv, PlaceInv, Located
<1>1. CASE Die(c) /\ UNCHANGED mon
  BY Zenon, <1>0, <1>1, FinishQuiet
<1>2. CASE mon' = NoMon /\ Finish(c)
  <2>1. NoMon.restore = << >> /\ NoMon.syscalls_table_address = NULL /\ NoMon.status = "none"
    BY Zenon DEF NoMon
  <2>2. Others(c) /\ Goto(c, "info") /\ "info" \in Labels
    BY Zenon, <1>2, FinishLocals DEF Labels
  <2>3. pc'[c] = "info"
    BY Zenon, <2>2, Own, GotoType
  <2>4. FillInv(c)'
    BY Zenon, <2>3 DEF FillInv, Filling
  <2>5. Stored'
    BY Zenon, <1>0, <1>2, <2>1, SameStored
  <2>6. Undisturbed(c)
    BY Zenon, <1>0, <2>2 DEF Undisturbed, Others
  <2> QED
    BY Zenon, <1>0, <1>2, <2>1, <2>2, <2>4, <2>5, <2>6, MonPlace
<1>3. CASE /\ table # NULL /\ found # << >>
           /\ mon' = [mon EXCEPT !.restore = found, !.the_ni_syscall = memory[table + found[1]]]
           /\ idx' = [idx EXCEPT ![c] = 1] /\ Goto(c, "mon_publish")
           /\ UNCHANGED <<request, client>>
  <2>1. found = Header /\ table = boot.table
    BY Zenon, <1>0, <1>3, HeaderAssumption DEF Header, Turns
  <2>2. Distinct
    <3>1. \A m, n \in Turns : m # n => Header[m] # Header[n]
      <4>1. get_entries(memory, table) # << >>
        BY Zenon, <1>3
      <4>2. \A m, n \in Turns : m # n =>
              get_entries(memory, table)[m] # get_entries(memory, table)[n]
        BY SMT, <4>1, Entries
      <4> QED
        BY Zenon, <2>1, <4>2
    <3>2. \A n \in Turns : Header[n] = Number[Calls[n]]
      BY Zenon DEF Header
    <3>3. \A k \in CallNames : \E n \in Turns : k = Calls[n]
      BY Zenon DEF CallNames, Turns
    <3> SUFFICES ASSUME NEW k \in CallNames, NEW l \in CallNames, Number[k] = Number[l]
                 PROVE  k = l
      BY Zenon DEF Distinct
    <3>4. PICK m \in Turns : k = Calls[m]
      BY Zenon, <3>3
    <3>5. PICK n \in Turns : l = Calls[n]
      BY Zenon, <3>3
    <3>6. Header[m] = Header[n]
      BY Zenon, <3>2, <3>4, <3>5
    <3>7. m = n
      BY Zenon, <3>1, <3>6
    <3> QED
      BY Zenon, <3>4, <3>5, <3>7
  <2>3. /\ mon'.syscalls_table_address = table /\ mon'.restore = Header /\ mon'.status = "coming"
    <3> HIDE DEF found
    <3> QED
      BY Zenon, <1>0, <1>3, <2>1 DEF MonType
  <2>4. Others(c) /\ idx'[c] = 1
    BY Zenon, <1>3, IndexLocals
  <2>5. Undisturbed(c)
    BY Zenon, <1>0, <2>4 DEF Undisturbed, Others
  <2>6. pc'[c] = "mon_publish" /\ "mon_publish" \in Labels
    BY Zenon, <1>3, Own, HoldingLabels, GotoType
  <2>7. FillInv(c)'
    <3>1. 1 .. 1 - 1 = {}
      BY SMT
    <3>2. \A n \in 1 .. idx'[c] - 1 : FALSE
      BY Zenon, <2>4, <3>1
    <3> QED
      BY Zenon, <2>6, <3>2 DEF FillInv
  <2>8. Stored'
    BY Zenon, <1>0, <2>3, SameStored
  <2> QED
    BY Zenon, <1>0, <1>3, <2>1, <2>2, <2>3, <2>5, <2>6, <2>7, <2>8, MonPlace
<1> QED
  BY Zenon, <1>1, <1>2, <1>3 DEF MonEntries

\* A store of a call, or of what was there at boot.
Proper(c, word) == word = Calls[idx[c]] \/ word = boot.words[Cell(idx[c])]

LEMMA StorePlace ==
  ASSUME Inv, PlaceInv, NEW c \in Procs, NEW word \in Words, NEW loop \in {"mon_publish", "rm_restore"},
         NEW after \in Labels \ Scanning, Store(c, word, HACKED_ENTRIES, loop, after),
         Proper(c, word), FillInv(c)'
  PROVE  PlaceInv'
<1> DEFINE label == IF idx[c] = HACKED_ENTRIES THEN after ELSE loop
           e == Cell(idx[c])
<1>1. /\ label \in Labels /\ Goto(c, label) /\ Inside(c, label) /\ idx[c] \in Turns
      /\ UNCHANGED <<boot, disc, mon>> /\ e \in Addresses /\ memory'[e] = word
      /\ \A a \in Addresses \ {e} : memory'[a] = memory[a]
  BY SMT, StoreInside
<1> HIDE DEF label
<1>2. Undisturbed(c)
  BY Zenon, <1>1 DEF Undisturbed, Inside
<1>3. mon.restore # << >> /\ mon.status # "live" /\ TableInv
  <2>1. InsertInv(c) /\ StatusInv /\ TableInv /\ pc[c] = loop
    BY Zenon, Own DEF Store
  <2> QED
    BY Zenon, <2>1 DEF InsertInv, StatusInv, Filling, Emptying
<1>4. e = Entry(Calls[idx[c]]) /\ Calls[idx[c]] \in CallNames
  BY Zenon, <1>1, <1>3, CellIsEntry
<1>5. Stored'
  <2>1. \A k : Entry(k)' = Entry(k)
    BY Zenon, <1>1 DEF Entry
  <2>2. ASSUME NEW a \in Addresses
        PROVE  memory'[a] = boot'.words[a] \/ \E k \in CallNames : memory'[a] = k /\ a = Entry(k)
    <3>1. CASE a = e
      BY Zenon, <1>1, <1>4, <3>1 DEF Proper
    <3>2. CASE a # e
      BY Zenon, <1>1, <3>2 DEF PlaceInv, Stored
    <3> QED
      BY Zenon, <3>1, <3>2
  <2> QED
    BY Zenon, <1>1, <1>3, <2>1, <2>2 DEF Stored
<1> QED
  BY Zenon, <1>1, <1>2, <1>5, MonPlace DEF PlaceInv, Located

LEMMA MonPublishPlace ==
  ASSUME Inv, PlaceInv, NEW c \in Procs, MonPublish(c)
  PROVE  PlaceInv'
<1> DEFINE i == idx[c]
           word == Calls[i]
<1>0. /\ Store(c, word, HACKED_ENTRIES, "mon_publish", "mon_fields") /\ pc[c] = "mon_publish"
      /\ InsertInv(c) /\ FillInv(c) /\ TableInv
  BY Zenon, Own DEF MonPublish, Store, PlaceInv
<1>1. "mon_fields" \in Labels \ Scanning /\ "mon_publish" \in Filling
  BY Zenon, HoldingLabels DEF Filling, Scanning
<1>2. i \in Turns /\ mon.restore # << >>
  BY Zenon, <1>0, <1>1 DEF InsertInv
<1>3. word \in CallNames /\ word \in Words /\ Cell(i) = Entry(word) /\ Located
  BY Zenon, <1>0, <1>2, TheCalls, CellIsEntry DEF Words, PlaceInv
<1>4. /\ pc'[c] = (IF i = HACKED_ENTRIES THEN "mon_fields" ELSE "mon_publish")
      /\ idx'[c] = (IF i = HACKED_ENTRIES THEN 0 ELSE i + 1)
      /\ boot' = boot /\ Cell(i) \in Addresses /\ memory'[Cell(i)] = word
      /\ \A a \in Addresses \ {Cell(i)} : memory'[a] = memory[a]
  <2> HIDE DEF word
  <2> QED
    BY SMT, <1>0, <1>1, <1>3, StoreInside
<1>5. ASSUME NEW n \in 1 .. i PROVE memory'[Entry(Calls[n])] = Calls[n]
  <2>1. CASE n = i
    BY Zenon, <1>3, <1>4, <2>1
  <2>2. CASE n # i
    <3>1. n \in 1 .. i - 1 /\ n \in Turns
      BY SMT, <1>2, <2>2, TheCalls DEF Turns
    <3>2. memory[Entry(Calls[n])] = Calls[n]
      BY Zenon, <1>0, <3>1 DEF FillInv
    <3>3. Entry(Calls[n]) \in Addresses
      BY Zenon, <3>1, TheCalls, AtBoot DEF Entry
    <3>4. CASE Entry(Calls[n]) = Cell(i)
      BY Zenon, <1>2, <1>3, <1>4, <3>1, <3>4, TheCalls, EntryOfOne
    <3>5. CASE Entry(Calls[n]) # Cell(i)
      BY Zenon, <1>4, <3>2, <3>3, <3>5
    <3> QED
      BY Zenon, <3>4, <3>5
  <2> QED
    BY Zenon, <2>1, <2>2
<1>6. FillInv(c)'
  <2>1. \A k : Entry(k)' = Entry(k)
    BY Zenon, <1>4 DEF Entry
  <2>2. CASE i = HACKED_ENTRIES
    <3>1. ASSUME NEW k \in CallNames PROVE memory'[Entry(k)] = k
      BY Zenon, <1>5, <2>2 DEF CallNames
    <3> QED
      BY Zenon, <1>4, <2>1, <2>2, <3>1 DEF FillInv
  <2>3. CASE i # HACKED_ENTRIES
    <3>1. 1 .. idx'[c] - 1 = 1 .. i
      <4>1. idx'[c] = i + 1 /\ i \in Int
        BY SMT, <1>2, <1>4, <2>3, TheCalls DEF Turns
      <4> QED
        BY SMT, <4>1
    <3> QED
      BY Zenon, <1>4, <1>5, <2>1, <2>3, <3>1 DEF FillInv
  <2> QED
    BY Zenon, <2>2, <2>3
<1>7. Proper(c, word)
  BY Zenon DEF Proper
<1> QED
  BY Zenon, <1>0, <1>1, <1>3, <1>6, <1>7, StorePlace

LEMMA RestorePlace ==
  ASSUME Inv, PlaceInv, NEW c \in Procs, Restore(c)
  PROVE  PlaceInv'
<1> DEFINE word == mon.the_ni_syscall
<1>0. /\ Store(c, word, HACKED_ENTRIES, "rm_restore", "rm_probes") /\ pc[c] = "rm_restore"
      /\ InsertInv(c) /\ StatusInv /\ TableInv /\ boot \in Images /\ Located
  BY Zenon, Own DEF Restore, Store, PlaceInv, Types
<1>1. "rm_probes" \in Labels \ Scanning /\ "rm_restore" \in Emptying
  BY Zenon, HoldingLabels DEF Emptying, Scanning
<1>2. idx[c] \in Turns /\ mon.restore # << >>
  BY Zenon, <1>0, <1>1 DEF InsertInv, StatusInv
<1>3. boot.words[Cell(idx[c])] = word
  BY Zenon, <1>0, <1>2 DEF TableInv
<1>4. word \in Words
  <2>1. Cell(idx[c]) \in Addresses
    BY Zenon, <1>0, <1>2, TheCalls, CellIsEntry, AtBoot DEF Entry
  <2> QED
    BY Zenon, <1>0, <1>3, <2>1, ImagesAssumption
<1> HIDE DEF word
<1>5. pc'[c] \in {"rm_restore", "rm_probes"}
  <2>1. pc'[c] = (IF idx[c] = HACKED_ENTRIES THEN "rm_probes" ELSE "rm_restore")
    BY SMT, <1>0, <1>1, <1>4, StoreInside
  <2> QED
    BY Zenon, <2>1
<1>6. FillInv(c)'
  BY Zenon, <1>5 DEF FillInv, Filling
<1>7. Proper(c, word)
  BY Zenon, <1>3 DEF Proper
<1> QED
  BY Zenon, <1>0, <1>1, <1>4, <1>6, <1>7, StorePlace

\* From the last entry on, all of them are stored.
LEMMA MonUpdatePlace ==
  ASSUME Inv, PlaceInv, NEW c \in Procs, NEW m \in MonType, SameEntries(m),
         NEW at \in Filling \ {"mon_publish"},
         NEW after \in (Filling \ {"mon_publish"}) \cup {"info"}, MonUpdate(c, at, m, after)
  PROVE  PlaceInv'
<1>0. /\ UNCHANGED <<boot, memory, disc, idx, arg>> /\ pc[c] = at /\ mon' = m /\ Goto(c, after)
      /\ FillInv(c) /\ Located
  BY Zenon DEF MonUpdate, PlaceInv
<1>1. after \in Labels /\ after \notin {"mon_publish", "mon_insert", "disc_free"}
  BY Zenon, HoldingLabels DEF Filling, Labels
<1>2. pc'[c] = after
  BY Zenon, <1>0, <1>1, Own, GotoType
<1>3. \A k \in CallNames : memory[Entry(k)] = k
  BY Zenon, <1>0 DEF FillInv
<1>4. \A k : Entry(k)' = Entry(k)
  BY Zenon, <1>0 DEF Entry
<1>5. FillInv(c)'
  BY Zenon, <1>0, <1>1, <1>2, <1>3, <1>4 DEF FillInv
<1>6. Stored'
  BY Zenon, <1>0, <1>3, <1>4 DEF PlaceInv, Stored
<1>7. Undisturbed(c)
  BY Zenon, <1>0 DEF Undisturbed
<1>8. /\ mon'.syscalls_table_address \in {NULL, boot.table}
      /\ mon'.restore # << >> => mon'.restore = Header /\ Distinct
  BY Zenon, <1>0 DEF SameEntries, Located
<1> QED
  BY Zenon, <1>0, <1>1, <1>5, <1>6, <1>7, <1>8, MonPlace

LEMMA MonFillPlace ==
  ASSUME Inv, PlaceInv, NEW c \in Procs,
         MonFields(c) \/ MonPassword(c) \/ MonProbes(c) \/ MonRegister(c)
  PROVE  PlaceInv'
<1>1. mon \in MonType /\ InsertInv(c) /\ RF_OFF \in Int /\ 0 \in Int
  BY SMT, Own DEF Types, RF_OFF
<1>2. {"mon_fields", "mon_password", "mon_probes", "mon_register"} = Filling \ {"mon_publish"}
  BY Zenon DEF Filling
<1>3. mon.status = "coming"
  BY Zenon, <1>1, <1>2 DEF MonFields, MonPassword, MonProbes, MonRegister, MonUpdate, InsertInv
<1>4. CASE MonFields(c)
  <2> DEFINE m == [mon EXCEPT !.state = RF_OFF, !.list = {}, !.size = 0]
  <2>1. m \in MonType /\ SameEntries(m)
    BY Zenon, <1>1, <1>3 DEF MonType, SameEntries
  <2>2. MonUpdate(c, "mon_fields", m, "mon_password")
    BY Zenon, <1>4 DEF MonFields
  <2> HIDE DEF m
  <2> QED
    BY Zenon, <1>2, <2>1, <2>2, MonUpdatePlace
<1>5. CASE MonPassword(c)
  <2>1. Hashed(mon) \in MonType /\ SameEntries(Hashed(mon))
    BY Zenon, <1>1, <1>3 DEF Hashed, MonType, SameEntries
  <2> QED
    BY Zenon, <1>2, <1>5, <2>1, MonUpdatePlace DEF MonPassword
<1>6. CASE MonProbes(c)
  <2> DEFINE m == [mon EXCEPT !.probes = "array"]
  <2>1. m \in MonType /\ SameEntries(m)
    BY Zenon, <1>1, <1>3 DEF MonType, SameEntries
  <2>2. MonUpdate(c, "mon_probes", m, "mon_register")
    BY Zenon, <1>6 DEF MonProbes
  <2> HIDE DEF m
  <2> QED
    BY Zenon, <1>2, <2>1, <2>2, MonUpdatePlace
<1>7. CASE MonRegister(c)
  <2>1. PICK r \in {"array", "registered"} :
          MonUpdate(c, "mon_register", [mon EXCEPT !.probes = r, !.status = "live"], "info")
    BY Zenon, <1>7 DEF MonRegister
  <2> DEFINE m == [mon EXCEPT !.probes = r, !.status = "live"]
  <2>2. m \in MonType /\ SameEntries(m)
    BY Zenon, <1>1, <1>3 DEF MonType, SameEntries
  <2>3. MonUpdate(c, "mon_register", m, "info")
    BY Zenon, <2>1
  <2> HIDE DEF m
  <2> QED
    BY Zenon, <1>2, <2>2, <2>3, MonUpdatePlace
<1> QED
  BY Zenon, <1>4, <1>5, <1>6, <1>7

LEMMA MonRemovePlace ==
  ASSUME Inv, PlaceInv, NEW c \in Procs, MonRemove(c) \/ CleanProbes(c)
  PROVE  PlaceInv'
<1>1. UNCHANGED <<boot, memory, disc>> /\ mon \in MonType /\ Located
  BY Zenon, Own DEF MonRemove, CleanProbes, MonUpdate, Types, PlaceInv
<1>2. CASE Finish(c) /\ UNCHANGED mon
  BY Zenon, <1>1, <1>2, FinishQuiet
<1>3. CASE /\ mon' = [mon EXCEPT !.status = "going"] /\ idx' = [idx EXCEPT ![c] = 1]
           /\ Goto(c, "rm_restore") /\ UNCHANGED request
  <2>1. /\ mon'.restore = mon.restore /\ mon'.status = "going"
        /\ mon'.syscalls_table_address = mon.syscalls_table_address
    BY Zenon, <1>1, <1>3 DEF MonType
  <2>2. Others(c)
    BY Zenon, <1>3, StepOthers DEF request
  <2>3. Undisturbed(c)
    BY Zenon, <1>1, <2>2 DEF Undisturbed, Others
  <2>4. pc'[c] = "rm_restore" /\ "rm_restore" \in Labels
    BY Zenon, <1>3, Own, HoldingLabels, GotoType
  <2>5. FillInv(c)'
    BY Zenon, <2>4 DEF FillInv, Filling
  <2>6. Stored'
    BY Zenon, <1>1, <2>1, SameStored
  <2> QED
    BY Zenon, <1>1, <1>3, <2>1, <2>3, <2>4, <2>5, <2>6, MonPlace DEF Located
<1>4. CASE CleanProbes(c)
  <2>1. UNCHANGED <<idx, arg>> /\ mon' = NoMon /\ Goto(c, "info")
    BY Zenon, <1>4 DEF CleanProbes, MonUpdate
  <2>2. NoMon.restore = << >> /\ NoMon.syscalls_table_address = NULL /\ NoMon.status = "none"
    BY Zenon DEF NoMon
  <2>3. Undisturbed(c)
    BY Zenon, <1>1, <2>1 DEF Undisturbed
  <2>4. pc'[c] = "info" /\ "info" \in Labels
    BY Zenon, <2>1, Own, GotoType DEF Labels
  <2>5. FillInv(c)'
    BY Zenon, <2>4 DEF FillInv, Filling
  <2>6. Stored'
    BY Zenon, <1>1, <2>1, <2>2, SameStored
  <2> QED
    BY Zenon, <1>1, <2>1, <2>2, <2>3, <2>4, <2>5, <2>6, MonPlace
<1> QED
  BY Zenon, <1>2, <1>3, <1>4 DEF MonRemove

LEMMA NextPlace ==
  ASSUME Inv, PlaceInv, Operators, [Next]_vars
  PROVE  PlaceInv'
<1>1. CASE Next
  <2>1. PICK c \in Procs : UserStep(c) \/ KernelStep(c)
    BY Zenon, <1>1 DEF Next
  <2>2. CASE UserStep(c) \/ FsStep(c) \/ CallStep(c)
    BY Zenon, <2>2, UserQuiet, FsQuiet, CallQuiet, QuietPlace
  <2>3. CASE MonStep(c)
    BY Zenon, <2>3, MonReadPlace, MonInsertPlace, MonEntriesPlace, MonPublishPlace, MonFillPlace,
       MonRemovePlace, RestorePlace DEF MonStep
  <2> QED
    BY Zenon, <2>1, <2>2, <2>3, DiscStepPlace DEF KernelStep
<1>2. CASE UNCHANGED vars
  <2>1. UNCHANGED <<boot, memory, disc, mon, arg, pc, idx>>
    BY Zenon, <1>2 DEF vars, request, client
  <2>2. Located' /\ Stored'
    BY Zenon, <2>1 DEF PlaceInv, Located, Stored, Entry
  <2>3. ASSUME NEW c \in Procs PROVE FillInv(c)'
    <3>1. FillInv(c)
      BY Zenon DEF PlaceInv
    <3>2. Saved => Saved'
      BY Zenon, <2>1 DEF Saved
    <3> QED
      BY Zenon, <2>1, <3>1, <3>2 DEF FillInv, Entry
  <2> QED
    BY Zenon, <2>2, <2>3 DEF PlaceInv
<1> QED
  BY Zenon, <1>1, <1>2

LEMMA InitPlace ==
  ASSUME Init
  PROVE  PlaceInv
<1>1. memory = boot.words /\ disc = NoDisc /\ mon = NoMon /\ pc = [c \in Procs |-> "info"]
  BY Zenon DEF Init, KernelInit
<1>2. /\ NoDisc.sys_call_table_address = NULL /\ NoDisc.free_entries = {}
      /\ NoMon.syscalls_table_address = NULL /\ NoMon.restore = << >> /\ NoMon.status = "none"
  BY Zenon DEF NoDisc, NoMon
<1>3. Located /\ Stored
  BY Zenon, <1>1, <1>2 DEF Located, Stored
<1>4. \A c \in Procs : FillInv(c)
  BY Zenon, <1>1 DEF FillInv, Filling
<1> QED
  BY Zenon, <1>3, <1>4 DEF PlaceInv

(*****************************************************************************)
(* The list and its size, and what the variables may hold                    *)
(*****************************************************************************)
\* Between the store that links or unlinks and the one that counts, the lock is held.
Holder(p) == pc[p] \in Changing /\ call[p] # "freed"

\* The size is that of the list, but for the holder of the lock; who has read a head
\* that is not NULL and will find a size of 0, and who has died, was disturbed.
ListInv ==
  /\ \A p, q \in Procs : Holder(p) /\ Holder(q) => p = q
  /\ \A p \in Procs : Holder(p) =>
       /\ mon.size = IF pc[p] = "add_count" THEN 0 ELSE 1
       /\ mon.list = {} <=> pc[p] = "rem_count"
  /\ ~Locked => mon.size = IF mon.list = {} THEN 0 ELSE 1
  /\ \A p \in Procs :
       /\ pc[p] = "prt_size" /\ call[p] # "freed" /\ idx[p] = 1 /\ mon.size = 0 => crowded[p]
       /\ pc[p] = "oops" => crowded[p]

LEMMA SizeRange ==
  ASSUME ListInv
  PROVE  mon.size \in {0, 1}
BY Zenon DEF ListInv, Locked, Holder

States   == RF_ON .. RF_REC_OFF
Answers  == {ENOSYS, EEXIST, EACCES, EPERM} \cup States
Purposes == {"menu", "home", "switch", "print"}

ClientInv ==
  /\ rf_state \in [Procs -> States] /\ purpose \in [Procs -> Purposes]
  /\ all \in [Procs -> BOOLEAN]

KernelInv ==
  /\ fs \in {"none", "live", "mounted"} /\ mon.state \in States
  /\ Cardinality(disc.free_entries) <= MAX_FREE

\* Labels with an index that does not count entries.
Apart == {"disc_scan", "sw_probe"}

\* The goal of a switch is a state, since the number of the call selects that call.
ProcInv(c) ==
  /\ (pc[c] = "call" /\ call[c] = "switch") \/ pc[c] \in {"sw_store", "sw_probe"}
       => arg[c].number \in States
  /\ pc[c] \notin Apart => idx[c] <= HACKED_ENTRIES
  /\ pc[c] = "sw_probe" => idx[c] <= NUM_KRETPROBES + 1

RangeInv ==
  ClientInv /\ KernelInv /\ ret \in [Procs -> Answers] /\ \A c \in Procs : ProcInv(c)

\* The loader may free the code of the others' calls.
Around(c) ==
  \A u \in Procs \ {c} :
    idx'[u] = idx[u] /\ arg'[u] = arg[u] /\ call'[u] \in {call[u], "freed"}

LEMMA RangeStep ==
  ASSUME Inv, RangeInv, NEW c \in Procs, NEW label \in Labels, Goto(c, label), Around(c),
         ClientInv', KernelInv', ret' \in [Procs -> Answers], ProcInv(c)'
  PROVE  RangeInv'
<1>1. ASSUME NEW u \in Procs \ {c} PROVE ProcInv(u)'
  <2>1. pc'[u] = pc[u] /\ ProcInv(u)
    BY Zenon, Own, GotoType DEF RangeInv
  <2>2. idx'[u] = idx[u] /\ arg'[u] = arg[u] /\ call'[u] \in {call[u], "freed"}
    BY Zenon DEF Around
  <2> QED
    BY Zenon, <2>1, <2>2 DEF ProcInv
<1> QED
  BY Zenon, <1>1 DEF RangeInv

LEMMA StateNumbers ==
  /\ {0, 1, 2, 3} = States /\ {RF_ON, RF_OFF, EXIT_FAILURE} \subseteq States
  /\ {0, 1, -1, EPERM, EACCES, EEXIST, ENOSYS} \subseteq Answers /\ States \subseteq Answers
  /\ \A v \in Answers : v < 0 \/ v \in States
BY SMT DEF States, Answers, RF_ON, RF_OFF, RF_REC_OFF, EXIT_FAILURE, EPERM, EACCES, EEXIST, ENOSYS

LEMMA ClientKept ==
  ASSUME ClientInv, NEW c \in Procs, UNCHANGED client \/ Die(c)
  PROVE  ClientInv'
<1>1. CASE UNCHANGED client
  BY Zenon, <1>1 DEF ClientInv, client
<1>2. CASE Die(c)
  <2>1. "home" \in Purposes /\ purpose' = [purpose EXCEPT ![c] = "home"] /\ UNCHANGED <<all, rf_state>>
    BY Zenon, <1>2 DEF Purposes, Die
  <2> QED
    BY Zenon, <2>1, Update DEF ClientInv
<1> QED
  BY Zenon, <1>1, <1>2

LEMMA KernelKept ==
  ASSUME KernelInv, UNCHANGED <<fs, mon, disc>>
  PROVE  KernelInv'
BY Zenon DEF KernelInv

\* A process elsewhere keeps its index or clears it.
LEMMA IndexKept ==
  ASSUME Inv, RangeInv, NEW c \in Procs, (pc[c] \notin Apart /\ UNCHANGED idx) \/ idx'[c] = 0
  PROVE  idx'[c] <= HACKED_ENTRIES
<1>1. 0 <= HACKED_ENTRIES
  BY SMT, TheCalls
<1> QED
  BY Zenon, <1>1 DEF RangeInv, ProcInv

\* A call enters the code that belongs to its number, or none.
LEMMA AskRange ==
  ASSUME Inv, PlaceInv, RangeInv, NEW c \in Procs, NEW k \in CallNames, NEW a,
         k = "switch" => a.number \in States, NEW why \in Purposes,
         a \in [number : Int, right : BOOLEAN], pc[c] \notin Apart, Ask(c, k, a, why)
  PROVE  RangeInv'
<1> DEFINE entry == memory[boot.table + Number[k]]
<1>0. /\ SysCall(c, k, a) /\ purpose' = [purpose EXCEPT ![c] = why]
      /\ rf_state' = [rf_state EXCEPT ![c] = RF_OFF] /\ all' = all
  BY Zenon DEF Ask
<1>1. UNCHANGED <<fs, mon, disc, idx>>
  BY Zenon, <1>0 DEF SysCall
<1>2. ClientInv'
  <2>1. RF_OFF \in States
    BY Zenon, StateNumbers
  <2>2. rf_state' \in [Procs -> States]
    BY Zenon, <1>0, <2>1, Update DEF RangeInv, ClientInv
  <2>3. purpose' \in [Procs -> Purposes]
    BY Zenon, <1>0, Update DEF RangeInv, ClientInv
  <2> QED
    BY Zenon, <1>0, <2>2, <2>3 DEF RangeInv, ClientInv
<1>3. KernelInv'
  BY Zenon, <1>1, KernelKept DEF RangeInv
<1>4. ret' \in [Procs -> Answers]
  <2>1. ret \in [Procs -> Answers] /\ ENOSYS \in Answers
    BY Zenon, StateNumbers DEF RangeInv
  <2>2. [ret EXCEPT ![c] = ENOSYS] \in [Procs -> Answers]
    BY Zenon, <2>1, Update
  <2>3. ret' = ret \/ ret' = [ret EXCEPT ![c] = ENOSYS]
    BY Zenon, <1>0 DEF SysCall
  <2> QED
    BY Zenon, <2>1, <2>2, <2>3
<1>5. Around(c)
  BY Zenon, <1>0, SysCallQuiet DEF Quiet, Others, Around
<1>6. CASE entry \notin CallNames
  <2>1. Goto(c, "answer") /\ "answer" \in Labels
    BY Zenon, <1>0, <1>6 DEF SysCall, Labels
  <2>2. pc'[c] = "answer"
    BY Zenon, <2>1, Own, GotoType
  <2>3. ProcInv(c)'
    BY Zenon, <1>1, <2>2, IndexKept DEF ProcInv
  <2> QED
    BY Zenon, <1>2, <1>3, <1>4, <1>5, <2>1, <2>3, RangeStep
<1>7. CASE entry \in CallNames
  <2>1. /\ Goto(c, "call") /\ call' = [call EXCEPT ![c] = entry] /\ arg' = [arg EXCEPT ![c] = a]
    BY Zenon, <1>0, <1>7 DEF SysCall
  <2>2. "call" \in Labels
    BY Zenon DEF Labels, Beginning
  <2>3. pc'[c] = "call"
    BY Zenon, <2>1, <2>2, Own, GotoType
  <2>4. entry = k
    <3>1. entry = k \/ entry = boot.words[Entry(k)]
      BY Zenon, EntryHolds DEF Entry
    <3> QED
      BY Zenon, <1>7, <3>1, AtBoot DEF Entry
  <2>5. call'[c] = k /\ arg'[c] = a
    BY Zenon, <2>1, <2>4, Own DEF Types
  <2>6. ProcInv(c)'
    BY Zenon, <1>1, <2>3, <2>5, IndexKept DEF ProcInv
  <2> QED
    BY Zenon, <1>2, <1>3, <1>4, <1>5, <2>1, <2>2, <2>6, RangeStep
<1> QED
  BY Zenon, <1>6, <1>7

LEMMA UserClient ==
  ASSUME RangeInv, NEW c \in Procs,
         \/ display_module_info(c) \/ Command(c) \/ Menu(c) \/ Refuse(c) \/ Leave(c)
         \/ change_state(c) \/ Report(c)
  PROVE  ClientInv' /\ ret' \in [Procs -> Answers]
<1>0. /\ rf_state \in [Procs -> States] /\ purpose \in [Procs -> Purposes]
      /\ all \in [Procs -> BOOLEAN] /\ ret \in [Procs -> Answers]
  BY Zenon DEF RangeInv, ClientInv
<1>1. RF_OFF \in States /\ "home" \in Purposes /\ 0 \in Answers /\ EXIT_FAILURE \in States
  BY Zenon, StateNumbers DEF Purposes
<1>2. ret' \in [Procs -> Answers]
  <2>1. ret' = ret \/ ret' = [ret EXCEPT ![c] = 0]
    BY Zenon DEF display_module_info, Command, Menu, Refuse, Leave, change_state, Report, Quit,
       Used, request
  <2>2. [ret EXCEPT ![c] = 0] \in [Procs -> Answers]
    BY Zenon, <1>0, <1>1, Update
  <2> QED
    BY Zenon, <1>0, <2>1, <2>2
<1>3. purpose' \in [Procs -> Purposes]
  <2>1. purpose' = purpose \/ purpose' = [purpose EXCEPT ![c] = "home"]
    BY Zenon DEF display_module_info, Command, Menu, Refuse, Leave, change_state, Report, Quit, Used
  <2>2. [purpose EXCEPT ![c] = "home"] \in [Procs -> Purposes]
    BY Zenon, <1>0, <1>1, Update
  <2> QED
    BY Zenon, <1>0, <2>1, <2>2
<1>4. all' \in [Procs -> BOOLEAN]
  <2>1. all' = all \/ \E b \in BOOLEAN : all' = [all EXCEPT ![c] = b]
    BY Zenon DEF display_module_info, Command, Menu, Refuse, Leave, change_state, Report, Quit, Used
  <2>2. \A b \in BOOLEAN : [all EXCEPT ![c] = b] \in [Procs -> BOOLEAN]
    BY Zenon, <1>0, Update
  <2> QED
    BY Zenon, <1>0, <2>1, <2>2
<1>5. rf_state' \in [Procs -> States]
  <2> DEFINE v == IF ret[c] < 0 THEN EXIT_FAILURE ELSE ret[c]
  <2>1. v \in States
    <3>1. ret[c] \in Answers
      BY Zenon, <1>0
    <3> QED
      BY Zenon, <1>1, <3>1, StateNumbers
  <2>2. rf_state' \in {rf_state, [rf_state EXCEPT ![c] = RF_OFF], [rf_state EXCEPT ![c] = v]}
    BY Zenon DEF display_module_info, Command, Menu, Refuse, Leave, change_state, Report, Quit, Used
  <2> HIDE DEF v
  <2>3. /\ [rf_state EXCEPT ![c] = RF_OFF] \in [Procs -> States]
        /\ [rf_state EXCEPT ![c] = v] \in [Procs -> States]
    BY Zenon, <1>0, <1>1, <2>1, Update
  <2> QED
    BY Zenon, <1>0, <2>2, <2>3
<1> QED
  BY Zenon, <1>2, <1>3, <1>4, <1>5 DEF ClientInv

LEMMA UserRange ==
  ASSUME Inv, PlaceInv, RangeInv, NEW c \in Procs, UserStep(c)
  PROVE  RangeInv'
<1>1. CASE get_function_number(c) \/ Choose(c) \/ print_blacklist(c)
  <2>1. /\ pc[c] \notin Apart /\ {"get", "switch", "add", "remove", "size", "print"} = CallNames
        /\ {"menu", "home", "switch", "print"} = Purposes
    BY Zenon, <1>1, TheCalls DEF get_function_number, Choose, print_blacklist, Purposes, Apart
  <2>2. CASE \E a \in Arguments(Goals) : Ask(c, "switch", a, "switch")
    <3>1. PICK a \in Arguments(Goals) : Ask(c, "switch", a, "switch")
      BY Zenon, <2>2
    <3>2. a.number \in Goals /\ a.number \in States
      BY Zenon, GoalsAssumption DEF Arguments, States
    <3>3. a \in [number : Int, right : BOOLEAN]
      <4>1. States \subseteq Int
        BY SMT DEF States
      <4> QED
        BY Zenon, <3>2, <4>1 DEF Arguments
    <3> QED
      BY Zenon, <2>1, <3>1, <3>2, <3>3, AskRange
  <2>3. CASE \E k \in CallNames \ {"switch"}, a \in [number : Int, right : BOOLEAN], why \in Purposes :
               Ask(c, k, a, why)
    <3>1. PICK k \in CallNames \ {"switch"}, a \in [number : Int, right : BOOLEAN], why \in Purposes :
            Ask(c, k, a, why)
      BY Zenon, <2>3
    <3>2. k \in CallNames /\ (k = "switch" => a.number \in States)
      BY Zenon, <3>1
    <3> QED
      BY Zenon, <2>1, <3>1, <3>2, AskRange
  <2>4. /\ NoArgument \in [number : Int, right : BOOLEAN]
        /\ [NoArgument EXCEPT !.number = ret[c]] \in [number : Int, right : BOOLEAN]
        /\ Arguments({NULL}) \subseteq [number : Int, right : BOOLEAN]
    <3>1. ret[c] \in Int /\ NULL \in Int
      BY SMT, Own DEF NULL
    <3> QED
      BY Zenon, <3>1, Nothing DEF Arguments
  <2>5. CASE get_function_number(c) \/ print_blacklist(c)
    BY Zenon, <2>1, <2>3, <2>4, <2>5 DEF get_function_number, print_blacklist
  <2>6. CASE Choose(c)
    BY Zenon, <2>1, <2>2, <2>3, <2>4, <2>6 DEF Choose
  <2> QED
    BY Zenon, <1>1, <2>5, <2>6
<1>2. CASE \/ display_module_info(c) \/ Command(c) \/ Menu(c) \/ Refuse(c) \/ Leave(c)
           \/ change_state(c) \/ Report(c)
  <2>1. ClientInv' /\ ret' \in [Procs -> Answers]
    BY Zenon, <1>2, UserClient
  <2>2. UNCHANGED <<fs, mon, disc, idx, call, arg>> /\ pc[c] \notin Apart
    BY Zenon, <1>2 DEF display_module_info, Command, Menu, Refuse, Leave, change_state, Report,
       Quit, Used, request, Apart
  <2>3. PICK label \in Plain : Goto(c, label)
    BY Zenon, <1>2, PlainLabels DEF display_module_info, Command, Menu, Refuse, Leave,
       change_state, Report, Quit
  <2>4. label \in Labels /\ label \notin {"call", "sw_store", "sw_probe"}
    BY Zenon DEF Plain, Calling
  <2>5. pc'[c] = label
    BY Zenon, <2>3, <2>4, Own, GotoType
  <2>6. ProcInv(c)'
    BY Zenon, <2>2, <2>4, <2>5, IndexKept DEF ProcInv
  <2>7. Around(c) /\ KernelInv'
    BY Zenon, <2>2, KernelKept DEF Around, RangeInv
  <2> QED
    BY Zenon, <2>1, <2>3, <2>4, <2>6, <2>7, RangeStep
<1> QED
  BY Zenon, <1>1, <1>2 DEF UserStep

\* A step in which no call begins or answers.
LEMMA MoveRange ==
  ASSUME Inv, RangeInv, NEW c \in Procs, UNCHANGED ret, UNCHANGED client \/ Die(c), Around(c),
         NEW label \in Labels \ Calling, Goto(c, label), KernelInv',
         label = "disc_scan" \/ idx'[c] <= HACKED_ENTRIES
  PROVE  RangeInv'
<1>1. ClientInv' /\ ret' \in [Procs -> Answers]
  BY Zenon, ClientKept DEF RangeInv
<1>2. pc'[c] = label
  BY Zenon, Own, GotoType
<1>3. label \notin {"call", "sw_store", "sw_probe"}
  BY Zenon DEF Calling
<1>4. ProcInv(c)'
  BY Zenon, <1>2, <1>3 DEF ProcInv, Apart
<1> QED
  BY Zenon, <1>1, <1>4, RangeStep

LEMMA EndRange ==
  ASSUME Inv, RangeInv, NEW c \in Procs, (Finish(c) /\ UNCHANGED client) \/ Die(c), KernelInv'
  PROVE  RangeInv'
<1>1. /\ UNCHANGED ret /\ (UNCHANGED client \/ Die(c)) /\ idx' = [idx EXCEPT ![c] = 0]
      /\ \E label \in Labels \ Calling : Goto(c, label)
  BY Zenon, PlainLabels DEF Finish, Die, Plain
<1>2. Around(c)
  BY Zenon, FinishOthers DEF Others, Around
<1>3. idx'[c] = 0
  BY Zenon, <1>1, Own DEF Types
<1>4. idx'[c] <= HACKED_ENTRIES
  BY Zenon, <1>3, IndexKept
<1> QED
  BY Zenon, <1>1, <1>2, <1>4, MoveRange

LEMMA FsRange ==
  ASSUME Inv, RangeInv, NEW c \in Procs, FsStep(c)
  PROVE  RangeInv'
<1>1. KernelInv'
  <2>1. UNCHANGED <<disc, mon>> /\ fs' \in {fs, "none", "live", "mounted"}
    BY Zenon DEF FsStep, FsInsert, FsMount, FsRemove
  <2> QED
    BY Zenon, <2>1 DEF KernelInv, RangeInv
<1>2. UNCHANGED client
  BY Zenon DEF FsStep, FsInsert, FsMount, FsRemove
<1>3. CASE Finish(c)
  BY Zenon, <1>1, <1>2, <1>3, EndRange
<1>4. CASE Goto(c, "fs_mount") /\ UNCHANGED <<idx, call, arg, ret>> /\ pc[c] = "fs_insert"
  <2>1. "fs_mount" \in Labels \ Calling /\ pc[c] \notin Apart /\ Around(c)
    BY Zenon, <1>4, PlainLabels DEF Plain, Around, Apart
  <2>2. idx'[c] <= HACKED_ENTRIES
    BY Zenon, <1>4, <2>1, IndexKept
  <2> QED
    BY Zenon, <1>1, <1>2, <1>4, <2>1, <2>2, MoveRange
<1> QED
  BY Zenon, <1>3, <1>4 DEF FsStep, FsInsert, FsMount, FsRemove, request

LEMMA DiscKernel ==
  ASSUME Inv, RangeInv, Operators, NEW c \in Procs, DiscStep(c)
  PROVE  KernelInv'
<1>1. UNCHANGED <<fs, mon>> /\ KernelInv /\ disc \in DiscType
  BY Zenon, Own DEF DiscStep, DiscInsert, DiscScan, DiscFail, DiscFree, DiscRemove, RangeInv, Types
<1>2. \A S \in SUBSET (0 .. TableSize - 1) :
        Cardinality({i \in S : Cardinality({j \in S : j < i}) < MAX_FREE}) <= MAX_FREE
  BY Zenon DEF Operators
<1>3. CASE disc'.free_entries = disc.free_entries
  BY Zenon, <1>1, <1>3 DEF KernelInv
<1>4. CASE disc'.free_entries = {}
  <2>1. {i \in {} : Cardinality({j \in {} : j < i}) < MAX_FREE} = {}
    BY Zenon
  <2> QED
    BY Zenon, <1>1, <1>2, <1>4, <2>1 DEF KernelInv
<1>5. CASE \E S \in SUBSET (0 .. TableSize - 1) :
             disc'.free_entries = {i \in S : Cardinality({j \in S : j < i}) < MAX_FREE}
  BY Zenon, <1>1, <1>2, <1>5 DEF KernelInv
<1>6. CASE DiscInsert(c) \/ DiscScan(c) \/ DiscFail(c)
  <2>1. disc'.free_entries = disc.free_entries
    BY Zenon, <1>1, <1>6 DEF DiscInsert, DiscScan, DiscFail, DiscType
  <2> QED
    BY Zenon, <1>3, <2>1
<1>7. CASE DiscFree(c)
  <2> DEFINE free == {i \in 0 .. TableSize - 1 :
                         memory[disc.sys_call_table_address + i] = disc.hacked_ni_syscall}
             first == {i \in free : Cardinality({j \in free : j < i}) < MAX_FREE}
  <2>1. disc' = [disc EXCEPT !.status = "live", !.free_entries = first]
    BY Zenon, <1>7 DEF DiscFree
  <2>2. free \in SUBSET (0 .. TableSize - 1)
    BY Zenon
  <2> HIDE DEF free
  <2>3. disc'.free_entries = first
    BY Zenon, <1>1, <2>1 DEF DiscType
  <2> QED
    BY Zenon, <1>5, <2>2, <2>3
<1>8. CASE DiscRemove(c)
  BY Zenon, <1>3, <1>4, <1>8 DEF DiscRemove, NoDisc
<1> QED
  BY Zenon, <1>6, <1>7, <1>8 DEF DiscStep

LEMMA DiscRange ==
  ASSUME Inv, RangeInv, Operators, NEW c \in Procs, DiscStep(c)
  PROVE  RangeInv'
<1>1. KernelInv'
  BY Zenon, DiscKernel
<1>2. CASE (Finish(c) /\ UNCHANGED client) \/ Die(c)
  BY Zenon, <1>1, <1>2, EndRange
<1>3. CASE /\ UNCHANGED <<call, arg, ret, client>> /\ \E v : idx' = [idx EXCEPT ![c] = v]
           /\ Goto(c, "disc_scan") \/ (Goto(c, "disc_free") /\ idx' = [idx EXCEPT ![c] = 0])
  <2>1. {"disc_scan", "disc_free"} \subseteq Labels \ Calling
    BY Zenon DEF Labels, Inserting, Calling, Changing
  <2>2. Around(c)
    BY Zenon, <1>3, StepOthers DEF Others, Around
  <2>3. CASE Goto(c, "disc_scan")
    BY ZenonT(30), <1>1, <1>3, <2>1, <2>2, <2>3, MoveRange
  <2>4. CASE Goto(c, "disc_free") /\ idx' = [idx EXCEPT ![c] = 0]
    <3>1. idx'[c] = 0
      BY Zenon, <2>4, Own DEF Types
    <3>2. idx'[c] <= HACKED_ENTRIES
      BY Zenon, <3>1, IndexKept
    <3> QED
      BY Zenon, <1>1, <1>3, <2>1, <2>2, <2>4, <3>2, MoveRange
  <2> QED
    BY Zenon, <1>3, <2>3, <2>4
<1>4. CASE DiscInsert(c)
  BY Zenon, <1>2, <1>3, <1>4 DEF DiscInsert, request
<1>5. CASE DiscScan(c)
  BY Zenon, <1>2, <1>3, <1>5 DEF DiscScan, request
<1>6. CASE DiscFail(c) \/ DiscFree(c) \/ DiscRemove(c)
  BY Zenon, <1>2, <1>6 DEF DiscFail, DiscFree, DiscRemove
<1> QED
  BY Zenon, <1>4, <1>5, <1>6 DEF DiscStep

\* The state of the monitor is a state: zero, RF_OFF, or what it was.
LEMMA MonKernel ==
  ASSUME Inv, RangeInv, NEW c \in Procs, MonStep(c)
  PROVE  KernelInv'
<1>1. UNCHANGED <<fs, disc>> /\ KernelInv /\ mon \in MonType /\ NoMon.state = 0
  BY Zenon, Own DEF MonStep, MonRead, MonInsert, MonEntries, MonPublish, MonFields, MonPassword,
     MonProbes, MonRegister, MonRemove, Restore, CleanProbes, Store, MonUpdate, RangeInv, Types, NoMon
<1>2. CASE mon'.state = mon.state
  BY Zenon, <1>1, <1>2 DEF KernelInv
<1>3. CASE mon'.state \in {0, RF_OFF}
  BY Zenon, <1>1, <1>3, StateNumbers DEF KernelInv
<1>4. CASE MonRead(c) \/ MonPublish(c) \/ Restore(c)
  BY Zenon, <1>2, <1>4 DEF MonRead, MonPublish, Restore, Store
<1>5. CASE MonInsert(c)
  BY Zenon, <1>2, <1>3, <1>5 DEF MonInsert, NoMon
<1>6. CASE MonEntries(c)
  <2>1. mon'.state = mon.state \/ mon' = NoMon
    BY Zenon, <1>1, <1>6 DEF MonEntries, MonType
  <2> QED
    BY Zenon, <1>1, <1>2, <1>3, <2>1
<1>7. CASE MonFields(c) \/ MonPassword(c) \/ MonProbes(c) \/ MonRegister(c)
  BY Zenon, <1>1, <1>2, <1>3, <1>7
     DEF MonFields, MonPassword, MonProbes, MonRegister, MonUpdate, Hashed, MonType
<1>8. CASE MonRemove(c)
  BY Zenon, <1>1, <1>2, <1>8 DEF MonRemove, MonType
<1>9. CASE CleanProbes(c)
  BY Zenon, <1>1, <1>3, <1>9 DEF CleanProbes, MonUpdate
<1> QED
  BY Zenon, <1>4, <1>5, <1>6, <1>7, <1>8, <1>9 DEF MonStep

\* The steps of the insertion and the removal that set or keep the index.
LEMMA MonIndexRange ==
  ASSUME Inv, RangeInv, NEW c \in Procs, UNCHANGED <<ret, client>>, KernelInv', Around(c),
         NEW label \in Inserting \cup {"info"}, Goto(c, label),
         (pc[c] \notin Apart /\ UNCHANGED idx) \/ idx' = [idx EXCEPT ![c] = 1]
  PROVE  RangeInv'
<1>1. label \in Labels \ Calling
  BY Zenon DEF Labels, Inserting, Calling, Changing
<1>2. idx'[c] <= HACKED_ENTRIES
  <2>1. CASE idx' = [idx EXCEPT ![c] = 1]
    <3>1. idx'[c] = 1
      BY Zenon, <2>1, Own DEF Types
    <3> QED
      BY SMT, <3>1, TheCalls
  <2> QED
    BY Zenon, <2>1, IndexKept
<1> QED
  BY Zenon, <1>1, <1>2, MoveRange

LEMMA StoreRange ==
  ASSUME Inv, RangeInv, NEW c \in Procs, NEW word, NEW loop \in {"mon_publish", "rm_restore"},
         NEW after \in Inserting, Store(c, word, HACKED_ENTRIES, loop, after), KernelInv'
  PROVE  RangeInv'
<1> DEFINE i == idx[c]
           next == IF i = HACKED_ENTRIES THEN 0 ELSE i + 1
           label == IF i = HACKED_ENTRIES THEN after ELSE loop
<1>1. /\ idx' = [idx EXCEPT ![c] = next] /\ Goto(c, label) /\ UNCHANGED <<call, arg, ret, client>>
      /\ pc[c] = loop
  BY Zenon DEF Store, request
<1>2. label \in Labels \ Calling
  BY Zenon DEF Labels, Inserting, Calling, Changing
<1>3. i \in Turns
  BY Zenon, <1>1, Own DEF InsertInv
<1>4. next <= HACKED_ENTRIES
  BY SMT, <1>3, TheCalls DEF Turns
<1> HIDE DEF next, label
<1>5. idx'[c] = next
  BY Zenon, <1>1, Own DEF Types
<1>6. Around(c)
  BY Zenon, <1>1, StepOthers DEF Others, Around
<1> QED
  BY Zenon, <1>1, <1>2, <1>4, <1>5, <1>6, MoveRange

LEMMA MonRange ==
  ASSUME Inv, RangeInv, NEW c \in Procs, MonStep(c)
  PROVE  RangeInv'
<1>1. KernelInv'
  BY Zenon, MonKernel
<1>2. CASE (Finish(c) /\ UNCHANGED client) \/ Die(c)
  BY Zenon, <1>1, <1>2, EndRange
<1>3. CASE /\ UNCHANGED <<call, ret, client>>
           /\ arg' = arg \/ \E v : arg' = [arg EXCEPT ![c] = v]
           /\ \E label \in Inserting \cup {"info"} : Goto(c, label)
           /\ (pc[c] \notin Apart /\ UNCHANGED idx) \/ idx' = [idx EXCEPT ![c] = 1]
  <2>1. Around(c)
    BY Zenon, <1>3, StepOthers DEF Others, Around
  <2> QED
    BY Zenon, <1>1, <1>3, <2>1, MonIndexRange
<1>4. {"mon_insert", "mon_entries", "mon_publish", "mon_fields", "mon_password", "mon_probes",
       "mon_register", "rm_restore", "rm_probes"} \subseteq Inserting \ Apart
  BY Zenon DEF Inserting, Apart
<1>5. CASE MonRead(c)
  <2>1. CASE arg' = [arg EXCEPT ![c].number = disc.sys_call_table_address]
    <3>1. \E v : arg' = [arg EXCEPT ![c] = v]
      BY Zenon, <2>1
    <3> QED
      BY Zenon, <1>2, <1>3, <1>4, <1>5, <3>1 DEF MonRead, Apart
  <2> QED
    BY Zenon, <1>2, <1>5, <2>1 DEF MonRead, Apart
<1>6. CASE MonInsert(c)
  BY Zenon, <1>2, <1>3, <1>4, <1>6 DEF MonInsert, Apart
<1>7. CASE MonEntries(c)
  BY Zenon, <1>2, <1>3, <1>4, <1>7 DEF MonEntries, request
<1>8. CASE MonPublish(c) \/ Restore(c)
  BY Zenon, <1>1, <1>4, <1>8, StoreRange DEF MonPublish, Restore
<1>9. CASE MonFields(c) \/ MonPassword(c) \/ MonProbes(c) \/ MonRegister(c)
  BY Zenon, <1>3, <1>4, <1>9 DEF MonFields, MonPassword, MonProbes, MonRegister, MonUpdate
<1>10. CASE MonRemove(c)
  BY Zenon, <1>2, <1>3, <1>4, <1>10 DEF MonRemove, request, Apart
<1>11. CASE CleanProbes(c)
  <2>1. /\ UNCHANGED <<idx, arg, ret, client>> /\ Goto(c, "info") /\ pc[c] \notin Apart
        /\ \A u \in Procs : call'[u] \in {call[u], "freed"}
    BY Zenon, <1>11 DEF CleanProbes, MonUpdate, Apart
  <2>2. Around(c)
    BY Zenon, <2>1 DEF Around
  <2> QED
    BY Zenon, <1>1, <2>1, <2>2, MonIndexRange
<1> QED
  BY Zenon, <1>5, <1>6, <1>7, <1>8, <1>9, <1>10, <1>11 DEF MonStep

LEMMA CallRange ==
  ASSUME Inv, RangeInv, ListInv, NEW c \in Procs, CallStep(c)
  PROVE  RangeInv'
<1>1. KernelInv /\ ProcInv(c) /\ ClientInv /\ ret \in [Procs -> Answers] /\ mon.state \in States
  BY Zenon DEF RangeInv, KernelInv
<1>2. ASSUME UNCHANGED <<disc, fs>>, mon'.state \in States PROVE KernelInv'
  BY Zenon, <1>1, <1>2 DEF KernelInv
<1>3. ASSUME NEW m, NEW v \in Answers, Answer(c, m, v), m.state \in States
      PROVE  RangeInv'
  <2>1. /\ ret' = [ret EXCEPT ![c] = v] /\ Goto(c, "answer") /\ UNCHANGED <<disc, fs, client>>
        /\ mon' = m /\ call' = [call EXCEPT ![c] = "get"] /\ arg' = [arg EXCEPT ![c] = NoArgument]
        /\ idx' = [idx EXCEPT ![c] = 0]
    BY Zenon, <1>3 DEF Answer
  <2>2. KernelInv' /\ ClientInv'
    BY Zenon, <1>1, <1>2, <1>3, <2>1, ClientKept
  <2>3. ret' \in [Procs -> Answers]
    BY Zenon, <1>1, <1>3, <2>1, Update
  <2>4. Around(c)
    BY Zenon, <2>1, StepOthers DEF Others, Around
  <2>5. "answer" \in Labels
    BY Zenon DEF Labels
  <2>6. pc'[c] = "answer" /\ idx'[c] = 0
    BY Zenon, <2>1, <2>5, Own, GotoType DEF Types
  <2>7. ProcInv(c)'
    BY Zenon, <2>6, IndexKept DEF ProcInv
  <2> QED
    BY Zenon, <2>1, <2>2, <2>3, <2>4, <2>5, <2>7, RangeStep
<1>4. ASSUME NEW m, NEW i \in Nat, NEW label \in Calling \ {"call"}, Proceed(c, m, i, label),
             m.state \in States, label \in {"sw_store", "sw_probe"} => arg[c].number \in States,
             i <= IF label = "sw_probe" THEN NUM_KRETPROBES + 1 ELSE HACKED_ENTRIES
      PROVE  RangeInv'
  <2>1. /\ Goto(c, label) /\ UNCHANGED <<disc, fs, client, call, arg, ret>> /\ mon' = m
        /\ idx' = [idx EXCEPT ![c] = i]
    BY Zenon, <1>4 DEF Proceed, request
  <2>2. KernelInv' /\ ClientInv' /\ ret' \in [Procs -> Answers]
    BY Zenon, <1>1, <1>2, <1>4, <2>1, ClientKept
  <2>3. Around(c)
    BY Zenon, <2>1, StepOthers DEF Others, Around
  <2>4. label \in Labels
    BY Zenon DEF Labels
  <2>5. pc'[c] = label /\ idx'[c] = i
    BY Zenon, <2>1, <2>4, Own, GotoType DEF Types
  <2>6. ProcInv(c)'
    BY Zenon, <1>4, <2>1, <2>5 DEF ProcInv, Apart
  <2> QED
    BY Zenon, <2>1, <2>2, <2>3, <2>4, <2>6, RangeStep
<1>5. CASE CallDies(c)
  BY Zenon, <1>1, <1>2, <1>5, EndRange DEF CallDies
<1>6. CASE OnlyAnswers(c)
  <2>1. {mon.state, mon.size, 0, 1, -1, EPERM, EACCES, EEXIST} \subseteq Answers
    BY Zenon, <1>1, SizeRange, StateNumbers
  <2> QED
    BY Zenon, <1>1, <1>3, <1>6, <2>1 DEF OnlyAnswers
<1>7. {"sw_store", "sw_probe", "add_link", "rem_unlink", "prt_size", "add_count", "rem_count"}
        \subseteq Calling \ {"call"}
  BY Zenon DEF Calling, Changing
<1>8. CASE OnlyProceeds(c)
  <2>1. \A i \in {0, 1} : i \in Nat /\ i <= HACKED_ENTRIES
    BY SMT, TheCalls
  <2>2. \E i \in {0, 1} : \E label \in {"sw_store", "add_link", "rem_unlink", "prt_size"} :
          Proceed(c, mon, i, label) /\ (label = "sw_store" => arg[c].number \in States)
    BY Zenon, <1>1, <1>8 DEF OnlyProceeds, ProcInv
  <2>3. PICK i \in {0, 1} : \E label \in {"sw_store", "add_link", "rem_unlink", "prt_size"} :
          Proceed(c, mon, i, label) /\ (label = "sw_store" => arg[c].number \in States)
    BY Zenon, <2>2
  <2>4. PICK label \in {"sw_store", "add_link", "rem_unlink", "prt_size"} :
          Proceed(c, mon, i, label) /\ (label = "sw_store" => arg[c].number \in States)
    BY Zenon, <2>3
  <2>5. label # "sw_probe" /\ label \in Calling \ {"call"}
    BY Zenon, <1>7
  <2> QED
    BY Zenon, <1>1, <1>4, <2>1, <2>4, <2>5
<1>9. CASE Stores(c)
  <2>1. 1 \in Nat /\ 1 <= NUM_KRETPROBES + 1
    BY SMT, MemoryAssumption
  <2>2. PICK m : SetState(m, arg[c].number) /\ Proceed(c, m, 1, "sw_probe")
    BY Zenon, <1>9 DEF Stores
  <2>3. arg[c].number \in States
    BY Zenon, <1>1, <1>9 DEF Stores, ProcInv
  <2>4. m.state \in States
    BY Zenon, <2>2, <2>3, CallTypes
  <2> QED
    BY Zenon, <1>4, <1>7, <2>1, <2>2, <2>3, <2>4
<1>10. CASE TurnsProbe(c)
  <2>1. idx[c] \in Probes /\ idx[c] + 1 \in Nat /\ idx[c] + 1 <= NUM_KRETPROBES + 1
    BY Zenon, <1>10, ProbeIndex DEF TurnsProbe
  <2>2. PICK m : SetEnabled(m, Turned(c)) /\ Proceed(c, m, idx[c] + 1, "sw_probe")
    BY Zenon, <1>10 DEF TurnsProbe
  <2>3. arg[c].number \in States
    BY Zenon, <1>1, <1>10 DEF TurnsProbe, ProcInv
  <2>4. m.state \in States
    BY Zenon, <1>1, <2>1, <2>2, CallTypes
  <2> QED
    BY Zenon, <1>4, <1>7, <2>1, <2>2, <2>3, <2>4
<1>11. CASE Links(c)
  <2>1. 0 \in Nat /\ 0 <= HACKED_ENTRIES
    BY SMT, TheCalls
  <2>2. PICK m : \E L \in {mon.list \cup {Path}, mon.list \ {Path}}, label \in {"add_count", "rem_count"} :
                   SetList(m, L) /\ Proceed(c, m, 0, label)
    BY Zenon, <1>11 DEF Links
  <2>3. m.state \in States
    BY Zenon, <1>1, <2>2, CallTypes
  <2>4. PICK label \in {"add_count", "rem_count"} : Proceed(c, m, 0, label)
    BY Zenon, <2>2
  <2>5. label \notin {"sw_store", "sw_probe"} /\ label \in Calling \ {"call"}
    BY Zenon, <1>7
  <2> QED
    BY Zenon, <1>4, <2>1, <2>3, <2>4, <2>5
<1>12. CASE Counts(c)
  <2>1. PICK m : \E n \in {mon.size + 1, mon.size - 1} : SetSize(m, n) /\ Answer(c, m, 0)
    BY Zenon, <1>12 DEF Counts
  <2>2. m.state \in States
    BY Zenon, <1>1, <2>1, CallTypes
  <2> QED
    BY Zenon, <1>3, <2>1, <2>2, StateNumbers
<1> QED
  BY Zenon, <1>5, <1>6, <1>8, <1>9, <1>10, <1>11, <1>12, Outcomes

LEMMA NextRange ==
  ASSUME Inv, PlaceInv, RangeInv, ListInv, Operators, [Next]_vars
  PROVE  RangeInv'
<1>1. CASE Next
  BY Zenon, <1>1, UserRange, DiscRange, FsRange, MonRange, CallRange DEF Next, KernelStep
<1>2. CASE UNCHANGED vars
  <2>1. /\ UNCHANGED <<rf_state, purpose, all, fs, mon, disc, ret>>
        /\ UNCHANGED <<pc, idx, call, arg>>
    BY Zenon, <1>2 DEF vars, request, client
  <2> QED
    BY Zenon, <2>1 DEF RangeInv, ClientInv, KernelInv, ProcInv
<1> QED
  BY Zenon, <1>1, <1>2

LEMMA InitRange ==
  ASSUME Init, Operators
  PROVE  RangeInv
<1>1. /\ disc = NoDisc /\ mon = NoMon /\ fs = "none" /\ idx = [c \in Procs |-> 0]
      /\ ret = [c \in Procs |-> 0] /\ pc = [c \in Procs |-> "info"]
      /\ rf_state = [c \in Procs |-> RF_OFF] /\ purpose = [c \in Procs |-> "home"]
      /\ all = [c \in Procs |-> FALSE]
  BY Zenon DEF Init, KernelInit
<1>2. 0 \in States /\ RF_OFF \in States /\ 0 \in Answers /\ "home" \in Purposes
  BY Zenon, StateNumbers DEF Purposes
<1>3. 0 <= HACKED_ENTRIES
  BY SMT, TheCalls
<1>4. ClientInv /\ ret \in [Procs -> Answers]
  BY Zenon, <1>1, <1>2 DEF ClientInv
<1>5. KernelInv
  <2>1. Cardinality({i \in {} : Cardinality({j \in {} : j < i}) < MAX_FREE}) <= MAX_FREE
    BY Zenon DEF Operators
  <2>2. {i \in {} : Cardinality({j \in {} : j < i}) < MAX_FREE} = {}
    BY Zenon
  <2> QED
    BY Zenon, <1>1, <1>2, <2>1, <2>2 DEF KernelInv, NoDisc, NoMon
<1>6. \A c \in Procs : ProcInv(c)
  BY Zenon, <1>1, <1>3 DEF ProcInv, Apart
<1> QED
  BY Zenon, <1>4, <1>5, <1>6 DEF RangeInv
================================================================================
