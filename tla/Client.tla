--------------------------------- MODULE Client --------------------------------
(*****************************************************************************)
(* The client: a page that shows, inserts and removes the modules, and a     *)
(* menu over the system calls, whose entries depend on the state of the      *)
(* monitor.  Several clients run at once, over the modules of Lifecycle.     *)
(*                                                                           *)
(*   main, display_module_info, get_function_number, get_rf_state,           *)
(*   change_state, add_to_blacklist, remove_from_blacklist, print_blacklist, *)
(*   getpasswd                                                 (client.c)    *)
(*                                                                           *)
(* What the user types is any of the inputs that the code tells apart.       *)
(*****************************************************************************)
EXTENDS Lifecycle

CONSTANT
  Goals         \* states that users switch to

ASSUME GoalsAssumption == Goals \subseteq RF_ON .. RF_REC_OFF

\* all:      the page that the client shows has all three modules
\* rf_state: the state its menu was made for
\* purpose:  what the answer of its call is for
vars == <<boot, memory, disc, fs, mon, request, pc, idx, settled, crowded, client>>

EXIT_FAILURE == 1

Init ==
  /\ KernelInit
  /\ pc = [c \in Procs |-> "info"]
  /\ all = [c \in Procs |-> FALSE]
  /\ rf_state = [c \in Procs |-> RF_OFF]
  /\ purpose = [c \in Procs |-> "home"]

\* display_module_info, up to the prompt.
display_module_info(c) ==
  /\ pc[c] = "info"
  /\ all' = [all EXCEPT ![c] = disc.status # "none" /\ fs # "none" /\ mon.status # "none"]
  /\ Goto(c, "command")
  /\ UNCHANGED <<boot, memory, disc, fs, mon, request, idx, settled, rf_state, purpose>>

\* The command that is typed, with its module number: exit, home, an insertion, a
\* removal, or none of these, after which the modules are displayed again.
Command(c) ==
  /\ pc[c] = "command"
  /\ \E label \in {"gone", "info", "disc_insert", "fs_insert", "mon_read",
                   "disc_remove", "fs_remove", "mon_remove"}
                  \cup IF all[c] THEN {"home"} ELSE {} : Goto(c, label)
  /\ all' = [all EXCEPT ![c] = FALSE]
  /\ UNCHANGED <<boot, memory, disc, fs, mon, request, idx, settled, rf_state, purpose>>

\* A system call, with what its answer is for.
Ask(c, k, a, why) ==
  /\ SysCall(c, k, a)
  /\ purpose' = [purpose EXCEPT ![c] = why]
  /\ rf_state' = [rf_state EXCEPT ![c] = RF_OFF]
  /\ UNCHANGED all

\* The answer of the call has been used.
Used(c) ==
  /\ ret' = [ret EXCEPT ![c] = 0]
  /\ purpose' = [purpose EXCEPT ![c] = "home"]
  /\ UNCHANGED <<boot, memory, disc, fs, mon, idx, call, arg, settled, all>>

\* get_function_number asks for the state first.
get_function_number(c) ==
  /\ pc[c] = "home"
  /\ Ask(c, "get", NoArgument, "menu")

\* An error of get_rf_state is EXIT_FAILURE, which is the number of RF_OFF.
Menu(c) ==
  /\ pc[c] = "answer"
  /\ purpose[c] = "menu"
  /\ rf_state' = [rf_state EXCEPT ![c] = IF ret[c] < 0 THEN EXIT_FAILURE ELSE ret[c]]
  /\ Goto(c, "menu")
  /\ Used(c)

\* The menu is left without a call.
Quit(c, label) ==
  /\ Goto(c, label)
  /\ rf_state' = [rf_state EXCEPT ![c] = RF_OFF]
  /\ UNCHANGED <<boot, memory, disc, fs, mon, request, idx, settled, all, purpose>>

\* An invalid number, a state that does not exist or an empty password.
Refuse(c) ==
  /\ pc[c] = "menu"
  /\ Quit(c, "home")

\* "Exit" has the number 3 or 6, by the state the menu was made for.
Leave(c) ==
  /\ pc[c] = "menu"
  /\ Quit(c, "info")

\* What getpasswd reads and main does not refuse: the password, or another one.
Arguments(numbers) == [number : numbers, right : BOOLEAN]

\* Numbers 1 to 5.  Number 3 is "Exit" outside the REC states; 4 and 5 are taken
\* whether or not the menu has shown them.
Choose(c) ==
  /\ pc[c] = "menu"
  /\ \/ \E a \in Arguments(Goals) : Ask(c, "switch", a, "switch")
     \/ Ask(c, "get", NoArgument, "home")
     \/ /\ rf_state[c] \in {RF_REC_ON, RF_REC_OFF}
        /\ \E a \in Arguments({NULL}) : Ask(c, "add", a, "home")
     \/ \E a \in Arguments({NULL}) : Ask(c, "remove", a, "home")
     \/ Ask(c, "size", NoArgument, "print")

\* change_state: an error other than EACCES and EPERM ends the client.
change_state(c) ==
  /\ pc[c] = "answer"
  /\ purpose[c] = "switch"
  /\ Goto(c, IF ret[c] < 0 /\ ret[c] \notin {EACCES, EPERM} THEN "gone" ELSE "home")
  /\ Used(c)
  /\ UNCHANGED rf_state

\* The answer is printed.
Report(c) ==
  /\ pc[c] = "answer"
  /\ purpose[c] = "home" \/ (purpose[c] = "print" /\ ret[c] < 0)
  /\ Goto(c, "home")
  /\ Used(c)
  /\ UNCHANGED rf_state

\* The size is the argument of the print.
print_blacklist(c) ==
  /\ pc[c] = "answer"
  /\ purpose[c] = "print"
  /\ ret[c] >= 0
  /\ Ask(c, "print", [NoArgument EXCEPT !.number = ret[c]], "home")

--------------------------------------------------------------------------------
UserStep(c) ==
  \/ display_module_info(c) \/ Command(c) \/ get_function_number(c) \/ Menu(c) \/ Refuse(c)
  \/ Leave(c) \/ Choose(c) \/ change_state(c) \/ Report(c) \/ print_blacklist(c)

Next == \E c \in Procs : UserStep(c) \/ KernelStep(c)

Spec == Init /\ [][Next]_vars

--------------------------------------------------------------------------------
Labels == Inserting \cup Beginning \cup Calling
            \cup {"info", "command", "home", "menu", "answer", "oops", "gone"}

TypeOK ==
  /\ boot \in Images
  /\ memory \in [Addresses -> Words]
  /\ disc \in [status : {"none", "coming", "live"},
               sys_call_table_address : {NULL} \cup Scanned,
               hacked_ni_syscall : {NoWord} \cup Words,
               free_entries : SUBSET (0 .. TableSize - 1)]
  /\ Cardinality(disc.free_entries) <= MAX_FREE
  /\ fs \in {"none", "live", "mounted"}
  /\ mon \in [status : {"none", "coming", "live", "going"},
              syscalls_table_address : {NULL} \cup Scanned,
              restore : {<< >>} \cup [1 .. HACKED_ENTRIES -> 0 .. TableSize - 1],
              the_ni_syscall : {NoWord} \cup Words,
              state : RF_ON .. RF_REC_OFF, list : SUBSET {Path}, size : 0 .. 1,
              password : BOOLEAN, probes : {"none", "array", "registered"},
              enabled : SUBSET Probes]
  /\ settled \in BOOLEAN
  /\ pc \in [Procs -> Labels]
  /\ \A c \in Procs :
       idx[c] \in 0 .. CASE pc[c] = "disc_scan" -> Pages
                         [] pc[c] = "sw_probe"  -> NUM_KRETPROBES + 1
                         [] OTHER               -> HACKED_ENTRIES
  /\ call \in [Procs -> CallNames \cup {"freed"}]
  /\ arg \in [Procs -> [number : Int, right : BOOLEAN]]
  /\ ret \in [Procs -> {ENOSYS, EEXIST, EACCES, EPERM} \cup RF_ON .. RF_REC_OFF]
  /\ rf_state \in [Procs -> RF_ON .. RF_REC_OFF]
  /\ purpose \in [Procs -> {"menu", "home", "switch", "print"}]
  /\ all \in [Procs -> BOOLEAN] /\ crowded \in [Procs -> BOOLEAN]

\* Without the monitor the system call table is what it was at boot, however
\* insertions, removals and calls have interleaved (cleanup_module).
TableIsRestored == mon.status = "none" => memory = boot.words

\* The numbers of client.h always select their own call or what they selected at
\* boot, although get_entries finds the entries at run time; their own call from
\* the end of the insertion of the monitor until its removal begins.
NumbersReachTheirCalls ==
  \A k \in CallNames :
    LET entry == boot.table + Number[k]
    IN  memory[entry] = k \/ (memory[entry] = boot.words[entry] /\ mon.status # "live")

\* What the discoverer exposes is the table and entries that were free at boot;
\* and no process dies of reading a page that is not mapped (validate_page).
DiscoveryIsSound ==
  /\ disc.sys_call_table_address \in {NULL, boot.table}
  /\ \A i \in disc.free_entries :
       boot.words[boot.table + i] = boot.words[boot.table + FIRST_NI_SYSCALL]
  /\ disc.status = "coming" => \E c \in Procs : pc[c] \in {"disc_scan", "disc_free"}

\* A process dies in the kernel only if, since its command or call began, another
\* one has been inserting or removing a module, or between the two stores by which
\* add_to_blacklist and remove_from_blacklist change list and size.
AloneIsSafe == \A c \in Procs : pc[c] = "oops" => crowded[c]

\* In a live monitor whose probes were registered all of them are enabled, or none,
\* as the state says, from its insertion on and after every switch that met no other:
\* whatever calls before the end of the insertion, or switches at the same time, have
\* left behind, the next switch that is alone repairs (sys_switch_rf_state).
LoneSwitchSettles ==
  mon.status = "live" /\ mon.probes = "registered" /\ settled /\ Switching = {}
    => mon.enabled = IF Enforcing(mon.state) THEN Probes ELSE {}
================================================================================
