---------------------------- MODULE ClientTheorems -----------------------------
(*****************************************************************************)
(* What the calls share, what the loops over memory return, and the theorems *)
(* about Client.                                                             *)
(*****************************************************************************)
EXTENDS ClientPlaces, FiniteSetTheorems, WellFoundedInduction

(*****************************************************************************)
(* The list, its size, the state and the probes                              *)
(*****************************************************************************)
\* A probe is enabled as the state says.
Agrees(i) == i \in mon.enabled <=> Enforcing(mon.state)

\* Inside init_module, once it has set the state.
Preparing == {"mon_password", "mon_probes", "mon_register"}

\* Before the end of the insertion no probe is enabled; later the switch that goes
\* through the probes is the one that stored the state, and those behind it agree.
SettledInv ==
  /\ settled /\ mon.status = "coming" =>
       /\ Switching = {} /\ mon.enabled = {}
       /\ \A p \in Procs : pc[p] \in Preparing => mon.state = RF_OFF
  /\ settled /\ mon.status = "live" =>
       /\ \A p, q \in Switching : p = q
       /\ \A p \in Switching :
            /\ mon.state = arg[p].number
            /\ mon.probes = "registered" => \A i \in 1 .. idx[p] - 1 : Agrees(i)
       /\ Switching = {} /\ mon.probes = "registered" => \A i \in Probes : Agrees(i)

\* A step that leaves the list and its size alone.
ListAside(c) ==
  /\ Others(c) /\ mon'.list = mon.list /\ mon'.size = mon.size /\ ~Holder(c)
  /\ \E label \in Labels \ (Changing \cup {"prt_size"}) :
       Goto(c, label) /\ (label = "oops" => crowded[c])

\* A step that leaves the state and the probes alone.
SettledAside(c) ==
  /\ Others(c) /\ mon'.state = mon.state /\ mon'.enabled = mon.enabled /\ settled' = settled
  /\ mon'.status \in {mon.status, "going"} /\ (mon.status = "live" => mon'.probes = mon.probes)
  /\ settled /\ mon.status \in {"coming", "live"} => c \notin Switching
  /\ \E label \in Labels \ {"sw_probe"} :
       Goto(c, label) /\ (label \in Preparing => pc[c] \in Preparing)

LEMMA CallingLabels ==
  /\ Calling \subseteq Busy /\ Changing \subseteq Calling /\ Changing \subseteq Disturbing
  /\ Calling \subseteq Labels /\ "oops" \in (Busy \ Beginning) \cap Labels /\ "prt_size" \in Busy \ Beginning
  /\ {"prt_size", "sw_probe", "sw_store", "call", "add_link", "rem_unlink"} \subseteq Calling \ Changing
  /\ "oops" \notin Calling /\ Preparing \subseteq Inserting /\ Preparing \cap Calling = {}
  /\ Preparing \cap Plain = {} /\ Inserting \cap Calling = {} /\ Inserting \subseteq Labels \cap Disturbing
BY Zenon DEF Calling, Changing, Busy, Beginning, Disturbing, Labels, Preparing, Inserting, Plain,
   Holding, Filling

LEMMA CrowdKept ==
  ASSUME Inv, NEW c \in Procs, NEW label \in Labels, Goto(c, label)
  PROVE  /\ \A u \in Procs \ {c} : pc[u] \in {"prt_size", "oops"} /\ crowded[u] => crowded'[u]
         /\ label \in {"prt_size", "oops"} /\ crowded[c] => crowded'[c]
<1>1. {"prt_size", "oops"} \subseteq Busy \ Beginning
  BY Zenon, CallingLabels
<1>2. Types
  BY Zenon, Own
<1>3. /\ \A u \in Procs \ {c} : pc[u] \in Busy /\ crowded[u] => crowded'[u]
      /\ label \in Busy \ Beginning /\ crowded[c] => crowded'[c]
  BY Zenon, <1>2, GotoCrowd
<1> QED
  BY Zenon, <1>1, <1>3

LEMMA ListAsideInv ==
  ASSUME Inv, ListInv, NEW c \in Procs, ListAside(c)
  PROVE  ListInv'
<1>1. PICK label \in Labels \ (Changing \cup {"prt_size"}) :
        Goto(c, label) /\ (label = "oops" => crowded[c])
  BY Zenon DEF ListAside
<1>2. pc'[c] = label /\ \A u \in Procs \ {c} : pc'[u] = pc[u]
  BY Zenon, <1>1, Own, GotoType
<1>3. \A u \in Procs \ {c} : idx'[u] = idx[u] /\ call'[u] = call[u]
  BY Zenon DEF ListAside, Others
<1>4. mon'.list = mon.list /\ mon'.size = mon.size /\ ~Holder(c) /\ ~Holder(c)'
  BY Zenon, <1>1, <1>2 DEF ListAside, Holder
<1>5. \A p \in Procs : Holder(p)' <=> Holder(p)
  BY Zenon, <1>2, <1>3, <1>4 DEF Holder
<1>6. Locked' <=> Locked
  BY Zenon, <1>5 DEF Locked, Holder
<1>7. \A u \in Procs \ {c} : pc[u] \in {"prt_size", "oops"} /\ crowded[u] => crowded'[u]
  BY Zenon, <1>1, CrowdKept
<1>8. label = "oops" => crowded'[c]
  BY Zenon, <1>1, CrowdKept
<1>9. \A p \in Procs :
        /\ pc'[p] = "prt_size" /\ call'[p] # "freed" /\ idx'[p] = 1 /\ mon'.size = 0 => crowded'[p]
        /\ pc'[p] = "oops" => crowded'[p]
  BY Zenon, <1>1, <1>2, <1>3, <1>4, <1>7, <1>8 DEF ListInv
<1>10. \A p, q \in Procs : Holder(p)' /\ Holder(q)' => p = q
  BY Zenon, <1>5 DEF ListInv
<1>11. \A p \in Procs : Holder(p)' =>
         /\ mon'.size = IF pc'[p] = "add_count" THEN 0 ELSE 1
         /\ mon'.list = {} <=> pc'[p] = "rem_count"
  BY Zenon, <1>2, <1>4, <1>5 DEF ListInv
<1>12. ~Locked' => mon'.size = IF mon'.list = {} THEN 0 ELSE 1
  BY Zenon, <1>4, <1>6 DEF ListInv
<1> QED
  BY Zenon, <1>9, <1>10, <1>11, <1>12 DEF ListInv

LEMMA SettledAsideInv ==
  ASSUME Inv, SettledInv, NEW c \in Procs, SettledAside(c)
  PROVE  SettledInv'
<1>1. PICK label \in Labels \ {"sw_probe"} :
        Goto(c, label) /\ (label \in Preparing => pc[c] \in Preparing)
  BY Zenon DEF SettledAside
<1>2. pc'[c] = label /\ \A u \in Procs \ {c} : pc'[u] = pc[u]
  BY Zenon, <1>1, Own, GotoType
<1>3. \A u \in Procs \ {c} : idx'[u] = idx[u] /\ call'[u] = call[u] /\ arg'[u] = arg[u]
  BY Zenon DEF SettledAside, Others
<1>4. /\ mon'.state = mon.state /\ mon'.enabled = mon.enabled /\ settled' = settled
      /\ mon'.status \in {mon.status, "going"} /\ (mon.status = "live" => mon'.probes = mon.probes)
  BY Zenon DEF SettledAside
<1> SUFFICES ASSUME settled, mon.status \in {"coming", "live"}, mon'.status = mon.status
             PROVE  SettledInv'
  BY Zenon, <1>4 DEF SettledInv
<1>5. c \notin Switching
  BY Zenon DEF SettledAside
<1>6. Switching' = Switching /\ \A p \in Switching : p \in Procs \ {c}
  BY Zenon, <1>1, <1>2, <1>3, <1>5 DEF Switching
<1>7. \A i : Agrees(i)' <=> Agrees(i)
  BY Zenon, <1>4 DEF Agrees
<1>8. CASE mon.status = "coming"
  BY Zenon, <1>1, <1>2, <1>4, <1>6, <1>8 DEF SettledInv
<1>9. CASE mon.status = "live"
  BY Zenon, <1>3, <1>4, <1>6, <1>7, <1>9 DEF SettledInv
<1> QED
  BY Zenon, <1>8, <1>9

\* A step of a process outside the calls that leaves what they share alone.
Idle(c) ==
  /\ Others(c) /\ settled' = settled /\ pc[c] \notin Calling
  /\ mon'.list = mon.list /\ mon'.size = mon.size
  /\ mon'.state = mon.state /\ mon'.enabled = mon.enabled
  /\ mon'.status \in {mon.status, "going"} /\ (mon.status = "live" => mon'.probes = mon.probes)
  /\ \E label \in Labels \ (Calling \ {"call"}) :
       /\ Goto(c, label) /\ (label = "oops" => crowded[c])
       /\ label \in Preparing => pc[c] \in Preparing

LEMMA IdleInv ==
  ASSUME Inv, ListInv, SettledInv, NEW c \in Procs, Idle(c)
  PROVE  ListInv' /\ SettledInv'
<1>1. PICK label \in Labels \ (Calling \ {"call"}) :
        /\ Goto(c, label) /\ (label = "oops" => crowded[c])
        /\ label \in Preparing => pc[c] \in Preparing
  BY Zenon DEF Idle
<1>2. label \notin Changing \cup {"prt_size", "sw_probe"}
  BY Zenon DEF Calling, Changing
<1>3. ~Holder(c) /\ c \notin Switching
  BY Zenon, CallingLabels DEF Idle, Holder, Switching
<1>4. ListAside(c)
  BY Zenon, <1>1, <1>2, <1>3 DEF Idle, ListAside
<1>5. SettledAside(c)
  BY Zenon, <1>1, <1>2, <1>3 DEF Idle, SettledAside
<1> QED
  BY Zenon, <1>4, <1>5, ListAsideInv, SettledAsideInv

\* A step that leaves the monitor alone and ends at a plain label.
LEMMA PlainIdle ==
  ASSUME NEW c \in Procs, UNCHANGED <<mon, settled>>, Others(c), pc[c] \notin Calling,
         NEW label \in (Plain \ {"oops"}) \cup (Inserting \ Preparing) \cup {"call"}, Goto(c, label)
  PROVE  Idle(c)
<1>1. label \in Labels \ (Calling \ {"call"}) /\ label # "oops" /\ label \notin Preparing
  BY Zenon, CallingLabels DEF Plain, Inserting
<1> QED
  BY Zenon, <1>1 DEF Idle

LEMMA AskIdle ==
  ASSUME Inv, NEW c \in Procs, NEW k, NEW a, NEW why, Ask(c, k, a, why), pc[c] \notin Calling
  PROVE  Idle(c)
<1>1. Others(c) /\ UNCHANGED <<mon, settled>>
  BY Zenon, StepOthers DEF Ask, SysCall
<1>2. \E label \in (Plain \ {"oops"}) \cup {"call"} : Goto(c, label)
  BY Zenon, PlainLabels DEF Ask, SysCall
<1> QED
  BY Zenon, <1>1, <1>2, PlainIdle

LEMMA UserIdle ==
  ASSUME Inv, NEW c \in Procs, UserStep(c)
  PROVE  Idle(c)
<1>0. {"info", "command", "home", "menu", "answer"} \cap Calling = {}
  BY Zenon DEF Calling, Changing
<1>1. CASE get_function_number(c) \/ Choose(c) \/ print_blacklist(c)
  <2>1. /\ \E k, a, why : Ask(c, k, a, why)
        /\ pc[c] \notin Calling
    BY Zenon, <1>0, <1>1 DEF get_function_number, Choose, print_blacklist
  <2> QED
    BY Zenon, <2>1, AskIdle
<1>2. CASE display_module_info(c) \/ Command(c)
  <2>1. UNCHANGED <<mon, idx, call, arg, settled>> /\ pc[c] \notin Calling
    BY Zenon, <1>0, <1>2 DEF display_module_info, Command, request
  <2>2. \E label \in Plain \ {"oops"} : Goto(c, label)
    BY Zenon, <1>2, PlainLabels DEF display_module_info, Command
  <2> QED
    BY Zenon, <2>1, <2>2, StepOthers, PlainIdle
<1>3. CASE Menu(c) \/ Refuse(c) \/ Leave(c) \/ change_state(c) \/ Report(c)
  <2>1. UNCHANGED <<mon, idx, call, arg, settled>> /\ pc[c] \notin Calling
    BY Zenon, <1>0, <1>3 DEF Menu, Refuse, Leave, change_state, Report, Quit, Used, request
  <2>2. \E label \in Plain \ {"oops"} : Goto(c, label)
    BY Zenon, <1>3, PlainLabels DEF Menu, Refuse, Leave, change_state, Report, Quit
  <2> QED
    BY Zenon, <2>1, <2>2, StepOthers, PlainIdle
<1> QED
  BY Zenon, <1>1, <1>2, <1>3 DEF UserStep

\* Commands are outside the calls.
LEMMA CommandLabels ==
  {"disc_insert", "disc_scan", "disc_free", "disc_remove", "fs_insert", "fs_mount", "fs_remove",
   "mon_read", "mon_insert", "mon_entries", "mon_publish", "mon_fields", "mon_password", "mon_probes",
   "mon_register", "mon_remove", "rm_restore", "rm_probes"} \cap Calling = {}
BY Zenon DEF Calling, Changing

LEMMA FinishIdle ==
  ASSUME Inv, NEW c \in Procs, Finish(c), UNCHANGED <<mon, settled>>, pc[c] \notin Calling
  PROVE  Idle(c)
<1>1. Goto(c, "info") /\ "info" \in Plain \ {"oops"}
  BY Zenon, PlainLabels DEF Finish
<1> QED
  BY Zenon, <1>1, FinishOthers, PlainIdle

LEMMA FsIdle ==
  ASSUME Inv, NEW c \in Procs, FsStep(c)
  PROVE  Idle(c)
<1>1. UNCHANGED <<mon, settled>> /\ pc[c] \in {"fs_insert", "fs_mount", "fs_remove"}
  BY Zenon DEF FsStep, FsInsert, FsMount, FsRemove
<1>2. Finish(c) \/ (Goto(c, "fs_mount") /\ UNCHANGED <<idx, call, arg>>)
  BY Zenon DEF FsStep, FsInsert, FsMount, FsRemove, request
<1>3. pc[c] \notin Calling
  BY Zenon, <1>1, CommandLabels
<1>4. CASE Goto(c, "fs_mount") /\ UNCHANGED <<idx, call, arg>>
  BY Zenon, <1>1, <1>3, <1>4, PlainLabels, StepOthers, PlainIdle
<1> QED
  BY Zenon, <1>1, <1>2, <1>3, <1>4, FinishIdle

LEMMA DiscIdle ==
  ASSUME Inv, NEW c \in Procs, DiscStep(c)
  PROVE  Idle(c)
<1>1. UNCHANGED <<mon, settled>> /\ pc[c] \in {"disc_insert", "disc_scan", "disc_free", "disc_remove"}
  BY Zenon DEF DiscStep, DiscInsert, DiscScan, DiscFail, DiscFree, DiscRemove
<1>2. \/ Finish(c)
      \/ /\ \E label \in {"disc_scan", "disc_free"} : Goto(c, label)
         /\ \E i : idx' = [idx EXCEPT ![c] = i]
         /\ UNCHANGED <<call, arg>>
  <2>1. CASE DiscScan(c)
    <3>1. idx[c] \in Nat
      BY Zenon, Own
    <3>2. ~(sys_vtpmo(idx[c]) /\ ReadsHole(idx[c]))
      BY Zenon, <3>1, NoHole
    <3> QED
      BY Zenon, <2>1, <3>2 DEF DiscScan, request
  <2> QED
    BY Zenon, <2>1 DEF DiscStep, DiscInsert, DiscFail, DiscFree, DiscRemove, request
<1>3. pc[c] \notin Calling
  BY Zenon, <1>1, CommandLabels
<1>4. {"disc_scan", "disc_free"} \subseteq Inserting \ Preparing
  BY Zenon DEF Inserting, Preparing
<1>5. ASSUME NEW label \in {"disc_scan", "disc_free"}, Goto(c, label),
             \E i : idx' = [idx EXCEPT ![c] = i], UNCHANGED <<call, arg>>
      PROVE  Idle(c)
  BY Zenon, <1>1, <1>3, <1>4, <1>5, StepOthers, PlainIdle
<1> QED
  BY Zenon, <1>1, <1>2, <1>3, <1>5, FinishIdle

(*****************************************************************************)
(* Inserting and removing the monitor                                        *)
(*****************************************************************************)
\* The module starts, or is gone, with nobody in its calls.
LEMMA ListFresh ==
  ASSUME Inv, ListInv, NEW c \in Procs, NEW label \in (Plain \ {"oops"}) \cup {"mon_entries"},
         Goto(c, label), mon'.list = {}, mon'.size = 0,
         \A u \in Procs \ {c} : pc[u] \in Calling => call'[u] = "freed"
  PROVE  ListInv' /\ Switching' = {}
<1>1. label \in Labels /\ label \notin Calling \cup {"oops"}
  BY Zenon, CommandLabels, HoldingLabels DEF Plain
<1>2. pc'[c] = label /\ \A u \in Procs \ {c} : pc'[u] = pc[u]
  BY Zenon, <1>1, Own, GotoType
<1>3. \A p \in Procs : pc'[p] \in Calling => call'[p] = "freed"
  BY Zenon, <1>1, <1>2
<1>4. \A p \in Procs : ~Holder(p)'
  BY Zenon, <1>3, CallingLabels DEF Holder
<1>5. ~Locked'
  BY Zenon, <1>4 DEF Locked, Holder
<1>6. \A p \in Procs : pc'[p] = "oops" => crowded'[p]
  BY Zenon, <1>1, <1>2, CrowdKept DEF ListInv
<1>7. \A p \in Procs : pc'[p] = "prt_size" => call'[p] = "freed"
  BY Zenon, <1>3, CallingLabels
<1>8. ListInv'
  BY Zenon, <1>4, <1>5, <1>6, <1>7 DEF ListInv
<1>9. Switching' = {}
  BY Zenon, <1>3, CallingLabels DEF Switching
<1> QED
  BY Zenon, <1>8, <1>9

LEMMA NoMonFields ==
  NoMon.list = {} /\ NoMon.size = 0 /\ NoMon.status = "none" /\ NoMon.enabled = {}
BY Zenon DEF NoMon

LEMMA MonInsertList ==
  ASSUME Inv, ListInv, SettledInv, NEW c \in Procs, MonInsert(c)
  PROVE  ListInv' /\ SettledInv'
<1>1. CASE mon.status # "none"
  <2>1. Finish(c) /\ UNCHANGED <<mon, settled>> /\ pc[c] \notin Calling
    BY Zenon, <1>1, CommandLabels DEF MonInsert
  <2> QED
    BY Zenon, <2>1, FinishIdle, IdleInv
<1>2. CASE mon.status = "none"
  <2>1. /\ mon' = [NoMon EXCEPT !.status = "coming", !.syscalls_table_address = arg[c].number]
        /\ Goto(c, "mon_entries") /\ call' = call
    BY Zenon, <1>2 DEF MonInsert
  <2>2. mon'.list = {} /\ mon'.size = 0 /\ mon'.status = "coming" /\ mon'.enabled = {}
    BY Zenon, <2>1, NoMonFields DEF NoMon
  <2>3. mon.restore = << >>
    BY Zenon, <1>2, Own DEF TableInv
  <2>4. \A u \in Procs : pc[u] \in Calling => call[u] = "freed"
    BY Zenon, <2>3 DEF Inv, CallInv
  <2>5. ListInv' /\ Switching' = {}
    BY Zenon, <2>1, <2>2, <2>4, ListFresh
  <2>6. "mon_entries" \in Labels /\ "mon_entries" \notin Preparing
    BY Zenon, HoldingLabels DEF Preparing
  <2>7. \A p \in Procs : pc'[p] \notin Preparing
    <3>1. \A p \in Procs : pc[p] \notin Preparing
      BY Zenon, <1>2 DEF Inv, InsertInv, Preparing, Filling
    <3>2. pc'[c] = "mon_entries" /\ \A u \in Procs \ {c} : pc'[u] = pc[u]
      BY Zenon, <2>1, <2>6, Own, GotoType
    <3> QED
      BY Zenon, <2>6, <3>1, <3>2
  <2> QED
    BY Zenon, <2>2, <2>5, <2>7 DEF SettledInv
<1> QED
  BY Zenon, <1>1, <1>2

LEMMA MonEntriesList ==
  ASSUME Inv, ListInv, SettledInv, NEW c \in Procs, MonEntries(c)
  PROVE  ListInv' /\ SettledInv'
<1> DEFINE table == mon.syscalls_table_address
           entries == get_entries(memory, table)
<1>0. pc[c] = "mon_entries" /\ pc[c] \notin Calling /\ UNCHANGED settled
  BY Zenon, CommandLabels DEF MonEntries
<1>1. CASE table = NULL
  <2>1. Die(c) /\ mon' = mon /\ crowded[c]
    BY Zenon, <1>0, <1>1, Own DEF MonEntries, CallInv
  <2>2. Goto(c, "oops") /\ Others(c) /\ "oops" \in Labels \ (Calling \cup Preparing)
    BY Zenon, <2>1, CallingLabels, StepOthers DEF Die, Preparing
  <2>3. Idle(c)
    BY Zenon, <1>0, <2>1, <2>2 DEF Idle
  <2> QED
    BY Zenon, <2>3, IdleInv
<1>2. CASE table # NULL /\ entries = << >>
  <2>1. Finish(c) /\ mon' = NoMon
    BY Zenon, <1>2 DEF MonEntries
  <2>2. \A u \in Procs \ {c} : pc[u] \in Calling => call'[u] = "freed"
    <3>1. mon.restore = << >> /\ call' = call
      BY Zenon, <1>0, <2>1, Own DEF InsertInv, Finish
    <3> QED
      BY Zenon, <3>1 DEF Inv, CallInv
  <2>3. Goto(c, "info") /\ "info" \in Plain \ {"oops"}
    BY Zenon, <2>1, PlainLabels DEF Finish
  <2>4. ListInv'
    BY Zenon, <2>1, <2>2, <2>3, NoMonFields, ListFresh
  <2> QED
    BY Zenon, <2>1, <2>4, NoMonFields DEF SettledInv
<1>3. CASE table # NULL /\ entries # << >>
  <2>1. /\ mon' = [mon EXCEPT !.restore = entries, !.the_ni_syscall = memory[table + entries[1]]]
        /\ idx' = [idx EXCEPT ![c] = 1] /\ Goto(c, "mon_publish") /\ UNCHANGED request
    BY Zenon, <1>3 DEF MonEntries
  <2>2. /\ mon'.list = mon.list /\ mon'.size = mon.size /\ mon'.state = mon.state
        /\ mon'.enabled = mon.enabled /\ mon'.status = mon.status /\ mon'.probes = mon.probes
    <3>1. mon \in MonType
      BY Zenon, Own DEF Types
    <3> HIDE DEF table, entries
    <3> QED
      BY Zenon, <2>1, <3>1 DEF MonType
  <2>3. Others(c)
    BY Zenon, <2>1, StepOthers DEF request
  <2>4. "mon_publish" \in Labels \ (Calling \cup Preparing \cup {"oops"})
    BY Zenon, HoldingLabels, CommandLabels DEF Preparing
  <2>5. Idle(c)
    BY Zenon, <1>0, <2>1, <2>2, <2>3, <2>4 DEF Idle
  <2> QED
    BY Zenon, <2>5, IdleInv
<1> QED
  BY Zenon, <1>1, <1>2, <1>3

LEMMA MonFieldsList ==
  ASSUME Inv, ListInv, SettledInv, NEW c \in Procs, MonFields(c)
  PROVE  ListInv' /\ SettledInv'
<1>1. /\ ~Locked /\ pc[c] = "mon_fields" /\ UNCHANGED <<settled, idx, call, arg>>
      /\ mon' = [mon EXCEPT !.state = RF_OFF, !.list = {}, !.size = 0] /\ Goto(c, "mon_password")
  BY Zenon DEF MonFields, MonUpdate
<1>2. /\ mon'.state = RF_OFF /\ mon'.list = {} /\ mon'.size = 0 /\ mon'.enabled = mon.enabled
      /\ mon'.status = mon.status
  <2>1. mon \in MonType
    BY Zenon, Own DEF Types
  <2> QED
    BY Zenon, <1>1, <2>1 DEF MonType
<1>3. /\ {"mon_fields", "mon_password"} \subseteq Labels \ (Calling \cup {"oops"})
      /\ "mon_fields" \in Disturbing
  BY Zenon, CommandLabels, HoldingLabels, CallingLabels
<1>4. pc'[c] = "mon_password" /\ \A u \in Procs \ {c} : pc'[u] = pc[u]
  BY Zenon, <1>1, <1>3, Own, GotoType
<1>5. \A p \in Procs : Holder(p)' <=> Holder(p)
  BY Zenon, <1>1, <1>3, <1>4, CallingLabels DEF Holder
<1>6. ~Locked' /\ \A p \in Procs : ~Holder(p)'
  BY Zenon, <1>1, <1>5 DEF Locked, Holder
<1>7. \A p \in Procs : pc'[p] = "prt_size" => crowded'[p]
  <2>1. \A u \in Procs \ {c} : pc[u] = "prt_size" => crowded[u]
    <3>1. AloneInv /\ "prt_size" \in Busy
      BY Zenon, Own, CallingLabels
    <3> QED
      BY Zenon, <1>1, <1>3, <3>1 DEF AloneInv
  <2> QED
    BY Zenon, <1>1, <1>3, <1>4, <2>1, CrowdKept
<1>8. \A p \in Procs : pc'[p] = "oops" => crowded'[p]
  BY Zenon, <1>1, <1>3, <1>4, CrowdKept DEF ListInv
<1>9. ListInv'
  BY Zenon, <1>2, <1>6, <1>7, <1>8 DEF ListInv
<1>10. mon.status = "coming" /\ Switching' = Switching
  <2>1. mon.status = "coming"
    BY Zenon, <1>1, Own DEF InsertInv, Filling
  <2> QED
    BY Zenon, <1>1, <1>4, <2>1 DEF Switching
<1>11. SettledInv'
  BY Zenon, <1>1, <1>2, <1>10 DEF SettledInv
<1> QED
  BY Zenon, <1>9, <1>11

LEMMA MonPrepareList ==
  ASSUME Inv, ListInv, SettledInv, NEW c \in Procs, MonPassword(c) \/ MonProbes(c)
  PROVE  ListInv' /\ SettledInv'
<1>1. /\ UNCHANGED <<settled, idx, call, arg>> /\ pc[c] \in {"mon_password", "mon_probes"}
      /\ \E label \in {"mon_probes", "mon_register"} : Goto(c, label)
      /\ mon' = [mon EXCEPT !.password = TRUE] \/ mon' = [mon EXCEPT !.probes = "array"]
  BY Zenon DEF MonPassword, MonProbes, MonUpdate, Hashed
<1>2. /\ mon'.list = mon.list /\ mon'.size = mon.size /\ mon'.state = mon.state
      /\ mon'.enabled = mon.enabled /\ mon'.status = mon.status
  <2>1. mon \in MonType
    BY Zenon, Own DEF Types
  <2> QED
    BY Zenon, <1>1, <2>1 DEF MonType
<1>3. mon.status = "coming" /\ pc[c] \in Preparing
  BY Zenon, <1>1, Own DEF InsertInv, Filling, Preparing
<1>4. Others(c) /\ pc[c] \notin Calling
  BY Zenon, <1>1, StepOthers, CommandLabels
<1>5. {"mon_probes", "mon_register"} \subseteq Labels \ (Calling \cup {"oops"})
  BY Zenon, HoldingLabels, CommandLabels
<1>6. Idle(c)
  BY Zenon, <1>1, <1>2, <1>3, <1>4, <1>5 DEF Idle
<1> QED
  BY Zenon, <1>6, IdleInv

LEMMA MonRegisterList ==
  ASSUME Inv, ListInv, SettledInv, NEW c \in Procs, MonRegister(c)
  PROVE  ListInv' /\ SettledInv'
<1>1. PICK r \in {"array", "registered"} :
        MonUpdate(c, "mon_register", [mon EXCEPT !.probes = r, !.status = "live"], "info")
  BY Zenon DEF MonRegister
<1>2. /\ pc[c] = "mon_register" /\ UNCHANGED <<settled, idx, call, arg>> /\ Goto(c, "info")
      /\ mon' = [mon EXCEPT !.probes = r, !.status = "live"]
  BY Zenon, <1>1 DEF MonUpdate, MonRegister
<1>3. /\ mon'.list = mon.list /\ mon'.size = mon.size /\ mon'.state = mon.state
      /\ mon'.enabled = mon.enabled /\ mon'.status = "live"
  <2>1. mon \in MonType
    BY Zenon, Own DEF Types
  <2> QED
    BY Zenon, <1>2, <2>1 DEF MonType
<1>4. Others(c) /\ pc[c] \notin Calling /\ "info" \in Labels \ (Calling \cup {"oops"})
  BY Zenon, <1>2, StepOthers, CommandLabels, PlainLabels DEF Plain
<1>5. ListInv'
  <2>1. ~Holder(c) /\ "info" \notin Changing \cup {"prt_size"}
    BY Zenon, <1>4, CallingLabels DEF Holder
  <2>2. ListAside(c)
    BY Zenon, <1>2, <1>3, <1>4, <2>1 DEF ListAside
  <2> QED
    BY Zenon, <2>2, ListAsideInv
<1>6. ASSUME settled
      PROVE  Switching' = {} /\ \A i : Agrees(i)'
  <2>1. mon.status = "coming" /\ pc[c] \in Preparing
    BY Zenon, <1>2, Own DEF InsertInv, Filling, Preparing
  <2>2. Switching = {} /\ mon.enabled = {} /\ mon.state = RF_OFF
    BY Zenon, <1>6, <2>1 DEF SettledInv
  <2>3. pc'[c] = "info" /\ \A u \in Procs \ {c} : pc'[u] = pc[u]
    BY Zenon, <1>2, <1>4, Own, GotoType
  <2>4. ~Enforcing(RF_OFF)
    BY SMT DEF Enforcing, RF_OFF, RF_ON, RF_REC_ON
  <2> QED
    BY Zenon, <1>2, <1>3, <2>2, <2>3, <2>4 DEF Switching, Agrees
<1>7. SettledInv'
  BY Zenon, <1>2, <1>3, <1>6 DEF SettledInv
<1> QED
  BY Zenon, <1>5, <1>7

LEMMA CleanProbesList ==
  ASSUME Inv, ListInv, SettledInv, NEW c \in Procs, CleanProbes(c)
  PROVE  ListInv' /\ SettledInv'
<1>1. /\ mon' = NoMon /\ Goto(c, "info")
      /\ call' = [p \in Procs |-> IF pc[p] \in Calling THEN "freed" ELSE call[p]]
  BY Zenon DEF CleanProbes, MonUpdate
<1>2. \A u \in Procs \ {c} : pc[u] \in Calling => call'[u] = "freed"
  BY Zenon, <1>1
<1>3. "info" \in Plain \ {"oops"}
  BY Zenon, PlainLabels
<1> QED
  BY Zenon, <1>1, <1>2, <1>3, NoMonFields, ListFresh DEF SettledInv

LEMMA MonOtherList ==
  ASSUME Inv, ListInv, SettledInv, NEW c \in Procs,
         MonRead(c) \/ MonPublish(c) \/ Restore(c) \/ MonRemove(c)
  PROVE  ListInv' /\ SettledInv'
<1>1. CASE MonRead(c)
  <2>1. /\ UNCHANGED <<mon, settled>> /\ pc[c] \notin Calling
        /\ \/ Finish(c)
           \/ /\ arg' = [arg EXCEPT ![c].number = disc.sys_call_table_address]
              /\ Goto(c, "mon_insert") /\ UNCHANGED <<idx, call>>
    BY Zenon, <1>1, CommandLabels DEF MonRead
  <2>2. "mon_insert" \in Inserting \ Preparing
    BY Zenon, HoldingLabels DEF Preparing
  <2>3. ASSUME arg' = [arg EXCEPT ![c].number = disc.sys_call_table_address],
               Goto(c, "mon_insert"), UNCHANGED <<idx, call>>
        PROVE  Idle(c)
    BY Zenon, <2>1, <2>2, <2>3, StepOthers, PlainIdle
  <2> QED
    BY Zenon, <2>1, <2>3, FinishIdle, IdleInv
<1>2. CASE MonPublish(c) \/ Restore(c)
  <2>1. /\ UNCHANGED <<mon, settled, call, arg>> /\ pc[c] \in {"mon_publish", "rm_restore"}
        /\ \E label \in {"mon_publish", "mon_fields", "rm_restore", "rm_probes"} : Goto(c, label)
        /\ \E i : idx' = [idx EXCEPT ![c] = i]
    BY Zenon, <1>2 DEF MonPublish, Restore, Store, request
  <2>2. {"mon_publish", "mon_fields", "rm_restore", "rm_probes"} \subseteq Inserting \ Preparing
    BY Zenon, HoldingLabels DEF Preparing
  <2>3. Others(c) /\ pc[c] \notin Calling
    BY Zenon, <2>1, StepOthers, CommandLabels
  <2> QED
    BY Zenon, <2>1, <2>2, <2>3, PlainIdle, IdleInv
<1>3. CASE MonRemove(c)
  <2>1. pc[c] = "mon_remove" /\ pc[c] \notin Calling /\ UNCHANGED settled
    BY Zenon, <1>3, CommandLabels DEF MonRemove
  <2>2. CASE mon.status # "live"
    BY Zenon, <1>3, <2>1, <2>2, FinishIdle, IdleInv DEF MonRemove
  <2>3. CASE mon.status = "live"
    <3>1. /\ mon' = [mon EXCEPT !.status = "going"] /\ idx' = [idx EXCEPT ![c] = 1]
          /\ Goto(c, "rm_restore") /\ UNCHANGED request
      BY Zenon, <1>3, <2>3 DEF MonRemove
    <3>2. /\ mon'.list = mon.list /\ mon'.size = mon.size /\ mon'.state = mon.state
          /\ mon'.enabled = mon.enabled /\ mon'.status = "going" /\ mon'.probes = mon.probes
      <4>1. mon \in MonType
        BY Zenon, Own DEF Types
      <4> QED
        BY Zenon, <3>1, <4>1 DEF MonType
    <3>3. Others(c)
      BY Zenon, <3>1, StepOthers DEF request
    <3>4. "rm_restore" \in Labels \ (Calling \cup Preparing \cup {"oops"})
      BY Zenon, HoldingLabels, CommandLabels DEF Preparing
    <3>5. Idle(c)
      BY Zenon, <2>1, <3>1, <3>2, <3>3, <3>4 DEF Idle
    <3> QED
      BY Zenon, <3>5, IdleInv
  <2> QED
    BY Zenon, <2>2, <2>3
<1> QED
  BY Zenon, <1>1, <1>2, <1>3

(*****************************************************************************)
(* The calls                                                                 *)
(*****************************************************************************)
\* Who dies in a call was disturbed, and holds no lock.
LEMMA DeathDisturbed ==
  ASSUME Inv, ListInv, NEW c \in Procs, pc[c] \in Calling, Dies(c)
  PROVE  crowded[c] /\ ~Holder(c) /\ (pc[c] = "sw_probe" => call[c] = "freed" \/ mon.status # "live")
<1>1. CallInv(c) /\ StatusInv
  BY Zenon, Own
<1>2. {"call", "sw_probe", "prt_size"} \cap Changing = {}
  BY Zenon, CallingLabels
<1>3. ~Holder(c)
  BY Zenon, <1>2 DEF Dies, Holder
<1>4. mon.status = "live" => mon.password /\ mon.probes # "none"
  BY Zenon, <1>1 DEF StatusInv
<1>5. crowded[c]
  <2> SUFFICES ASSUME ~crowded[c] PROVE FALSE
    OBVIOUS
  <2>1. mon.status = "live" /\ call[c] # "freed"
    BY Zenon, <1>1 DEF CallInv
  <2>2. pc[c] = "prt_size" /\ idx[c] = 1 /\ mon.size = 0
    BY Zenon, <1>4, <2>1 DEF Dies
  <2> QED
    BY Zenon, <2>1, <2>2 DEF ListInv
<1>6. pc[c] = "sw_probe" => call[c] = "freed" \/ mon.status # "live"
  BY Zenon, <1>4 DEF Dies
<1> QED
  BY Zenon, <1>3, <1>5, <1>6

LEMMA CallDiesList ==
  ASSUME Inv, ListInv, SettledInv, NEW c \in Procs, CallDies(c)
  PROVE  ListInv' /\ SettledInv'
<1>1. pc[c] \in Calling /\ Dies(c) /\ Die(c) /\ UNCHANGED <<mon, settled>>
  BY Zenon DEF CallDies
<1>2. crowded[c] /\ ~Holder(c) /\ (pc[c] = "sw_probe" => call[c] = "freed" \/ mon.status # "live")
  BY Zenon, <1>1, DeathDisturbed
<1>3. Goto(c, "oops") /\ Others(c)
  BY Zenon, <1>1, StepOthers DEF Die
<1>4. "oops" \in Labels \ (Changing \cup Preparing \cup {"prt_size", "sw_probe"})
  BY Zenon, CallingLabels DEF Preparing
<1>5. ListAside(c)
  BY Zenon, <1>1, <1>2, <1>3, <1>4 DEF ListAside
<1>6. settled /\ mon.status \in {"coming", "live"} => c \notin Switching
  BY Zenon, <1>2 DEF SettledInv, Switching
<1>7. SettledAside(c)
  BY Zenon, <1>1, <1>3, <1>4, <1>6 DEF SettledAside
<1> QED
  BY Zenon, <1>5, <1>7, ListAsideInv, SettledAsideInv

\* An answer, from outside a critical section.
LEMMA AnswerAside ==
  ASSUME Inv, NEW c \in Procs, NEW m, NEW v, Answer(c, m, v), Reached(m)
  PROVE  /\ Others(c) /\ Goto(c, "answer") /\ mon' = m /\ settled' = settled
         /\ "answer" \in Labels \ (Calling \cup Preparing \cup {"oops"})
         /\ pc'[c] = "answer" /\ \A u \in Procs \ {c} : pc'[u] = pc[u]
<1>1. Others(c) /\ Goto(c, "answer") /\ mon' = m /\ settled' = settled
  BY Zenon, StepOthers DEF Answer
<1>2. "answer" \in Labels \ (Calling \cup Preparing \cup {"oops"})
  BY Zenon, PlainLabels DEF Plain, Preparing
<1>3. pc'[c] = "answer" /\ \A u \in Procs \ {c} : pc'[u] = pc[u]
  BY Zenon, <1>1, <1>2, Own, GotoType
<1> QED
  BY Zenon, <1>1, <1>2, <1>3

LEMMA ProceedAside ==
  ASSUME Inv, NEW c \in Procs, NEW m, NEW i \in Nat, NEW label \in Calling, Proceed(c, m, i, label)
  PROVE  /\ Others(c) /\ Goto(c, label) /\ mon' = m /\ idx'[c] = i /\ UNCHANGED <<call, arg>>
         /\ label \in Labels \ (Preparing \cup {"oops"})
         /\ pc'[c] = label /\ \A u \in Procs \ {c} : pc'[u] = pc[u]
<1>1. Goto(c, label) /\ mon' = m /\ idx' = [idx EXCEPT ![c] = i] /\ UNCHANGED request
  BY Zenon DEF Proceed
<1>2. label \in Labels \ (Preparing \cup {"oops"})
  BY Zenon, CallingLabels
<1>3. pc'[c] = label /\ \A u \in Procs \ {c} : pc'[u] = pc[u]
  BY Zenon, <1>1, <1>2, Own, GotoType
<1>4. Others(c) /\ idx'[c] = i /\ UNCHANGED <<call, arg>>
  BY Zenon, <1>1, IndexLocals DEF request
<1> QED
  BY Zenon, <1>1, <1>2, <1>3, <1>4

LEMMA AnswersList ==
  ASSUME Inv, ListInv, SettledInv, NEW c \in Procs, OnlyAnswers(c), call[c] # "freed"
  PROVE  ListInv' /\ SettledInv'
<1>1. Reached(mon)
  BY Zenon, CallTypes
<1>2. /\ Others(c) /\ Goto(c, "answer") /\ mon' = mon /\ settled' = settled
      /\ "answer" \in Labels \ (Calling \cup Preparing \cup {"oops"})
      /\ pc'[c] = "answer" /\ \A u \in Procs \ {c} : pc'[u] = pc[u]
  BY Zenon, <1>1, AnswerAside DEF OnlyAnswers
<1>3. ~Holder(c)
  BY Zenon DEF OnlyAnswers, Holder
<1>4. "answer" \notin Changing \cup {"prt_size", "sw_probe"}
  BY Zenon, <1>2, CallingLabels
<1>5. ListInv'
  <2>1. ListAside(c)
    BY Zenon, <1>2, <1>3, <1>4 DEF ListAside
  <2> QED
    BY Zenon, <2>1, ListAsideInv
<1>6. CASE pc[c] # "sw_probe"
  <2>1. SettledAside(c)
    BY Zenon, <1>2, <1>4, <1>6 DEF SettledAside, Switching
  <2> QED
    BY Zenon, <1>5, <2>1, SettledAsideInv
<1>7. CASE pc[c] = "sw_probe"
  <2>1. c \in Switching /\ idx[c] > LastProbe
    BY Zenon, <1>7 DEF Switching, OnlyAnswers
  <2>2. ASSUME settled, mon.status = "live"
        PROVE  Switching' = {} /\ (mon.probes = "registered" => \A i \in Probes : Agrees(i)')
    <3>1. Switching = {c}
      BY Zenon, <2>1, <2>2 DEF SettledInv
    <3>2. Switching' = {}
      <4>1. \A u \in Procs \ {c} : call'[u] = call[u]
        BY Zenon, <1>2 DEF Others
      <4>2. \A u \in Procs \ {c} : ~(pc[u] = "sw_probe" /\ call[u] # "freed")
        BY Zenon, <3>1 DEF Switching
      <4> QED
        BY Zenon, <1>2, <1>4, <4>1, <4>2 DEF Switching
    <3>3. \A i \in Probes : i \in 1 .. idx[c] - 1
      <4>1. idx[c] \in Nat /\ NUM_KRETPROBES \in Nat
        BY Zenon, Own, MemoryAssumption
      <4> QED
        BY SMT, <2>1, <4>1 DEF Probes, LastProbe
    <3>4. mon.probes = "registered" => \A i \in 1 .. idx[c] - 1 : Agrees(i)
      BY Zenon, <2>1, <2>2 DEF SettledInv
    <3>5. \A i : Agrees(i)' <=> Agrees(i)
      BY Zenon, <1>2 DEF Agrees
    <3> QED
      BY Zenon, <3>2, <3>3, <3>4, <3>5
  <2>3. settled /\ mon.status = "coming" => FALSE
    BY Zenon, <2>1 DEF SettledInv
  <2>4. SettledInv'
    BY Zenon, <1>2, <2>2, <2>3 DEF SettledInv
  <2> QED
    BY Zenon, <1>5, <2>4
<1> QED
  BY Zenon, <1>6, <1>7

LEMMA ProceedsList ==
  ASSUME Inv, ListInv, SettledInv, NEW c \in Procs, OnlyProceeds(c), call[c] # "freed"
  PROVE  ListInv' /\ SettledInv'
<1>0. /\ {"sw_store", "add_link", "rem_unlink", "prt_size"} \subseteq Calling \ (Changing \cup {"sw_probe"})
      /\ 0 \in Nat /\ (IF mon.list = {} THEN 0 ELSE 1) \in Nat
  BY Zenon, CallingLabels, Nothing
<1>1. PICK i \in Nat, label \in {"sw_store", "add_link", "rem_unlink", "prt_size"} :
        Proceed(c, mon, i, label) /\ (label = "prt_size" => i = IF mon.list = {} THEN 0 ELSE 1)
  BY Zenon, <1>0 DEF OnlyProceeds
<1>2. /\ Others(c) /\ Goto(c, label) /\ mon' = mon /\ idx'[c] = i /\ UNCHANGED <<call, arg>>
      /\ label \in Labels \ (Preparing \cup {"oops"})
      /\ pc'[c] = label /\ \A u \in Procs \ {c} : pc'[u] = pc[u]
  BY Zenon, <1>0, <1>1, ProceedAside
<1>3. pc[c] = "call" /\ settled' = settled /\ ~Holder(c) /\ c \notin Switching
  BY Zenon, CallingLabels DEF OnlyProceeds, Holder, Switching
<1>4. SettledInv'
  <2>1. SettledAside(c)
    BY Zenon, <1>0, <1>2, <1>3 DEF SettledAside
  <2> QED
    BY Zenon, <2>1, SettledAsideInv
<1>5. CASE label # "prt_size"
  <2>1. ListAside(c)
    BY Zenon, <1>0, <1>2, <1>3, <1>5 DEF ListAside
  <2> QED
    BY Zenon, <1>4, <2>1, ListAsideInv
<1>6. CASE label = "prt_size"
  <2>1. \A u \in Procs \ {c} : idx'[u] = idx[u]
    BY Zenon, <1>2 DEF Others
  <2>2. \A p \in Procs : Holder(p)' <=> Holder(p)
    BY Zenon, <1>0, <1>2, <1>3 DEF Holder
  <2>3. Locked' <=> Locked
    BY Zenon, <2>2 DEF Locked, Holder
  <2>4. idx'[c] = 1 /\ mon.size = 0 => crowded'[c]
    <3> SUFFICES ASSUME i = 1, mon.size = 0 PROVE crowded'[c]
      BY Zenon, <1>2
    <3>1. 0 # 1
      BY SMT
    <3>2. mon.list # {}
      BY Zenon, <1>1, <1>6, <3>1
    <3>3. Locked
      BY Zenon, <3>1, <3>2 DEF ListInv
    <3>4. PICK p \in Procs : pc[p] \in Changing
      BY Zenon, <3>3 DEF Locked
    <3>5. p # c /\ pc[p] \in Disturbing /\ pc[c] \in Busy
      BY Zenon, <1>3, <3>4, CallingLabels
    <3>6. crowded[c]
      BY Zenon, <3>5, Own DEF AloneInv
    <3> QED
      BY Zenon, <1>2, <1>6, <3>6, CrowdKept
  <2>5. \A u \in Procs \ {c} : pc[u] \in {"prt_size", "oops"} /\ crowded[u] => crowded'[u]
    BY Zenon, <1>2, CrowdKept
  <2>6. \A p \in Procs :
          /\ pc'[p] = "prt_size" /\ call'[p] # "freed" /\ idx'[p] = 1 /\ mon'.size = 0 => crowded'[p]
          /\ pc'[p] = "oops" => crowded'[p]
    BY Zenon, <1>2, <1>6, <2>1, <2>4, <2>5 DEF ListInv
  <2>7. \A p, q \in Procs : Holder(p)' /\ Holder(q)' => p = q
    BY Zenon, <2>2 DEF ListInv
  <2>8. \A p \in Procs : Holder(p)' =>
          /\ mon'.size = IF pc'[p] = "add_count" THEN 0 ELSE 1
          /\ mon'.list = {} <=> pc'[p] = "rem_count"
    <3>1. \A p \in Procs : Holder(p) => pc'[p] = pc[p]
      BY Zenon, <1>2, <1>3
    <3> QED
      BY Zenon, <1>2, <2>2, <3>1 DEF ListInv
  <2>9. ~Locked' => mon'.size = IF mon'.list = {} THEN 0 ELSE 1
    BY Zenon, <1>2, <2>3 DEF ListInv
  <2>10. ListInv'
    BY Zenon, <2>6, <2>7, <2>8, <2>9 DEF ListInv
  <2> QED
    BY Zenon, <1>4, <2>10
<1> QED
  BY Zenon, <1>5, <1>6

LEMMA StoresList ==
  ASSUME Inv, ListInv, SettledInv, NEW c \in Procs, Stores(c), call[c] # "freed"
  PROVE  ListInv' /\ SettledInv'
<1>0. 1 \in Nat /\ 1 .. 1 - 1 = {} /\ {"sw_store", "sw_probe"} \subseteq Calling \ (Changing \cup {"prt_size"})
  <2>1. 1 \in Nat /\ 1 .. 1 - 1 = {}
    BY SMT
  <2> QED
    BY Zenon, <2>1, CallingLabels
<1>1. PICK m : SetState(m, arg[c].number) /\ Proceed(c, m, 1, "sw_probe")
  BY Zenon DEF Stores
<1>2. /\ Others(c) /\ Goto(c, "sw_probe") /\ mon' = m /\ idx'[c] = 1 /\ UNCHANGED <<call, arg>>
      /\ "sw_probe" \in Labels \ (Preparing \cup {"oops"})
      /\ pc'[c] = "sw_probe" /\ \A u \in Procs \ {c} : pc'[u] = pc[u]
  BY Zenon, <1>0, <1>1, ProceedAside
<1>3. m.state = arg[c].number /\ m.list = mon.list /\ m.size = mon.size /\ m.status = mon.status
  BY Zenon, <1>1, CallTypes DEF Reached
<1>4. pc[c] = "sw_store" /\ settled' = (mon.status = "live" /\ Switching = {}) /\ ~Holder(c)
  BY Zenon, <1>0 DEF Stores, Holder
<1>5. ListInv'
  <2>1. ListAside(c)
    BY Zenon, <1>0, <1>2, <1>3, <1>4 DEF ListAside
  <2> QED
    BY Zenon, <2>1, ListAsideInv
<1>6. ASSUME settled' PROVE Switching' = {c} /\ mon'.status = "live"
  <2>1. mon.status = "live" /\ Switching = {}
    BY Zenon, <1>4, <1>6
  <2>2. \A u \in Procs \ {c} : ~(pc[u] = "sw_probe" /\ call[u] # "freed")
    BY Zenon, <2>1 DEF Switching
  <2> QED
    BY Zenon, <1>2, <1>3, <2>1, <2>2 DEF Switching
<1>7. \A i \in 1 .. idx'[c] - 1 : FALSE
  BY Zenon, <1>0, <1>2
<1>8. mon'.state = arg'[c].number
  BY Zenon, <1>2, <1>3
<1>9. SettledInv'
  BY Zenon, <1>6, <1>7, <1>8 DEF SettledInv
<1> QED
  BY Zenon, <1>5, <1>9

LEMMA TurnsList ==
  ASSUME Inv, ListInv, SettledInv, NEW c \in Procs, TurnsProbe(c), call[c] # "freed"
  PROVE  ListInv' /\ SettledInv'
<1>0. /\ pc[c] = "sw_probe" /\ settled' = settled /\ idx[c] \in Probes /\ idx[c] + 1 \in Nat
      /\ "sw_probe" \in Calling \ (Changing \cup {"prt_size"}) /\ ~Holder(c) /\ c \in Switching
  <2>1. pc[c] = "sw_probe" /\ settled' = settled /\ idx[c] \in Probes /\ idx[c] + 1 \in Nat
    BY Zenon, ProbeIndex DEF TurnsProbe
  <2> QED
    BY Zenon, <2>1, CallingLabels DEF Holder, Switching
<1>1. PICK m : SetEnabled(m, Turned(c)) /\ Proceed(c, m, idx[c] + 1, "sw_probe")
  BY Zenon DEF TurnsProbe
<1>2. /\ Others(c) /\ Goto(c, "sw_probe") /\ mon' = m /\ idx'[c] = idx[c] + 1 /\ UNCHANGED <<call, arg>>
      /\ "sw_probe" \in Labels \ (Preparing \cup {"oops"})
      /\ pc'[c] = "sw_probe" /\ \A u \in Procs \ {c} : pc'[u] = pc[u]
  BY Zenon, <1>0, <1>1, ProceedAside
<1>3. /\ m.enabled = Turned(c) /\ m.state = mon.state /\ m.list = mon.list /\ m.size = mon.size
      /\ m.status = mon.status /\ m.probes = mon.probes
  BY Zenon, <1>0, <1>1, CallTypes DEF Reached
<1>4. ListInv'
  <2>1. ListAside(c)
    BY Zenon, <1>0, <1>2, <1>3 DEF ListAside
  <2> QED
    BY Zenon, <2>1, ListAsideInv
<1>5. settled /\ mon.status = "coming" => FALSE
  BY Zenon, <1>0 DEF SettledInv
<1>6. ASSUME settled, mon.status = "live"
      PROVE  /\ Switching' = {c} /\ mon'.state = arg'[c].number
             /\ mon'.probes = "registered" => \A i \in 1 .. idx'[c] - 1 : Agrees(i)'
  <2>1. /\ Switching = {c} /\ mon.state = arg[c].number
        /\ mon.probes = "registered" => \A i \in 1 .. idx[c] - 1 : Agrees(i)
    BY Zenon, <1>0, <1>6 DEF SettledInv
  <2>2. Switching' = Switching
    BY Zenon, <1>0, <1>2 DEF Switching
  <2>3. ASSUME mon.probes = "registered", NEW i \in 1 .. idx'[c] - 1 PROVE Agrees(i)'
    <3>1. i = idx[c] \/ (i # idx[c] /\ i \in 1 .. idx[c] - 1)
      <4>1. idx[c] \in Int
        BY SMT, <1>0 DEF Probes
      <4> QED
        BY SMT, <1>2, <4>1
    <3>2. i # idx[c] => Agrees(i)
      BY Zenon, <2>1, <2>3, <3>1
    <3>3. /\ i # idx[c] => (i \in Turned(c) <=> i \in mon.enabled)
          /\ i = idx[c] => (i \in Turned(c) <=> Enforcing(mon.state))
      BY Zenon, <2>1, <2>3 DEF Turned
    <3> QED
      BY Zenon, <1>2, <1>3, <3>1, <3>2, <3>3 DEF Agrees
  <2> QED
    BY Zenon, <1>2, <1>3, <2>1, <2>2, <2>3
<1>7. SettledInv'
  BY Zenon, <1>0, <1>2, <1>3, <1>5, <1>6 DEF SettledInv
<1> QED
  BY Zenon, <1>4, <1>7

LEMMA LinksList ==
  ASSUME Inv, ListInv, SettledInv, NEW c \in Procs, Links(c), call[c] # "freed"
  PROVE  ListInv' /\ SettledInv'
<1>0. /\ 0 \in Nat /\ {"add_count", "rem_count"} \subseteq Changing /\ Changing \subseteq Calling
      /\ {"add_count", "rem_count"} \cap {"prt_size", "sw_probe"} = {}
  BY Zenon, Nothing, CallingLabels DEF Changing
<1>1. PICK m : \E L \in {mon.list \cup {Path}, mon.list \ {Path}}, label \in {"add_count", "rem_count"} :
        /\ SetList(m, L) /\ Proceed(c, m, 0, label)
        /\ label = "add_count" => pc[c] = "add_link" /\ Path \notin mon.list /\ L = mon.list \cup {Path}
        /\ label = "rem_count" => pc[c] = "rem_unlink" /\ Path \in mon.list /\ L = mon.list \ {Path}
  BY Zenon DEF Links
<1>2. PICK L \in {mon.list \cup {Path}, mon.list \ {Path}}, label \in {"add_count", "rem_count"} :
        /\ SetList(m, L) /\ Proceed(c, m, 0, label)
        /\ label = "add_count" => pc[c] = "add_link" /\ Path \notin mon.list /\ L = mon.list \cup {Path}
        /\ label = "rem_count" => pc[c] = "rem_unlink" /\ Path \in mon.list /\ L = mon.list \ {Path}
  BY Zenon, <1>1
<1>3. /\ Others(c) /\ Goto(c, label) /\ mon' = m /\ UNCHANGED <<call, arg>>
      /\ label \in Labels \ (Preparing \cup {"oops"})
      /\ pc'[c] = label /\ \A u \in Procs \ {c} : pc'[u] = pc[u]
  BY Zenon, <1>0, <1>2, ProceedAside
<1>4. /\ m.list = L /\ m.size = mon.size /\ m.state = mon.state /\ m.enabled = mon.enabled
      /\ m.status = mon.status /\ m.probes = mon.probes
  BY Zenon, <1>2, CallTypes DEF Reached
<1>5. ~Locked /\ settled' = settled /\ pc[c] \in {"add_link", "rem_unlink"}
  BY Zenon, <1>2 DEF Links
<1>6. SettledInv'
  <2>1. SettledAside(c)
    BY Zenon, <1>0, <1>3, <1>4, <1>5 DEF SettledAside, Switching
  <2> QED
    BY Zenon, <2>1, SettledAsideInv
<1>7. \A p \in Procs : Holder(p)' <=> p = c
  <2>1. \A u \in Procs \ {c} : ~Holder(u)
    BY Zenon, <1>5 DEF Locked, Holder
  <2> QED
    BY Zenon, <1>0, <1>3, <2>1 DEF Holder
<1>8. Locked'
  BY Zenon, <1>7 DEF Locked, Holder
<1>9. /\ mon'.size = IF label = "add_count" THEN 0 ELSE 1
      /\ mon'.list = {} <=> label = "rem_count"
  <2>1. mon.list \in SUBSET {Path} /\ mon.size = IF mon.list = {} THEN 0 ELSE 1
    BY Zenon, <1>5, Own, StateTypes DEF ListInv, Types
  <2>2. CASE label = "add_count"
    <3>1. mon.list = {} /\ L # {}
      BY Zenon, <1>2, <2>1, <2>2
    <3> QED
      BY Zenon, <1>3, <1>4, <2>1, <2>2, <3>1
  <2>3. CASE label = "rem_count"
    <3>1. mon.list # {} /\ L = {}
      BY Zenon, <1>2, <2>1, <2>3
    <3> QED
      BY Zenon, <1>3, <1>4, <2>1, <2>3, <3>1
  <2> QED
    BY Zenon, <2>2, <2>3
<1>10. \A p \in Procs :
         /\ pc'[p] = "prt_size" /\ call'[p] # "freed" /\ idx'[p] = 1 /\ mon'.size = 0 => crowded'[p]
         /\ pc'[p] = "oops" => crowded'[p]
  <2>1. \A u \in Procs \ {c} : pc[u] \in {"prt_size", "oops"} /\ crowded[u] => crowded'[u]
    BY Zenon, <1>3, CrowdKept
  <2>2. \A u \in Procs \ {c} : idx'[u] = idx[u]
    BY Zenon, <1>3 DEF Others
  <2> QED
    BY Zenon, <1>0, <1>3, <1>4, <2>1, <2>2 DEF ListInv
<1>11. ListInv'
  BY Zenon, <1>3, <1>7, <1>8, <1>9, <1>10 DEF ListInv
<1> QED
  BY Zenon, <1>6, <1>11

LEMMA CountsList ==
  ASSUME Inv, ListInv, SettledInv, NEW c \in Procs, Counts(c), call[c] # "freed"
  PROVE  ListInv' /\ SettledInv'
<1>0. PICK m : \E n \in {mon.size + 1, mon.size - 1} :
        /\ SetSize(m, n) /\ Answer(c, m, 0) /\ pc[c] \in {"add_count", "rem_count"}
        /\ pc[c] = "add_count" => n = mon.size + 1
        /\ pc[c] = "rem_count" => n = mon.size - 1
  BY Zenon DEF Counts
<1>1. PICK n \in {mon.size + 1, mon.size - 1} :
        /\ SetSize(m, n) /\ Answer(c, m, 0) /\ pc[c] \in {"add_count", "rem_count"}
        /\ pc[c] = "add_count" => n = mon.size + 1
        /\ pc[c] = "rem_count" => n = mon.size - 1
  BY Zenon, <1>0
<1>2. /\ m.size = n /\ m.state = mon.state /\ m.enabled = mon.enabled /\ m.list = mon.list
      /\ m.status = mon.status /\ m.probes = mon.probes /\ Reached(m)
  BY Zenon, <1>1, CallTypes DEF Reached
<1>3. /\ Others(c) /\ Goto(c, "answer") /\ mon' = m /\ settled' = settled
      /\ "answer" \in Labels \ (Calling \cup Preparing \cup {"oops"})
      /\ pc'[c] = "answer" /\ \A u \in Procs \ {c} : pc'[u] = pc[u]
  BY Zenon, <1>1, <1>2, AnswerAside
<1>4. Holder(c) /\ pc[c] \in Disturbing /\ pc[c] # "sw_probe"
  BY Zenon, <1>1, CallingLabels DEF Holder, Changing
<1>5. "answer" \notin Changing \cup {"prt_size", "sw_probe"}
  BY Zenon, <1>3, CallingLabels
<1>6. SettledInv'
  <2>1. SettledAside(c)
    BY Zenon, <1>2, <1>3, <1>4, <1>5 DEF SettledAside, Switching
  <2> QED
    BY Zenon, <2>1, SettledAsideInv
<1>7. \A p \in Procs : ~Holder(p)'
  <2>1. \A u \in Procs \ {c} : ~Holder(u) /\ call'[u] = call[u]
    BY Zenon, <1>3, <1>4 DEF ListInv, Others
  <2> QED
    BY Zenon, <1>3, <1>5, <2>1 DEF Holder
<1>8. ~Locked'
  BY Zenon, <1>7 DEF Locked, Holder
<1>9. mon'.size = IF mon'.list = {} THEN 0 ELSE 1
  <2>1. /\ mon.size = IF pc[c] = "add_count" THEN 0 ELSE 1
        /\ mon.list = {} <=> pc[c] = "rem_count"
    BY Zenon, <1>4 DEF ListInv
  <2>2. 0 + 1 = 1 /\ 1 - 1 = 0
    BY SMT
  <2>3. CASE pc[c] = "add_count"
    BY Zenon, <1>1, <1>2, <1>3, <2>1, <2>2, <2>3
  <2>4. CASE pc[c] = "rem_count"
    BY Zenon, <1>1, <1>2, <1>3, <2>1, <2>2, <2>4
  <2> QED
    BY Zenon, <1>1, <2>3, <2>4
<1>10. \A p \in Procs : pc'[p] \in {"prt_size", "oops"} => crowded'[p]
  <2>1. AloneInv /\ {"prt_size", "oops"} \subseteq Busy
    BY Zenon, Own, CallingLabels
  <2>2. \A u \in Procs \ {c} : pc[u] \in {"prt_size", "oops"} => crowded[u]
    BY Zenon, <1>4, <2>1 DEF AloneInv
  <2>3. \A u \in Procs \ {c} : pc[u] \in {"prt_size", "oops"} /\ crowded[u] => crowded'[u]
    BY Zenon, <1>3, CrowdKept
  <2> QED
    BY Zenon, <1>3, <1>5, <2>2, <2>3
<1>11. ListInv'
  BY Zenon, <1>7, <1>8, <1>9, <1>10 DEF ListInv
<1> QED
  BY Zenon, <1>6, <1>11

LEMMA NextList ==
  ASSUME Inv, ListInv, SettledInv, [Next]_vars
  PROVE  ListInv' /\ SettledInv'
<1>1. CASE Next
  <2>1. PICK c \in Procs : UserStep(c) \/ KernelStep(c)
    BY Zenon, <1>1 DEF Next
  <2>2. CASE UserStep(c) \/ FsStep(c) \/ DiscStep(c)
    BY Zenon, <2>2, UserIdle, FsIdle, DiscIdle, IdleInv
  <2>3. CASE MonStep(c)
    BY Zenon, <2>3, MonInsertList, MonEntriesList, MonFieldsList, MonPrepareList, MonRegisterList,
       CleanProbesList, MonOtherList DEF MonStep
  <2>4. CASE CallStep(c)
    BY Zenon, <2>4, Outcomes, CallDiesList, AnswersList, ProceedsList, StoresList, TurnsList,
       LinksList, CountsList
  <2> QED
    BY Zenon, <2>1, <2>2, <2>3, <2>4 DEF KernelStep
<1>2. CASE UNCHANGED vars
  <2>1. UNCHANGED <<mon, arg, pc, idx, call, settled, crowded>>
    BY Zenon, <1>2 DEF vars, request, client
  <2>2. \A p \in Procs : Holder(p)' <=> Holder(p)
    BY Zenon, <2>1 DEF Holder
  <2>3. (Locked' <=> Locked) /\ Switching' = Switching
    BY Zenon, <2>1 DEF Locked, Switching
  <2>4. \A i : Agrees(i)' <=> Agrees(i)
    BY Zenon, <2>1 DEF Agrees
  <2>5. ListInv'
    BY Zenon, <2>1, <2>2, <2>3 DEF ListInv
  <2>6. SettledInv'
    BY Zenon, <2>1, <2>3, <2>4 DEF SettledInv
  <2> QED
    BY Zenon, <2>5, <2>6
<1> QED
  BY Zenon, <1>1, <1>2

LEMMA InitList ==
  ASSUME Init
  PROVE  ListInv /\ SettledInv
<1>1. mon = NoMon /\ pc = [c \in Procs |-> "info"] /\ "info" \notin Changing \cup {"prt_size", "oops"}
  BY Zenon DEF Init, KernelInit, Changing
<1>2. \A p \in Procs : ~Holder(p)
  BY Zenon, <1>1 DEF Holder
<1>3. ListInv
  BY Zenon, <1>1, <1>2, NoMonFields DEF ListInv
<1>4. SettledInv
  BY Zenon, <1>1, NoMonFields DEF SettledInv
<1> QED
  BY Zenon, <1>3, <1>4
(*****************************************************************************)
(* The loops over memory                                                     *)
(*****************************************************************************)
\* A loop that takes the first number of a set finds one.
LEMMA FirstOne ==
  ASSUME NEW S \in SUBSET Nat, S # {}
  PROVE  \E k \in S : \A j \in S : k <= j
<1>1. PICK k \in S : \A j \in S : ~(<<j, k>> \in OpToRel(<, Nat))
  BY ZenonT(30), NatLessThanWellFounded, WFMin
<1>2. \A j \in S : ~(j < k)
  BY ZenonT(30), <1>1 DEF OpToRel
<1> QED
  BY SMTT(30), <1>2

\* The element of S that has m smaller ones.
HasRank(S, m) == \E k \in S : Cardinality({j \in S : j < k}) = m

LEMMA FirstRank ==
  ASSUME NEW S \in SUBSET Nat, S # {}
  PROVE  HasRank(S, 0)
<1>1. PICK k \in S : \A j \in S : k <= j
  BY ZenonT(30), FirstOne
<1>2. {j \in S : j < k} = {}
  <2>1. \A j \in S : ~(j < k)
    BY SMTT(30), <1>1
  <2> QED
    BY ZenonT(30), <2>1
<1> QED
  BY ZenonT(30), <1>2, FS_EmptySet DEF HasRank

LEMMA NextRank ==
  ASSUME NEW S \in SUBSET Nat, IsFiniteSet(S), NEW m \in Nat, HasRank(S, m), m + 1 < Cardinality(S)
  PROVE  HasRank(S, m + 1)
<1> DEFINE Below(k) == {j \in S : j < k}
<1>1. PICK k \in S : Cardinality(Below(k)) = m
  BY ZenonT(30) DEF HasRank
<1>2. IsFiniteSet(Below(k)) /\ k \notin Below(k)
  <2>1. Below(k) \subseteq S
    BY ZenonT(30)
  <2>2. k \notin Below(k)
    BY SMT
  <2> QED
    BY ZenonT(30), <2>1, <2>2, FS_Subset
<1>3. Cardinality(Below(k) \cup {k}) = m + 1
  BY ZenonT(30), <1>1, <1>2, FS_AddElement
<1> DEFINE Above == {j \in S : k < j}
<1>4. Above # {}
  <2> SUFFICES ASSUME Above = {} PROVE FALSE
    OBVIOUS
  <2>1. S = Below(k) \cup {k}
    <3>1. \A j \in S : j < k \/ j = k \/ k < j
      BY SMTT(30)
    <3> QED
      BY ZenonT(30), <3>1
  <2>2. Cardinality(S) = m + 1
    BY ZenonT(30), <1>3, <2>1
  <2> QED
    BY SMTT(30), <2>2
<1>5. PICK h \in Above : \A j \in Above : h <= j
  <2>1. Above \in SUBSET Nat
    BY ZenonT(30)
  <2> QED
    BY ZenonT(30), <1>4, <2>1, FirstOne
<1>6. Below(h) = Below(k) \cup {k}
  <2>1. h \in S /\ k < h /\ \A j \in S : k < j => h <= j
    BY ZenonT(30), <1>5
  <2>2. \A j \in S : j < h <=> j < k \/ j = k
    BY SMTT(30), <2>1
  <2> QED
    BY ZenonT(30), <2>2
<1> QED
  BY ZenonT(30), <1>3, <1>5, <1>6 DEF HasRank

LEMMA SixRanks ==
  ASSUME NEW S \in SUBSET Nat, IsFiniteSet(S), HACKED_ENTRIES <= Cardinality(S), NEW n \in Turns
  PROVE  HasRank(S, n - 1)
<1>1. Cardinality(S) \in Nat /\ 6 <= Cardinality(S)
  BY ZenonT(30), FS_CardinalityType, TheCalls
<1>2. S # {}
  BY SMTT(30), <1>1, FS_EmptySet
<1>3. HasRank(S, 0)
  BY ZenonT(30), <1>2, FirstRank
<1>4. HasRank(S, 1)
  BY SMTT(30), <1>1, <1>3, NextRank
<1>5. HasRank(S, 2)
  BY SMTT(30), <1>1, <1>4, NextRank
<1>6. HasRank(S, 3)
  BY SMTT(30), <1>1, <1>5, NextRank
<1>7. HasRank(S, 4)
  BY SMTT(30), <1>1, <1>6, NextRank
<1>8. HasRank(S, 5)
  BY SMTT(30), <1>1, <1>7, NextRank
<1>9. n - 1 \in {0, 1, 2, 3, 4, 5}
  BY SMTT(30), TheCalls DEF Turns
<1> QED
  BY ZenonT(30), <1>3, <1>4, <1>5, <1>6, <1>7, <1>8, <1>9

\* get_entries: distinct entries of the table, all of which hold one word.
LEMMA EntriesOfTable ==
  ASSUME NEW w, NEW t, get_entries(w, t) # << >>
  PROVE  /\ get_entries(w, t) \in [Turns -> 0 .. TableSize - 1]
         /\ \A m, n \in Turns :
              /\ w[t + get_entries(w, t)[m]] = w[t + get_entries(w, t)[n]]
              /\ m # n => get_entries(w, t)[m] # get_entries(w, t)[n]
<1> DEFINE twice  == {i \in 0 .. TableSize - 1 :
                        \E z \in i + 1 .. TableSize - 1 : w[t + i] = w[t + z]}
           first  == CHOOSE i \in twice : \A j \in twice : i <= j
           same   == SameWord(w, t, first)
           Nth(n) == CHOOSE k \in same : Cardinality({j \in same : j < k}) = n - 1
<1>1. /\ ~(twice = {} \/ Cardinality(same) < HACKED_ENTRIES)
      /\ get_entries(w, t) = [n \in 1 .. HACKED_ENTRIES |-> Nth(n)]
  BY ZenonT(30) DEF get_entries
<1>2. twice \in SUBSET Nat /\ twice # {}
  <2>1. 0 .. TableSize - 1 \subseteq Nat
    BY SMTT(30), MemoryAssumption
  <2> QED
    BY ZenonT(30), <1>1, <2>1
<1>3. first \in twice
  <2> HIDE DEF twice
  <2>1. \E i \in twice : \A j \in twice : i <= j
    BY ZenonT(30), <1>2, FirstOne
  <2> QED
    BY ZenonT(30), <2>1
<1>4. first \in 0 .. TableSize - 1
  BY ZenonT(30), <1>3
<1> HIDE DEF first, twice
<1>5. same \subseteq 0 .. TableSize - 1 /\ \A k \in same : w[t + k] = w[t + first]
  <2>1. first .. TableSize - 1 \subseteq 0 .. TableSize - 1
    BY SMTT(30), <1>4, MemoryAssumption
  <2> QED
    BY ZenonT(30), <2>1 DEF SameWord
<1>6. same \in SUBSET Nat /\ IsFiniteSet(same) /\ Cardinality(same) \in Nat
  <2>1. 0 .. TableSize - 1 \subseteq Nat /\ TableSize - 1 \in Int /\ 0 \in Int
    BY SMTT(30), MemoryAssumption
  <2>2. IsFiniteSet(0 .. TableSize - 1)
    BY ZenonT(30), <2>1, FS_Interval
  <2> QED
    BY ZenonT(30), <1>5, <2>1, <2>2, FS_Subset, FS_CardinalityType
<1>7. HACKED_ENTRIES <= Cardinality(same)
  BY SMTT(30), <1>1, <1>6, TheCalls
<1> HIDE DEF same
<1>8. ASSUME NEW n \in Turns
      PROVE  Nth(n) \in same /\ Cardinality({j \in same : j < Nth(n)}) = n - 1
  <2>1. HasRank(same, n - 1)
    BY ZenonT(30), <1>6, <1>7, SixRanks
  <2> QED
    BY ZenonT(30), <2>1 DEF HasRank
<1>9. \A m, n \in Turns : m # n => m - 1 # n - 1
  BY SMT DEF Turns
<1> HIDE DEF Nth
<1>10. \A n \in Turns : get_entries(w, t)[n] = Nth(n)
  BY ZenonT(30), <1>1 DEF Turns
<1>11. get_entries(w, t) \in [Turns -> 0 .. TableSize - 1]
  BY ZenonT(30), <1>1, <1>5, <1>8 DEF Turns
<1>12. ASSUME NEW m \in Turns, NEW n \in Turns
       PROVE  /\ w[t + get_entries(w, t)[m]] = w[t + get_entries(w, t)[n]]
              /\ m # n => get_entries(w, t)[m] # get_entries(w, t)[n]
  <2>1. get_entries(w, t)[m] = Nth(m) /\ get_entries(w, t)[n] = Nth(n)
    BY ZenonT(30), <1>10
  <2>2. w[t + Nth(m)] = w[t + first] /\ w[t + Nth(n)] = w[t + first]
    BY ZenonT(30), <1>5, <1>8
  <2>3. m # n => Nth(m) # Nth(n)
    BY ZenonT(30), <1>8, <1>9
  <2> QED
    BY ZenonT(30), <2>1, <2>2, <2>3
<1> QED
  BY ZenonT(30), <1>11, <1>12

\* validate_page: an address that it has compared, and that fits.
LEMMA AddressOfPage ==
  ASSUME NEW page \in Nat, validate_page(page) # NULL
  PROVE  validate_page(page) \in Tested(page) /\ Pattern(memory, validate_page(page))
<1> DEFINE found == {a \in Tested(page) : Pattern(memory, a)}
<1>1. found # {} /\ validate_page(page) = CHOOSE a \in found : \A b \in found : a <= b
  BY ZenonT(30) DEF validate_page
<1>2. found \in SUBSET Nat
  <2>1. page * PageSize .. (page + 1) * PageSize - 1 \subseteq Nat
    <3>1. page * PageSize \in Nat
      BY SMTT(30), MemoryAssumption
    <3> QED
      BY SMTT(30), <3>1
  <2> QED
    BY ZenonT(30), <2>1 DEF Tested
<1>3. validate_page(page) \in found
  <2> HIDE DEF found
  <2>1. \E a \in found : \A b \in found : a <= b
    BY ZenonT(30), <1>1, <1>2, FirstOne
  <2> QED
    BY ZenonT(30), <1>1, <2>1
<1> QED
  BY ZenonT(30), <1>3

\* The loop of the discoverer over the table ends at MAX_FREE entries.
LEMMA FreeEntriesBound ==
  ASSUME NEW S \in SUBSET (0 .. TableSize - 1)
  PROVE  Cardinality({i \in S : Cardinality({j \in S : j < i}) < MAX_FREE}) <= MAX_FREE
<1> DEFINE Below(i) == {j \in S : j < i}
           first == {i \in S : Cardinality(Below(i)) < MAX_FREE}
           turned == {TableSize - 1 - i : i \in first}
<1>0. /\ 0 .. TableSize - 1 \subseteq Nat /\ MAX_FREE \in Nat /\ TableSize - 1 \in Int
      /\ TableSize \in Nat
  BY SMTT(30), MemoryAssumption
<1>1. IsFiniteSet(S)
  <2>1. IsFiniteSet(0 .. TableSize - 1)
    BY SMTT(30), <1>0, FS_Interval
  <2> QED
    BY ZenonT(30), <2>1, FS_Subset
<1>2. CASE first = {}
  <2>1. Cardinality(first) = 0
    BY ZenonT(30), <1>2, FS_EmptySet
  <2>2. 0 <= MAX_FREE
    BY SMTT(30), <1>0
  <2> QED
    BY ZenonT(30), <2>1, <2>2
<1>3. CASE first # {}
  <2>1. turned \in SUBSET Nat /\ turned # {}
    <3>1. \A i \in S : TableSize - 1 - i \in Nat
      BY SMTT(30), <1>0
    <3> QED
      BY ZenonT(30), <1>3, <3>1
  <2>2. PICK u \in turned : \A v \in turned : u <= v
    <3> HIDE DEF turned
    <3> QED
      BY ZenonT(30), <2>1, FirstOne
  <2>3. PICK h \in first : u = TableSize - 1 - h
    BY ZenonT(30)
  <2>4. \A j \in first : j < h \/ j = h
    <3>1. \A j \in first : u <= TableSize - 1 - j
      BY ZenonT(30), <2>2
    <3>2. \A j \in first : j \in Nat
      BY ZenonT(30), <1>0
    <3> HIDE DEF first
    <3> QED
      BY SMTT(30), <1>0, <2>3, <3>1, <3>2
  <2>5. first \subseteq Below(h) \cup {h}
    BY ZenonT(30), <2>4
  <2>6. /\ IsFiniteSet(Below(h)) /\ h \notin Below(h) /\ Cardinality(Below(h)) < MAX_FREE
    <3>1. Below(h) \subseteq S /\ h \in S /\ Cardinality(Below(h)) < MAX_FREE
      BY ZenonT(30)
    <3>2. ~(h < h)
      BY SMTT(30), <1>0, <3>1
    <3> QED
      BY ZenonT(30), <1>1, <3>1, <3>2, FS_Subset
  <2>7. /\ IsFiniteSet(Below(h) \cup {h}) /\ Cardinality(Below(h) \cup {h}) = Cardinality(Below(h)) + 1
    BY ZenonT(30), <2>6, FS_AddElement
  <2>8. Cardinality(first) <= Cardinality(Below(h) \cup {h})
    BY ZenonT(30), <2>5, <2>7, FS_Subset
  <2>9. IsFiniteSet(first) /\ Cardinality(first) \in Nat /\ Cardinality(Below(h)) \in Nat
    BY ZenonT(30), <2>5, <2>6, <2>7, FS_Subset, FS_CardinalityType
  <2> HIDE DEF first, Below
  <2>10. Cardinality(first) <= MAX_FREE
    BY SMTT(30), <1>0, <2>6, <2>7, <2>8, <2>9
  <2> QED
    BY ZenonT(30), <2>10 DEF first, Below
<1> QED
  BY ZenonT(30), <1>2, <1>3

LEMMA OperatorsHold == Operators
<1>1. \A w, t : get_entries(w, t) # << >> =>
       /\ get_entries(w, t) \in [Turns -> 0 .. TableSize - 1]
       /\ \A m, n \in Turns :
            /\ w[t + get_entries(w, t)[m]] = w[t + get_entries(w, t)[n]]
            /\ m # n => get_entries(w, t)[m] # get_entries(w, t)[n]
  <2> SUFFICES ASSUME NEW w, NEW t, get_entries(w, t) # << >>
               PROVE  /\ get_entries(w, t) \in [Turns -> 0 .. TableSize - 1]
                      /\ \A m, n \in Turns :
                           /\ w[t + get_entries(w, t)[m]] = w[t + get_entries(w, t)[n]]
                           /\ m # n => get_entries(w, t)[m] # get_entries(w, t)[n]
    BY ZenonT(30)
  <2> QED
    BY SMTT(30), EntriesOfTable
<1> QED
  BY ZenonT(30), <1>1, AddressOfPage, FreeEntriesBound DEF Operators

\* The invariants together.
IInv == Inv /\ PlaceInv /\ RangeInv /\ ListInv /\ SettledInv

LEMMA Holds == Spec => []IInv
<1>1. Init => IInv
  BY ZenonT(30), OperatorsHold, InitInv, InitPlace, InitRange, InitList DEF IInv
<1>2. IInv /\ [Next]_vars => IInv'
  BY ZenonT(30), OperatorsHold, NextInv, NextPlace, NextRange, NextList DEF IInv
<1> QED
  BY PTL, <1>1, <1>2 DEF Spec

(*****************************************************************************)
(* The theorems                                                              *)
(*****************************************************************************)
\* Every variable keeps its type: the scan stops at the last page, no more than
\* MAX_FREE entries are free, and states and answers are those of the code.
THEOREM TypesAreKept == Spec => []TypeOK
<1>1. IInv => TypeOK
  <2> SUFFICES ASSUME IInv PROVE TypeOK
    OBVIOUS
  <2>1. Types /\ DiscInv /\ mon \in MonType /\ ClientInv /\ KernelInv /\ ret \in [Procs -> Answers]
    BY ZenonT(30) DEF IInv, Inv, RangeInv, Types
  <2>2. ASSUME NEW c \in Procs
        PROVE  idx[c] \in 0 .. CASE pc[c] = "disc_scan" -> Pages
                                 [] pc[c] = "sw_probe"  -> NUM_KRETPROBES + 1
                                 [] OTHER               -> HACKED_ENTRIES
    <3>1. /\ idx[c] \in Nat /\ (pc[c] = "disc_scan" => idx[c] <= Pages)
          /\ pc[c] = "sw_probe" => idx[c] <= NUM_KRETPROBES + 1
          /\ pc[c] \notin Apart => idx[c] <= HACKED_ENTRIES
      BY ZenonT(30), <2>1 DEF IInv, RangeInv, ProcInv, DiscInv, Types
    <3>2. Pages \in Nat /\ HACKED_ENTRIES \in Nat /\ NUM_KRETPROBES \in Nat
      BY SMTT(30), MemoryAssumption, TheCalls
    <3>3. CASE pc[c] = "disc_scan"
      BY SMTT(30), <3>1, <3>2, <3>3
    <3>4. CASE pc[c] = "sw_probe"
      BY SMTT(30), <3>1, <3>2, <3>4
    <3>5. CASE pc[c] # "disc_scan" /\ pc[c] # "sw_probe"
      <4>1. idx[c] <= HACKED_ENTRIES
        BY ZenonT(30), <3>1, <3>5 DEF Apart
      <4> QED
        BY SMTT(30), <3>1, <3>2, <3>5, <4>1
    <3> QED
      BY ZenonT(30), <3>3, <3>4, <3>5
  <2>3. mon \in [status : {"none", "coming", "live", "going"},
                 syscalls_table_address : {NULL} \cup Scanned,
                 restore : {<< >>} \cup [1 .. HACKED_ENTRIES -> 0 .. TableSize - 1],
                 the_ni_syscall : {NoWord} \cup Words,
                 state : RF_ON .. RF_REC_OFF, list : SUBSET {Path}, size : 0 .. 1,
                 password : BOOLEAN, probes : {"none", "array", "registered"},
                 enabled : SUBSET Probes]
    <3>1. mon.size \in 0 .. 1
      <4>1. mon.size \in {0, 1}
        BY ZenonT(30), SizeRange DEF IInv
      <4> QED
        BY SMTT(30), <4>1
    <3> QED
      BY ZenonT(30), <2>1, <3>1 DEF KernelInv, MonType, States, Turns
  <2> QED
    BY ZenonT(30), <2>1, <2>2, <2>3
       DEF TypeOK, Types, DiscType, ClientInv, KernelInv, States, Answers, Purposes
<1> QED
  BY PTL, <1>1, Holds

\* Without the monitor the system call table is what it was at boot: what
\* initialize_syscalls has stored, cleanup_module takes back.
THEOREM TheTableIsRestored == Spec => []TableIsRestored
<1>1. IInv => TableIsRestored
  BY ZenonT(30) DEF IInv, Inv, TableInv, TableIsRestored
<1> QED
  BY PTL, <1>1, Holds

\* The numbers of client.h select their own call or what they selected at boot, and
\* their own call while the monitor is live.
THEOREM NumbersAreRight == Spec => []NumbersReachTheirCalls
<1>1. IInv => NumbersReachTheirCalls
  <2> SUFFICES ASSUME IInv, NEW k \in CallNames
               PROVE  \/ memory[Entry(k)] = k
                      \/ memory[Entry(k)] = boot.words[Entry(k)] /\ mon.status # "live"
    BY ZenonT(30) DEF NumbersReachTheirCalls, Entry
  <2>1. mon.status = "live" => memory[Entry(k)] = k
    BY ZenonT(30) DEF IInv, PlaceInv, Stored
  <2> QED
    BY ZenonT(30), <2>1, EntryHolds DEF IInv
<1> QED
  BY PTL, <1>1, Holds

\* What syscall_table_finder and the loop over the free entries expose is the table
\* and entries that were free at boot, also when the table or some other place of
\* memory holds calls of the monitor; and the scan never reads what is not mapped.
THEOREM TheDiscoveryIsSound == Spec => []DiscoveryIsSound
<1>1. IInv => DiscoveryIsSound
  BY ZenonT(30) DEF IInv, Inv, DiscInv, PlaceInv, Located, DiscoveryIsSound, Scanning
<1> QED
  BY PTL, <1>1, Holds

\* A process dies in the kernel only if another one has been inserting or removing a
\* module meanwhile, or between the two stores of an addition or a removal of a path.
THEOREM WhoIsAloneIsSafe == Spec => []AloneIsSafe
<1>1. IInv => AloneIsSafe
  BY ZenonT(30) DEF IInv, ListInv, AloneIsSafe
<1> QED
  BY PTL, <1>1, Holds

\* After init_module, and after every switch that was alone, all probes or none are
\* enabled, as the state says: the loop of sys_switch_rf_state repairs what calls that
\* came too early, or switches that met, have left.
THEOREM LoneSwitchesSettle == Spec => []LoneSwitchSettles
<1>1. IInv => LoneSwitchSettles
  <2> SUFFICES ASSUME IInv, mon.status = "live", mon.probes = "registered", settled, Switching = {}
               PROVE  mon.enabled = IF Enforcing(mon.state) THEN Probes ELSE {}
    BY ZenonT(30) DEF LoneSwitchSettles
  <2>1. \A i \in Probes : i \in mon.enabled <=> Enforcing(mon.state)
    BY ZenonT(30) DEF IInv, SettledInv, Agrees
  <2>2. mon.enabled \in SUBSET Probes
    BY ZenonT(30), StateTypes DEF IInv, Inv, Types
  <2> QED
    BY ZenonT(30), <2>1, <2>2
<1> QED
  BY PTL, <1>1, Holds
================================================================================
