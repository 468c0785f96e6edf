-------------------------------- MODULE Monitor --------------------------------
(*****************************************************************************)
(* The reference monitor as a whole: its state, its ten kretprobes, the      *)
(* system calls that switch and reconfigure it, the file operations that the *)
(* probes intercept, and the deferred work that logs a refused operation.    *)
(*                                                                           *)
(*   sys_switch_rf_state, sys_get_rf_state, sys_add_to_blacklist,            *)
(*   sys_remove_from_blacklist, is_blacklisted    (stack_reference_monitor.c)*)
(*   entry and return handlers, enable/disable    (kprobes/kprobes.c)        *)
(*   is_rf_rec, password_check, euid_check, rf_state_check  (utils/utils.c)  *)
(*   write_on_log, deferred_work                  (log/logger.c)             *)
(*                                                                           *)
(* The blacklist is a set, changed in one step under the lock: module        *)
(* Blacklist has the linked list, and shows that it behaves as such a set.   *)
(*****************************************************************************)
EXTENDS Integers, Sequences, FiniteSets

CONSTANTS
  Admins,       \* threads that call the monitor's system calls
  Users,        \* threads that operate on files
  Workers,      \* kernel worker threads that run deferred_work
  Paths,        \* full paths, as dentry_path_raw gives them
  Entries,      \* paths that are added to the blacklist
  Parent,       \* path -> path of its parent directory
  Matches,      \* <<entry, path>>: is_blacklisted takes path for protected by entry
  LogPath,      \* path of LOG_FILE
  ProbeArray,   \* kprobe_array: the probed functions, in order
  MaxActive,    \* instances of a kretprobe (maxactive = -1: chosen by the kernel)
  Requests,     \* the file operations that Users perform
  MaxOps,       \* bound: number of file operations ever begun
  States,       \* the state arguments that callers pass
  Mounted,      \* the log file system stays mounted: otherwise the log may not be found
  Registered,   \* register_kretprobes succeeded (its failure is ignored)
  AllocFails    \* the kernel allocator may fail

Actors == Admins \cup Users \cup Workers
Probes == {ProbeArray[i] : i \in DOMAIN ProbeArray}

\* O_RDONLY is the absence of these.
Flags == {"O_WRONLY", "O_RDWR", "O_CREAT", "O_APPEND", "O_TRUNC", "O_NONBLOCK"}

ASSUME ActorsAssumption ==
  /\ IsFiniteSet(Actors)
  /\ Admins \cap Users = {} /\ Admins \cap Workers = {} /\ Users \cap Workers = {}
ASSUME PathsAssumption ==
  /\ Entries \subseteq Paths
  /\ LogPath \in Paths
  /\ Parent \in [Paths -> Paths]
  /\ Matches \subseteq Entries \X Paths
ASSUME ProbesAssumption ==
  /\ ProbeArray \in Seq(STRING)
  /\ States \subseteq Int
  /\ Mounted \in BOOLEAN
  /\ Registered \in BOOLEAN
  /\ AllocFails \in BOOLEAN
  /\ MaxActive \in Nat
  /\ MaxOps \in Nat
  /\ Requests \subseteq
       [kind : STRING, path : Paths, other : Paths, flags : SUBSET Flags]

VARIABLES
  state,        \* reference_monitor.state
  list,         \* the paths on the blacklist
  enabled,      \* probed function -> its kretprobe is enabled
  stuck,        \* a thread died with reference_monitor.lock taken
  queue,        \* works scheduled and not yet begun
  logged,       \* rows written to the log
  pc,           \* where each actor is
  kind,         \* the function a file operation is in
  targets,      \* the paths its entry handler looks up, or an add or remove works on
  idx,          \* loop index: into targets, or into ProbeArray
  blocked,      \* the entry handler returned 0: the return handler will run
  goal,         \* the state a switch was asked for
  effect,       \* the file operation took place
  ret,          \* value returned
  (* History variables: no action reads them. *)
  begun,        \* file operations begun by Users
  refused,      \* operations of Users that the return handler refused
  lost,         \* refusals that will never be logged
  lasting,      \* entries listed ever since the operation began
  steady,       \* the operation is probed, and the monitor has been on since
  armed         \* no switch has been under way since, and the monitor was on

control == <<state, list, enabled, stuck>>
journal == <<queue, logged, refused, lost>>
local   == <<kind, targets, idx, blocked, goal, effect, ret>>
window  == <<lasting, steady, armed>>
vars    == <<control, journal, pc, local, window, begun>>

RF_ON      == 0
RF_OFF     == 1
RF_REC_ON  == 2
RF_REC_OFF == 3
RFStates   == RF_ON .. RF_REC_OFF

EPERM  == -1
EAGAIN == -11
ENOMEM == -12
EACCES == -13
EEXIST == -17
EINVAL == -22
Results == {EPERM, EAGAIN, ENOMEM, EACCES, EEXIST, EINVAL} \cup RFStates

\* sys_switch_rf_state enables the probes in these states, and is_blacklisted
\* looks at the list in them.
Enforcing(s) == s = RF_ON \/ s = RF_REC_ON

\* A switch that has stored the state and is going through the probes.
Switching == \E a \in Admins : pc[a] = "sw_probe"

\* "reference monitor is operative": it is on, and no switch is under way.
Armed == Enforcing(state) /\ ~Switching

\* Some entry of the set protects one of the paths of the sequence.
Protects(entries, paths) ==
  \E e \in entries, i \in DOMAIN paths : <<e, paths[i]>> \in Matches

Init ==
  /\ state = RF_OFF
  /\ list = {}
  /\ enabled = [k \in Probes |-> FALSE]
  /\ stuck = FALSE
  /\ queue = 0
  /\ logged = 0
  /\ pc = [t \in Actors |-> "idle"]
  /\ kind = [t \in Actors |-> "none"]
  /\ targets = [t \in Actors |-> << >>]
  /\ idx = [t \in Actors |-> 1]
  /\ blocked = [t \in Actors |-> FALSE]
  /\ goal = [t \in Actors |-> RF_OFF]
  /\ effect = [t \in Actors |-> FALSE]
  /\ ret = [t \in Actors |-> 0]
  /\ begun = 0
  /\ refused = 0
  /\ lost = 0
  /\ lasting = [t \in Actors |-> {}]
  /\ steady = [t \in Actors |-> FALSE]
  /\ armed = [t \in Actors |-> FALSE]

Goto(t, label) == pc' = [pc EXCEPT ![t] = label]

\* The call returns to its caller.
Return(t, value) ==
  /\ Goto(t, "done")
  /\ ret' = [ret EXCEPT ![t] = value]

\* Nothing is left of the call.
Rest(t) ==
  /\ Goto(t, "idle")
  /\ kind' = [kind EXCEPT ![t] = "none"]
  /\ targets' = [targets EXCEPT ![t] = << >>]
  /\ idx' = [idx EXCEPT ![t] = 1]
  /\ blocked' = [blocked EXCEPT ![t] = FALSE]
  /\ goal' = [goal EXCEPT ![t] = RF_OFF]
  /\ effect' = [effect EXCEPT ![t] = FALSE]
  /\ ret' = [ret EXCEPT ![t] = 0]
  /\ lasting' = [lasting EXCEPT ![t] = {}]
  /\ steady' = [steady EXCEPT ![t] = FALSE]
  /\ armed' = [armed EXCEPT ![t] = FALSE]
  /\ UNCHANGED <<control, begun>>

\* The caller has its result, and may go on.
Resume(t) ==
  /\ pc[t] = "done"
  /\ Rest(t)
  /\ UNCHANGED journal

(*****************************************************************************)
(* The checks of the system calls.  A caller c has an effective user id and  *)
(* a password argument that is right, wrong or unreadable.                   *)
(*****************************************************************************)
Callers == [root : BOOLEAN, password : {"right", "wrong", "fault"}]

\* Faulty variant: one state too many is let through.
rf_state_checkLax(s) == IF s < 0 \/ s > 4 THEN EINVAL ELSE 0

rf_state_check(s) == IF s < 0 \/ s > 3 THEN EINVAL ELSE 0

is_rf_rec(s) == IF s < 2 THEN EPERM ELSE 0

password_check(c) ==
  CASE c.password = "fault" -> EAGAIN
    [] c.password = "wrong" -> EACCES
    [] OTHER -> 0

euid_check(c) == IF c.root THEN 0 ELSE EPERM

\* The first error of a sequence of checks, 0 if there is none.
FirstError(checks) ==
  IF \E i \in DOMAIN checks : checks[i] # 0
  THEN checks[CHOOSE i \in DOMAIN checks :
                checks[i] # 0 /\ \A j \in 1 .. i - 1 : checks[j] = 0]
  ELSE 0

\* A call whose checks give error ends, and one whose checks pass goes on with
\* its argument, a state or a path.
Authorise(t, error, label, s, paths) ==
  \/ /\ error = 0
     /\ Goto(t, label)
     /\ goal' = [goal EXCEPT ![t] = s]
     /\ targets' = [targets EXCEPT ![t] = paths]
     /\ UNCHANGED ret
  \/ error # 0 /\ Return(t, error) /\ UNCHANGED <<goal, targets>>

\* password_check has no memory for its copy, or sys_get_rf_state for the name of
\* the state.
NoMemory(t) ==
  /\ AllocFails
  /\ pc[t] = "idle"
  /\ t \in Admins
  /\ Return(t, ENOMEM)
  /\ UNCHANGED <<control, journal, kind, targets, idx, blocked, goal, effect,
                 window, begun>>

(*****************************************************************************)
(* sys_switch_rf_state                                                       *)
(*****************************************************************************)
SwitchCall(t, s, c) ==
  /\ pc[t] = "idle"
  /\ Authorise(t, FirstError(<<rf_state_check(s), password_check(c), euid_check(c)>>),
               "sw_store", s, << >>)
  /\ UNCHANGED <<control, journal, kind, idx, blocked, effect, window, begun>>

\* The assignment under the lock.
SwitchStore(t) ==
  /\ pc[t] = "sw_store"
  /\ ~stuck
  /\ state' = goal[t]
  /\ Goto(t, "sw_probe")
  /\ steady' = [u \in Actors |-> steady[u] /\ Enforcing(goal[t])]
  /\ armed' = [u \in Actors |-> FALSE]
  /\ UNCHANGED <<list, enabled, stuck, journal, local, lasting, begun>>

\* Faulty variant: the loop leaves the last probe alone.
SwitchProbeSkipsLast(t) ==
  /\ pc[t] = "sw_probe"
  /\ idx[t] \in DOMAIN ProbeArray
  /\ enabled' = [enabled EXCEPT
                   ![ProbeArray[idx[t]]] =
                     IF idx[t] = Len(ProbeArray) THEN @ ELSE Registered /\ Enforcing(goal[t])]
  /\ idx' = [idx EXCEPT ![t] = @ + 1]
  /\ UNCHANGED <<state, list, stuck, journal, pc, kind, targets, blocked, goal,
                 effect, ret, window, begun>>

\* enable_kprobes or disable_kprobes, one probe: an error is printed at most.
SwitchProbe(t) ==
  /\ pc[t] = "sw_probe"
  /\ idx[t] \in DOMAIN ProbeArray
  /\ enabled' = [enabled EXCEPT
                   ![ProbeArray[idx[t]]] = Registered /\ Enforcing(goal[t])]
  /\ idx' = [idx EXCEPT ![t] = @ + 1]
  /\ UNCHANGED <<state, list, stuck, journal, pc, kind, targets, blocked, goal,
                 effect, ret, window, begun>>

\* The state is read again, and may be another switch's; the buffer for its name
\* may not be had.
SwitchReturn(t) ==
  /\ pc[t] = "sw_probe"
  /\ idx[t] \notin DOMAIN ProbeArray
  /\ \E v \in {state} \cup IF AllocFails THEN {ENOMEM} ELSE {} : Return(t, v)
  /\ UNCHANGED <<control, journal, kind, targets, idx, blocked, goal, effect,
                 window, begun>>

\* sys_get_rf_state
GetState(t) ==
  /\ pc[t] = "idle"
  /\ Return(t, state)
  /\ UNCHANGED <<control, journal, kind, targets, idx, blocked, goal, effect,
                 window, begun>>

(*****************************************************************************)
(* sys_add_to_blacklist and sys_remove_from_blacklist: the state is checked  *)
(* first, the password is hashed, and then the list is changed.              *)
(*****************************************************************************)
Reconfigure(t, p, c, label) ==
  /\ pc[t] = "idle"
  /\ Authorise(t, FirstError(<<is_rf_rec(state), password_check(c), euid_check(c)>>),
               label, goal[t], <<p>>)
  /\ UNCHANGED <<control, journal, kind, idx, blocked, effect, window, begun>>

AddCall(t, p, c) == Reconfigure(t, p, c, "add")

RemoveCall(t, p, c) == Reconfigure(t, p, c, "remove")

Add(t) ==
  LET p == targets[t][1]
  IN  /\ pc[t] = "add"
      /\ ~stuck
      /\ list' = list \cup {p}
      /\ Return(t, IF p \in list THEN EEXIST ELSE 0)
      /\ UNCHANGED <<state, enabled, stuck, journal, kind, targets, idx, blocked,
                     goal, effect, window, begun>>

Remove(t) ==
  LET p == targets[t][1]
  IN  /\ pc[t] = "remove"
      /\ ~stuck
      /\ list' = list \ {p}
      /\ Return(t, IF p \in list THEN 0 ELSE 1)
      /\ lasting' = [u \in Actors |-> lasting[u] \ {p}]
      /\ UNCHANGED <<state, enabled, stuck, journal, kind, targets, idx, blocked,
                     goal, effect, steady, armed, begun>>

(*****************************************************************************)
(* File operations.  The entry handler of a probed function looks up the     *)
(* paths below, in order, until one is blacklisted.                          *)
(*****************************************************************************)
open_entry_handler(r) ==
  IF r.flags \cap {"O_WRONLY", "O_RDWR", "O_CREAT", "O_APPEND", "O_TRUNC"} # {}
  THEN <<r.path>>
  ELSE << >>

inode_link_entry_handler(r) == <<r.path, r.other>>

inode_symlink_entry_handler(r) == <<r.path>>

inode_unlink_entry_handler(r) == <<r.path>>

inode_create_entry_handler(r) == <<r.path>>

inode_mkdir_entry_handler(r) == <<r.path>>

inode_rename_entry_handler(r) == <<r.path, r.other>>

inode_rmdir_entry_handler(r) == <<r.path, Parent[r.path]>>

vfs_write_entry_handler(r) == <<r.path>>

vfs_lseek_entry_handler(r) == <<r.path>>

\* kretprobe_init: which handler is set for which function.
EntryHandler(r) ==
  CASE r.kind = "security_file_open"     -> open_entry_handler(r)
    [] r.kind = "security_inode_unlink"  -> inode_unlink_entry_handler(r)
    [] r.kind = "security_inode_link"    -> inode_link_entry_handler(r)
    [] r.kind = "security_inode_symlink" -> inode_symlink_entry_handler(r)
    [] r.kind = "security_inode_create"  -> inode_create_entry_handler(r)
    [] r.kind = "security_inode_mkdir"   -> inode_mkdir_entry_handler(r)
    [] r.kind = "security_inode_rename"  -> inode_rename_entry_handler(r)
    [] r.kind = "security_inode_rmdir"   -> inode_rmdir_entry_handler(r)
    [] r.kind = "vfs_write"              -> vfs_write_entry_handler(r)
    [] OTHER                             -> vfs_lseek_entry_handler(r)

\* Functions whose result only decides whether the kernel goes on to do the
\* operation; the others do it themselves.
IsHook(k) == k \notin {"vfs_write", "vfs_llseek"}

\* Instances of the kretprobe of k in use: one is held while the entry handler
\* runs and, if it returns 0, until the return handler has run.
Busy(k) ==
  {u \in Actors : kind[u] = k /\ (pc[u] \in {"chk_state", "chk_list"} \/ blocked[u])}

Probed(k) == k \in Probes /\ enabled[k] /\ Cardinality(Busy(k)) < MaxActive

\* The function is called.  A disabled kretprobe, or one without a free
\* instance, lets it run as if there were no probe.
Begin(t, r) ==
  /\ kind' = [kind EXCEPT ![t] = r.kind]
  /\ targets' = [targets EXCEPT ![t] = EntryHandler(r)]
  /\ idx' = [idx EXCEPT ![t] = 1]
  /\ lasting' = [lasting EXCEPT ![t] = list]
  /\ steady' = [steady EXCEPT ![t] = Probed(r.kind) /\ Enforcing(state)]
  /\ armed' = [armed EXCEPT ![t] = Armed]
  /\ Goto(t, IF Probed(r.kind) THEN "chk_state" ELSE "body")
  /\ UNCHANGED <<control, blocked, goal, effect, ret>>

Operate(t, r) ==
  /\ pc[t] = "idle"
  /\ begun < MaxOps
  /\ begun' = begun + 1
  /\ Begin(t, r)
  /\ UNCHANGED journal

\* Faulty variant: the monitor is on in RF_ON only.
CheckStateForgetsRec(t) ==
  /\ pc[t] = "chk_state"
  /\ idx[t] \in DOMAIN targets[t]
  /\ \/ /\ list = {} \/ state # RF_ON
        /\ idx' = [idx EXCEPT ![t] = @ + 1]
        /\ UNCHANGED pc
     \/ /\ list # {} /\ state = RF_ON
        /\ Goto(t, "chk_list")
        /\ UNCHANGED idx
  /\ UNCHANGED <<control, journal, kind, targets, blocked, goal, effect, ret,
                 window, begun>>

\* is_blacklisted, before it takes the lock: with an empty list, or in a state
\* that is off, the path is not blacklisted, and the handler goes on.
CheckState(t) ==
  /\ pc[t] = "chk_state"
  /\ idx[t] \in DOMAIN targets[t]
  /\ \/ /\ list = {} \/ ~Enforcing(state)
        /\ idx' = [idx EXCEPT ![t] = @ + 1]
        /\ UNCHANGED pc
     \/ /\ list # {} /\ Enforcing(state)
        /\ Goto(t, "chk_list")
        /\ UNCHANGED idx
  /\ UNCHANGED <<control, journal, kind, targets, blocked, goal, effect, ret,
                 window, begun>>

\* Faulty variant: the handler looks up its first path only.
CheckListFirst(t) ==
  /\ pc[t] = "chk_list"
  /\ ~stuck
  /\ blocked' = [blocked EXCEPT ![t] =
                   \E e \in list : <<e, targets[t][idx[t]]>> \in Matches]
  /\ Goto(t, "body")
  /\ UNCHANGED <<control, journal, kind, targets, idx, goal, effect, ret, window, begun>>

\* Its walk of the list under the lock.
CheckList(t) ==
  /\ pc[t] = "chk_list"
  /\ ~stuck
  /\ \/ /\ \A e \in list : <<e, targets[t][idx[t]]>> \notin Matches
        /\ idx' = [idx EXCEPT ![t] = @ + 1]
        /\ Goto(t, "chk_state")
        /\ UNCHANGED blocked
     \/ /\ \E e \in list : <<e, targets[t][idx[t]]>> \in Matches
        /\ blocked' = [blocked EXCEPT ![t] = TRUE]
        /\ Goto(t, "body")
        /\ UNCHANGED idx
  /\ UNCHANGED <<control, journal, kind, targets, goal, effect, ret, window, begun>>

\* A record of the refusal is on its way, or it is lost.
Lose == lost' = lost + 1 /\ UNCHANGED <<queue, logged, refused>>

\* get_path_from_dentry had no memory: the NULL path is read under the lock, and
\* the thread dies.
CheckNullPath(t) ==
  /\ AllocFails
  /\ pc[t] = "chk_list"
  /\ ~stuck
  /\ list # {}
  /\ stuck' = TRUE
  /\ Goto(t, "oops")
  /\ IF t \in Workers THEN Lose ELSE UNCHANGED journal
  /\ UNCHANGED <<state, list, enabled, local, window, begun>>

\* No path is blacklisted: the handler returns 1, the instance is recycled.
CheckPass(t) ==
  /\ pc[t] = "chk_state"
  /\ idx[t] \notin DOMAIN targets[t]
  /\ Goto(t, "body")
  /\ UNCHANGED <<control, journal, local, window, begun>>

\* The function itself.
Body(t) ==
  /\ pc[t] = "body"
  /\ effect' = [effect EXCEPT ![t] = ~IsHook(kind[t])]
  /\ Goto(t, "return")
  /\ UNCHANGED <<control, journal, kind, targets, idx, blocked, goal, ret, window, begun>>

\* It returns without a return handler, and the kernel goes on.
ReturnPlain(t) ==
  /\ pc[t] = "return"
  /\ ~blocked[t]
  /\ effect' = [effect EXCEPT ![t] = TRUE]
  /\ Return(t, 0)
  /\ UNCHANGED <<control, journal, kind, targets, idx, blocked, goal, window, begun>>

\* Faulty variant: the work is not scheduled.
ret_handlerSilent(t) ==
  /\ pc[t] = "return"
  /\ blocked[t]
  /\ t \notin Workers
  /\ blocked' = [blocked EXCEPT ![t] = FALSE]
  /\ Return(t, EACCES)
  /\ refused' = refused + 1
  /\ UNCHANGED <<control, queue, logged, lost, kind, targets, idx, goal, effect, window, begun>>

\* ret_handler replaces the result by -EACCES and calls write_on_log, which
\* schedules a work unless it has no memory.
ret_handler(t) ==
  /\ pc[t] = "return"
  /\ blocked[t]
  /\ t \notin Workers
  /\ blocked' = [blocked EXCEPT ![t] = FALSE]
  /\ Return(t, EACCES)
  /\ refused' = refused + 1
  /\ \/ queue' = queue + 1 /\ UNCHANGED lost
     \/ AllocFails /\ lost' = lost + 1 /\ UNCHANGED queue
  /\ UNCHANGED <<control, logged, kind, targets, idx, goal, effect, window, begun>>

\* In a worker, current->mm is NULL, and write_on_log reads mm->exe_file.
WorkerRefused(t) ==
  /\ pc[t] = "return"
  /\ blocked[t]
  /\ t \in Workers
  /\ Goto(t, "oops")
  /\ Lose
  /\ UNCHANGED <<control, local, window, begun>>

\* Without memory for the data of the record, write_on_log returns before that: the
\* log file is not opened, and deferred_work returns.
WorkerNoMemory(t) ==
  /\ AllocFails
  /\ pc[t] = "return"
  /\ blocked[t]
  /\ t \in Workers
  /\ Rest(t)
  /\ Lose

(*****************************************************************************)
(* deferred_work: the log file is opened for writing, which is itself a file *)
(* operation that the probes intercept, and a row is written.                *)
(*****************************************************************************)
LogOpen ==
  [kind |-> "security_file_open", path |-> LogPath, other |-> LogPath,
   flags |-> {"O_WRONLY"}]

WorkBegin(t) ==
  /\ pc[t] = "idle"
  /\ queue > 0
  /\ queue' = queue - 1
  /\ Begin(t, LogOpen)
  /\ UNCHANGED <<logged, refused, lost, begun>>

WorkWrite(t) ==
  /\ pc[t] = "done"
  /\ logged' = logged + 1
  /\ Rest(t)
  /\ UNCHANGED <<queue, refused, lost>>

\* onefile_write had no memory: kernel_write writes nothing, and its result is
\* printed at most.
WorkWriteFails(t) ==
  /\ AllocFails
  /\ pc[t] = "done"
  /\ lost' = lost + 1
  /\ Rest(t)
  /\ UNCHANGED <<queue, logged, refused>>

\* Faulty variant: the work is left in the queue.
WorkNoLogKeeps(t) ==
  /\ ~Mounted
  /\ pc[t] = "idle"
  /\ queue > 0
  /\ lost = 0
  /\ lost' = lost + 1
  /\ UNCHANGED <<control, queue, logged, refused, pc, local, window, begun>>

\* The log file cannot be found.
WorkNoLog(t) ==
  /\ ~Mounted
  /\ pc[t] = "idle"
  /\ queue > 0
  /\ queue' = queue - 1
  /\ lost' = lost + 1
  /\ UNCHANGED <<control, logged, refused, pc, local, window, begun>>

\* write_on_log had no memory for the path of the program: the NULL path is
\* hashed, and the worker dies.
WorkNullPath(t) ==
  /\ AllocFails
  /\ pc[t] = "idle"
  /\ queue > 0
  /\ queue' = queue - 1
  /\ lost' = lost + 1
  /\ Goto(t, "oops")
  /\ UNCHANGED <<control, logged, refused, local, window, begun>>

--------------------------------------------------------------------------------
AdminCall(t) ==
  \/ \E s \in States, c \in Callers : SwitchCall(t, s, c)
  \/ \E p \in Entries, c \in Callers : AddCall(t, p, c) \/ RemoveCall(t, p, c)
  \/ GetState(t) \/ NoMemory(t)

AdminStep(t) ==
  \/ SwitchStore(t) \/ SwitchProbe(t) \/ SwitchReturn(t)
  \/ Add(t) \/ Remove(t) \/ Resume(t)

FileStep(t) ==
  \/ CheckState(t) \/ CheckList(t) \/ CheckNullPath(t) \/ CheckPass(t)
  \/ Body(t) \/ ReturnPlain(t)

UserStep(t) == FileStep(t) \/ ret_handler(t) \/ Resume(t)

WorkerStep(t) ==
  FileStep(t) \/ WorkerRefused(t) \/ WorkerNoMemory(t) \/ WorkBegin(t) \/ WorkWrite(t)
    \/ WorkWriteFails(t) \/ WorkNoLog(t) \/ WorkNullPath(t)

Next ==
  \/ \E t \in Admins : AdminCall(t) \/ AdminStep(t)
  \/ \E t \in Users : (\E r \in Requests : Operate(t, r)) \/ UserStep(t)
  \/ \E t \in Workers : WorkerStep(t)

Spec == Init /\ [][Next]_vars

(*****************************************************************************)
(* A thread inside the kernel keeps running, and the work queue runs what is *)
(* scheduled; nobody has to call anything.                                   *)
(*****************************************************************************)
Fairness ==
  /\ \A t \in Admins : WF_vars(AdminStep(t))
  /\ \A t \in Users : WF_vars(UserStep(t))
  /\ \A t \in Workers : WF_vars(WorkerStep(t))

FairSpec == Spec /\ Fairness

--------------------------------------------------------------------------------
(*****************************************************************************)
(* Properties                                                                *)
(*****************************************************************************)
Labels ==
  {"idle", "done", "oops", "sw_store", "sw_probe", "add", "remove",
   "chk_state", "chk_list", "body", "return"}

Kinds == {"none", LogOpen.kind} \cup {r.kind : r \in Requests}

\* The type of every variable.
TypeOK ==
  /\ state \in RFStates
  /\ list \subseteq Entries
  /\ enabled \in [Probes -> BOOLEAN]
  /\ stuck \in BOOLEAN
  /\ queue \in Nat /\ logged \in Nat /\ refused \in Nat /\ lost \in Nat
  /\ begun \in 0 .. MaxOps
  /\ pc \in [Actors -> Labels]
  /\ kind \in [Actors -> Kinds]
  /\ targets \in [Actors -> Seq(Paths)]
  /\ idx \in [Actors -> Nat \ {0}]
  /\ blocked \in [Actors -> BOOLEAN]
  /\ goal \in [Actors -> Int]
  /\ effect \in [Actors -> BOOLEAN]
  /\ ret \in [Actors -> Results]
  /\ lasting \in [Actors -> SUBSET Entries]
  /\ steady \in [Actors -> BOOLEAN]
  /\ armed \in [Actors -> BOOLEAN]

\* t refused its operation: -EACCES, and the kernel does not go on to do it.
Refused(t) == ret[t] = EACCES /\ (IsHook(kind[t]) => ~effect[t])

\* A file operation has ended.
Ended(t) == t \in Users /\ pc[t] = "done"

\* With several administrators at once, and with probes that have too few
\* instances: an operation that was probed, in a monitor that stayed on, is
\* refused if an entry that stayed on the list protects one of its paths.
ProbedOpsAreRefused ==
  \A t \in Users :
    Ended(t) /\ steady[t] /\ Protects(lasting[t], targets[t]) => Refused(t)

\* Once the switch that turned the monitor on has gone through all the probes,
\* every operation on a protected path is refused until another switch begins:
\* "reference monitor is operative and protects all the blacklisted paths".
Protection ==
  \A t \in Users :
    Ended(t) /\ armed[t] /\ Protects(lasting[t], targets[t]) => Refused(t)

\* While no switch is under way, the probes are enabled exactly in the states
\* that are on: the loop over the probes and the store of the state agree.
ProbesFollowState ==
  ~Switching => \A k \in Probes : enabled[k] <=> Enforcing(state)

\* A record of every refusal is in the queue, with a worker, in the log, or
\* accounted for as lost: none vanishes and none is written twice.
Working == {w \in Workers : pc[w] \notin {"idle", "oops"}}

RefusalsAreAccounted == refused = queue + Cardinality(Working) + logged + lost

\* Every refusal reaches the log in the end: "a single append-only file should
\* record the following tuple of data each time an attempt ... is attempted".
RefusalsAreLogged ==
  \A n \in 1 .. MaxOps : (refused >= n) ~> (logged >= n)

(*****************************************************************************)
(* What the documentation says, and the code does not do.                    *)
(*****************************************************************************)
\* "REC-ON/REC-OFF, meaning that it can be currently reconfigured": the list changes
\* in these two states only.  Its calls check the state and change the list later.
ReconfiguredInRec == [][list' # list => state \in {RF_REC_ON, RF_REC_OFF}]_vars

\* "the entry kretprobe handler stops the invocation of the function": an
\* operation that is answered -EACCES has not taken place.
RefusedHaveNoEffect ==
  \A t \in Users : Ended(t) /\ ret[t] = EACCES => ~effect[t]
================================================================================
