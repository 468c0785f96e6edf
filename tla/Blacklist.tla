------------------------------- MODULE Blacklist -------------------------------
(*****************************************************************************)
(* The blacklist of struct reference_monitor: a singly linked list of paths, *)
(* its size counter, the monitor state and the one spinlock that guards them *)
(* (stack_reference_monitor.h), with the operations that threads run on them *)
(* concurrently:                                                             *)
(*                                                                           *)
(*   add_to_blacklist, remove_from_blacklist      (utils/blacklist.c)        *)
(*   is_blacklisted, sys_print_blacklist          (stack_reference_monitor.c)*)
(*   the locked assignment of sys_switch_rf_state (stack_reference_monitor.c)*)
(*                                                                           *)
(* One action is one access to shared memory, together with the thread-local *)
(* work around it.  Not every access is under the lock: is_blacklisted reads *)
(* the size, the state and the head of the list before it takes the lock,    *)
(* and sys_print_blacklist never takes it.                                   *)
(*                                                                           *)
(* A node is numbered when it is linked: until then it is private to its     *)
(* thread.  Nodes are never freed by the code, so numbers are not reused.    *)
(*****************************************************************************)
EXTENDS Integers, FiniteSets

CONSTANTS
  Threads,      \* threads that execute in the kernel
  NoThread,     \* the lock is free
  Paths,        \* path strings
  EmptyPath,    \* the string ""
  NoPath,       \* a NULL path pointer (get_path_from_dentry failed)
  Matches,      \* <<entry, path>>: is_blacklisted takes path for protected by entry
  UserPaths,    \* the path arguments that callers pass
  States,       \* the states that callers switch to
  MaxNodes,     \* bound: number of nodes ever linked
  AllocFails,   \* the kernel allocator may fail
  CopyFaults,   \* copy_from_user may fault on a path argument
  ZeroedAlloc   \* the kernel zeroes kmalloc memory (init_on_alloc=1)

ASSUME ThreadsAssumption == NoThread \notin Threads
ASSUME PathsAssumption ==
  /\ EmptyPath \in Paths
  /\ NoPath \notin Paths
  /\ UserPaths \subseteq Paths
  /\ Matches \subseteq Paths \X Paths
  /\ \A p \in Paths : <<EmptyPath, p>> \in Matches /\ <<p, p>> \in Matches
ASSUME BoundsAssumption ==
  /\ States \subseteq 0 .. 3
  /\ MaxNodes \in Nat
  /\ AllocFails \in BOOLEAN
  /\ CopyFaults \in BOOLEAN
  /\ ZeroedAlloc \in BOOLEAN

VARIABLES
  state,        \* reference_monitor.state
  head,         \* reference_monitor.blacklist_head
  size,         \* reference_monitor.blacklist_size
  lock,         \* reference_monitor.lock: its holder
  next,         \* node -> its next pointer
  path,         \* node -> its path
  linked,       \* number of nodes linked so far
  pc,           \* where each thread is
  arg,          \* the path a thread works on, as the kernel sees it
  curr, prev,   \* list cursors
  out,          \* nodes a print has written to its buffer
  ret,          \* value returned
  (* History variables: no action reads them. *)
  removedAt,    \* node -> value of linked when it was unlinked, 0 before that
  start,        \* entries when the thread's current call began
  gone,         \* nodes already unlinked when it began
  modes         \* the modes the monitor was in during it

shared == <<state, head, size, lock, next, path, linked>>
local  == <<pc, arg, curr, prev, out, ret>>
hist   == <<removedAt, start, gone, modes>>
vars   == <<shared, local, hist>>

RF_ON      == 0
RF_OFF     == 1
RF_REC_ON  == 2
RF_REC_OFF == 3
RFStates   == RF_ON .. RF_REC_OFF

\* The states in which is_blacklisted looks at the list.
Enforcing(s) == s \notin {RF_OFF, RF_REC_OFF}

Mode(s) == IF Enforcing(s) THEN "on" ELSE "off"

NULL    == 0
Node    == 1 .. MaxNodes
WILD    == MaxNodes + 1          \* an uninitialised pointer
Pointer == 0 .. WILD

\* What new->next holds when add_to_blacklist links new: the field is never set.
FreshNext == IF ZeroedAlloc THEN {NULL} ELSE {NULL, WILD}

\* What the kernel's copy of a user path holds: the string, or, after a fault,
\* zeroes (copy_from_user clears what it could not read, and the code compares
\* its result, the number of bytes left, with -1).
Copies(p) == {p} \cup IF CopyFaults THEN {EmptyPath} ELSE {}

(* Nodes on the list. *)
Live == {n \in 1 .. linked : removedAt[n] = 0}

\* A thread between linking its node and counting it.
Counting == \E t \in Threads : pc[t] = "add_count"

\* Nodes on the list whose addition is complete.
Settled == {n \in Live : ~(Counting /\ n = linked)}

Removed == {n \in 1 .. linked : removedAt[n] # 0}

Labels ==
  {"idle", "add_lock", "add_scan", "add_count", "add_done",
   "rem_lock", "rem_scan", "rem_count", "rem_done",
   "chk_state", "chk_head", "chk_lock", "chk_scan", "chk_done",
   "prt_size", "prt_test", "prt_step", "prt_last", "prt_copy", "prt_done",
   "oops"}

Results == {"none", "0", "1", "-1", "EEXIST", "EINVAL", "ENOMEM", "EAGAIN"}

Init ==
  /\ state = RF_OFF
  /\ head = NULL
  /\ size = 0
  /\ lock = NoThread
  /\ next = [n \in Node |-> NULL]
  /\ path = [n \in Node |-> EmptyPath]
  /\ linked = 0
  /\ pc = [t \in Threads |-> "idle"]
  /\ arg = [t \in Threads |-> NoPath]
  /\ curr = [t \in Threads |-> NULL]
  /\ prev = [t \in Threads |-> NULL]
  /\ out = [t \in Threads |-> {}]
  /\ ret = [t \in Threads |-> "none"]
  /\ removedAt = [n \in Node |-> 0]
  /\ start = [t \in Threads |-> {}]
  /\ gone = [t \in Threads |-> {}]
  /\ modes = [t \in Threads |-> {}]

Goto(t, label) == pc' = [pc EXCEPT ![t] = label]

\* The function returns: its cursors are dead, its result goes to the caller.
Return(t, label, value) ==
  /\ Goto(t, label)
  /\ ret' = [ret EXCEPT ![t] = value]
  /\ curr' = [curr EXCEPT ![t] = NULL]
  /\ prev' = [prev EXCEPT ![t] = NULL]

\* Nothing is left of the call.
Forget(t) ==
  /\ arg' = [arg EXCEPT ![t] = NoPath]
  /\ out' = [out EXCEPT ![t] = {}]
  /\ start' = [start EXCEPT ![t] = {}]
  /\ gone' = [gone EXCEPT ![t] = {}]
  /\ modes' = [modes EXCEPT ![t] = {}]
  /\ UNCHANGED removedAt

\* An invalid access kills the thread; a lock it holds stays locked.
Die(t) == Return(t, "oops", "none") /\ Forget(t) /\ UNCHANGED shared

\* A call that observes the list begins: its window opens.
OpenWindow(t) ==
  /\ start' = [start EXCEPT ![t] = Settled]
  /\ gone' = [gone EXCEPT ![t] = Removed]
  /\ modes' = [modes EXCEPT ![t] = {Mode(state)}]
  /\ UNCHANGED removedAt

\* The caller has its result, and may call again.
Resume(t) ==
  /\ pc[t] \in {"add_done", "rem_done", "chk_done", "prt_done"}
  /\ Return(t, "idle", "none")
  /\ Forget(t)
  /\ UNCHANGED shared

(*****************************************************************************)
(* sys_switch_rf_state: the assignment under the lock.                       *)
(*****************************************************************************)
SwitchState(t, s) ==
  /\ pc[t] = "idle"
  /\ lock = NoThread
  /\ state' = s
  /\ modes' = [u \in Threads |->
                 IF modes[u] = {} THEN {} ELSE modes[u] \cup {Mode(s)}]
  /\ UNCHANGED <<head, size, lock, next, path, linked, local,
                 removedAt, start, gone>>

(*****************************************************************************)
(* add_to_blacklist                                                          *)
(*****************************************************************************)
\* Adds on their way to linking a node.
Adding == {u \in Threads : pc[u] \in {"add_lock", "add_scan"}}

AddCall(t, p) ==
  /\ pc[t] = "idle"
  /\ linked + Cardinality(Adding) < MaxNodes
  /\ Goto(t, "add_lock")
  /\ \E k \in Copies(p) : arg' = [arg EXCEPT ![t] = k]
  /\ UNCHANGED <<shared, curr, prev, out, ret, hist>>

\* kmalloc of the kernel copy or of the node failed.
AddNoMemory(t) ==
  /\ AllocFails
  /\ pc[t] = "idle"
  /\ Return(t, "add_done", "ENOMEM")
  /\ UNCHANGED <<shared, arg, out, hist>>

\* kmalloc of new->path failed: strcpy writes through NULL.
AddNoPathMemory(t) ==
  /\ AllocFails
  /\ pc[t] = "idle"
  /\ Die(t)

AddLock(t) ==
  /\ pc[t] = "add_lock"
  /\ lock = NoThread
  /\ linked < MaxNodes
  /\ lock' = t
  /\ curr' = [curr EXCEPT ![t] = head]
  /\ Goto(t, "add_scan")
  /\ UNCHANGED <<state, head, size, next, path, linked,
                 arg, prev, out, ret, hist>>

AddScan(t) ==
  /\ pc[t] = "add_scan"
  /\ curr[t] \in Node
  /\ path[curr[t]] # arg[t]
  /\ next[curr[t]] # NULL
  /\ curr' = [curr EXCEPT ![t] = next[curr[t]]]
  /\ UNCHANGED <<shared, pc, arg, prev, out, ret, hist>>

\* Faulty variant: the early return leaves the lock taken.
AddExistsKeepsLock(t) ==
  /\ pc[t] = "add_scan"
  /\ curr[t] \in Node
  /\ path[curr[t]] = arg[t]
  /\ Return(t, "add_done", "EEXIST")
  /\ UNCHANGED <<shared, arg, out, hist>>

AddExists(t) ==
  /\ pc[t] = "add_scan"
  /\ curr[t] \in Node
  /\ path[curr[t]] = arg[t]
  /\ lock' = NoThread
  /\ Return(t, "add_done", "EEXIST")
  /\ UNCHANGED <<state, head, size, next, path, linked, arg, out,
                 hist>>

\* Faulty variant: the node the loop stops at is not compared.
AddLinkSkipsLast(t) ==
  LET new == linked + 1
      c   == curr[t]
  IN  /\ pc[t] = "add_scan"
      /\ c \in Node => next[c] = NULL
      /\ c # WILD
      /\ linked' = new
      /\ path' = [path EXCEPT ![new] = arg[t]]
      /\ head' = IF c = NULL THEN new ELSE head
      /\ next' = [n \in Node |-> IF n = c THEN new ELSE next[n]]
      /\ Goto(t, "add_count")
      /\ UNCHANGED <<state, size, lock, arg, curr, prev, out, ret, hist>>

AddLink(t) ==
  LET new == linked + 1
      c   == curr[t]
  IN  /\ pc[t] = "add_scan"
      /\ c \in Node => path[c] # arg[t] /\ next[c] = NULL
      /\ c # WILD
      /\ linked' = new
      /\ path' = [path EXCEPT ![new] = arg[t]]
      /\ head' = IF c = NULL THEN new ELSE head
      /\ \E f \in FreshNext :
           next' = [n \in Node |-> IF n = new THEN f
                                   ELSE IF n = c THEN new ELSE next[n]]
      /\ Goto(t, "add_count")
      /\ UNCHANGED <<state, size, lock, arg, curr, prev, out, ret, hist>>

\* Faulty variant: the new entry is not counted.
AddCountForgets(t) ==
  /\ pc[t] = "add_count"
  /\ lock' = NoThread
  /\ Return(t, "add_done", "0")
  /\ UNCHANGED <<state, head, size, next, path, linked, arg, out, hist>>

AddCount(t) ==
  /\ pc[t] = "add_count"
  /\ size' = size + 1
  /\ lock' = NoThread
  /\ Return(t, "add_done", "0")
  /\ UNCHANGED <<state, head, next, path, linked, arg, out,
                 hist>>

(*****************************************************************************)
(* remove_from_blacklist                                                     *)
(*****************************************************************************)
RemCall(t, p) ==
  /\ pc[t] = "idle"
  /\ Goto(t, "rem_lock")
  /\ \E k \in Copies(p) : arg' = [arg EXCEPT ![t] = k]
  /\ UNCHANGED <<shared, curr, prev, out, ret, hist>>

RemNoMemory(t) ==
  /\ AllocFails
  /\ pc[t] = "idle"
  /\ Return(t, "rem_done", "ENOMEM")
  /\ UNCHANGED <<shared, arg, out, hist>>

RemLock(t) ==
  /\ pc[t] = "rem_lock"
  /\ lock = NoThread
  /\ lock' = t
  /\ curr' = [curr EXCEPT ![t] = head]
  /\ Goto(t, "rem_scan")
  /\ UNCHANGED <<state, head, size, next, path, linked,
                 arg, prev, out, ret, hist>>

RemScan(t) ==
  /\ pc[t] = "rem_scan"
  /\ curr[t] \in Node
  /\ path[curr[t]] # arg[t]
  /\ prev' = [prev EXCEPT ![t] = curr[t]]
  /\ curr' = [curr EXCEPT ![t] = next[curr[t]]]
  /\ UNCHANGED <<shared, pc, arg, out, ret, hist>>

\* Faulty variant: the size is decremented on the common exit.
RemNotFoundCounts(t) ==
  /\ pc[t] = "rem_scan"
  /\ curr[t] = NULL
  /\ size' = size - 1
  /\ lock' = NoThread
  /\ Return(t, "rem_done", "EINVAL")
  /\ UNCHANGED <<state, head, next, path, linked, arg, out, hist>>

RemNotFound(t) ==
  /\ pc[t] = "rem_scan"
  /\ curr[t] = NULL
  /\ lock' = NoThread
  /\ Return(t, "rem_done", "EINVAL")
  /\ UNCHANGED <<state, head, size, next, path, linked, arg, out,
                 hist>>

\* Faulty variant: the head is not moved to the second node.
RemHeadKeepsHead(t) ==
  /\ pc[t] = "rem_scan"
  /\ curr[t] \in Node
  /\ path[curr[t]] = arg[t]
  /\ prev[t] = NULL
  /\ removedAt' = [removedAt EXCEPT ![curr[t]] = linked]
  /\ Goto(t, "rem_count")
  /\ UNCHANGED <<shared, arg, curr, prev, out, ret, start, gone, modes>>

\* Faulty variant: the removed head is cut off from the rest of the list.
RemHeadDetaches(t) ==
  /\ pc[t] = "rem_scan"
  /\ curr[t] \in Node
  /\ path[curr[t]] = arg[t]
  /\ prev[t] = NULL
  /\ head' = next[curr[t]]
  /\ next' = [next EXCEPT ![curr[t]] = NULL]
  /\ removedAt' = [removedAt EXCEPT ![curr[t]] = linked]
  /\ Goto(t, "rem_count")
  /\ UNCHANGED <<state, size, lock, path, linked,
                 arg, curr, prev, out, ret, start, gone, modes>>

RemHead(t) ==
  /\ pc[t] = "rem_scan"
  /\ curr[t] \in Node
  /\ path[curr[t]] = arg[t]
  /\ prev[t] = NULL
  /\ head' = next[curr[t]]
  /\ removedAt' = [removedAt EXCEPT ![curr[t]] = linked]
  /\ Goto(t, "rem_count")
  /\ UNCHANGED <<state, size, lock, next, path, linked,
                 arg, curr, prev, out, ret, start, gone, modes>>

RemCount(t) ==
  /\ pc[t] = "rem_count"
  /\ size' = size - 1
  /\ lock' = NoThread
  /\ Return(t, "rem_done", "0")
  /\ UNCHANGED <<state, head, next, path, linked, arg, out,
                 hist>>

\* Faulty variant: the predecessor is made to point to the node itself.
RemUnlinkMisses(t) ==
  /\ pc[t] = "rem_scan"
  /\ curr[t] \in Node
  /\ path[curr[t]] = arg[t]
  /\ prev[t] # NULL
  /\ next' = [next EXCEPT ![prev[t]] = curr[t]]
  /\ removedAt' = [removedAt EXCEPT ![curr[t]] = linked]
  /\ lock' = NoThread
  /\ Return(t, "rem_done", "0")
  /\ UNCHANGED <<state, head, size, path, linked, arg, out, start, gone, modes>>

\* "Unlink center node": the size is not touched.
RemUnlink(t) ==
  /\ pc[t] = "rem_scan"
  /\ curr[t] \in Node
  /\ path[curr[t]] = arg[t]
  /\ prev[t] # NULL
  /\ next' = [next EXCEPT ![prev[t]] = next[curr[t]]]
  /\ removedAt' = [removedAt EXCEPT ![curr[t]] = linked]
  /\ lock' = NoThread
  /\ Return(t, "rem_done", "0")
  /\ UNCHANGED <<state, head, size, path, linked,
                 arg, out, start, gone, modes>>

(*****************************************************************************)
(* is_blacklisted, called by the entry handlers of the probes                *)
(*****************************************************************************)
\* The size is read first, without the lock: an empty list matches nothing.
ChkEmpty(t, p) ==
  /\ pc[t] = "idle"
  /\ size = 0
  /\ arg' = [arg EXCEPT ![t] = p]
  /\ OpenWindow(t)
  /\ Return(t, "chk_done", "0")
  /\ UNCHANGED <<shared, out>>

ChkCall(t, p) ==
  /\ pc[t] = "idle"
  /\ size # 0
  /\ arg' = [arg EXCEPT ![t] = p]
  /\ OpenWindow(t)
  /\ Goto(t, "chk_state")
  /\ UNCHANGED <<shared, curr, prev, out, ret>>

\* Then the state, without the lock either.
ChkOff(t) ==
  /\ pc[t] = "chk_state"
  /\ ~Enforcing(state)
  /\ Return(t, "chk_done", "0")
  /\ UNCHANGED <<shared, arg, out, hist>>

ChkOn(t) ==
  /\ pc[t] = "chk_state"
  /\ Enforcing(state)
  /\ Goto(t, "chk_head")
  /\ UNCHANGED <<shared, arg, curr, prev, out, ret, hist>>

\* The head is read before the lock is taken.
ChkHead(t) ==
  /\ pc[t] = "chk_head"
  /\ curr' = [curr EXCEPT ![t] = head]
  /\ Goto(t, "chk_lock")
  /\ UNCHANGED <<shared, arg, prev, out, ret, hist>>

ChkLock(t) ==
  /\ pc[t] = "chk_lock"
  /\ lock = NoThread
  /\ lock' = t
  /\ Goto(t, "chk_scan")
  /\ UNCHANGED <<state, head, size, next, path, linked,
                 arg, curr, prev, out, ret, hist>>

\* The two strncmp tests: nothing is read through a NULL path when the entry is
\* the empty string.
Hit(n, p) == <<path[n], p>> \in Matches \/ path[n] = EmptyPath

ChkScan(t) ==
  /\ pc[t] = "chk_scan"
  /\ curr[t] \in Node
  /\ arg[t] # NoPath
  /\ ~Hit(curr[t], arg[t])
  /\ curr' = [curr EXCEPT ![t] = next[curr[t]]]
  /\ UNCHANGED <<shared, pc, arg, prev, out, ret, hist>>

ChkFound(t) ==
  /\ pc[t] = "chk_scan"
  /\ curr[t] \in Node
  /\ Hit(curr[t], arg[t])
  /\ lock' = NoThread
  /\ Return(t, "chk_done", "1")
  /\ UNCHANGED <<state, head, size, next, path, linked, arg, out,
                 hist>>

ChkEnd(t) ==
  /\ pc[t] = "chk_scan"
  /\ curr[t] = NULL
  /\ lock' = NoThread
  /\ Return(t, "chk_done", "0")
  /\ UNCHANGED <<state, head, size, next, path, linked, arg, out,
                 hist>>

\* strncmp reads through the NULL path: the thread dies inside the lock.
ChkNullPath(t) ==
  /\ pc[t] = "chk_scan"
  /\ curr[t] \in Node
  /\ arg[t] = NoPath
  /\ ~Hit(curr[t], arg[t])
  /\ Die(t)

(*****************************************************************************)
(* sys_print_blacklist: takes no lock                                        *)
(*****************************************************************************)
PrtCall(t) ==
  /\ pc[t] = "idle"
  /\ curr' = [curr EXCEPT ![t] = head]
  /\ OpenWindow(t)
  /\ Goto(t, "prt_size")
  /\ UNCHANGED <<shared, arg, prev, out, ret>>

\* The count the caller passes is not the size, or an allocation failed.
PrtRefuse(t) ==
  /\ \/ pc[t] = "prt_size"
     \/ pc[t] \in {"prt_step", "prt_last"} /\ AllocFails
  /\ Return(t, "prt_done", "-1")
  /\ UNCHANGED <<shared, arg, out, hist>>

\* The count is the size, and there was no head: "Blacklist is empty".
PrtEmpty(t) ==
  /\ pc[t] = "prt_size"
  /\ curr[t] = NULL
  /\ Goto(t, "prt_copy")
  /\ UNCHANGED <<shared, arg, curr, prev, out, ret, hist>>

PrtBegin(t) ==
  /\ pc[t] = "prt_size"
  /\ curr[t] # NULL
  /\ size # 0
  /\ Goto(t, "prt_test")
  /\ UNCHANGED <<shared, arg, curr, prev, out, ret, hist>>

\* The count is the size, and 0: the title is written through the pointer that
\* kmalloc(0) returns.
PrtNoRoom(t) ==
  /\ pc[t] = "prt_size"
  /\ curr[t] # NULL
  /\ size = 0
  /\ Die(t)

\* while (curr->next != NULL)
PrtMore(t) ==
  /\ pc[t] = "prt_test"
  /\ curr[t] \in Node
  /\ next[curr[t]] # NULL
  /\ Goto(t, "prt_step")
  /\ UNCHANGED <<shared, arg, curr, prev, out, ret, hist>>

PrtNoMore(t) ==
  /\ pc[t] = "prt_test"
  /\ curr[t] \in Node
  /\ next[curr[t]] = NULL
  /\ Goto(t, "prt_last")
  /\ UNCHANGED <<shared, arg, curr, prev, out, ret, hist>>

\* The body: curr->next is read again.
PrtStep(t) ==
  /\ pc[t] = "prt_step"
  /\ out' = [out EXCEPT ![t] = @ \cup {curr[t]}]
  /\ curr' = [curr EXCEPT ![t] = next[curr[t]]]
  /\ Goto(t, "prt_test")
  /\ UNCHANGED <<shared, arg, prev, ret, hist>>

\* Faulty variant: the last node, printed after the loop, is forgotten.
PrtLastForgets(t) ==
  /\ pc[t] = "prt_last"
  /\ Goto(t, "prt_copy")
  /\ UNCHANGED <<shared, arg, curr, prev, out, ret, hist>>

PrtLast(t) ==
  /\ pc[t] = "prt_last"
  /\ out' = [out EXCEPT ![t] = @ \cup {curr[t]}]
  /\ Goto(t, "prt_copy")
  /\ UNCHANGED <<shared, arg, curr, prev, ret, hist>>

PrtCopy(t) ==
  /\ pc[t] = "prt_copy"
  /\ Return(t, "prt_done", "0")
  /\ UNCHANGED <<shared, arg, out, hist>>

PrtCopyFault(t) ==
  /\ CopyFaults
  /\ pc[t] = "prt_copy"
  /\ out[t] # {}
  /\ Return(t, "prt_done", "EAGAIN")
  /\ UNCHANGED <<shared, arg, out, hist>>

\* The message of the empty list is a literal: kfree of it is a fault.
PrtFreeLiteral(t) ==
  /\ CopyFaults
  /\ pc[t] = "prt_copy"
  /\ out[t] = {}
  /\ Die(t)

(*****************************************************************************)
(* A cursor that is not a node is dereferenced: the thread dies where it is, *)
(* with the lock if it holds it.                                             *)
(*****************************************************************************)
Fault(t) ==
  /\ \/ pc[t] \in {"add_scan", "rem_scan", "chk_scan"} /\ curr[t] = WILD
     \/ pc[t] = "prt_test" /\ curr[t] \notin Node
  /\ Die(t)

\* Paths that the probes look up: NULL when get_path_from_dentry has no memory.
Checked == UserPaths \cup IF AllocFails THEN {NoPath} ELSE {}

Call(t) ==
  \/ \E s \in States : SwitchState(t, s)
  \/ \E p \in UserPaths : AddCall(t, p) \/ RemCall(t, p)
  \/ \E p \in Checked : ChkEmpty(t, p) \/ ChkCall(t, p)
  \/ AddNoMemory(t) \/ AddNoPathMemory(t) \/ RemNoMemory(t) \/ PrtCall(t)

Acquire(t) == AddLock(t) \/ RemLock(t) \/ ChkLock(t)

Step(t) ==
  \/ AddScan(t) \/ AddExists(t) \/ AddLink(t) \/ AddCount(t)
  \/ RemScan(t) \/ RemNotFound(t) \/ RemHead(t) \/ RemCount(t) \/ RemUnlink(t)
  \/ ChkOff(t) \/ ChkOn(t) \/ ChkHead(t) \/ ChkScan(t) \/ ChkFound(t)
  \/ ChkEnd(t) \/ ChkNullPath(t)
  \/ PrtRefuse(t) \/ PrtEmpty(t) \/ PrtBegin(t) \/ PrtNoRoom(t)
  \/ PrtMore(t) \/ PrtNoMore(t) \/ PrtStep(t) \/ PrtLast(t)
  \/ PrtCopy(t) \/ PrtCopyFault(t) \/ PrtFreeLiteral(t)
  \/ Fault(t) \/ Resume(t)

Next == \E t \in Threads : Call(t) \/ Acquire(t) \/ Step(t)

Spec == Init /\ [][Next]_vars

(*****************************************************************************)
(* A thread in the kernel keeps running, and the kernel's queued spinlocks   *)
(* serve waiters in order, so that a waiter is not passed over for ever.     *)
(*****************************************************************************)
Fairness == \A t \in Threads : WF_vars(Step(t)) /\ SF_vars(Acquire(t))

--------------------------------------------------------------------------------
(*****************************************************************************)
(* Properties                                                                *)
(*****************************************************************************)
\* The type of every variable.
TypeOK ==
  /\ state \in RFStates
  /\ head \in Pointer
  /\ size \in Nat
  /\ lock \in Threads \cup {NoThread}
  /\ next \in [Node -> Pointer]
  /\ path \in [Node -> Paths]
  /\ linked \in 0 .. MaxNodes
  /\ pc \in [Threads -> Labels]
  /\ arg \in [Threads -> Paths \cup {NoPath}]
  /\ curr \in [Threads -> Pointer]
  /\ prev \in [Threads -> 0 .. MaxNodes]
  /\ out \in [Threads -> SUBSET Node]
  /\ ret \in [Threads -> Results]
  /\ removedAt \in [Node -> 0 .. MaxNodes]
  /\ start \in [Threads -> SUBSET Node]
  /\ gone \in [Threads -> SUBSET Node]
  /\ modes \in [Threads -> SUBSET {"on", "off"}]

\* add_to_blacklist refuses a path that is already listed, whatever the other
\* threads do: no two nodes on the list hold the same path.
NoDuplicates == \A m, n \in Live : path[m] = path[n] => m = n

\* The entries that stayed on the list all through the current call of t.
Lasting(t) == start[t] \cap Live

\* Although is_blacklisted reads the size, the state and the head without the
\* lock, and walks a list that may have changed since: when it answers 0, the
\* monitor was off at some moment of the call or no entry that stayed on the
\* list during the call matches the path.
CheckHonoursEntries ==
  \A t \in Threads :
    (pc[t] = "chk_done" /\ ret[t] = "0" /\ modes[t] = {"on"}) =>
      \A n \in Lasting(t) : ~Hit(n, arg[t])

\* When is_blacklisted answers 1, the monitor was on at some moment of the call
\* and some node that was on the list during the call, if only for a while,
\* matches the path: an entry removed before the call never blocks anyone.
CheckIsGrounded ==
  \A t \in Threads :
    (pc[t] = "chk_done" /\ ret[t] = "1") =>
      /\ "on" \in modes[t]
      /\ \E n \in (1 .. linked) \ gone[t] : Hit(n, arg[t])

\* A print that reaches the end of the list, though it never takes the lock,
\* has written every entry that stayed on the list during the call.
PrintIsComplete ==
  \A t \in Threads :
    pc[t] = "prt_copy" \/ (pc[t] = "prt_done" /\ ret[t] = "0") =>
      Lasting(t) \subseteq out[t]

\* A print writes no entry that was removed before it began.
PrintIsGrounded == \A t \in Threads : out[t] \cap gone[t] = {}

\* The counter never falls below the number of entries, and the check that
\* takes a count of 0 for an empty list therefore misses no entry.
SizeCoversEntries == size >= Cardinality(Settled)

\* Whoever scans or changes the list under the lock holds it, and a thread
\* that holds it is inside such a section (or died there).
LockIsHeld ==
  \A t \in Threads :
    /\ pc[t] \in {"add_scan", "add_count", "rem_scan", "rem_count", "chk_scan"}
         => lock = t
    /\ lock = t
         => pc[t] \in {"add_scan", "add_count", "rem_scan", "rem_count",
                       "chk_scan", "oops"}

\* Every call returns, or its thread dies, or it waits for the lock that a thread has
\* died with for want of memory: no call waits for ever for one that goes on.
CallsReturn ==
  \A t \in Threads :
    pc[t] # "idle" ~> pc[t] \in {"idle", "oops"} \/ \E u \in Threads : lock = u /\ pc[u] = "oops"

(*****************************************************************************)
(* What the documentation says, and the code does not do.                    *)
(*****************************************************************************)
\* "sys_get_blacklist_size --> Returns the size of the blacklist": whenever the
\* lock is free, the size is the number of entries.
SizeIsLength == lock = NoThread => size = Cardinality(Live)

\* "sys_add_to_blacklist --> Add the full path of the file or directory to the
\* blacklist": the list that add_to_blacklist leaves can be walked to its end.
LinksAreValid == \A n \in Live : next[n] \in Live \cup {NULL}

--------------------------------------------------------------------------------
(*****************************************************************************)
(* The inductive invariant behind the properties above.                      *)
(*****************************************************************************)
\* n is at or before m, and was on the list together with m: a walk that stands
\* on n, even if n has been unlinked since, will still meet m.
Covers(n, m) == n <= m /\ (removedAt[n] = 0 \/ m <= removedAt[n])

\* The list: nodes are in the order of their numbers, a listed node points to a
\* listed node, the head is the first, and from every node, unlinked ones too,
\* the next pointer leads towards every listed node that it covers.
ListInv ==
  /\ \A n \in Node :
       /\ removedAt[n] # 0 => n <= removedAt[n] /\ removedAt[n] <= linked
       /\ n <= linked /\ next[n] # NULL => n < next[n] /\ next[n] <= linked
  /\ \A n \in Live : next[n] # NULL => next[n] \in Live
  /\ head # NULL => head \in Live
  /\ \A m \in Live : head # NULL /\ head <= m
  /\ \A n \in 1 .. linked, m \in Live :
       n < m /\ Covers(n, m) =>
         next[n] # NULL /\ next[n] <= m /\ Covers(next[n], m)

\* The counter, with a removal between its two stores taken into account.
Uncounting == \E t \in Threads : pc[t] = "rem_count"

SizeInv == size >= Cardinality(Settled) + IF Uncounting THEN 1 ELSE 0

\* A thread inside its critical section.
WriterInv(t) ==
  /\ pc[t] \in {"add_lock", "add_scan", "add_count",
                 "rem_lock", "rem_scan", "rem_count"} => arg[t] \in Paths
  /\ pc[t] \in {"idle", "add_lock", "rem_lock"} => prev[t] = NULL
  /\ pc[t] = "add_scan" =>
       /\ linked < MaxNodes
       /\ curr[t] = NULL => head = NULL
       /\ curr[t] # NULL => curr[t] \in Live
       /\ \A n \in Live : n < curr[t] => path[n] # arg[t]
  /\ pc[t] = "add_count" => linked \in Live
  /\ pc[t] = "rem_scan" =>
       /\ curr[t] # NULL => curr[t] \in Live
       /\ prev[t] = NULL => curr[t] = head
       /\ prev[t] # NULL => prev[t] \in Live /\ next[prev[t]] = curr[t]

\* The window of a call: what was unlinked before it is out of its reach, and
\* the modes it has seen include the present one.
WindowInv(t) ==
  /\ start[t] \subseteq 1 .. linked
  /\ gone[t] \subseteq Removed
  /\ \A n \in (1 .. linked) \ gone[t] : next[n] \notin gone[t]
  /\ out[t] \cap gone[t] = {}
  /\ pc[t] = "idle" => out[t] = {}
  /\ pc[t] \in {"chk_state", "chk_head", "chk_lock", "chk_scan", "chk_done"}
       => Mode(state) \in modes[t]
  /\ pc[t] \in {"chk_head", "chk_lock", "chk_scan"} => "on" \in modes[t]

\* The cursor of a walk that the thread does not control: what it still has to
\* meet is ahead of it.
CursorInv(t) ==
  /\ pc[t] \in {"chk_lock", "chk_scan",
                 "prt_size", "prt_test", "prt_step", "prt_last"}
       => curr[t] \in 0 .. linked /\ curr[t] \notin gone[t]
  /\ pc[t] \in {"chk_lock", "chk_scan"} =>
       \A m \in Lasting(t) : Hit(m, arg[t]) => curr[t] # NULL /\ Covers(curr[t], m)
  /\ pc[t] \in {"prt_size", "prt_test", "prt_step"} =>
       \A m \in Lasting(t) \ out[t] : curr[t] # NULL /\ Covers(curr[t], m)
  /\ pc[t] \in {"prt_step", "prt_last"} => curr[t] # NULL
  /\ pc[t] = "prt_last" => \A m \in Lasting(t) \ out[t] : m = curr[t]

Inv ==
  /\ TypeOK
  /\ LockIsHeld
  /\ ListInv
  /\ NoDuplicates
  /\ SizeInv
  /\ \A t \in Threads : WriterInv(t) /\ WindowInv(t) /\ CursorInv(t)
  /\ CheckHonoursEntries
  /\ CheckIsGrounded
  /\ PrintIsComplete
================================================================================
