---------------------------- MODULE BlacklistSteps -----------------------------
(*****************************************************************************)
(* The invariant of Blacklist, split into what it says of the shared state   *)
(* and of each thread, what a step that leaves a part of the state alone     *)
(* keeps of it, and the steps of the two writers, add_to_blacklist and       *)
(* remove_from_blacklist, and of the two readers, is_blacklisted and         *)
(* sys_print_blacklist, for any number of threads, paths and nodes, with     *)
(* allocations and copies from user space that may fail.                     *)
(*****************************************************************************)
EXTENDS Blacklist, TLAPS

list == <<head, next, path, linked, removedAt>>

\* The local variables of thread u, and the window of its call.
SameThread(u) ==
  /\ pc'[u] = pc[u]
  /\ arg'[u] = arg[u]
  /\ curr'[u] = curr[u]
  /\ prev'[u] = prev[u]
  /\ out'[u] = out[u]
  /\ ret'[u] = ret[u]
  /\ start'[u] = start[u]
  /\ gone'[u] = gone[u]
  /\ modes'[u] = modes[u]

\* The three observable properties, for one thread.
ResultInv(t) ==
  /\ (pc[t] = "chk_done" /\ ret[t] = "0" /\ modes[t] = {"on"}) =>
       \A n \in Lasting(t) : ~Hit(n, arg[t])
  /\ (pc[t] = "chk_done" /\ ret[t] = "1") =>
       /\ "on" \in modes[t]
       /\ \E n \in (1 .. linked) \ gone[t] : Hit(n, arg[t])
  /\ pc[t] = "prt_copy" \/ (pc[t] = "prt_done" /\ ret[t] = "0") =>
       Lasting(t) \subseteq out[t]

ThreadInv(t) == WriterInv(t) /\ WindowInv(t) /\ CursorInv(t) /\ ResultInv(t)

SharedInv == TypeOK /\ LockIsHeld /\ ListInv /\ NoDuplicates /\ SizeInv

\* The inductive invariant, split into what is shared and what is one thread's.
LEMMA InvSplit == Inv <=> SharedInv /\ \A t \in Threads : ThreadInv(t)
BY Zenon DEF Inv, SharedInv, ThreadInv, ResultInv, CheckHonoursEntries,
       CheckIsGrounded, PrintIsComplete

\* A step that leaves the list alone preserves what is said of it.
LEMMA ListFrame ==
  ASSUME SharedInv, UNCHANGED list
  PROVE  /\ Live' = Live
         /\ Removed' = Removed
         /\ \A n, m : Covers(n, m)' <=> Covers(n, m)
         /\ \A n, p : Hit(n, p)' <=> Hit(n, p)
         /\ ListInv'
         /\ NoDuplicates'
<1>1. Live' = Live /\ Removed' = Removed
  BY Zenon DEF list, Live, Removed
<1>2. /\ \A n, m : Covers(n, m)' <=> Covers(n, m)
      /\ \A n, p : Hit(n, p)' <=> Hit(n, p)
  BY Zenon DEF list, Covers, Hit
<1>3. ListInv'
  BY Zenon, <1>1, <1>2 DEF SharedInv, ListInv, list
<1>4. NoDuplicates'
  BY Zenon, <1>1 DEF SharedInv, NoDuplicates, list
<1> QED
  BY Zenon, <1>1, <1>2, <1>3, <1>4

\* A step that leaves the list and the size alone, of a thread that is not
\* between two stores before it or after it, preserves what is said of the size.
LEMMA SizeFrame ==
  ASSUME SharedInv, UNCHANGED list, size' = size,
         NEW t \in Threads, \A u \in Threads \ {t} : pc'[u] = pc[u],
         pc[t] \notin {"add_count", "rem_count"},
         pc'[t] \notin {"add_count", "rem_count"}
  PROVE  Settled' = Settled /\ SizeInv'
<1>2. (Counting' <=> Counting) /\ (Uncounting' <=> Uncounting)
  BY Zenon DEF Counting, Uncounting
<1>3. Settled' = Settled
  BY Zenon, <1>2 DEF Settled, Live, list
<1> QED
  BY Zenon, <1>2, <1>3 DEF SharedInv, SizeInv

\* A thread that takes no part in a step that leaves the list and the state
\* alone keeps its invariant.
LEMMA ThreadFrame ==
  ASSUME SharedInv, UNCHANGED list, state' = state,
         NEW u \in Threads, ThreadInv(u), SameThread(u)
  PROVE  ThreadInv(u)'
<1>1. /\ Live' = Live
      /\ Removed' = Removed
      /\ \A n, m : Covers(n, m)' <=> Covers(n, m)
      /\ \A n, p : Hit(n, p)' <=> Hit(n, p)
  BY Zenon, ListFrame
<1>2. Lasting(u)' = Lasting(u)
  BY Zenon, <1>1 DEF Lasting, SameThread
<1>3. Mode(state)' = Mode(state)
  BY Zenon DEF Mode, Enforcing
<1>4. WriterInv(u)'
  BY Zenon, <1>1 DEF ThreadInv, WriterInv, SameThread, list
<1>5. WindowInv(u)'
  BY Zenon, <1>1, <1>3 DEF ThreadInv, WindowInv, SameThread, list
<1>6. CursorInv(u)'
  BY Zenon, <1>1, <1>2 DEF ThreadInv, CursorInv, SameThread, list
<1>7. ResultInv(u)'
  BY Zenon, <1>1, <1>2 DEF ThreadInv, ResultInv, SameThread, list
<1> QED
  BY Zenon, <1>4, <1>5, <1>6, <1>7 DEF ThreadInv

\* The types of the local variables of thread t.
ThreadTypes(t) ==
  /\ pc[t] \in Labels
  /\ arg[t] \in Paths \cup {NoPath}
  /\ curr[t] \in Pointer
  /\ prev[t] \in 0 .. MaxNodes
  /\ out[t] \in SUBSET Node
  /\ ret[t] \in Results
  /\ start[t] \in SUBSET Node
  /\ gone[t] \in SUBSET Node
  /\ modes[t] \in SUBSET {"on", "off"}

\* A step of thread t that leaves the list, the size, the state and the other
\* threads alone.
Quiet(t) ==
  /\ UNCHANGED list
  /\ size' = size
  /\ state' = state
  /\ lock' \in {lock, t, NoThread}
  /\ pc' = [pc EXCEPT ![t] = pc'[t]]
  /\ arg' = [arg EXCEPT ![t] = arg'[t]]
  /\ curr' = [curr EXCEPT ![t] = curr'[t]]
  /\ prev' = [prev EXCEPT ![t] = prev'[t]]
  /\ out' = [out EXCEPT ![t] = out'[t]]
  /\ ret' = [ret EXCEPT ![t] = ret'[t]]
  /\ start' = [start EXCEPT ![t] = start'[t]]
  /\ gone' = [gone EXCEPT ![t] = gone'[t]]
  /\ modes' = [modes EXCEPT ![t] = modes'[t]]

\* The labels of a thread inside a critical section.
InLock == {"add_scan", "add_count", "rem_scan", "rem_count", "chk_scan"}

\* A step that keeps the lock with whoever is inside a critical section: it
\* leaves both alone, enters one with a free lock, or leaves one and frees it.
LockKept(t) ==
  \/ /\ lock' = lock
     /\ pc[t] # "oops"
     /\ pc'[t] \in InLock => pc[t] \in InLock
     /\ pc[t] \in InLock => pc'[t] \in InLock \cup {"oops"}
  \/ lock = NoThread /\ lock' = t /\ pc'[t] \in InLock
  \/ lock' = NoThread /\ pc[t] \in InLock /\ pc'[t] \notin InLock

\* Such a step changes one thread.
LEMMA QuietFrame ==
  ASSUME SharedInv, NEW t \in Threads, Quiet(t)
  PROVE  \A u \in Threads \ {t} : SameThread(u)
BY DEF SharedInv, TypeOK, Quiet, SameThread

\* After such a step, only the types, the lock and the thread itself are left to
\* be looked at.
LEMMA QuietStep ==
  ASSUME Inv, NEW t \in Threads, Quiet(t), LockKept(t),
         pc[t] \notin {"add_count", "rem_count"},
         pc'[t] \notin {"add_count", "rem_count"},
         ThreadTypes(t)', ThreadInv(t)'
  PROVE  Inv'
<1>1. SharedInv /\ \A u \in Threads : ThreadInv(u)
  BY Zenon, InvSplit
<1>2. \A u \in Threads \ {t} : SameThread(u)
  BY Zenon, <1>1, QuietFrame
<1>3. UNCHANGED list /\ size' = size /\ state' = state
  BY Zenon DEF Quiet
<1>4. ListInv' /\ NoDuplicates'
  BY Zenon, <1>1, <1>3, ListFrame
<1>5. SizeInv'
  <2>1. \A u \in Threads \ {t} : pc'[u] = pc[u]
    BY Zenon, <1>2 DEF SameThread
  <2> QED
    BY Zenon, <1>1, <1>3, <2>1, SizeFrame
<1>6. TypeOK'
  <2>1. TypeOK
    BY Zenon, <1>1 DEF SharedInv
  <2>2. /\ state' \in RFStates /\ head' \in Pointer /\ size' \in Nat
        /\ next' \in [Node -> Pointer] /\ path' \in [Node -> Paths]
        /\ linked' \in 0 .. MaxNodes /\ removedAt' \in [Node -> 0 .. MaxNodes]
        /\ lock' \in Threads \cup {NoThread}
    BY <1>3, <2>1 DEF TypeOK, list, Quiet
  <2>3. /\ pc' \in [Threads -> Labels]
        /\ arg' \in [Threads -> Paths \cup {NoPath}]
        /\ curr' \in [Threads -> Pointer]
        /\ prev' \in [Threads -> 0 .. MaxNodes]
    BY Zenon, <2>1 DEF TypeOK, Quiet, ThreadTypes
  <2>4. /\ out' \in [Threads -> SUBSET Node]
        /\ ret' \in [Threads -> Results]
    BY Zenon, <2>1 DEF TypeOK, Quiet, ThreadTypes
  <2>5. /\ start' \in [Threads -> SUBSET Node]
        /\ gone' \in [Threads -> SUBSET Node]
        /\ modes' \in [Threads -> SUBSET {"on", "off"}]
    BY Zenon, <2>1 DEF TypeOK, Quiet, ThreadTypes
  <2> QED
    BY Zenon, <2>2, <2>3, <2>4, <2>5 DEF TypeOK
<1>7. \A u \in Threads \ {t} : ThreadInv(u)'
  BY Zenon, <1>1, <1>2, <1>3, ThreadFrame
<1>8. LockIsHeld'
  <2>1. \A u \in Threads \ {t} : pc'[u] = pc[u]
    BY Zenon, <1>2 DEF SameThread
  <2>2. LockIsHeld
    BY Zenon, <1>1 DEF SharedInv
  <2> QED
    BY Zenon, <2>1, <2>2, ThreadsAssumption DEF LockIsHeld, LockKept, InLock
<1>9. SharedInv' /\ \A u \in Threads : ThreadInv(u)'
  BY Zenon, <1>4, <1>5, <1>6, <1>7, <1>8 DEF SharedInv
<1> QED
  BY Zenon, <1>9 DEF Inv, SharedInv, ThreadInv, ResultInv, CheckHonoursEntries,
              CheckIsGrounded, PrintIsComplete

\* Values that belong to the types.
LEMMA Types ==
  /\ NULL \in Pointer /\ NULL \in 0 .. MaxNodes
  /\ Node \subseteq Pointer /\ Node \subseteq 0 .. MaxNodes
  /\ 0 .. MaxNodes \subseteq Pointer
  /\ \A n \in Nat : n <= MaxNodes => 1 .. n \subseteq Node
  /\ {"idle", "add_lock", "add_scan", "add_count", "add_done",
        "rem_lock", "rem_scan", "rem_count", "rem_done",
        "chk_state", "chk_head", "chk_lock", "chk_scan", "chk_done",
        "prt_size", "prt_test", "prt_step", "prt_last", "prt_copy", "prt_done",
        "oops"} \subseteq Labels
  /\ {"none", "0", "1", "-1", "EEXIST", "EINVAL", "ENOMEM", "EAGAIN"}
       \subseteq Results
BY BoundsAssumption DEF NULL, Pointer, Node, WILD, Labels, Results

\* The head covers every entry, and so does the next pointer of a node that
\* covers it.
LEMMA Walk ==
  ASSUME SharedInv
  PROVE  /\ head \in 0 .. linked /\ head \notin Removed
         /\ \A m \in Live : head # NULL /\ Covers(head, m)
         /\ \A n \in 1 .. linked :
              /\ n \in Node
              /\ next[n] \in 0 .. linked
              /\ n \notin Removed => next[n] \notin Removed
         /\ \A n \in 1 .. linked, m \in Live :
              Covers(n, m) /\ n # m => next[n] # NULL /\ Covers(next[n], m)
<1> USE BoundsAssumption DEF SharedInv, TypeOK, ListInv, Node, Pointer, WILD, NULL
<1>1. head \in 0 .. linked /\ head \notin Removed
  BY DEF Live, Removed
<1>2. \A m \in Live : head # NULL /\ Covers(head, m)
  BY Zenon DEF Live, Covers
<1>3. \A n \in 1 .. linked : n \in Node /\ next[n] \in 0 .. linked
  OBVIOUS
<1>4. \A n \in 1 .. linked : n \notin Removed => next[n] \notin Removed
  BY SMTT(30) DEF Live, Removed
<1>5. \A n \in 1 .. linked, m \in Live :
        Covers(n, m) /\ n # m => next[n] # NULL /\ Covers(next[n], m)
  BY DEF Live, Covers
<1> QED
  BY Zenon, <1>1, <1>2, <1>3, <1>4, <1>5

\* The sets that make up the window of a call.
LEMMA Window ==
  ASSUME SharedInv
  PROVE  /\ Settled \subseteq Live /\ Live \subseteq 1 .. linked
         /\ Removed \subseteq 1 .. linked
         /\ 1 .. linked \subseteq Node
         /\ linked \in Nat
<1>1. Settled \subseteq Live /\ Live \subseteq 1 .. linked /\ Removed \subseteq 1 .. linked
  BY Zenon DEF Settled, Live, Removed
<1>2. 1 .. linked \subseteq Node
  BY BoundsAssumption DEF SharedInv, TypeOK, Node
<1>3. linked \in Nat
  BY BoundsAssumption DEF SharedInv, TypeOK
<1> QED
  BY Zenon, <1>1, <1>2, <1>3

\* What the invariant says of the thread that takes a step.
LEMMA Own ==
  ASSUME Inv, NEW t \in Threads
  PROVE  SharedInv /\ ThreadInv(t) /\ ThreadTypes(t)
<1>1. SharedInv /\ ThreadInv(t)
  BY Zenon, InvSplit
<1> QED
  BY Zenon, <1>1 DEF SharedInv, TypeOK, ThreadTypes

\* The types of the pointers that a walk follows.
LEMMA Pointers ==
  ASSUME SharedInv
  PROVE  head \in Pointer /\ \A n \in Node : next[n] \in Pointer
BY Zenon DEF SharedInv, TypeOK

\* A walk that stands on a node stands on one that it may report.
LEMMA AtNode ==
  ASSUME SharedInv, NEW t \in Threads, ThreadInv(t),
         pc[t] \in {"chk_lock", "chk_scan", "prt_size", "prt_test", "prt_step", "prt_last"},
         curr[t] \in Node \/ pc[t] \in {"prt_step", "prt_last"}
  PROVE  curr[t] \in 1 .. linked /\ curr[t] \notin gone[t] /\ curr[t] # NULL
<1>1. curr[t] \in 0 .. linked /\ curr[t] \notin gone[t] /\ linked \in Nat
  BY Zenon, Window DEF ThreadInv, CursorInv
<1>2. curr[t] # NULL
  BY DEF ThreadInv, CursorInv, Node, NULL
<1> QED
  BY <1>1, <1>2 DEF NULL

\* A thread that returns, or dies, has nothing left to answer for but its window.
LEMMA AtRest ==
  ASSUME SharedInv, NEW t \in Threads, ThreadInv(t), UNCHANGED list,
         pc'[t] \in {"idle", "add_done", "rem_done", "prt_done", "oops"},
         out'[t] \in {out[t], {}}, start'[t] \in {start[t], {}}, gone'[t] \in {gone[t], {}},
         pc'[t] = "idle" => prev'[t] = NULL /\ out'[t] = {},
         pc'[t] = "prt_done" => ret'[t] # "0"
  PROVE  ThreadInv(t)'
<1>1. Removed' = Removed
  BY Zenon, ListFrame
<1>2. WindowInv(t)'
  BY Zenon, <1>1 DEF ThreadInv, WindowInv, list
<1>3. WriterInv(t)' /\ CursorInv(t)' /\ ResultInv(t)'
  BY Zenon DEF WriterInv, CursorInv, ResultInv
<1> QED
  BY Zenon, <1>2, <1>3 DEF ThreadInv

\* A step to rest preserves the invariant.
LEMMA RestStep ==
  ASSUME Inv, NEW t \in Threads, Quiet(t), LockKept(t),
         pc[t] \notin {"add_count", "rem_count"},
         pc'[t] \in {"idle", "add_done", "rem_done", "prt_done", "oops"},
         arg'[t] \in {arg[t], NoPath}, curr'[t] = NULL, prev'[t] = NULL,
         out'[t] \in {out[t], {}}, ret'[t] \in Results,
         start'[t] \in {start[t], {}}, gone'[t] \in {gone[t], {}},
         modes'[t] \in {modes[t], {}},
         pc'[t] = "idle" => out'[t] = {},
         pc'[t] = "prt_done" => ret'[t] # "0"
  PROVE  Inv'
<1>1. SharedInv /\ ThreadInv(t) /\ ThreadTypes(t)
  BY Zenon, Own
<1>2. ThreadTypes(t)'
  BY ZenonT(30), <1>1, Types DEF ThreadTypes
<1>3. UNCHANGED list
  BY Zenon DEF Quiet
<1>4. ThreadInv(t)'
  BY Zenon, <1>1, <1>3, AtRest
<1> QED
  BY Zenon, <1>2, <1>4, QuietStep

\* A thread that adds or removes answers for its scan, and keeps its window.
LEMMA AtWork ==
  ASSUME SharedInv, NEW t \in Threads, ThreadInv(t), UNCHANGED list,
         pc'[t] \in {"add_lock", "add_scan", "rem_lock", "rem_scan"},
         out'[t] = out[t], start'[t] = start[t], gone'[t] = gone[t],
         WriterInv(t)'
  PROVE  ThreadInv(t)'
<1>1. Removed' = Removed
  BY Zenon, ListFrame
<1>2. WindowInv(t)'
  BY Zenon, <1>1 DEF ThreadInv, WindowInv, list
<1>3. CursorInv(t)' /\ ResultInv(t)'
  BY Zenon DEF CursorInv, ResultInv
<1> QED
  BY Zenon, <1>2, <1>3 DEF ThreadInv

\* The labels of a thread that checks or prints.
Observing == {"chk_state", "chk_head", "chk_lock", "chk_scan", "chk_done",
              "prt_size", "prt_test", "prt_step", "prt_last", "prt_copy", "prt_done"}

\* A thread that checks or prints answers for its cursor and its result, and
\* keeps its window.
LEMMA AtWatch ==
  ASSUME SharedInv, NEW t \in Threads, ThreadInv(t), UNCHANGED list, state' = state,
         pc[t] \in Observing, pc'[t] \in Observing,
         pc'[t] \in {"chk_state", "chk_head", "chk_lock", "chk_scan", "chk_done"}
           => Mode(state) \in modes[t],
         pc'[t] \in {"chk_head", "chk_lock", "chk_scan"} => "on" \in modes[t],
         out'[t] \cap gone[t] = {},
         start'[t] = start[t], gone'[t] = gone[t], modes'[t] = modes[t],
         CursorInv(t)', ResultInv(t)'
  PROVE  ThreadInv(t)'
<1>1. Removed' = Removed
  BY Zenon, ListFrame
<1>2. WindowInv(t)'
  BY Zenon, <1>1 DEF ThreadInv, WindowInv, list, Observing, Mode, Enforcing
<1>3. WriterInv(t)'
  BY Zenon DEF WriterInv, Observing
<1> QED
  BY Zenon, <1>2, <1>3 DEF ThreadInv

\* A thread that begins to check or print has the whole list ahead of it.
LEMMA AtCall ==
  ASSUME SharedInv, NEW t \in Threads, ThreadInv(t), UNCHANGED list, state' = state,
         pc[t] = "idle", pc'[t] \in {"chk_state", "chk_done", "prt_size"},
         out'[t] = out[t],
         start'[t] = Settled, gone'[t] = Removed, modes'[t] = {Mode(state)},
         CursorInv(t)', ResultInv(t)'
  PROVE  ThreadInv(t)'
<1>1. Removed' = Removed /\ Live' = Live
  BY Zenon, ListFrame
<1>2. out[t] = {}
  BY Zenon DEF ThreadInv, WindowInv
<1>3. \A n \in (1 .. linked) \ Removed : next[n] \notin Removed
  BY Zenon, Walk
<1>4. Settled \subseteq 1 .. linked
  BY Zenon, Window
<1>5. WindowInv(t)'
  BY Zenon, <1>1, <1>2, <1>3, <1>4 DEF WindowInv, list, Mode, Enforcing
<1>6. WriterInv(t)'
  BY Zenon DEF WriterInv
<1> QED
  BY Zenon, <1>5, <1>6 DEF ThreadInv

\* A thread inside a critical section is the only one.
LEMMA Exclusive ==
  ASSUME SharedInv, NEW t \in Threads, NEW u \in Threads, u # t,
         pc[t] \in {"add_scan", "add_count", "rem_scan", "rem_count", "chk_scan"}
  PROVE  pc[u] \notin {"add_scan", "add_count", "rem_scan", "rem_count", "chk_scan"}
BY Zenon DEF SharedInv, LockIsHeld

(*****************************************************************************)
(* add_to_blacklist                                                          *)
(*****************************************************************************)
\* add_to_blacklist is called.
LEMMA AddCallInv ==
  ASSUME Inv, NEW t \in Threads, NEW p \in Paths, AddCall(t, p)
  PROVE  Inv'
<1>1. SharedInv /\ ThreadInv(t) /\ ThreadTypes(t)
  BY Zenon, Own
<1>2. Quiet(t)
  BY Zenon, <1>1 DEF SharedInv, TypeOK, Quiet, list, AddCall, Copies, Goto, shared, hist
<1>3. /\ pc'[t] = "add_lock" /\ curr'[t] = curr[t] /\ prev'[t] = prev[t] /\ out'[t] = out[t]
      /\ ret'[t] = ret[t] /\ start'[t] = start[t] /\ gone'[t] = gone[t] /\ modes'[t] = modes[t]
      /\ arg'[t] \in Paths
      /\ lock' = lock
      /\ pc[t] = "idle"
  BY Zenon, <1>1, PathsAssumption DEF SharedInv, TypeOK, AddCall, Copies, Goto, shared, hist
<1>4. UNCHANGED list /\ state' = state
  BY Zenon, <1>2 DEF Quiet
<1>5. LockKept(t)
  BY Zenon, <1>3 DEF LockKept, InLock
<1>6. ThreadTypes(t)'
  BY Zenon, <1>1, <1>3, Types DEF ThreadTypes
<1>7. ThreadInv(t)'
  <2>1. Live' = Live
    BY Zenon, <1>1, <1>4, ListFrame
  <2>9. WriterInv(t)'
    BY Zenon, <1>1, <1>3 DEF ThreadInv, WriterInv
  <2> QED
    BY Zenon, <1>1, <1>3, <1>4, <2>9, AtWork
<1> QED
  BY Zenon, <1>1, <1>2, <1>3, <1>5, <1>6, <1>7, QuietStep

\* add_to_blacklist returns -ENOMEM.
LEMMA AddNoMemoryInv ==
  ASSUME Inv, NEW t \in Threads, AddNoMemory(t)
  PROVE  Inv'
<1>1. SharedInv /\ ThreadInv(t) /\ ThreadTypes(t)
  BY Zenon, Own
<1>2. Quiet(t)
  BY Zenon, <1>1 DEF SharedInv, TypeOK, Quiet, list, AddNoMemory, Return, Goto, shared, hist
<1>3. /\ pc'[t] = "add_done" /\ arg'[t] = arg[t] /\ curr'[t] = NULL /\ prev'[t] = NULL
      /\ out'[t] = out[t] /\ ret'[t] = "ENOMEM" /\ start'[t] = start[t] /\ gone'[t] = gone[t] /\ modes'[t] = modes[t]
      /\ lock' = lock
      /\ pc[t] = "idle"
  BY Zenon, <1>1 DEF SharedInv, TypeOK, AddNoMemory, Return, Goto, shared, hist
<1>4. LockKept(t)
  BY Zenon, <1>3 DEF LockKept, InLock
<1> QED
  BY Zenon, <1>2, <1>3, <1>4, Types, RestStep

\* add_to_blacklist dies for want of memory.
LEMMA AddNoPathMemoryInv ==
  ASSUME Inv, NEW t \in Threads, AddNoPathMemory(t)
  PROVE  Inv'
<1>1. SharedInv /\ ThreadInv(t) /\ ThreadTypes(t)
  BY Zenon, Own
<1>2. Quiet(t)
  BY Zenon, <1>1 DEF SharedInv, TypeOK, Quiet, list, AddNoPathMemory, Die, Forget, Return, Goto, shared, hist
<1>3. /\ pc'[t] = "oops" /\ arg'[t] = NoPath /\ curr'[t] = NULL /\ prev'[t] = NULL
      /\ out'[t] = {} /\ ret'[t] = "none" /\ start'[t] = {} /\ gone'[t] = {} /\ modes'[t] = {}
      /\ lock' = lock
      /\ pc[t] = "idle"
  BY Zenon, <1>1 DEF SharedInv, TypeOK, AddNoPathMemory, Die, Forget, Return, Goto, shared, hist
<1>4. LockKept(t)
  BY Zenon, <1>3 DEF LockKept, InLock
<1> QED
  BY Zenon, <1>2, <1>3, <1>4, Types, RestStep

\* add_to_blacklist takes the lock.
LEMMA AddLockInv ==
  ASSUME Inv, NEW t \in Threads, AddLock(t)
  PROVE  Inv'
<1>1. SharedInv /\ ThreadInv(t) /\ ThreadTypes(t)
  BY Zenon, Own
<1>2. Quiet(t)
  BY Zenon, <1>1 DEF SharedInv, TypeOK, Quiet, list, AddLock, Goto, shared, hist
<1>3. /\ pc'[t] = "add_scan" /\ arg'[t] = arg[t] /\ curr'[t] = head /\ prev'[t] = prev[t]
      /\ out'[t] = out[t] /\ ret'[t] = ret[t] /\ start'[t] = start[t] /\ gone'[t] = gone[t] /\ modes'[t] = modes[t]
      /\ lock = NoThread /\ lock' = t
      /\ pc[t] = "add_lock" /\ linked < MaxNodes
  BY Zenon, <1>1 DEF SharedInv, TypeOK, AddLock, Goto, shared, hist
<1>4. UNCHANGED list /\ state' = state
  BY Zenon, <1>2 DEF Quiet
<1>5. LockKept(t)
  BY Zenon, <1>3 DEF LockKept, InLock
<1>6. ThreadTypes(t)'
  BY Zenon, <1>1, <1>3, Types, Pointers DEF ThreadTypes
<1>7. ThreadInv(t)'
  <2>1. Live' = Live
    BY Zenon, <1>1, <1>4, ListFrame
  <2>2. \A n \in Live : ~(n < head)
    BY SMTT(30), <1>1 DEF SharedInv, TypeOK, ListInv, Live, Pointer
  <2>3. arg[t] \in Paths
    BY Zenon, <1>1, <1>3 DEF ThreadInv, WriterInv
  <2>9. WriterInv(t)'
    BY Zenon, <1>1, <1>3, <1>4, <2>1, <2>2, <2>3 DEF SharedInv, ListInv, WriterInv, list
  <2> QED
    BY Zenon, <1>1, <1>3, <1>4, <2>9, AtWork
<1> QED
  BY Zenon, <1>1, <1>2, <1>3, <1>5, <1>6, <1>7, QuietStep

\* The scan moves on: no entry lies between a node and the next.
LEMMA AddScanInv ==
  ASSUME Inv, NEW t \in Threads, AddScan(t)
  PROVE  Inv'
<1>1. SharedInv /\ ThreadInv(t) /\ ThreadTypes(t)
  BY Zenon, Own
<1>2. Quiet(t)
  BY Zenon, <1>1 DEF SharedInv, TypeOK, Quiet, list, AddScan, shared, hist
<1>3. /\ pc'[t] = "add_scan" /\ arg'[t] = arg[t] /\ curr'[t] = next[curr[t]] /\ prev'[t] = prev[t]
      /\ out'[t] = out[t] /\ ret'[t] = ret[t] /\ start'[t] = start[t] /\ gone'[t] = gone[t] /\ modes'[t] = modes[t]
      /\ lock' = lock
      /\ pc[t] = "add_scan" /\ curr[t] \in Node /\ path[curr[t]] # arg[t] /\ next[curr[t]] # NULL
  BY Zenon, <1>1 DEF SharedInv, TypeOK, AddScan, shared, hist
<1>4. UNCHANGED list /\ state' = state
  BY Zenon, <1>2 DEF Quiet
<1>5. LockKept(t)
  BY Zenon, <1>3 DEF LockKept, InLock
<1>6. ThreadTypes(t)'
  BY Zenon, <1>1, <1>3, Types, Pointers DEF ThreadTypes
<1>7. ThreadInv(t)'
  <2>1. Live' = Live
    BY Zenon, <1>1, <1>4, ListFrame
  <2>2. curr[t] \in Live /\ next[curr[t]] \in Live /\ curr[t] \in Nat /\ next[curr[t]] \in Nat
    <3>1. curr[t] \in Live /\ next[curr[t]] # NULL
      BY <1>1, <1>3 DEF ThreadInv, WriterInv, Node, NULL
    <3>2. next[curr[t]] \in Live
      BY Zenon, <1>1, <3>1 DEF SharedInv, ListInv
    <3> QED
      BY <3>1, <3>2 DEF Live
  <2>3. \A n \in Live : curr[t] < n => next[curr[t]] <= n
    BY <1>1, <2>2 DEF SharedInv, ListInv, Live, Covers
  <2>4. \A n \in Live : n < next[curr[t]] => n < curr[t] \/ n = curr[t]
    BY <2>2, <2>3 DEF Live
  <2>5. arg[t] \in Paths /\ linked < MaxNodes /\ \A n \in Live : n < curr[t] => path[n] # arg[t]
    BY Zenon, <1>1, <1>3 DEF ThreadInv, WriterInv
  <2>6. \A n \in Live : n < next[curr[t]] => path[n] # arg[t]
    BY Zenon, <1>3, <2>4, <2>5
  <2>9. WriterInv(t)'
    BY Zenon, <1>3, <1>4, <2>1, <2>2, <2>5, <2>6 DEF WriterInv, list
  <2> QED
    BY Zenon, <1>1, <1>3, <1>4, <2>9, AtWork
<1> QED
  BY Zenon, <1>1, <1>2, <1>3, <1>5, <1>6, <1>7, QuietStep

\* add_to_blacklist returns -EEXIST.
LEMMA AddExistsInv ==
  ASSUME Inv, NEW t \in Threads, AddExists(t)
  PROVE  Inv'
<1>1. SharedInv /\ ThreadInv(t) /\ ThreadTypes(t)
  BY Zenon, Own
<1>2. Quiet(t)
  BY Zenon, <1>1 DEF SharedInv, TypeOK, Quiet, list, AddExists, Return, Goto, shared, hist
<1>3. /\ pc'[t] = "add_done" /\ arg'[t] = arg[t] /\ curr'[t] = NULL /\ prev'[t] = NULL
      /\ out'[t] = out[t] /\ ret'[t] = "EEXIST" /\ start'[t] = start[t] /\ gone'[t] = gone[t] /\ modes'[t] = modes[t]
      /\ lock' = NoThread
      /\ pc[t] = "add_scan"
  BY Zenon, <1>1 DEF SharedInv, TypeOK, AddExists, Return, Goto, shared, hist
<1>4. LockKept(t)
  BY Zenon, <1>3 DEF LockKept, InLock
<1> QED
  BY Zenon, <1>2, <1>3, <1>4, Types, RestStep

\* A new node is linked at the end of the list.
LEMMA AddLinkInv ==
  ASSUME ZeroedAlloc, Inv,
         NEW t \in Threads, AddLink(t)
  PROVE  SharedInv' /\ \A u \in Threads : ThreadInv(u)'
<1> DEFINE new == linked + 1
           c   == curr[t]
<1>0. SharedInv /\ ThreadInv(t)
  BY Zenon, InvSplit
<1> USE <1>0
<1>1. /\ linked \in Nat /\ linked < MaxNodes /\ new \in Node
      /\ linked' = new /\ 1 .. new = (1 .. linked) \cup {new} /\ new \notin 1 .. linked
      /\ 1 .. linked \subseteq Node
  BY SMTT(30), BoundsAssumption DEF SharedInv, TypeOK, ThreadInv, WriterInv, AddLink, Node
<1>2. /\ pc[t] = "add_scan" /\ arg[t] \in Paths
      /\ c = NULL => head = NULL
      /\ c # NULL => c \in Live /\ path[c] # arg[t] /\ next[c] = NULL
      /\ \A n \in Live : n < c => path[n] # arg[t]
      /\ Live \subseteq 1 .. linked /\ c \in 0 .. linked
  BY <1>1, Window DEF ThreadInv, WriterInv, AddLink, NULL
<1>3. /\ \A n \in 1 .. linked : path'[n] = path[n] /\ next'[n] = IF n = c THEN new ELSE next[n]
      /\ path'[new] = arg[t] /\ next'[new] = NULL
      /\ head' = IF c = NULL THEN new ELSE head
      /\ removedAt' = removedAt /\ removedAt[new] = 0
      /\ state' = state /\ size' = size /\ lock' = lock
  <2>1. FreshNext = {NULL}
    BY Zenon DEF FreshNext
  <2>2. removedAt[new] = 0
    BY SMTT(30), <1>1 DEF SharedInv, TypeOK, ListInv
  <2> QED
    BY Zenon, <1>1, <2>1, <2>2 DEF SharedInv, TypeOK, AddLink, hist
<1>4. Live' = Live \cup {new} /\ Removed' = Removed
  BY SMTT(30), <1>1, <1>3 DEF Live, Removed
<1>5. \A n, m : Covers(n, m)' <=> Covers(n, m)
  BY Zenon, <1>3 DEF Covers
<1>6. /\ c = NULL => Live = {}
      /\ \A n \in Live : n <= c /\ (n # c => next[n] # NULL)
  <2>1. c = NULL => Live = {}
    BY Zenon, <1>2 DEF SharedInv, ListInv
  <2>2. ASSUME NEW n \in Live PROVE n <= c /\ (n # c => next[n] # NULL)
    <3>1. c \in Live /\ next[c] = NULL /\ n \in 1 .. linked /\ c \in 1 .. linked
      BY Zenon, <1>2, <2>1
    <3>2. ~(c < n)
      BY <3>1 DEF SharedInv, ListInv, Covers, Live
    <3>3. n < c => next[n] # NULL
      BY SMTT(30), <3>1 DEF SharedInv, ListInv, Covers, Live
    <3> QED
      BY SMTT(30), <1>1, <3>1, <3>2, <3>3
  <2> QED
    BY Zenon, <2>1, <2>2
<1> HIDE DEF new, c
<1>7. TypeOK'
  <2>1. /\ path' \in [Node -> Paths] /\ next' \in [Node -> Pointer] /\ head' \in Pointer
    BY <1>1, <1>2, <1>3, Types, SMTT(60) DEF SharedInv, TypeOK, AddLink, FreshNext, new
  <2> QED
    BY <1>1, <1>3, <2>1, Types, SMTT(60) DEF SharedInv, TypeOK, AddLink, Goto, hist, Node
<1>8. LockIsHeld'
  BY Zenon DEF SharedInv, TypeOK, LockIsHeld, AddLink, Goto
<1>9. NoDuplicates'
  <2>1. ASSUME NEW n \in Live PROVE path[n] # arg[t]
    <3>1. n <= c /\ n \in 1 .. linked /\ c \in 0 .. linked
      BY Zenon, <1>2, <1>6
    <3>2. c # NULL /\ (n < c \/ n = c)
      BY <1>1, <3>1 DEF NULL
    <3> QED
      BY Zenon, <1>2, <3>2
  <2>2. ASSUME NEW m \in Live', NEW n \in Live', path'[m] = path'[n]
        PROVE  m = n
    <3>1. \A x \in Live : path'[x] = path[x]
      BY Zenon, <1>2, <1>3
    <3>2. m \in Live /\ n \in Live => m = n
      BY Zenon, <2>2, <3>1 DEF SharedInv, NoDuplicates
    <3> QED
      BY ZenonT(30), <1>3, <1>4, <2>1, <2>2, <3>1, <3>2
  <2> QED
    BY Zenon, <2>2 DEF NoDuplicates
<1>10. ListInv'
  <2>1. ASSUME NEW n \in Node
        PROVE  /\ removedAt'[n] # 0 => n <= removedAt'[n] /\ removedAt'[n] <= linked'
               /\ n <= linked' /\ next'[n] # NULL => n < next'[n] /\ next'[n] <= linked'
    <3>1. removedAt[n] # 0 => n <= removedAt[n] /\ removedAt[n] <= linked
      BY Zenon DEF SharedInv, ListInv
    <3>2. removedAt[n] \in Nat /\ n \in Nat /\ next[n] \in Nat
      BY BoundsAssumption DEF SharedInv, TypeOK, Node, Pointer, WILD
    <3>3. n <= linked /\ next[n] # NULL => n < next[n] /\ next[n] <= linked
      BY Zenon DEF SharedInv, ListInv
    <3>4. n <= linked => n \in 1 .. linked
      BY <1>1 DEF Node
    <3>5. n <= linked' => n \in 1 .. linked \/ n = new
      BY SMTT(30), <1>1, <3>2, <3>4 DEF new
    <3> QED
      BY <1>1, <1>3, <3>1, <3>2, <3>3, <3>5 DEF new
  <2>2. \A n \in Live' : next'[n] # NULL => next'[n] \in Live'
    BY Zenon, <1>1, <1>2, <1>3, <1>4 DEF SharedInv, ListInv
  <2>3. head' # NULL => head' \in Live'
    BY Zenon, <1>3, <1>4 DEF SharedInv, ListInv
  <2>4. \A m \in Live' : head' # NULL /\ head' <= m
    <3>1. new # NULL /\ new \in Nat
      BY <1>1 DEF new, NULL
    <3>2. c # NULL => head # NULL /\ head \in Live /\ head <= new
      <4>1. c # NULL => head # NULL /\ head \in Live
        BY Zenon, <1>2 DEF SharedInv, ListInv
      <4>2. head \in Live => head <= new
        BY Window DEF new
      <4> QED
        BY Zenon, <4>1, <4>2
    <3>3. \A m \in Live : head # NULL /\ head <= m
      BY Zenon DEF SharedInv, ListInv
    <3> QED
      BY <1>3, <1>4, <1>6, <3>1, <3>2, <3>3
  <2>5. ASSUME NEW n \in 1 .. linked', NEW m \in Live', n < m, Covers(n, m)'
        PROVE  next'[n] # NULL /\ next'[n] <= m /\ Covers(next[n], m)'
    <3>1. n \in 1 .. linked /\ Covers(n, m)
      BY <1>1, <1>2, <1>4, <1>5, <2>5 DEF new
    <3>2. CASE m = new
      <4>1. n \in Live
        <5>1. n \in Node /\ removedAt[n] \in Nat /\ (removedAt[n] # 0 => removedAt[n] <= linked)
          BY <1>1, <3>1 DEF SharedInv, TypeOK, ListInv
        <5>2. removedAt[n] = 0
          BY <1>1, <3>1, <3>2, <5>1 DEF Covers, new
        <5> QED
          BY Zenon, <3>1, <5>2 DEF Live
      <4>2. CASE n = c
        <5>1. next'[n] = new /\ new # NULL /\ removedAt'[new] = removedAt[new]
          BY SMTT(30), <1>1, <1>3, <3>1, <4>2 DEF new, NULL
        <5>2. new <= new /\ removedAt'[new] = 0
          BY SMTT(30), <1>1, <1>3 DEF new
        <5> QED
          BY Zenon, <3>2, <5>1, <5>2 DEF Covers
      <4>3. CASE n # c
        <5>1. next[n] \in Live /\ next[n] # NULL
          BY Zenon, <1>6, <4>1, <4>3 DEF SharedInv, ListInv
        <5>2. next[n] <= new /\ removedAt[next[n]] = 0
          BY SMTT(30), <1>1, <1>2, <5>1 DEF Live, new
        <5> QED
          BY Zenon, <1>3, <3>1, <3>2, <4>3, <5>1, <5>2 DEF Covers
      <4> QED
        BY Zenon, <4>2, <4>3
    <3>3. CASE m \in Live
      <4>1. next[n] # NULL /\ next[n] <= m /\ Covers(next[n], m)
        BY Zenon, <2>5, <3>1, <3>3 DEF SharedInv, ListInv
      <4>2. n # c
        <5>1. c # NULL => next[c] = NULL
          BY Zenon, <1>2
        <5>2. n # NULL
          BY <3>1 DEF NULL
        <5> QED
          BY Zenon, <4>1, <5>1, <5>2
      <4> QED
        BY Zenon, <1>3, <3>1, <4>1, <4>2 DEF Covers
    <3> QED
      BY Zenon, <1>4, <3>2, <3>3
  <2> QED
    BY Zenon, <2>1, <2>2, <2>3, <2>4, <2>5 DEF ListInv
<1>11. SizeInv'
  <2>1. Counting' /\ ~Counting /\ ~Uncounting /\ ~Uncounting'
    <3>1. \A u \in Threads : pc[u] \notin {"add_count", "rem_count"}
      BY Zenon, <1>2, Exclusive
    <3>2. \A u \in Threads : pc'[u] = IF u = t THEN "add_count" ELSE pc[u]
      BY Zenon DEF SharedInv, TypeOK, AddLink, Goto
    <3> QED
      BY Zenon, <3>1, <3>2 DEF Counting, Uncounting
  <2>2. Settled' = Settled
    BY Zenon, <1>1, <1>2, <1>4, <2>1 DEF Settled
  <2> QED
    BY Zenon, <1>3, <2>1, <2>2 DEF SharedInv, SizeInv
<1>12. ASSUME NEW u \in Threads PROVE ThreadInv(u)'
  <2>1. /\ pc'[u] = IF u = t THEN "add_count" ELSE pc[u]
        /\ arg' = arg /\ curr' = curr /\ prev' = prev /\ out' = out /\ ret' = ret
        /\ start' = start /\ gone' = gone /\ modes' = modes
    BY Zenon DEF SharedInv, TypeOK, AddLink, Goto, hist
  <2>2. ThreadInv(u) /\ (u # t => pc[u] \notin {"add_scan", "add_count", "rem_scan", "rem_count"})
    BY Zenon, <1>2, InvSplit, Exclusive
  <2>3. new \notin start[u] /\ gone[u] \subseteq 1 .. linked
    BY Zenon, <1>1, <2>2, Window DEF ThreadInv, WindowInv
  <2>4. Lasting(u)' = Lasting(u) /\ Lasting(u) \subseteq 1 .. linked
    BY Zenon, <1>2, <1>4, <2>1, <2>3 DEF Lasting
  <2>5. \A n \in 1 .. linked : \A q : Hit(n, q)' <=> Hit(n, q)
    BY Zenon, <1>3 DEF Hit
  <2>6. WriterInv(u)'
    BY Zenon, <1>1, <1>2, <1>4, <2>1, <2>2 DEF ThreadInv, WriterInv
  <2>7. WindowInv(u)'
    <3>1. \A n \in (1 .. linked') \ gone[u] : next'[n] \notin gone[u]
      <4> TAKE n \in (1 .. linked') \ gone[u]
      <4>1. n \in 1 .. linked => next[n] \notin gone[u]
        BY Zenon, <2>2 DEF ThreadInv, WindowInv
      <4>2. new \notin gone[u] /\ NULL \notin gone[u]
        BY <1>1, <2>3 DEF new, NULL
      <4>3. n \in 1 .. linked \/ n = new
        BY Zenon, <1>1, <1>3 DEF new
      <4> QED
        BY Zenon, <1>1, <1>3, <4>1, <4>2, <4>3
    <3>2. Mode(state)' = Mode(state)
      BY Zenon, <1>3 DEF Mode, Enforcing
    <3> QED
      BY Zenon, <1>1, <1>2, <1>4, <2>1, <2>2, <3>1, <3>2 DEF ThreadInv, WindowInv
  <2>8. CursorInv(u)'
    <3>1. pc[u] # "add_scan" => pc'[u] = pc[u]
      BY Zenon, <1>2, <2>1
    <3>2. \A x \in 0 .. linked : x \in 0 .. linked'
      BY SMTT(30), <1>1 DEF new
    <3> QED
      BY Zenon, <1>2, <1>5, <2>1, <2>2, <2>4, <2>5, <3>1, <3>2 DEF ThreadInv, CursorInv
  <2>9. ResultInv(u)'
    <3>1. pc[u] # "add_scan" => pc'[u] = pc[u]
      BY Zenon, <1>2, <2>1
    <3> QED
      BY Zenon, <1>1, <1>2, <2>1, <2>2, <2>4, <2>5, <3>1 DEF ThreadInv, ResultInv
  <2> QED
    BY Zenon, <2>6, <2>7, <2>8, <2>9 DEF ThreadInv
<1> QED
  BY Zenon, <1>7, <1>8, <1>9, <1>10, <1>11, <1>12 DEF SharedInv

\* The size is counted: the entry that was pending becomes settled.
\* That the size covers it is the lemma AddCountSize.
LEMMA AddCountInv ==
  ASSUME Inv,
         NEW t \in Threads, AddCount(t), SizeInv'
  PROVE  SharedInv' /\ \A u \in Threads : ThreadInv(u)'
<1>0. SharedInv /\ ThreadInv(t)
  BY Zenon, InvSplit
<1> USE <1>0
<1>1. TypeOK'
  BY Types DEF SharedInv, TypeOK, AddCount, Return, Goto, hist
<1>2. LockIsHeld'
  BY Zenon, ThreadsAssumption DEF SharedInv, TypeOK, LockIsHeld, AddCount, Return, Goto
<1>3. UNCHANGED list /\ state' = state /\ \A u \in Threads \ {t} : SameThread(u)
  BY Zenon DEF SharedInv, TypeOK, SameThread, list, AddCount, Return, Goto, hist
<1>4. /\ Live' = Live
      /\ Removed' = Removed
      /\ ListInv'
      /\ NoDuplicates'
  BY Zenon, <1>3, ListFrame
<1>5. \A u \in Threads \ {t} : ThreadInv(u)'
  BY Zenon, <1>3, InvSplit, ThreadFrame
<1>6. ThreadInv(t)'
  <2>1. /\ pc'[t] = "add_done" /\ arg'[t] = arg[t] /\ out'[t] = out[t]
        /\ start'[t] = start[t] /\ gone'[t] = gone[t]
    BY Zenon DEF SharedInv, TypeOK, AddCount, Return, Goto, hist
  <2> QED
    BY Zenon, <1>3, <1>4, <2>1
       DEF ThreadInv, WriterInv, WindowInv, CursorInv, ResultInv, list
<1> QED
  BY Zenon, <1>1, <1>2, <1>4, <1>5, <1>6 DEF SharedInv

(*****************************************************************************)
(* remove_from_blacklist                                                     *)
(*****************************************************************************)
\* remove_from_blacklist is called.
LEMMA RemCallInv ==
  ASSUME Inv, NEW t \in Threads, NEW p \in Paths, RemCall(t, p)
  PROVE  Inv'
<1>1. SharedInv /\ ThreadInv(t) /\ ThreadTypes(t)
  BY Zenon, Own
<1>2. Quiet(t)
  BY Zenon, <1>1 DEF SharedInv, TypeOK, Quiet, list, RemCall, Copies, Goto, shared, hist
<1>3. /\ pc'[t] = "rem_lock" /\ curr'[t] = curr[t] /\ prev'[t] = prev[t] /\ out'[t] = out[t]
      /\ ret'[t] = ret[t] /\ start'[t] = start[t] /\ gone'[t] = gone[t] /\ modes'[t] = modes[t]
      /\ arg'[t] \in Paths
      /\ lock' = lock
      /\ pc[t] = "idle"
  BY Zenon, <1>1, PathsAssumption DEF SharedInv, TypeOK, RemCall, Copies, Goto, shared, hist
<1>4. UNCHANGED list /\ state' = state
  BY Zenon, <1>2 DEF Quiet
<1>5. LockKept(t)
  BY Zenon, <1>3 DEF LockKept, InLock
<1>6. ThreadTypes(t)'
  BY Zenon, <1>1, <1>3, Types DEF ThreadTypes
<1>7. ThreadInv(t)'
  <2>1. Live' = Live
    BY Zenon, <1>1, <1>4, ListFrame
  <2>9. WriterInv(t)'
    BY Zenon, <1>1, <1>3 DEF ThreadInv, WriterInv
  <2> QED
    BY Zenon, <1>1, <1>3, <1>4, <2>9, AtWork
<1> QED
  BY Zenon, <1>1, <1>2, <1>3, <1>5, <1>6, <1>7, QuietStep

\* remove_from_blacklist returns -ENOMEM.
LEMMA RemNoMemoryInv ==
  ASSUME Inv, NEW t \in Threads, RemNoMemory(t)
  PROVE  Inv'
<1>1. SharedInv /\ ThreadInv(t) /\ ThreadTypes(t)
  BY Zenon, Own
<1>2. Quiet(t)
  BY Zenon, <1>1 DEF SharedInv, TypeOK, Quiet, list, RemNoMemory, Return, Goto, shared, hist
<1>3. /\ pc'[t] = "rem_done" /\ arg'[t] = arg[t] /\ curr'[t] = NULL /\ prev'[t] = NULL
      /\ out'[t] = out[t] /\ ret'[t] = "ENOMEM" /\ start'[t] = start[t] /\ gone'[t] = gone[t] /\ modes'[t] = modes[t]
      /\ lock' = lock
      /\ pc[t] = "idle"
  BY Zenon, <1>1 DEF SharedInv, TypeOK, RemNoMemory, Return, Goto, shared, hist
<1>4. LockKept(t)
  BY Zenon, <1>3 DEF LockKept, InLock
<1> QED
  BY Zenon, <1>2, <1>3, <1>4, Types, RestStep

\* remove_from_blacklist takes the lock.
LEMMA RemLockInv ==
  ASSUME Inv, NEW t \in Threads, RemLock(t)
  PROVE  Inv'
<1>1. SharedInv /\ ThreadInv(t) /\ ThreadTypes(t)
  BY Zenon, Own
<1>2. Quiet(t)
  BY Zenon, <1>1 DEF SharedInv, TypeOK, Quiet, list, RemLock, Goto, shared, hist
<1>3. /\ pc'[t] = "rem_scan" /\ arg'[t] = arg[t] /\ curr'[t] = head /\ prev'[t] = prev[t]
      /\ out'[t] = out[t] /\ ret'[t] = ret[t] /\ start'[t] = start[t] /\ gone'[t] = gone[t] /\ modes'[t] = modes[t]
      /\ lock = NoThread /\ lock' = t
      /\ pc[t] = "rem_lock"
  BY Zenon, <1>1 DEF SharedInv, TypeOK, RemLock, Goto, shared, hist
<1>4. UNCHANGED list /\ state' = state
  BY Zenon, <1>2 DEF Quiet
<1>5. LockKept(t)
  BY Zenon, <1>3 DEF LockKept, InLock
<1>6. ThreadTypes(t)'
  BY Zenon, <1>1, <1>3, Types, Pointers DEF ThreadTypes
<1>7. ThreadInv(t)'
  <2>1. Live' = Live
    BY Zenon, <1>1, <1>4, ListFrame
  <2>2. arg[t] \in Paths /\ prev[t] = NULL
    BY Zenon, <1>1, <1>3 DEF ThreadInv, WriterInv
  <2>9. WriterInv(t)'
    BY Zenon, <1>1, <1>3, <1>4, <2>1, <2>2 DEF SharedInv, ListInv, WriterInv, list
  <2> QED
    BY Zenon, <1>1, <1>3, <1>4, <2>9, AtWork
<1> QED
  BY Zenon, <1>1, <1>2, <1>3, <1>5, <1>6, <1>7, QuietStep

\* The scan moves on.
LEMMA RemScanInv ==
  ASSUME Inv, NEW t \in Threads, RemScan(t)
  PROVE  Inv'
<1>1. SharedInv /\ ThreadInv(t) /\ ThreadTypes(t)
  BY Zenon, Own
<1>2. Quiet(t)
  BY Zenon, <1>1 DEF SharedInv, TypeOK, Quiet, list, RemScan, shared, hist
<1>3. /\ pc'[t] = "rem_scan" /\ arg'[t] = arg[t] /\ curr'[t] = next[curr[t]] /\ prev'[t] = curr[t]
      /\ out'[t] = out[t] /\ ret'[t] = ret[t] /\ start'[t] = start[t] /\ gone'[t] = gone[t] /\ modes'[t] = modes[t]
      /\ lock' = lock
      /\ pc[t] = "rem_scan" /\ curr[t] \in Node
  BY Zenon, <1>1 DEF SharedInv, TypeOK, RemScan, shared, hist
<1>4. UNCHANGED list /\ state' = state
  BY Zenon, <1>2 DEF Quiet
<1>5. LockKept(t)
  BY Zenon, <1>3 DEF LockKept, InLock
<1>6. ThreadTypes(t)'
  BY Zenon, <1>1, <1>3, Types, Pointers DEF ThreadTypes
<1>7. ThreadInv(t)'
  <2>1. Live' = Live
    BY Zenon, <1>1, <1>4, ListFrame
  <2>2. /\ curr[t] \in Live /\ (next[curr[t]] # NULL => next[curr[t]] \in Live)
        /\ curr[t] # NULL /\ arg[t] \in Paths
    BY <1>1, <1>3 DEF SharedInv, ListInv, ThreadInv, WriterInv, Node, NULL
  <2>9. WriterInv(t)'
    BY Zenon, <1>3, <1>4, <2>1, <2>2 DEF WriterInv, list
  <2> QED
    BY Zenon, <1>1, <1>3, <1>4, <2>9, AtWork
<1> QED
  BY Zenon, <1>1, <1>2, <1>3, <1>5, <1>6, <1>7, QuietStep

\* remove_from_blacklist returns -EINVAL.
LEMMA RemNotFoundInv ==
  ASSUME Inv, NEW t \in Threads, RemNotFound(t)
  PROVE  Inv'
<1>1. SharedInv /\ ThreadInv(t) /\ ThreadTypes(t)
  BY Zenon, Own
<1>2. Quiet(t)
  BY Zenon, <1>1 DEF SharedInv, TypeOK, Quiet, list, RemNotFound, Return, Goto, shared, hist
<1>3. /\ pc'[t] = "rem_done" /\ arg'[t] = arg[t] /\ curr'[t] = NULL /\ prev'[t] = NULL
      /\ out'[t] = out[t] /\ ret'[t] = "EINVAL" /\ start'[t] = start[t] /\ gone'[t] = gone[t] /\ modes'[t] = modes[t]
      /\ lock' = NoThread
      /\ pc[t] = "rem_scan"
  BY Zenon, <1>1 DEF SharedInv, TypeOK, RemNotFound, Return, Goto, shared, hist
<1>4. LockKept(t)
  BY Zenon, <1>3 DEF LockKept, InLock
<1> QED
  BY Zenon, <1>2, <1>3, <1>4, Types, RestStep

\* A node is taken off the list: what covered an entry still covers it.
LEMMA Unlinking ==
  ASSUME SharedInv, NEW c \in Live,
         removedAt' = [removedAt EXCEPT ![c] = linked], linked' = linked
  PROVE  /\ Live' = Live \ {c}
         /\ Removed' = Removed \cup {c}
         /\ \A n \in 1 .. linked, m \in Live :
              Covers(n, m) => n <= m /\ (removedAt'[n] = 0 \/ m <= removedAt'[n])
         /\ \A n \in Node :
              removedAt'[n] # 0 => n <= removedAt'[n] /\ removedAt'[n] <= linked
         /\ \A n \in 1 .. linked, m \in Live : Covers(n, m)' => Covers(n, m)
<1>1. /\ c \in 1 .. linked /\ linked \in Nat /\ removedAt[c] = 0
      /\ 1 .. linked \subseteq Node /\ c \in Node
  BY Zenon, Window DEF Live, SharedInv, TypeOK
<1>2. \A n \in Node : removedAt'[n] = IF n = c THEN linked ELSE removedAt[n]
  BY Zenon DEF SharedInv, TypeOK
<1>3. Live' = Live \ {c} /\ Removed' = Removed \cup {c}
  BY <1>1, <1>2 DEF Live, Removed
<1>4. \A n \in 1 .. linked, m \in Live :
        Covers(n, m) => n <= m /\ (removedAt'[n] = 0 \/ m <= removedAt'[n])
  BY <1>1, <1>2 DEF Covers, Live
<1>5. \A n \in Node :
        removedAt'[n] # 0 => n <= removedAt'[n] /\ removedAt'[n] <= linked
  BY <1>1, <1>2 DEF SharedInv, ListInv, Node
<1>6. \A n \in 1 .. linked, m \in Live : Covers(n, m)' => Covers(n, m)
  BY Zenon, <1>1, <1>2 DEF Covers
<1> QED
  BY Zenon, <1>3, <1>4, <1>5, <1>6

\* What the removal of a node means for a thread that does not hold the lock.
LEMMA UnlinkingThread ==
  ASSUME SharedInv, NEW c \in Live,
         removedAt' = [removedAt EXCEPT ![c] = linked], linked' = linked,
         path' = path, state' = state,
         \A n \in 1 .. linked : next'[n] = next[n] \/ next'[n] \notin Removed,
         NEW u \in Threads, ThreadInv(u), SameThread(u),
         pc[u] \notin {"add_scan", "add_count", "rem_scan", "rem_count"}
  PROVE  ThreadInv(u)'
<1>1. /\ Live' = Live \ {c} /\ Removed' = Removed \cup {c}
      /\ \A n \in 1 .. linked, m \in Live :
           Covers(n, m) => n <= m /\ (removedAt'[n] = 0 \/ m <= removedAt'[n])
  BY Zenon, Unlinking
<1>2. \A n, q : Hit(n, q)' <=> Hit(n, q)
  BY Zenon DEF Hit
<1>3. Lasting(u)' \subseteq Lasting(u) /\ Lasting(u) \subseteq Live
  BY Zenon, <1>1 DEF Lasting, SameThread
<1>4. WriterInv(u)'
  BY Zenon DEF ThreadInv, WriterInv, SameThread
<1>5. WindowInv(u)'
  <2>1. Mode(state)' = Mode(state)
    BY Zenon DEF Mode, Enforcing
  <2>2. \A n \in (1 .. linked) \ gone[u] : next'[n] \notin gone[u]
    BY Zenon DEF ThreadInv, WindowInv
  <2> QED
    BY Zenon, <1>1, <2>1, <2>2 DEF ThreadInv, WindowInv, SameThread
<1>6. CursorInv(u)'
  <2>1. pc[u] \in {"chk_lock", "chk_scan", "prt_size", "prt_test", "prt_step", "prt_last"}
          => curr[u] \in 0 .. linked /\ curr[u] \notin gone[u]
    BY Zenon DEF ThreadInv, CursorInv
  <2>2. ASSUME NEW m \in Lasting(u), curr[u] \in 0 .. linked, curr[u] # NULL, Covers(curr[u], m)
        PROVE  Covers(curr[u], m)'
    <3>1. curr[u] \in 1 .. linked /\ m \in Live
      BY SMTT(30), <1>3, <2>2 DEF NULL, SharedInv, TypeOK
    <3> QED
      BY Zenon, <1>1, <2>2, <3>1 DEF Covers, SameThread
  <2>3. pc[u] \in {"chk_lock", "chk_scan"} =>
          \A m \in Lasting(u)' : Hit(m, arg[u]) => curr[u] # NULL /\ Covers(curr[u], m)'
    BY Zenon, <1>3, <2>1, <2>2 DEF ThreadInv, CursorInv
  <2>4. pc[u] \in {"prt_size", "prt_test", "prt_step"} =>
          \A m \in Lasting(u)' \ out[u] : curr[u] # NULL /\ Covers(curr[u], m)'
    BY Zenon, <1>3, <2>1, <2>2 DEF ThreadInv, CursorInv
  <2>5. pc[u] \in {"prt_step", "prt_last"} => curr[u] # NULL
    BY Zenon DEF ThreadInv, CursorInv
  <2>6. pc[u] = "prt_last" => \A m \in Lasting(u)' \ out[u] : m = curr[u]
    BY Zenon, <1>3 DEF ThreadInv, CursorInv
  <2> QED
    BY Zenon, <1>2, <2>1, <2>3, <2>4, <2>5, <2>6 DEF CursorInv, SameThread
<1>7. ResultInv(u)'
  BY Zenon, <1>2, <1>3 DEF ThreadInv, ResultInv, SameThread
<1> QED
  BY Zenon, <1>4, <1>5, <1>6, <1>7 DEF ThreadInv

\* The head is taken off the list.
LEMMA RemHeadInv ==
  ASSUME Inv,
         NEW t \in Threads, RemHead(t), SizeInv'
  PROVE  SharedInv' /\ \A u \in Threads : ThreadInv(u)'
<1> DEFINE c == curr[t]
<1>0. SharedInv /\ ThreadInv(t)
  BY Zenon, InvSplit
<1> USE <1>0
<1>1. /\ c \in Live /\ c = head /\ pc[t] = "rem_scan" /\ arg[t] \in Paths
      /\ head' = next[c] /\ removedAt' = [removedAt EXCEPT ![c] = linked]
      /\ linked' = linked /\ next' = next /\ path' = path /\ state' = state
      /\ size' = size /\ lock' = lock
  <2>1. /\ pc[t] = "rem_scan" /\ curr[t] \in Node /\ prev[t] = NULL
        /\ head' = next[curr[t]] /\ removedAt' = [removedAt EXCEPT ![curr[t]] = linked]
        /\ linked' = linked /\ next' = next /\ path' = path /\ state' = state
        /\ size' = size /\ lock' = lock
    BY Zenon DEF RemHead
  <2>2. curr[t] # NULL
    BY SMTT(30), <2>1 DEF Node, NULL
  <2>3. curr[t] \in Live /\ curr[t] = head /\ arg[t] \in Paths
    BY Zenon, <2>1, <2>2 DEF ThreadInv, WriterInv
  <2> QED
    BY Zenon, <2>1, <2>3
<1>2. /\ Live \subseteq 1 .. linked /\ 1 .. linked \subseteq Node /\ linked \in 0 .. MaxNodes
      /\ c \in Node
  BY Zenon, <1>1, Window DEF SharedInv, TypeOK
<1> HIDE DEF c
<1>3. /\ Live' = Live \ {c} /\ Removed' = Removed \cup {c}
      /\ \A n \in 1 .. linked, m \in Live :
           Covers(n, m) => n <= m /\ (removedAt'[n] = 0 \/ m <= removedAt'[n])
      /\ \A n \in Node :
           removedAt'[n] # 0 => n <= removedAt'[n] /\ removedAt'[n] <= linked
      /\ \A n \in 1 .. linked, m \in Live : Covers(n, m)' => Covers(n, m)
  BY Zenon, <1>1, Unlinking
<1>4. TypeOK'
  <2>1. head' \in Pointer
    BY Zenon, <1>1, <1>2 DEF SharedInv, TypeOK
  <2> QED
    BY <1>1, <1>2, <2>1, Types, SMTT(60) DEF SharedInv, TypeOK, RemHead, Goto
<1>5. LockIsHeld'
  BY Zenon DEF SharedInv, TypeOK, LockIsHeld, RemHead, Goto
<1>6. NoDuplicates'
  BY Zenon, <1>1, <1>3 DEF SharedInv, NoDuplicates
<1>7. ListInv'
  <2>1. \A n \in Node : n <= linked /\ next[n] # NULL => n < next[n] /\ next[n] <= linked
    BY Zenon DEF SharedInv, ListInv
  <2>2. \A n \in Live \ {c} : next[n] # NULL => next[n] \in Live \ {c}
    <3>1. \A n \in Live : next[n] # NULL => next[n] \in Live /\ n < next[n] /\ c <= n
      BY <1>1, <1>2, <2>1 DEF SharedInv, ListInv
    <3>2. \A n \in Live : n \in Nat
      BY SMTT(30), <1>2
    <3> QED
      BY SMTT(30), <1>1, <3>1, <3>2
  <2>3. next[c] # NULL => next[c] \in Live \ {c}
    BY SMTT(30), <1>1, <1>2, <2>1 DEF SharedInv, ListInv
  <2>4. \A m \in Live \ {c} : next[c] # NULL /\ next[c] <= m
    BY Zenon, <1>1, <1>2, Walk DEF SharedInv, ListInv, Covers
  <2>5. ASSUME NEW n \in 1 .. linked, NEW m \in Live \ {c}, n < m, Covers(n, m)'
        PROVE  next[n] # NULL /\ next[n] <= m
                 /\ (removedAt'[next[n]] = 0 \/ m <= removedAt'[next[n]])
    <3>1. Covers(n, m)
      BY Zenon, <1>3, <2>5
    <3>2. next[n] # NULL /\ next[n] <= m /\ Covers(next[n], m)
      BY Zenon, <2>5, <3>1 DEF SharedInv, ListInv
    <3>3. next[n] \in 1 .. linked
      BY <3>2, Walk DEF NULL, SharedInv, TypeOK
    <3> QED
      BY Zenon, <1>3, <3>2, <3>3
  <2>6. \A n \in 1 .. linked', m \in Live' :
          n < m /\ Covers(n, m)' =>
            next'[n] # NULL /\ next'[n] <= m /\ Covers(next[n], m)'
    BY Zenon, <1>1, <1>3, <2>5 DEF Covers
  <2>7. \A n \in Node :
          /\ removedAt'[n] # 0 => n <= removedAt'[n] /\ removedAt'[n] <= linked'
          /\ n <= linked' /\ next'[n] # NULL => n < next'[n] /\ next'[n] <= linked'
    BY Zenon, <1>1, <1>3, <2>1
  <2>8. \A n \in Live' : next'[n] # NULL => next'[n] \in Live'
    BY Zenon, <1>1, <1>3, <2>2
  <2>9. head' # NULL => head' \in Live'
    BY Zenon, <1>1, <1>3, <2>3
  <2>10. \A m \in Live' : head' # NULL /\ head' <= m
    BY Zenon, <1>1, <1>3, <2>4
  <2> QED
    BY Zenon, <2>6, <2>7, <2>8, <2>9, <2>10 DEF ListInv
<1>8. \A u \in Threads \ {t} : ThreadInv(u)'
  <2> TAKE u \in Threads \ {t}
  <2>1. SameThread(u)
    BY Zenon DEF SharedInv, TypeOK, SameThread, RemHead, Goto
  <2>2. pc[u] \notin {"add_scan", "add_count", "rem_scan", "rem_count"}
    BY Zenon, <1>1, Exclusive
  <2> QED
    BY Zenon, <1>1, <2>1, <2>2, InvSplit, UnlinkingThread
<1>9. ThreadInv(t)'
  <2>1. /\ pc'[t] = "rem_count" /\ arg'[t] = arg[t] /\ out'[t] = out[t]
        /\ start'[t] = start[t] /\ gone'[t] = gone[t]
    BY Zenon DEF SharedInv, TypeOK, RemHead, Goto
  <2> QED
    BY Zenon, <1>1, <1>3, <2>1
       DEF ThreadInv, WriterInv, WindowInv, CursorInv, ResultInv
<1> QED
  BY Zenon, <1>4, <1>5, <1>6, <1>7, <1>8, <1>9 DEF SharedInv

\* The removal of the head is counted: the size still covers the entries.
LEMMA RemCountInv ==
  ASSUME Inv,
         NEW t \in Threads, RemCount(t), SizeInv', size' \in Nat
  PROVE  SharedInv' /\ \A u \in Threads : ThreadInv(u)'
<1>0. SharedInv /\ ThreadInv(t)
  BY Zenon, InvSplit
<1> USE <1>0
<1>1. UNCHANGED list /\ state' = state /\ \A u \in Threads \ {t} : SameThread(u)
  BY Zenon DEF SharedInv, TypeOK, SameThread, list, RemCount, Return, Goto, hist
<1>2. /\ Live' = Live
      /\ Removed' = Removed
      /\ ListInv'
      /\ NoDuplicates'
  BY Zenon, <1>1, ListFrame
<1>3. TypeOK'
  BY Zenon, Types DEF SharedInv, TypeOK, RemCount, Return, Goto, hist
<1>4. LockIsHeld'
  BY Zenon, ThreadsAssumption DEF SharedInv, TypeOK, LockIsHeld, RemCount, Return, Goto
<1>5. \A u \in Threads \ {t} : ThreadInv(u)'
  BY Zenon, <1>1, InvSplit, ThreadFrame
<1>6. ThreadInv(t)'
  <2>1. /\ pc'[t] = "rem_done" /\ arg'[t] = arg[t] /\ out'[t] = out[t]
        /\ start'[t] = start[t] /\ gone'[t] = gone[t]
    BY Zenon DEF SharedInv, TypeOK, RemCount, Return, Goto, hist
  <2> QED
    BY Zenon, <1>1, <1>2, <2>1
       DEF ThreadInv, WriterInv, WindowInv, CursorInv, ResultInv, list
<1> QED
  BY Zenon, <1>2, <1>3, <1>4, <1>5, <1>6 DEF SharedInv

\* A node behind the head is taken off the list.
LEMMA RemUnlinkInv ==
  ASSUME Inv,
         NEW t \in Threads, RemUnlink(t), SizeInv'
  PROVE  SharedInv' /\ \A u \in Threads : ThreadInv(u)'
<1> DEFINE c == curr[t]
           p == prev[t]
<1>0. SharedInv /\ ThreadInv(t)
  BY Zenon, InvSplit
<1> USE <1>0
<1>1. /\ c \in Live /\ p \in Live /\ next[p] = c /\ c # NULL /\ pc[t] = "rem_scan"
      /\ next' = [next EXCEPT ![p] = next[c]]
      /\ removedAt' = [removedAt EXCEPT ![c] = linked]
      /\ linked' = linked /\ head' = head /\ path' = path /\ state' = state
      /\ size' = size /\ lock' = NoThread
  BY DEF ThreadInv, WriterInv, RemUnlink, Node, NULL
<1>2. /\ Live \subseteq 1 .. linked /\ 1 .. linked \subseteq Node /\ linked \in 0 .. MaxNodes
      /\ c \in Node /\ p \in Node
  BY Zenon, <1>1, Window DEF SharedInv, TypeOK
<1> HIDE DEF c, p
<1>3. /\ Live' = Live \ {c} /\ Removed' = Removed \cup {c}
      /\ \A n \in 1 .. linked, m \in Live :
           Covers(n, m) => n <= m /\ (removedAt'[n] = 0 \/ m <= removedAt'[n])
      /\ \A n \in Node :
           removedAt'[n] # 0 => n <= removedAt'[n] /\ removedAt'[n] <= linked
      /\ \A n \in 1 .. linked, m \in Live : Covers(n, m)' => Covers(n, m)
  BY Zenon, <1>1, Unlinking
<1>4. \A n \in Node : next'[n] = IF n = p THEN next[c] ELSE next[n]
  BY Zenon, <1>1 DEF SharedInv, TypeOK
<1>5. /\ \A n \in Live : n \in Nat /\ n \in Node
      /\ \A n \in Node : n <= linked /\ next[n] # NULL => n < next[n] /\ next[n] <= linked
      /\ \A n \in Live : next[n] # NULL => next[n] \in Live
      /\ \A n \in Live, m \in Live : n < m => next[n] # NULL /\ next[n] <= m
  BY <1>2 DEF SharedInv, ListInv, Covers, Live
<1>6. p < c /\ (next[c] # NULL => c < next[c] /\ next[c] \in Live /\ next[c] <= linked)
  BY <1>1, <1>2, <1>5
<1>7. TypeOK'
  <2>1. next' \in [Node -> Pointer]
    BY Zenon, <1>1, <1>2 DEF SharedInv, TypeOK
  <2>2. removedAt' \in [Node -> 0 .. MaxNodes]
    BY Zenon, <1>1, <1>2 DEF SharedInv, TypeOK
  <2>3. pc' \in [Threads -> Labels] /\ ret' \in [Threads -> Results]
    BY Zenon, Types DEF SharedInv, TypeOK, RemUnlink, Return, Goto
  <2>4. curr' \in [Threads -> Pointer] /\ prev' \in [Threads -> 0 .. MaxNodes]
    BY Zenon, Types DEF SharedInv, TypeOK, RemUnlink, Return
  <2> QED
    BY <1>1, <2>1, <2>2, <2>3, <2>4 DEF SharedInv, TypeOK, RemUnlink
<1>8. LockIsHeld'
  BY Zenon, ThreadsAssumption DEF SharedInv, TypeOK, LockIsHeld, RemUnlink, Return, Goto
<1>9. NoDuplicates'
  BY <1>1, <1>3 DEF SharedInv, NoDuplicates
<1>10. ListInv'
  <2>1. \A n \in Node : n <= linked /\ next'[n] # NULL => n < next'[n] /\ next'[n] <= linked
    BY <1>1, <1>4, <1>5, <1>6
  <2>2. ASSUME NEW n \in Live \ {c}, next'[n] # NULL
        PROVE  next'[n] \in Live \ {c}
    <3>1. CASE n = p
      BY <1>1, <1>4, <1>5, <1>6, <2>2, <3>1
    <3>2. CASE n # p
      <4>1. next'[n] = next[n] /\ next[n] \in Live /\ n < next[n]
        BY <1>2, <1>4, <1>5, <2>2, <3>2
      <4>2. n < p => next[n] <= p
        BY Zenon, <1>1, <1>5
      <4>3. p < n => c <= n
        BY Zenon, <1>1, <1>5
      <4>4. n < p \/ p < n
        BY <1>1, <1>5, <3>2
      <4> QED
        BY <1>1, <1>5, <1>6, <4>1, <4>2, <4>3, <4>4
    <3> QED
      BY Zenon, <3>1, <3>2
  <2>3. head # NULL => head \in Live \ {c}
    BY <1>1, <1>5, <1>6 DEF SharedInv, ListInv
  <2>4. \A m \in Live \ {c} : head # NULL /\ head <= m
    BY Zenon DEF SharedInv, ListInv
  <2>5. ASSUME NEW n \in 1 .. linked, NEW m \in Live \ {c}, n < m, Covers(n, m)'
        PROVE  next'[n] # NULL /\ next'[n] <= m
                 /\ (removedAt'[next'[n]] = 0 \/ m <= removedAt'[next'[n]])
    <3>1. Covers(n, m)
      BY Zenon, <1>3, <2>5
    <3>2. next[n] # NULL /\ next[n] <= m /\ Covers(next[n], m)
      BY Zenon, <2>5, <3>1 DEF SharedInv, ListInv
    <3>3. CASE n # p
      <4>1. next[n] \in 1 .. linked
        BY <3>2, Walk DEF NULL, SharedInv, TypeOK
      <4> QED
        BY Zenon, <1>2, <1>3, <1>4, <3>2, <3>3, <4>1
    <3>4. CASE n = p
      <4>1. c < m /\ m \in Live
        BY SMTT(30), <1>1, <1>5, <3>2, <3>4
      <4>2. next[c] # NULL /\ Covers(next[c], m) /\ next[c] \in 1 .. linked
        BY Zenon, <1>1, <1>2, <1>5, <4>1, Walk DEF Covers, Live, NULL
      <4>3. next'[n] = next[c]
        BY Zenon, <1>2, <1>4, <3>4
      <4> QED
        BY Zenon, <1>3, <4>1, <4>2, <4>3
    <3> QED
      BY Zenon, <3>3, <3>4
  <2>6. \A n \in 1 .. linked', m \in Live' :
          n < m /\ Covers(n, m)' =>
            next'[n] # NULL /\ next'[n] <= m /\ Covers(next[n], m)'
    BY Zenon, <1>1, <1>3, <2>5 DEF Covers
  <2>7. \A n \in Node :
          /\ removedAt'[n] # 0 => n <= removedAt'[n] /\ removedAt'[n] <= linked'
          /\ n <= linked' /\ next'[n] # NULL => n < next'[n] /\ next'[n] <= linked'
    BY Zenon, <1>1, <1>3, <2>1
  <2>8. \A n \in Live' : next'[n] # NULL => next'[n] \in Live'
    BY Zenon, <1>1, <1>3, <2>2
  <2>9. head' # NULL => head' \in Live'
    BY Zenon, <1>1, <1>3, <2>3
  <2>10. \A m \in Live' : head' # NULL /\ head' <= m
    BY Zenon, <1>1, <1>3, <2>4
  <2> QED
    BY Zenon, <2>6, <2>7, <2>8, <2>9, <2>10 DEF ListInv
<1>11. \A u \in Threads \ {t} : ThreadInv(u)'
  <2> TAKE u \in Threads \ {t}
  <2>1. SameThread(u)
    BY Zenon DEF SharedInv, TypeOK, SameThread, RemUnlink, Return, Goto
  <2>2. pc[u] \notin {"add_scan", "add_count", "rem_scan", "rem_count"}
    BY Zenon, <1>1, Exclusive
  <2>3. \A n \in 1 .. linked : next'[n] = next[n] \/ next'[n] \notin Removed
    BY Zenon, <1>1, <1>2, <1>4, Walk DEF Live, Removed
  <2> QED
    BY Zenon, <1>1, <2>1, <2>2, <2>3, InvSplit, UnlinkingThread
<1>12. ThreadInv(t)'
  <2>1. /\ pc'[t] = "rem_done" /\ arg'[t] = arg[t] /\ out'[t] = out[t]
        /\ start'[t] = start[t] /\ gone'[t] = gone[t]
    BY Zenon DEF SharedInv, TypeOK, RemUnlink, Return, Goto
  <2>3. \A n \in (1 .. linked) \ gone[t] : next'[n] \notin gone[t]
    <3> TAKE n \in (1 .. linked) \ gone[t]
    <3>1. /\ \A k \in (1 .. linked) \ gone[t] : next[k] \notin gone[t]
          /\ gone[t] \subseteq Removed
      BY Zenon DEF ThreadInv, WindowInv
    <3>2. c \in (1 .. linked) \ gone[t]
      BY Zenon, <1>1, <1>2, <3>1 DEF Live, Removed
    <3>3. next'[n] = IF n = p THEN next[c] ELSE next[n]
      BY Zenon, <1>2, <1>4
    <3> QED
      BY Zenon, <3>1, <3>2, <3>3
  <2> QED
    BY Zenon, <1>1, <1>3, <2>1, <2>3
       DEF ThreadInv, WriterInv, WindowInv, CursorInv, ResultInv
<1> QED
  BY Zenon, <1>7, <1>8, <1>9, <1>10, <1>11, <1>12 DEF SharedInv

(*****************************************************************************)
(* The readers: is_blacklisted, then sys_print_blacklist                     *)
(*****************************************************************************)
\* is_blacklisted returns 0: the size is 0, so that there is no entry.
LEMMA ChkEmptyInv ==
  ASSUME Inv, NEW t \in Threads, NEW p \in Paths \cup {NoPath}, ChkEmpty(t, p),
         size = 0 => Settled = {}
  PROVE  Inv'
<1>1. SharedInv /\ ThreadInv(t) /\ ThreadTypes(t)
  BY Zenon, Own
<1>2. Quiet(t)
  BY Zenon, <1>1 DEF SharedInv, TypeOK, Quiet, list, ChkEmpty, OpenWindow, Return, Goto, shared, hist
<1>3. /\ pc'[t] = "chk_done" /\ arg'[t] = p /\ curr'[t] = NULL /\ prev'[t] = NULL
      /\ out'[t] = out[t] /\ ret'[t] = "0" /\ start'[t] = Settled /\ gone'[t] = Removed /\ modes'[t] = {Mode(state)}
      /\ lock' = lock
      /\ pc[t] = "idle" /\ size = 0
  BY Zenon, <1>1, PathsAssumption DEF SharedInv, TypeOK, ChkEmpty, OpenWindow, Return, Goto, shared, hist
<1>4. UNCHANGED list /\ state' = state
  BY Zenon, <1>2 DEF Quiet
<1>5. LockKept(t)
  BY Zenon, <1>3 DEF LockKept, InLock
<1>6. ThreadTypes(t)'
  <2>1. Settled \in SUBSET Node /\ Removed \in SUBSET Node /\ {Mode(state)} \in SUBSET {"on", "off"}
    BY Zenon, <1>1, Window DEF Mode
  <2> QED
    BY Zenon, <1>1, <1>3, <2>1, Types, Pointers DEF ThreadTypes
<1>7. ThreadInv(t)'
  <2>0. \A n, m : /\ Covers(n, m)' <=> Covers(n, m)
                  /\ Hit(n, m)' <=> Hit(n, m)
    BY Zenon, <1>1, <1>4, ListFrame
  <2>1. linked' = linked /\ Lasting(t)' = start'[t] \cap Live
    BY Zenon, <1>1, <1>4, ListFrame DEF Lasting, list
  <2>2. Settled = {}
    BY Zenon, <1>3
  <2>8. CursorInv(t)'
    BY Zenon, <1>3 DEF CursorInv
  <2>9. ResultInv(t)'
    BY Zenon, <1>3, <2>1, <2>2 DEF ResultInv
  <2> QED
    BY Zenon, <1>1, <1>3, <1>4, <2>8, <2>9, AtCall
<1> QED
  BY Zenon, <1>1, <1>2, <1>3, <1>5, <1>6, <1>7, QuietStep

\* is_blacklisted goes on to read the state.
LEMMA ChkCallInv ==
  ASSUME Inv, NEW t \in Threads, NEW p \in Paths \cup {NoPath}, ChkCall(t, p)
  PROVE  Inv'
<1>1. SharedInv /\ ThreadInv(t) /\ ThreadTypes(t)
  BY Zenon, Own
<1>2. Quiet(t)
  BY Zenon, <1>1 DEF SharedInv, TypeOK, Quiet, list, ChkCall, OpenWindow, Goto, shared, hist
<1>3. /\ pc'[t] = "chk_state" /\ arg'[t] = p /\ curr'[t] = curr[t] /\ prev'[t] = prev[t]
      /\ out'[t] = out[t] /\ ret'[t] = ret[t] /\ start'[t] = Settled /\ gone'[t] = Removed /\ modes'[t] = {Mode(state)}
      /\ lock' = lock
      /\ pc[t] = "idle"
  BY Zenon, <1>1, PathsAssumption DEF SharedInv, TypeOK, ChkCall, OpenWindow, Goto, shared, hist
<1>4. UNCHANGED list /\ state' = state
  BY Zenon, <1>2 DEF Quiet
<1>5. LockKept(t)
  BY Zenon, <1>3 DEF LockKept, InLock
<1>6. ThreadTypes(t)'
  <2>1. Settled \in SUBSET Node /\ Removed \in SUBSET Node /\ {Mode(state)} \in SUBSET {"on", "off"}
    BY Zenon, <1>1, Window DEF Mode
  <2> QED
    BY Zenon, <1>1, <1>3, <2>1, Types, Pointers DEF ThreadTypes
<1>7. ThreadInv(t)'
  <2>0. \A n, m : /\ Covers(n, m)' <=> Covers(n, m)
                  /\ Hit(n, m)' <=> Hit(n, m)
    BY Zenon, <1>1, <1>4, ListFrame
  <2>1. linked' = linked /\ Lasting(t)' = start'[t] \cap Live
    BY Zenon, <1>1, <1>4, ListFrame DEF Lasting, list
  <2>8. CursorInv(t)'
    BY Zenon, <1>3 DEF CursorInv
  <2>9. ResultInv(t)'
    BY Zenon, <1>3 DEF ResultInv
  <2> QED
    BY Zenon, <1>1, <1>3, <1>4, <2>8, <2>9, AtCall
<1> QED
  BY Zenon, <1>1, <1>2, <1>3, <1>5, <1>6, <1>7, QuietStep

\* is_blacklisted returns 0: the monitor is off.
LEMMA ChkOffInv ==
  ASSUME Inv, NEW t \in Threads, ChkOff(t)
  PROVE  Inv'
<1>1. SharedInv /\ ThreadInv(t) /\ ThreadTypes(t)
  BY Zenon, Own
<1>2. Quiet(t)
  BY Zenon, <1>1 DEF SharedInv, TypeOK, Quiet, list, ChkOff, Return, Goto, shared, hist
<1>3. /\ pc'[t] = "chk_done" /\ arg'[t] = arg[t] /\ curr'[t] = NULL /\ prev'[t] = NULL
      /\ out'[t] = out[t] /\ ret'[t] = "0" /\ start'[t] = start[t] /\ gone'[t] = gone[t] /\ modes'[t] = modes[t]
      /\ lock' = lock
      /\ pc[t] = "chk_state" /\ ~Enforcing(state)
  BY Zenon, <1>1 DEF SharedInv, TypeOK, ChkOff, Return, Goto, shared, hist
<1>4. UNCHANGED list /\ state' = state
  BY Zenon, <1>2 DEF Quiet
<1>5. LockKept(t)
  BY Zenon, <1>3 DEF LockKept, InLock
<1>6. ThreadTypes(t)'
  BY Zenon, <1>1, <1>3, Types DEF ThreadTypes
<1>7. ThreadInv(t)'
  <2>0. \A n, m : /\ Covers(n, m)' <=> Covers(n, m)
                  /\ Hit(n, m)' <=> Hit(n, m)
    BY Zenon, <1>1, <1>4, ListFrame
  <2>1. linked' = linked /\ Lasting(t)' = start'[t] \cap Live
    BY Zenon, <1>1, <1>4, ListFrame DEF Lasting, list
  <2>2. "off" \in modes[t]
    BY Zenon, <1>1, <1>3 DEF ThreadInv, WindowInv, Mode
  <2>3. modes[t] # {"on"}
    BY <2>2
  <2>8. CursorInv(t)'
    BY Zenon, <1>3 DEF CursorInv
  <2>9. ResultInv(t)'
    BY Zenon, <1>3, <2>3 DEF ResultInv
  <2>10. /\ pc[t] \in Observing /\ pc'[t] \in Observing
         /\ pc'[t] \in {"chk_state", "chk_head", "chk_lock", "chk_scan", "chk_done"}
              => Mode(state) \in modes[t]
         /\ pc'[t] \in {"chk_head", "chk_lock", "chk_scan"} => "on" \in modes[t]
    BY Zenon, <1>1, <1>3 DEF Observing, ThreadInv, WindowInv
  <2>11. out'[t] \cap gone[t] = {}
    BY Zenon, <1>1, <1>3 DEF ThreadInv, WindowInv
  <2> QED
    BY Zenon, <1>1, <1>3, <1>4, <2>8, <2>9, <2>10, <2>11, AtWatch
<1> QED
  BY Zenon, <1>1, <1>2, <1>3, <1>5, <1>6, <1>7, QuietStep

\* is_blacklisted finds the monitor on.
LEMMA ChkOnInv ==
  ASSUME Inv, NEW t \in Threads, ChkOn(t)
  PROVE  Inv'
<1>1. SharedInv /\ ThreadInv(t) /\ ThreadTypes(t)
  BY Zenon, Own
<1>2. Quiet(t)
  BY Zenon, <1>1 DEF SharedInv, TypeOK, Quiet, list, ChkOn, Goto, shared, hist
<1>3. /\ pc'[t] = "chk_head" /\ arg'[t] = arg[t] /\ curr'[t] = curr[t] /\ prev'[t] = prev[t]
      /\ out'[t] = out[t] /\ ret'[t] = ret[t] /\ start'[t] = start[t] /\ gone'[t] = gone[t] /\ modes'[t] = modes[t]
      /\ lock' = lock
      /\ pc[t] = "chk_state" /\ Enforcing(state)
  BY Zenon, <1>1 DEF SharedInv, TypeOK, ChkOn, Goto, shared, hist
<1>4. UNCHANGED list /\ state' = state
  BY Zenon, <1>2 DEF Quiet
<1>5. LockKept(t)
  BY Zenon, <1>3 DEF LockKept, InLock
<1>6. ThreadTypes(t)'
  BY Zenon, <1>1, <1>3, Types DEF ThreadTypes
<1>7. ThreadInv(t)'
  <2>0. \A n, m : /\ Covers(n, m)' <=> Covers(n, m)
                  /\ Hit(n, m)' <=> Hit(n, m)
    BY Zenon, <1>1, <1>4, ListFrame
  <2>1. linked' = linked /\ Lasting(t)' = start'[t] \cap Live
    BY Zenon, <1>1, <1>4, ListFrame DEF Lasting, list
  <2>8. CursorInv(t)'
    BY Zenon, <1>3 DEF CursorInv
  <2>9. ResultInv(t)'
    BY Zenon, <1>3 DEF ResultInv
  <2>10. /\ pc[t] \in Observing /\ pc'[t] \in Observing
         /\ pc'[t] \in {"chk_state", "chk_head", "chk_lock", "chk_scan", "chk_done"}
              => Mode(state) \in modes[t]
         /\ pc'[t] \in {"chk_head", "chk_lock", "chk_scan"} => "on" \in modes[t]
    BY Zenon, <1>1, <1>3 DEF Observing, ThreadInv, WindowInv, Mode
  <2>11. out'[t] \cap gone[t] = {}
    BY Zenon, <1>1, <1>3 DEF ThreadInv, WindowInv
  <2> QED
    BY Zenon, <1>1, <1>3, <1>4, <2>8, <2>9, <2>10, <2>11, AtWatch
<1> QED
  BY Zenon, <1>1, <1>2, <1>3, <1>5, <1>6, <1>7, QuietStep

\* is_blacklisted reads the head, which covers every entry.
LEMMA ChkHeadInv ==
  ASSUME Inv, NEW t \in Threads, ChkHead(t)
  PROVE  Inv'
<1>1. SharedInv /\ ThreadInv(t) /\ ThreadTypes(t)
  BY Zenon, Own
<1>2. Quiet(t)
  BY Zenon, <1>1 DEF SharedInv, TypeOK, Quiet, list, ChkHead, Goto, shared, hist
<1>3. /\ pc'[t] = "chk_lock" /\ arg'[t] = arg[t] /\ curr'[t] = head /\ prev'[t] = prev[t]
      /\ out'[t] = out[t] /\ ret'[t] = ret[t] /\ start'[t] = start[t] /\ gone'[t] = gone[t] /\ modes'[t] = modes[t]
      /\ lock' = lock
      /\ pc[t] = "chk_head"
  BY Zenon, <1>1 DEF SharedInv, TypeOK, ChkHead, Goto, shared, hist
<1>4. UNCHANGED list /\ state' = state
  BY Zenon, <1>2 DEF Quiet
<1>5. LockKept(t)
  BY Zenon, <1>3 DEF LockKept, InLock
<1>6. ThreadTypes(t)'
  BY Zenon, <1>1, <1>3, Types, Pointers DEF ThreadTypes
<1>7. ThreadInv(t)'
  <2>0. \A n, m : /\ Covers(n, m)' <=> Covers(n, m)
                  /\ Hit(n, m)' <=> Hit(n, m)
    BY Zenon, <1>1, <1>4, ListFrame
  <2>1. linked' = linked /\ Lasting(t)' = start'[t] \cap Live
    BY Zenon, <1>1, <1>4, ListFrame DEF Lasting, list
  <2>2. head \notin gone[t]
    BY Zenon, <1>1, Walk DEF ThreadInv, WindowInv
  <2>8. CursorInv(t)'
    BY Zenon, <1>1, <1>3, <2>0, <2>1, <2>2, Walk DEF CursorInv
  <2>9. ResultInv(t)'
    BY Zenon, <1>3 DEF ResultInv
  <2>10. /\ pc[t] \in Observing /\ pc'[t] \in Observing
         /\ pc'[t] \in {"chk_state", "chk_head", "chk_lock", "chk_scan", "chk_done"}
              => Mode(state) \in modes[t]
         /\ pc'[t] \in {"chk_head", "chk_lock", "chk_scan"} => "on" \in modes[t]
    BY Zenon, <1>1, <1>3 DEF Observing, ThreadInv, WindowInv
  <2>11. out'[t] \cap gone[t] = {}
    BY Zenon, <1>1, <1>3 DEF ThreadInv, WindowInv
  <2> QED
    BY Zenon, <1>1, <1>3, <1>4, <2>8, <2>9, <2>10, <2>11, AtWatch
<1> QED
  BY Zenon, <1>1, <1>2, <1>3, <1>5, <1>6, <1>7, QuietStep

\* is_blacklisted takes the lock.
LEMMA ChkLockInv ==
  ASSUME Inv, NEW t \in Threads, ChkLock(t)
  PROVE  Inv'
<1>1. SharedInv /\ ThreadInv(t) /\ ThreadTypes(t)
  BY Zenon, Own
<1>2. Quiet(t)
  BY Zenon, <1>1 DEF SharedInv, TypeOK, Quiet, list, ChkLock, Goto, shared, hist
<1>3. /\ pc'[t] = "chk_scan" /\ arg'[t] = arg[t] /\ curr'[t] = curr[t] /\ prev'[t] = prev[t]
      /\ out'[t] = out[t] /\ ret'[t] = ret[t] /\ start'[t] = start[t] /\ gone'[t] = gone[t] /\ modes'[t] = modes[t]
      /\ lock = NoThread /\ lock' = t
      /\ pc[t] = "chk_lock"
  BY Zenon, <1>1 DEF SharedInv, TypeOK, ChkLock, Goto, shared, hist
<1>4. UNCHANGED list /\ state' = state
  BY Zenon, <1>2 DEF Quiet
<1>5. LockKept(t)
  BY Zenon, <1>3 DEF LockKept, InLock
<1>6. ThreadTypes(t)'
  BY Zenon, <1>1, <1>3, Types DEF ThreadTypes
<1>7. ThreadInv(t)'
  <2>0. \A n, m : /\ Covers(n, m)' <=> Covers(n, m)
                  /\ Hit(n, m)' <=> Hit(n, m)
    BY Zenon, <1>1, <1>4, ListFrame
  <2>1. linked' = linked /\ Lasting(t)' = start'[t] \cap Live
    BY Zenon, <1>1, <1>4, ListFrame DEF Lasting, list
  <2>8. CursorInv(t)'
    BY Zenon, <1>1, <1>3, <2>0, <2>1 DEF ThreadInv, CursorInv, Lasting
  <2>9. ResultInv(t)'
    BY Zenon, <1>3 DEF ResultInv
  <2>10. /\ pc[t] \in Observing /\ pc'[t] \in Observing
         /\ pc'[t] \in {"chk_state", "chk_head", "chk_lock", "chk_scan", "chk_done"}
              => Mode(state) \in modes[t]
         /\ pc'[t] \in {"chk_head", "chk_lock", "chk_scan"} => "on" \in modes[t]
    BY Zenon, <1>1, <1>3 DEF Observing, ThreadInv, WindowInv
  <2>11. out'[t] \cap gone[t] = {}
    BY Zenon, <1>1, <1>3 DEF ThreadInv, WindowInv
  <2> QED
    BY Zenon, <1>1, <1>3, <1>4, <2>8, <2>9, <2>10, <2>11, AtWatch
<1> QED
  BY Zenon, <1>1, <1>2, <1>3, <1>5, <1>6, <1>7, QuietStep

\* The check moves on from a node that does not match.
LEMMA ChkScanInv ==
  ASSUME Inv, NEW t \in Threads, ChkScan(t)
  PROVE  Inv'
<1>1. SharedInv /\ ThreadInv(t) /\ ThreadTypes(t)
  BY Zenon, Own
<1>2. Quiet(t)
  BY Zenon, <1>1 DEF SharedInv, TypeOK, Quiet, list, ChkScan, shared, hist
<1>3. /\ pc'[t] = "chk_scan" /\ arg'[t] = arg[t] /\ curr'[t] = next[curr[t]] /\ prev'[t] = prev[t]
      /\ out'[t] = out[t] /\ ret'[t] = ret[t] /\ start'[t] = start[t] /\ gone'[t] = gone[t] /\ modes'[t] = modes[t]
      /\ lock' = lock
      /\ pc[t] = "chk_scan" /\ curr[t] \in Node /\ ~Hit(curr[t], arg[t])
  BY Zenon, <1>1 DEF SharedInv, TypeOK, ChkScan, shared, hist
<1>4. UNCHANGED list /\ state' = state
  BY Zenon, <1>2 DEF Quiet
<1>5. LockKept(t)
  BY Zenon, <1>3 DEF LockKept, InLock
<1>6. ThreadTypes(t)'
  BY Zenon, <1>1, <1>3, Types, Pointers DEF ThreadTypes
<1>7. ThreadInv(t)'
  <2>0. \A n, m : /\ Covers(n, m)' <=> Covers(n, m)
                  /\ Hit(n, m)' <=> Hit(n, m)
    BY Zenon, <1>1, <1>4, ListFrame
  <2>1. linked' = linked /\ Lasting(t)' = start'[t] \cap Live
    BY Zenon, <1>1, <1>4, ListFrame DEF Lasting, list
  <2>2. curr[t] \in 1 .. linked /\ curr[t] \notin gone[t] /\ ~Hit(curr[t], arg[t])
    BY Zenon, <1>1, <1>3, AtNode
  <2>3. next[curr[t]] \in 0 .. linked /\ next[curr[t]] \notin gone[t]
    BY Zenon, <1>1, <2>2, Walk DEF ThreadInv, WindowInv
  <2>4. \A m \in Lasting(t) : Hit(m, arg[t]) => Covers(curr[t], m) /\ m # curr[t]
    BY Zenon, <1>1, <1>3, <2>2 DEF ThreadInv, CursorInv
  <2>5. \A m \in Lasting(t) : Hit(m, arg[t]) => next[curr[t]] # NULL /\ Covers(next[curr[t]], m)
    BY Zenon, <1>1, <2>2, <2>4, Walk DEF Lasting
  <2>6. Lasting(t)' = Lasting(t)
    BY Zenon, <1>3, <2>1 DEF Lasting
  <2>8. CursorInv(t)'
    BY ZenonT(30), <1>3, <2>0, <2>1, <2>3, <2>5, <2>6 DEF CursorInv
  <2>9. ResultInv(t)'
    BY Zenon, <1>3 DEF ResultInv
  <2>10. /\ pc[t] \in Observing /\ pc'[t] \in Observing
         /\ pc'[t] \in {"chk_state", "chk_head", "chk_lock", "chk_scan", "chk_done"}
              => Mode(state) \in modes[t]
         /\ pc'[t] \in {"chk_head", "chk_lock", "chk_scan"} => "on" \in modes[t]
    BY Zenon, <1>1, <1>3 DEF Observing, ThreadInv, WindowInv
  <2>11. out'[t] \cap gone[t] = {}
    BY Zenon, <1>1, <1>3 DEF ThreadInv, WindowInv
  <2> QED
    BY Zenon, <1>1, <1>3, <1>4, <2>8, <2>9, <2>10, <2>11, AtWatch
<1> QED
  BY Zenon, <1>1, <1>2, <1>3, <1>5, <1>6, <1>7, QuietStep

\* is_blacklisted returns 1.
LEMMA ChkFoundInv ==
  ASSUME Inv, NEW t \in Threads, ChkFound(t)
  PROVE  Inv'
<1>1. SharedInv /\ ThreadInv(t) /\ ThreadTypes(t)
  BY Zenon, Own
<1>2. Quiet(t)
  BY Zenon, <1>1 DEF SharedInv, TypeOK, Quiet, list, ChkFound, Return, Goto, shared, hist
<1>3. /\ pc'[t] = "chk_done" /\ arg'[t] = arg[t] /\ curr'[t] = NULL /\ prev'[t] = NULL
      /\ out'[t] = out[t] /\ ret'[t] = "1" /\ start'[t] = start[t] /\ gone'[t] = gone[t] /\ modes'[t] = modes[t]
      /\ lock' = NoThread
      /\ pc[t] = "chk_scan" /\ curr[t] \in Node /\ Hit(curr[t], arg[t])
  BY Zenon, <1>1 DEF SharedInv, TypeOK, ChkFound, Return, Goto, shared, hist
<1>4. UNCHANGED list /\ state' = state
  BY Zenon, <1>2 DEF Quiet
<1>5. LockKept(t)
  BY Zenon, <1>3 DEF LockKept, InLock
<1>6. ThreadTypes(t)'
  BY Zenon, <1>1, <1>3, Types DEF ThreadTypes
<1>7. ThreadInv(t)'
  <2>0. \A n, m : /\ Covers(n, m)' <=> Covers(n, m)
                  /\ Hit(n, m)' <=> Hit(n, m)
    BY Zenon, <1>1, <1>4, ListFrame
  <2>1. linked' = linked /\ Lasting(t)' = start'[t] \cap Live
    BY Zenon, <1>1, <1>4, ListFrame DEF Lasting, list
  <2>2. /\ curr[t] \in 1 .. linked /\ curr[t] \notin gone[t] /\ Hit(curr[t], arg[t])
        /\ "on" \in modes[t]
    BY Zenon, <1>1, <1>3, AtNode DEF ThreadInv, WindowInv
  <2>8. CursorInv(t)'
    BY Zenon, <1>3 DEF CursorInv
  <2>9. ResultInv(t)'
    BY Zenon, <1>3, <2>0, <2>1, <2>2 DEF ResultInv
  <2>10. /\ pc[t] \in Observing /\ pc'[t] \in Observing
         /\ pc'[t] \in {"chk_state", "chk_head", "chk_lock", "chk_scan", "chk_done"}
              => Mode(state) \in modes[t]
         /\ pc'[t] \in {"chk_head", "chk_lock", "chk_scan"} => "on" \in modes[t]
    BY Zenon, <1>1, <1>3 DEF Observing, ThreadInv, WindowInv
  <2>11. out'[t] \cap gone[t] = {}
    BY Zenon, <1>1, <1>3 DEF ThreadInv, WindowInv
  <2> QED
    BY Zenon, <1>1, <1>3, <1>4, <2>8, <2>9, <2>10, <2>11, AtWatch
<1> QED
  BY Zenon, <1>1, <1>2, <1>3, <1>5, <1>6, <1>7, QuietStep

\* is_blacklisted returns 0: no entry of its window is left.
LEMMA ChkEndInv ==
  ASSUME Inv, NEW t \in Threads, ChkEnd(t)
  PROVE  Inv'
<1>1. SharedInv /\ ThreadInv(t) /\ ThreadTypes(t)
  BY Zenon, Own
<1>2. Quiet(t)
  BY Zenon, <1>1 DEF SharedInv, TypeOK, Quiet, list, ChkEnd, Return, Goto, shared, hist
<1>3. /\ pc'[t] = "chk_done" /\ arg'[t] = arg[t] /\ curr'[t] = NULL /\ prev'[t] = NULL
      /\ out'[t] = out[t] /\ ret'[t] = "0" /\ start'[t] = start[t] /\ gone'[t] = gone[t] /\ modes'[t] = modes[t]
      /\ lock' = NoThread
      /\ pc[t] = "chk_scan" /\ curr[t] = NULL
  BY Zenon, <1>1 DEF SharedInv, TypeOK, ChkEnd, Return, Goto, shared, hist
<1>4. UNCHANGED list /\ state' = state
  BY Zenon, <1>2 DEF Quiet
<1>5. LockKept(t)
  BY Zenon, <1>3 DEF LockKept, InLock
<1>6. ThreadTypes(t)'
  BY Zenon, <1>1, <1>3, Types DEF ThreadTypes
<1>7. ThreadInv(t)'
  <2>0. \A n, m : /\ Covers(n, m)' <=> Covers(n, m)
                  /\ Hit(n, m)' <=> Hit(n, m)
    BY Zenon, <1>1, <1>4, ListFrame
  <2>1. linked' = linked /\ Lasting(t)' = start'[t] \cap Live
    BY Zenon, <1>1, <1>4, ListFrame DEF Lasting, list
  <2>2. \A m \in Lasting(t) : ~Hit(m, arg[t])
    BY Zenon, <1>1, <1>3 DEF ThreadInv, CursorInv
  <2>3. Lasting(t)' = Lasting(t)
    BY Zenon, <1>3, <2>1 DEF Lasting
  <2>8. CursorInv(t)'
    BY Zenon, <1>3 DEF CursorInv
  <2>9. ResultInv(t)'
    BY Zenon, <1>3, <2>0, <2>2, <2>3 DEF ResultInv
  <2>10. /\ pc[t] \in Observing /\ pc'[t] \in Observing
         /\ pc'[t] \in {"chk_state", "chk_head", "chk_lock", "chk_scan", "chk_done"}
              => Mode(state) \in modes[t]
         /\ pc'[t] \in {"chk_head", "chk_lock", "chk_scan"} => "on" \in modes[t]
    BY Zenon, <1>1, <1>3 DEF Observing, ThreadInv, WindowInv
  <2>11. out'[t] \cap gone[t] = {}
    BY Zenon, <1>1, <1>3 DEF ThreadInv, WindowInv
  <2> QED
    BY Zenon, <1>1, <1>3, <1>4, <2>8, <2>9, <2>10, <2>11, AtWatch
<1> QED
  BY Zenon, <1>1, <1>2, <1>3, <1>5, <1>6, <1>7, QuietStep

\* is_blacklisted dies on a NULL path.
LEMMA ChkNullPathInv ==
  ASSUME Inv, NEW t \in Threads, ChkNullPath(t)
  PROVE  Inv'
<1>1. SharedInv /\ ThreadInv(t) /\ ThreadTypes(t)
  BY Zenon, Own
<1>2. Quiet(t)
  BY Zenon, <1>1 DEF SharedInv, TypeOK, Quiet, list, ChkNullPath, Die, Forget, Return, Goto, shared, hist
<1>3. /\ pc'[t] = "oops" /\ arg'[t] = NoPath /\ curr'[t] = NULL /\ prev'[t] = NULL
      /\ out'[t] = {} /\ ret'[t] = "none" /\ start'[t] = {} /\ gone'[t] = {} /\ modes'[t] = {}
      /\ lock' = lock
      /\ pc[t] = "chk_scan"
  BY Zenon, <1>1 DEF SharedInv, TypeOK, ChkNullPath, Die, Forget, Return, Goto, shared, hist
<1>4. LockKept(t)
  BY Zenon, <1>3 DEF LockKept, InLock
<1> QED
  BY Zenon, <1>2, <1>3, <1>4, Types, RestStep


--------------------------------------------------------------------------------
\* sys_print_blacklist reads the head.
LEMMA PrtCallInv ==
  ASSUME Inv, NEW t \in Threads, PrtCall(t)
  PROVE  Inv'
<1>1. SharedInv /\ ThreadInv(t) /\ ThreadTypes(t)
  BY Zenon, Own
<1>2. Quiet(t)
  BY Zenon, <1>1 DEF SharedInv, TypeOK, Quiet, list, PrtCall, OpenWindow, Goto, shared, hist
<1>3. /\ pc'[t] = "prt_size" /\ arg'[t] = arg[t] /\ curr'[t] = head /\ prev'[t] = prev[t]
      /\ out'[t] = out[t] /\ ret'[t] = ret[t] /\ start'[t] = Settled /\ gone'[t] = Removed /\ modes'[t] = {Mode(state)}
      /\ lock' = lock
      /\ pc[t] = "idle"
  BY Zenon, <1>1 DEF SharedInv, TypeOK, PrtCall, OpenWindow, Goto, shared, hist
<1>4. UNCHANGED list /\ state' = state
  BY Zenon, <1>2 DEF Quiet
<1>5. LockKept(t)
  BY Zenon, <1>3 DEF LockKept, InLock
<1>6. ThreadTypes(t)'
  <2>1. Settled \in SUBSET Node /\ Removed \in SUBSET Node /\ {Mode(state)} \in SUBSET {"on", "off"}
    BY Zenon, <1>1, Window DEF Mode
  <2> QED
    BY Zenon, <1>1, <1>3, <2>1, Types, Pointers DEF ThreadTypes
<1>7. ThreadInv(t)'
  <2>0. \A n, m : /\ Covers(n, m)' <=> Covers(n, m)
                  /\ Hit(n, m)' <=> Hit(n, m)
    BY Zenon, <1>1, <1>4, ListFrame
  <2>1. linked' = linked /\ Lasting(t)' = start'[t] \cap Live
    BY Zenon, <1>1, <1>4, ListFrame DEF Lasting, list
  <2>8. CursorInv(t)'
    BY Zenon, <1>1, <1>3, <2>0, <2>1, Walk, Window DEF CursorInv
  <2>9. ResultInv(t)'
    BY Zenon, <1>3 DEF ResultInv
  <2> QED
    BY Zenon, <1>1, <1>3, <1>4, <2>8, <2>9, AtCall
<1> QED
  BY Zenon, <1>1, <1>2, <1>3, <1>5, <1>6, <1>7, QuietStep

\* sys_print_blacklist returns -1.
LEMMA PrtRefuseInv ==
  ASSUME Inv, NEW t \in Threads, PrtRefuse(t)
  PROVE  Inv'
<1>1. SharedInv /\ ThreadInv(t) /\ ThreadTypes(t)
  BY Zenon, Own
<1>2. Quiet(t)
  BY Zenon, <1>1 DEF SharedInv, TypeOK, Quiet, list, PrtRefuse, Return, Goto, shared, hist
<1>3. /\ pc'[t] = "prt_done" /\ arg'[t] = arg[t] /\ curr'[t] = NULL /\ prev'[t] = NULL
      /\ out'[t] = out[t] /\ ret'[t] = "-1" /\ start'[t] = start[t] /\ gone'[t] = gone[t] /\ modes'[t] = modes[t]
      /\ lock' = lock
      /\ pc[t] \in {"prt_size", "prt_step", "prt_last"}
  BY Zenon, <1>1 DEF SharedInv, TypeOK, PrtRefuse, Return, Goto, shared, hist
<1>4. LockKept(t)
  BY Zenon, <1>3 DEF LockKept, InLock
<1> QED
  BY Zenon, <1>2, <1>3, <1>4, Types, RestStep

\* The print finds no head: nothing of its window is left.
LEMMA PrtEmptyInv ==
  ASSUME Inv, NEW t \in Threads, PrtEmpty(t)
  PROVE  Inv'
<1>1. SharedInv /\ ThreadInv(t) /\ ThreadTypes(t)
  BY Zenon, Own
<1>2. Quiet(t)
  BY Zenon, <1>1 DEF SharedInv, TypeOK, Quiet, list, PrtEmpty, Goto, shared, hist
<1>3. /\ pc'[t] = "prt_copy" /\ arg'[t] = arg[t] /\ curr'[t] = curr[t] /\ prev'[t] = prev[t]
      /\ out'[t] = out[t] /\ ret'[t] = ret[t] /\ start'[t] = start[t] /\ gone'[t] = gone[t] /\ modes'[t] = modes[t]
      /\ lock' = lock
      /\ pc[t] = "prt_size" /\ curr[t] = NULL
  BY Zenon, <1>1 DEF SharedInv, TypeOK, PrtEmpty, Goto, shared, hist
<1>4. UNCHANGED list /\ state' = state
  BY Zenon, <1>2 DEF Quiet
<1>5. LockKept(t)
  BY Zenon, <1>3 DEF LockKept, InLock
<1>6. ThreadTypes(t)'
  BY Zenon, <1>1, <1>3, Types DEF ThreadTypes
<1>7. ThreadInv(t)'
  <2>0. \A n, m : /\ Covers(n, m)' <=> Covers(n, m)
                  /\ Hit(n, m)' <=> Hit(n, m)
    BY Zenon, <1>1, <1>4, ListFrame
  <2>1. linked' = linked /\ Lasting(t)' = start'[t] \cap Live
    BY Zenon, <1>1, <1>4, ListFrame DEF Lasting, list
  <2>2. Lasting(t)' = Lasting(t)
    BY Zenon, <1>3, <2>1 DEF Lasting
  <2>3. \A m \in Lasting(t) : m \in out[t]
    BY Zenon, <1>1, <1>3 DEF ThreadInv, CursorInv
  <2>8. CursorInv(t)'
    BY Zenon, <1>3 DEF CursorInv
  <2>9. ResultInv(t)'
    BY Zenon, <1>3, <2>2, <2>3 DEF ResultInv
  <2>10. /\ pc[t] \in Observing /\ pc'[t] \in Observing
         /\ pc'[t] \in {"chk_state", "chk_head", "chk_lock", "chk_scan", "chk_done"}
              => Mode(state) \in modes[t]
         /\ pc'[t] \in {"chk_head", "chk_lock", "chk_scan"} => "on" \in modes[t]
    BY Zenon, <1>1, <1>3 DEF Observing, ThreadInv, WindowInv
  <2>11. out'[t] \cap gone[t] = {}
    BY Zenon, <1>1, <1>3 DEF ThreadInv, WindowInv
  <2> QED
    BY Zenon, <1>1, <1>3, <1>4, <2>8, <2>9, <2>10, <2>11, AtWatch
<1> QED
  BY Zenon, <1>1, <1>2, <1>3, <1>5, <1>6, <1>7, QuietStep

\* The print starts its walk.
LEMMA PrtBeginInv ==
  ASSUME Inv, NEW t \in Threads, PrtBegin(t)
  PROVE  Inv'
<1>1. SharedInv /\ ThreadInv(t) /\ ThreadTypes(t)
  BY Zenon, Own
<1>2. Quiet(t)
  BY Zenon, <1>1 DEF SharedInv, TypeOK, Quiet, list, PrtBegin, Goto, shared, hist
<1>3. /\ pc'[t] = "prt_test" /\ arg'[t] = arg[t] /\ curr'[t] = curr[t] /\ prev'[t] = prev[t]
      /\ out'[t] = out[t] /\ ret'[t] = ret[t] /\ start'[t] = start[t] /\ gone'[t] = gone[t] /\ modes'[t] = modes[t]
      /\ lock' = lock
      /\ pc[t] = "prt_size"
  BY Zenon, <1>1 DEF SharedInv, TypeOK, PrtBegin, Goto, shared, hist
<1>4. UNCHANGED list /\ state' = state
  BY Zenon, <1>2 DEF Quiet
<1>5. LockKept(t)
  BY Zenon, <1>3 DEF LockKept, InLock
<1>6. ThreadTypes(t)'
  BY Zenon, <1>1, <1>3, Types DEF ThreadTypes
<1>7. ThreadInv(t)'
  <2>0. \A n, m : /\ Covers(n, m)' <=> Covers(n, m)
                  /\ Hit(n, m)' <=> Hit(n, m)
    BY Zenon, <1>1, <1>4, ListFrame
  <2>1. linked' = linked /\ Lasting(t)' = start'[t] \cap Live
    BY Zenon, <1>1, <1>4, ListFrame DEF Lasting, list
  <2>2. Lasting(t)' = Lasting(t)
    BY Zenon, <1>3, <2>1 DEF Lasting
  <2>8. CursorInv(t)'
    BY Zenon, <1>1, <1>3, <2>0, <2>1, <2>2 DEF ThreadInv, CursorInv
  <2>9. ResultInv(t)'
    BY Zenon, <1>3 DEF ResultInv
  <2>10. /\ pc[t] \in Observing /\ pc'[t] \in Observing
         /\ pc'[t] \in {"chk_state", "chk_head", "chk_lock", "chk_scan", "chk_done"}
              => Mode(state) \in modes[t]
         /\ pc'[t] \in {"chk_head", "chk_lock", "chk_scan"} => "on" \in modes[t]
    BY Zenon, <1>1, <1>3 DEF Observing, ThreadInv, WindowInv
  <2>11. out'[t] \cap gone[t] = {}
    BY Zenon, <1>1, <1>3 DEF ThreadInv, WindowInv
  <2> QED
    BY Zenon, <1>1, <1>3, <1>4, <2>8, <2>9, <2>10, <2>11, AtWatch
<1> QED
  BY Zenon, <1>1, <1>2, <1>3, <1>5, <1>6, <1>7, QuietStep

\* The print sees a next node.
LEMMA PrtMoreInv ==
  ASSUME Inv, NEW t \in Threads, PrtMore(t)
  PROVE  Inv'
<1>1. SharedInv /\ ThreadInv(t) /\ ThreadTypes(t)
  BY Zenon, Own
<1>2. Quiet(t)
  BY Zenon, <1>1 DEF SharedInv, TypeOK, Quiet, list, PrtMore, Goto, shared, hist
<1>3. /\ pc'[t] = "prt_step" /\ arg'[t] = arg[t] /\ curr'[t] = curr[t] /\ prev'[t] = prev[t]
      /\ out'[t] = out[t] /\ ret'[t] = ret[t] /\ start'[t] = start[t] /\ gone'[t] = gone[t] /\ modes'[t] = modes[t]
      /\ lock' = lock
      /\ pc[t] = "prt_test" /\ curr[t] \in Node
  BY Zenon, <1>1 DEF SharedInv, TypeOK, PrtMore, Goto, shared, hist
<1>4. UNCHANGED list /\ state' = state
  BY Zenon, <1>2 DEF Quiet
<1>5. LockKept(t)
  BY Zenon, <1>3 DEF LockKept, InLock
<1>6. ThreadTypes(t)'
  BY Zenon, <1>1, <1>3, Types DEF ThreadTypes
<1>7. ThreadInv(t)'
  <2>0. \A n, m : /\ Covers(n, m)' <=> Covers(n, m)
                  /\ Hit(n, m)' <=> Hit(n, m)
    BY Zenon, <1>1, <1>4, ListFrame
  <2>1. linked' = linked /\ Lasting(t)' = start'[t] \cap Live
    BY Zenon, <1>1, <1>4, ListFrame DEF Lasting, list
  <2>2. Lasting(t)' = Lasting(t)
    BY Zenon, <1>3, <2>1 DEF Lasting
  <2>3. curr[t] # NULL
    BY SMTT(30), <1>3 DEF Node, NULL
  <2>8. CursorInv(t)'
    BY Zenon, <1>1, <1>3, <2>0, <2>1, <2>2, <2>3 DEF ThreadInv, CursorInv
  <2>9. ResultInv(t)'
    BY Zenon, <1>3 DEF ResultInv
  <2>10. /\ pc[t] \in Observing /\ pc'[t] \in Observing
         /\ pc'[t] \in {"chk_state", "chk_head", "chk_lock", "chk_scan", "chk_done"}
              => Mode(state) \in modes[t]
         /\ pc'[t] \in {"chk_head", "chk_lock", "chk_scan"} => "on" \in modes[t]
    BY Zenon, <1>1, <1>3 DEF Observing, ThreadInv, WindowInv
  <2>11. out'[t] \cap gone[t] = {}
    BY Zenon, <1>1, <1>3 DEF ThreadInv, WindowInv
  <2> QED
    BY Zenon, <1>1, <1>3, <1>4, <2>8, <2>9, <2>10, <2>11, AtWatch
<1> QED
  BY Zenon, <1>1, <1>2, <1>3, <1>5, <1>6, <1>7, QuietStep

\* The print sees no next node: it stands on the last of its window.
LEMMA PrtNoMoreInv ==
  ASSUME Inv, NEW t \in Threads, PrtNoMore(t)
  PROVE  Inv'
<1>1. SharedInv /\ ThreadInv(t) /\ ThreadTypes(t)
  BY Zenon, Own
<1>2. Quiet(t)
  BY Zenon, <1>1 DEF SharedInv, TypeOK, Quiet, list, PrtNoMore, Goto, shared, hist
<1>3. /\ pc'[t] = "prt_last" /\ arg'[t] = arg[t] /\ curr'[t] = curr[t] /\ prev'[t] = prev[t]
      /\ out'[t] = out[t] /\ ret'[t] = ret[t] /\ start'[t] = start[t] /\ gone'[t] = gone[t] /\ modes'[t] = modes[t]
      /\ lock' = lock
      /\ pc[t] = "prt_test" /\ curr[t] \in Node /\ next[curr[t]] = NULL
  BY Zenon, <1>1 DEF SharedInv, TypeOK, PrtNoMore, Goto, shared, hist
<1>4. UNCHANGED list /\ state' = state
  BY Zenon, <1>2 DEF Quiet
<1>5. LockKept(t)
  BY Zenon, <1>3 DEF LockKept, InLock
<1>6. ThreadTypes(t)'
  BY Zenon, <1>1, <1>3, Types DEF ThreadTypes
<1>7. ThreadInv(t)'
  <2>0. \A n, m : /\ Covers(n, m)' <=> Covers(n, m)
                  /\ Hit(n, m)' <=> Hit(n, m)
    BY Zenon, <1>1, <1>4, ListFrame
  <2>1. linked' = linked /\ Lasting(t)' = start'[t] \cap Live
    BY Zenon, <1>1, <1>4, ListFrame DEF Lasting, list
  <2>2. Lasting(t)' = Lasting(t)
    BY Zenon, <1>3, <2>1 DEF Lasting
  <2>3. curr[t] \in 1 .. linked /\ curr[t] \notin gone[t] /\ curr[t] # NULL
    BY Zenon, <1>1, <1>3, AtNode
  <2>4. \A m \in Lasting(t) \ out[t] : Covers(curr[t], m)
    BY Zenon, <1>1, <1>3 DEF ThreadInv, CursorInv
  <2>5. \A m \in Lasting(t) \ out[t] : m = curr[t]
    BY Zenon, <1>1, <1>3, <2>3, <2>4, Walk DEF Lasting
  <2>8. CursorInv(t)'
    BY <1>3, <2>1, <2>2, <2>3, <2>5 DEF CursorInv
  <2>9. ResultInv(t)'
    BY Zenon, <1>3 DEF ResultInv
  <2>10. /\ pc[t] \in Observing /\ pc'[t] \in Observing
         /\ pc'[t] \in {"chk_state", "chk_head", "chk_lock", "chk_scan", "chk_done"}
              => Mode(state) \in modes[t]
         /\ pc'[t] \in {"chk_head", "chk_lock", "chk_scan"} => "on" \in modes[t]
    BY Zenon, <1>1, <1>3 DEF Observing, ThreadInv, WindowInv
  <2>11. out'[t] \cap gone[t] = {}
    BY Zenon, <1>1, <1>3 DEF ThreadInv, WindowInv
  <2> QED
    BY Zenon, <1>1, <1>3, <1>4, <2>8, <2>9, <2>10, <2>11, AtWatch
<1> QED
  BY Zenon, <1>1, <1>2, <1>3, <1>5, <1>6, <1>7, QuietStep

\* sys_print_blacklist dies on a buffer of no size.
LEMMA PrtNoRoomInv ==
  ASSUME Inv, NEW t \in Threads, PrtNoRoom(t)
  PROVE  Inv'
<1>1. SharedInv /\ ThreadInv(t) /\ ThreadTypes(t)
  BY Zenon, Own
<1>2. Quiet(t)
  BY Zenon, <1>1 DEF SharedInv, TypeOK, Quiet, list, PrtNoRoom, Die, Forget, Return, Goto, shared, hist
<1>3. /\ pc'[t] = "oops" /\ arg'[t] = NoPath /\ curr'[t] = NULL /\ prev'[t] = NULL
      /\ out'[t] = {} /\ ret'[t] = "none" /\ start'[t] = {} /\ gone'[t] = {} /\ modes'[t] = {}
      /\ lock' = lock
      /\ pc[t] = "prt_size"
  BY Zenon, <1>1 DEF SharedInv, TypeOK, PrtNoRoom, Die, Forget, Return, Goto, shared, hist
<1>4. LockKept(t)
  BY Zenon, <1>3 DEF LockKept, InLock
<1> QED
  BY Zenon, <1>2, <1>3, <1>4, Types, RestStep

\* The print moves on from a node it has written.
LEMMA PrtStepInv ==
  ASSUME Inv, NEW t \in Threads, PrtStep(t)
  PROVE  Inv'
<1>1. SharedInv /\ ThreadInv(t) /\ ThreadTypes(t)
  BY Zenon, Own
<1>2. Quiet(t)
  BY Zenon, <1>1 DEF SharedInv, TypeOK, Quiet, list, PrtStep, Goto, shared, hist
<1>3. /\ pc'[t] = "prt_test" /\ arg'[t] = arg[t] /\ curr'[t] = next[curr[t]] /\ prev'[t] = prev[t]
      /\ out'[t] = out[t] \cup {curr[t]} /\ ret'[t] = ret[t] /\ start'[t] = start[t] /\ gone'[t] = gone[t] /\ modes'[t] = modes[t]
      /\ lock' = lock
      /\ pc[t] = "prt_step"
  BY Zenon, <1>1 DEF SharedInv, TypeOK, PrtStep, Goto, shared, hist
<1>4. UNCHANGED list /\ state' = state
  BY Zenon, <1>2 DEF Quiet
<1>5. LockKept(t)
  BY Zenon, <1>3 DEF LockKept, InLock
<1>6. ThreadTypes(t)'
  <2>1. curr[t] \in 1 .. linked
    BY Zenon, <1>1, <1>3, AtNode
  <2>2. curr[t] \in Node
    BY Zenon, <1>1, <2>1, Window
  <2> QED
    BY Zenon, <1>1, <1>3, <2>2, Types, Pointers DEF ThreadTypes
<1>7. ThreadInv(t)'
  <2>0. \A n, m : /\ Covers(n, m)' <=> Covers(n, m)
                  /\ Hit(n, m)' <=> Hit(n, m)
    BY Zenon, <1>1, <1>4, ListFrame
  <2>1. linked' = linked /\ Lasting(t)' = start'[t] \cap Live
    BY Zenon, <1>1, <1>4, ListFrame DEF Lasting, list
  <2>2. Lasting(t)' = Lasting(t)
    BY Zenon, <1>3, <2>1 DEF Lasting
  <2>3. curr[t] \in 1 .. linked /\ curr[t] \notin gone[t] /\ curr[t] # NULL
    BY Zenon, <1>1, <1>3, AtNode
  <2>4. next[curr[t]] \in 0 .. linked /\ next[curr[t]] \notin gone[t]
    BY Zenon, <1>1, <2>3, Walk DEF ThreadInv, WindowInv
  <2>5. \A m \in Lasting(t) \ out'[t] : Covers(curr[t], m) /\ m # curr[t]
    BY Zenon, <1>1, <1>3 DEF ThreadInv, CursorInv
  <2>6. \A m \in Lasting(t) \ out'[t] : next[curr[t]] # NULL /\ Covers(next[curr[t]], m)
    BY Zenon, <1>1, <2>3, <2>5, Walk DEF Lasting
  <2>8. CursorInv(t)'
    BY Zenon, <1>3, <2>0, <2>1, <2>2, <2>4, <2>6 DEF CursorInv
  <2>9. ResultInv(t)'
    BY Zenon, <1>3 DEF ResultInv
  <2>10. /\ pc[t] \in Observing /\ pc'[t] \in Observing
         /\ pc'[t] \in {"chk_state", "chk_head", "chk_lock", "chk_scan", "chk_done"}
              => Mode(state) \in modes[t]
         /\ pc'[t] \in {"chk_head", "chk_lock", "chk_scan"} => "on" \in modes[t]
    BY Zenon, <1>1, <1>3 DEF Observing, ThreadInv, WindowInv
  <2>11. out'[t] \cap gone[t] = {}
    BY Zenon, <1>1, <1>3, <2>3 DEF ThreadInv, WindowInv
  <2> QED
    BY Zenon, <1>1, <1>3, <1>4, <2>8, <2>9, <2>10, <2>11, AtWatch
<1> QED
  BY Zenon, <1>1, <1>2, <1>3, <1>5, <1>6, <1>7, QuietStep

\* The print writes the last node.
LEMMA PrtLastInv ==
  ASSUME Inv, NEW t \in Threads, PrtLast(t)
  PROVE  Inv'
<1>1. SharedInv /\ ThreadInv(t) /\ ThreadTypes(t)
  BY Zenon, Own
<1>2. Quiet(t)
  BY Zenon, <1>1 DEF SharedInv, TypeOK, Quiet, list, PrtLast, Goto, shared, hist
<1>3. /\ pc'[t] = "prt_copy" /\ arg'[t] = arg[t] /\ curr'[t] = curr[t] /\ prev'[t] = prev[t]
      /\ out'[t] = out[t] \cup {curr[t]} /\ ret'[t] = ret[t] /\ start'[t] = start[t] /\ gone'[t] = gone[t] /\ modes'[t] = modes[t]
      /\ lock' = lock
      /\ pc[t] = "prt_last"
  BY Zenon, <1>1 DEF SharedInv, TypeOK, PrtLast, Goto, shared, hist
<1>4. UNCHANGED list /\ state' = state
  BY Zenon, <1>2 DEF Quiet
<1>5. LockKept(t)
  BY Zenon, <1>3 DEF LockKept, InLock
<1>6. ThreadTypes(t)'
  <2>1. curr[t] \in 1 .. linked
    BY Zenon, <1>1, <1>3, AtNode
  <2>2. curr[t] \in Node
    BY Zenon, <1>1, <2>1, Window
  <2> QED
    BY Zenon, <1>1, <1>3, <2>2, Types, Pointers DEF ThreadTypes
<1>7. ThreadInv(t)'
  <2>0. \A n, m : /\ Covers(n, m)' <=> Covers(n, m)
                  /\ Hit(n, m)' <=> Hit(n, m)
    BY Zenon, <1>1, <1>4, ListFrame
  <2>1. linked' = linked /\ Lasting(t)' = start'[t] \cap Live
    BY Zenon, <1>1, <1>4, ListFrame DEF Lasting, list
  <2>2. Lasting(t)' = Lasting(t)
    BY Zenon, <1>3, <2>1 DEF Lasting
  <2>3. curr[t] \in 1 .. linked /\ curr[t] \notin gone[t] /\ curr[t] # NULL
    BY Zenon, <1>1, <1>3, AtNode
  <2>4. \A m \in Lasting(t) \ out[t] : m = curr[t]
    BY Zenon, <1>1, <1>3 DEF ThreadInv, CursorInv
  <2>8. CursorInv(t)'
    BY Zenon, <1>3 DEF CursorInv
  <2>9. ResultInv(t)'
    BY Zenon, <1>3, <2>2, <2>4 DEF ResultInv
  <2>10. /\ pc[t] \in Observing /\ pc'[t] \in Observing
         /\ pc'[t] \in {"chk_state", "chk_head", "chk_lock", "chk_scan", "chk_done"}
              => Mode(state) \in modes[t]
         /\ pc'[t] \in {"chk_head", "chk_lock", "chk_scan"} => "on" \in modes[t]
    BY Zenon, <1>1, <1>3 DEF Observing, ThreadInv, WindowInv
  <2>11. out'[t] \cap gone[t] = {}
    BY Zenon, <1>1, <1>3, <2>3 DEF ThreadInv, WindowInv
  <2> QED
    BY Zenon, <1>1, <1>3, <1>4, <2>8, <2>9, <2>10, <2>11, AtWatch
<1> QED
  BY Zenon, <1>1, <1>2, <1>3, <1>5, <1>6, <1>7, QuietStep

\* sys_print_blacklist returns 0.
LEMMA PrtCopyInv ==
  ASSUME Inv, NEW t \in Threads, PrtCopy(t)
  PROVE  Inv'
<1>1. SharedInv /\ ThreadInv(t) /\ ThreadTypes(t)
  BY Zenon, Own
<1>2. Quiet(t)
  BY Zenon, <1>1 DEF SharedInv, TypeOK, Quiet, list, PrtCopy, Return, Goto, shared, hist
<1>3. /\ pc'[t] = "prt_done" /\ arg'[t] = arg[t] /\ curr'[t] = NULL /\ prev'[t] = NULL
      /\ out'[t] = out[t] /\ ret'[t] = "0" /\ start'[t] = start[t] /\ gone'[t] = gone[t] /\ modes'[t] = modes[t]
      /\ lock' = lock
      /\ pc[t] = "prt_copy"
  BY Zenon, <1>1 DEF SharedInv, TypeOK, PrtCopy, Return, Goto, shared, hist
<1>4. UNCHANGED list /\ state' = state
  BY Zenon, <1>2 DEF Quiet
<1>5. LockKept(t)
  BY Zenon, <1>3 DEF LockKept, InLock
<1>6. ThreadTypes(t)'
  BY Zenon, <1>1, <1>3, Types DEF ThreadTypes
<1>7. ThreadInv(t)'
  <2>0. \A n, m : /\ Covers(n, m)' <=> Covers(n, m)
                  /\ Hit(n, m)' <=> Hit(n, m)
    BY Zenon, <1>1, <1>4, ListFrame
  <2>1. linked' = linked /\ Lasting(t)' = start'[t] \cap Live
    BY Zenon, <1>1, <1>4, ListFrame DEF Lasting, list
  <2>2. Lasting(t)' = Lasting(t)
    BY Zenon, <1>3, <2>1 DEF Lasting
  <2>8. CursorInv(t)'
    BY Zenon, <1>3 DEF CursorInv
  <2>9. ResultInv(t)'
    BY Zenon, <1>1, <1>3, <2>2 DEF ThreadInv, ResultInv
  <2>10. /\ pc[t] \in Observing /\ pc'[t] \in Observing
         /\ pc'[t] \in {"chk_state", "chk_head", "chk_lock", "chk_scan", "chk_done"}
              => Mode(state) \in modes[t]
         /\ pc'[t] \in {"chk_head", "chk_lock", "chk_scan"} => "on" \in modes[t]
    BY Zenon, <1>1, <1>3 DEF Observing, ThreadInv, WindowInv
  <2>11. out'[t] \cap gone[t] = {}
    BY Zenon, <1>1, <1>3 DEF ThreadInv, WindowInv
  <2> QED
    BY Zenon, <1>1, <1>3, <1>4, <2>8, <2>9, <2>10, <2>11, AtWatch
<1> QED
  BY Zenon, <1>1, <1>2, <1>3, <1>5, <1>6, <1>7, QuietStep

\* sys_print_blacklist returns -EAGAIN.
LEMMA PrtCopyFaultInv ==
  ASSUME Inv, NEW t \in Threads, PrtCopyFault(t)
  PROVE  Inv'
<1>1. SharedInv /\ ThreadInv(t) /\ ThreadTypes(t)
  BY Zenon, Own
<1>2. Quiet(t)
  BY Zenon, <1>1 DEF SharedInv, TypeOK, Quiet, list, PrtCopyFault, Return, Goto, shared, hist
<1>3. /\ pc'[t] = "prt_done" /\ arg'[t] = arg[t] /\ curr'[t] = NULL /\ prev'[t] = NULL
      /\ out'[t] = out[t] /\ ret'[t] = "EAGAIN" /\ start'[t] = start[t] /\ gone'[t] = gone[t] /\ modes'[t] = modes[t]
      /\ lock' = lock
      /\ pc[t] = "prt_copy"
  BY Zenon, <1>1 DEF SharedInv, TypeOK, PrtCopyFault, Return, Goto, shared, hist
<1>4. LockKept(t)
  BY Zenon, <1>3 DEF LockKept, InLock
<1> QED
  BY Zenon, <1>2, <1>3, <1>4, Types, RestStep

\* sys_print_blacklist dies in kfree.
LEMMA PrtFreeLiteralInv ==
  ASSUME Inv, NEW t \in Threads, PrtFreeLiteral(t)
  PROVE  Inv'
<1>1. SharedInv /\ ThreadInv(t) /\ ThreadTypes(t)
  BY Zenon, Own
<1>2. Quiet(t)
  BY Zenon, <1>1 DEF SharedInv, TypeOK, Quiet, list, PrtFreeLiteral, Die, Forget, Return, Goto, shared, hist
<1>3. /\ pc'[t] = "oops" /\ arg'[t] = NoPath /\ curr'[t] = NULL /\ prev'[t] = NULL
      /\ out'[t] = {} /\ ret'[t] = "none" /\ start'[t] = {} /\ gone'[t] = {} /\ modes'[t] = {}
      /\ lock' = lock
      /\ pc[t] = "prt_copy"
  BY Zenon, <1>1 DEF SharedInv, TypeOK, PrtFreeLiteral, Die, Forget, Return, Goto, shared, hist
<1>4. LockKept(t)
  BY Zenon, <1>3 DEF LockKept, InLock
<1> QED
  BY Zenon, <1>2, <1>3, <1>4, Types, RestStep

(*****************************************************************************)
(* The steps that belong to every call, and sys_switch_rf_state              *)
(*****************************************************************************)
\* A thread dies on a pointer that is no node.
LEMMA FaultInv ==
  ASSUME Inv, NEW t \in Threads, Fault(t)
  PROVE  Inv'
<1>1. SharedInv /\ ThreadInv(t) /\ ThreadTypes(t)
  BY Zenon, Own
<1>2. Quiet(t)
  BY Zenon, <1>1 DEF SharedInv, TypeOK, Quiet, list, Fault, Die, Forget, Return, Goto, shared, hist
<1>3. /\ pc'[t] = "oops" /\ arg'[t] = NoPath /\ curr'[t] = NULL /\ prev'[t] = NULL
      /\ out'[t] = {} /\ ret'[t] = "none" /\ start'[t] = {} /\ gone'[t] = {} /\ modes'[t] = {}
      /\ lock' = lock
      /\ pc[t] \in {"add_scan", "rem_scan", "chk_scan", "prt_test"}
  BY Zenon, <1>1 DEF SharedInv, TypeOK, Fault, Die, Forget, Return, Goto, shared, hist
<1>4. LockKept(t)
  BY Zenon, <1>3 DEF LockKept, InLock
<1> QED
  BY Zenon, <1>2, <1>3, <1>4, Types, RestStep

\* The caller takes its result.
LEMMA ResumeInv ==
  ASSUME Inv, NEW t \in Threads, Resume(t)
  PROVE  Inv'
<1>1. SharedInv /\ ThreadInv(t) /\ ThreadTypes(t)
  BY Zenon, Own
<1>2. Quiet(t)
  BY Zenon, <1>1 DEF SharedInv, TypeOK, Quiet, list, Resume, Forget, Return, Goto, shared, hist
<1>3. /\ pc'[t] = "idle" /\ arg'[t] = NoPath /\ curr'[t] = NULL /\ prev'[t] = NULL
      /\ out'[t] = {} /\ ret'[t] = "none" /\ start'[t] = {} /\ gone'[t] = {} /\ modes'[t] = {}
      /\ lock' = lock
      /\ pc[t] \in {"add_done", "rem_done", "chk_done", "prt_done"}
  BY Zenon, <1>1 DEF SharedInv, TypeOK, Resume, Forget, Return, Goto, shared, hist
<1>4. LockKept(t)
  BY Zenon, <1>3 DEF LockKept, InLock
<1> QED
  BY ZenonT(30), <1>2, <1>3, <1>4, Types, RestStep

\* sys_switch_rf_state assigns the state.
LEMMA SwitchStateInv ==
  ASSUME Inv,
         NEW t \in Threads, NEW s \in States, SwitchState(t, s)
  PROVE  SharedInv' /\ \A u \in Threads : ThreadInv(u)'
<1>0. SharedInv /\ ThreadInv(t)
  BY Zenon, InvSplit
<1> USE <1>0
<1>1. TypeOK'
  <2>1. s \in RFStates
    BY Zenon, BoundsAssumption DEF RFStates, RF_ON, RF_REC_OFF
  <2>2. modes' \in [Threads -> SUBSET {"on", "off"}]
    BY Zenon DEF SharedInv, TypeOK, SwitchState, Mode
  <2> QED
    BY Zenon, <2>1, <2>2 DEF SharedInv, TypeOK, SwitchState, local
<1>2. LockIsHeld'
  BY Zenon DEF SharedInv, LockIsHeld, SwitchState, local
<1>3. UNCHANGED list /\ size' = size /\ pc' = pc /\ pc[t] = "idle"
  BY Zenon DEF SharedInv, TypeOK, SwitchState, local, list
<1>4. /\ Live' = Live
      /\ Removed' = Removed
      /\ \A n, m : Covers(n, m)' <=> Covers(n, m)
      /\ \A n, q : Hit(n, q)' <=> Hit(n, q)
      /\ ListInv'
      /\ NoDuplicates'
  BY Zenon, <1>3, ListFrame
<1>5. SizeInv'
  BY Zenon, <1>3, SizeFrame
<1>6. ASSUME NEW u \in Threads PROVE ThreadInv(u)'
  <2>1. /\ pc' = pc /\ arg' = arg /\ curr' = curr /\ prev' = prev /\ out' = out
        /\ ret' = ret /\ start' = start /\ gone' = gone /\ Mode(state)' = Mode(s)
    BY Zenon DEF SwitchState, local, Mode, Enforcing
  <2>2. modes'[u] = IF modes[u] = {} THEN {} ELSE modes[u] \cup {Mode(s)}
    BY Zenon DEF SwitchState
  <2>3. ThreadInv(u) /\ Lasting(u)' = Lasting(u)
    BY Zenon, <1>4, <2>1, InvSplit DEF Lasting
  <2>4. WriterInv(u)'
    BY ZenonT(30), <1>3, <1>4, <2>1, <2>3 DEF ThreadInv, WriterInv, list
  <2>5. WindowInv(u)'
    BY ZenonT(30), <1>3, <1>4, <2>1, <2>2, <2>3 DEF ThreadInv, WindowInv, list
  <2>6. CursorInv(u)'
    BY ZenonT(30), <1>3, <1>4, <2>1, <2>3 DEF ThreadInv, CursorInv, list
  <2>7. modes'[u] = {"on"} => modes[u] = {"on"}
    BY Zenon, <2>2
  <2>8. "on" \in modes[u] => "on" \in modes'[u]
    BY Zenon, <2>2
  <2>9. ResultInv(u)'
    BY ZenonT(30), <1>3, <1>4, <2>1, <2>3, <2>7, <2>8 DEF ThreadInv, ResultInv, list
  <2> QED
    BY Zenon, <2>4, <2>5, <2>6, <2>9 DEF ThreadInv
<1> QED
  BY ZenonT(30), <1>1, <1>2, <1>4, <1>5, <1>6 DEF SharedInv
================================================================================
