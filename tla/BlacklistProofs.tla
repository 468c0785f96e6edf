---------------------------- MODULE BlacklistProofs ----------------------------
(*****************************************************************************)
(* The invariant of Blacklist and its safety properties hold in every        *)
(* reachable state, and the list implements the set of BlacklistSet, for any *)
(* number of threads, paths and nodes, with allocations and copies from user *)
(* space that may fail.                                                      *)
(*****************************************************************************)
EXTENDS BlacklistImplements, FiniteSetTheorems

\* The entries that a call must report are finitely many, and none when the size
\* is 0.
LEMMA SettledFinite ==
  ASSUME SharedInv
  PROVE  /\ IsFiniteSet(Settled) /\ Cardinality(Settled) \in Nat
         /\ size = 0 => Settled = {}
<1>1. IsFiniteSet(Settled)
  <2>1. IsFiniteSet(1 .. linked)
    BY FS_Interval DEF SharedInv, TypeOK
  <2> QED
    BY Zenon, <2>1, Window, FS_Subset
<1>2. Cardinality(Settled) \in Nat
  BY Zenon, <1>1, FS_CardinalityType
<1>3. size = 0 => Settled = {}
  <2> HAVE size = 0
  <2>1. Cardinality(Settled) = 0
    BY <1>2 DEF SharedInv, SizeInv
  <2> QED
    BY Zenon, <1>1, <2>1, FS_EmptySet
<1> QED
  BY Zenon, <1>1, <1>2, <1>3

\* The addition is counted after the node is linked, and its entry is settled then.
LEMMA AddCountSize ==
  ASSUME Inv, NEW t \in Threads, AddCount(t)
  PROVE  SizeInv'
<1>1. SharedInv /\ ThreadInv(t)
  BY Zenon, InvSplit
<1>2. /\ UNCHANGED list /\ state' = state /\ size' = size + 1 /\ size \in Nat
      /\ pc[t] = "add_count" /\ pc' = [pc EXCEPT ![t] = "add_done"]
  BY <1>1 DEF SharedInv, TypeOK, list, AddCount, Return, Goto, hist
<1>3. Live' = Live
  BY Zenon, <1>1, <1>2, ListFrame
<1>4. Counting /\ ~Counting' /\ ~Uncounting /\ ~Uncounting'
  BY Zenon, <1>1, <1>2, Exclusive DEF SharedInv, TypeOK, Counting, Uncounting
<1>5. Settled' = Settled \cup {linked}
  BY Zenon, <1>1, <1>2, <1>3, <1>4 DEF Settled, ThreadInv, WriterInv, list
<1>6. IsFiniteSet(Settled)
  BY Zenon, <1>1, SettledFinite
<1>7. /\ Cardinality(Settled) \in Nat
      /\ Cardinality(Settled \cup {linked})
           = IF linked \in Settled THEN Cardinality(Settled) ELSE Cardinality(Settled) + 1
  BY Zenon, <1>6, FS_AddElement, FS_CardinalityType
<1>8. size >= Cardinality(Settled)
  BY <1>1, <1>4, <1>7 DEF SharedInv, SizeInv
<1> QED
  BY <1>2, <1>4, <1>5, <1>7, <1>8 DEF SizeInv

\* A node less on the list is an entry less that the size must cover.
LEMMA UnlinkSize ==
  ASSUME Inv, NEW c \in Live, Live' = Live \ {c}, size' = size,
         ~Counting, ~Counting', ~Uncounting
  PROVE  SizeInv'
<1>1. SharedInv
  BY Zenon, InvSplit
<1>2. Settled = Live /\ Settled' = Live \ {c}
  BY Zenon DEF Settled
<1>3. IsFiniteSet(Live)
  BY Zenon, <1>1, <1>2, SettledFinite
<1>4. /\ Cardinality(Live) \in Nat /\ Cardinality(Live \ {c}) \in Nat
      /\ Cardinality(Live \ {c}) = Cardinality(Live) - 1
  BY Zenon, <1>3, FS_RemoveElement, FS_CardinalityType
<1>5. size >= Cardinality(Live) /\ size \in Nat
  BY <1>1, <1>2, <1>4 DEF SharedInv, TypeOK, SizeInv
<1> QED
  BY <1>2, <1>4, <1>5 DEF SizeInv

\* The head is taken off the list, and counted later.
LEMMA RemHeadSize ==
  ASSUME Inv, NEW t \in Threads, RemHead(t)
  PROVE  SizeInv'
<1>1. SharedInv /\ ThreadInv(t)
  BY Zenon, InvSplit
<1>2. /\ pc[t] = "rem_scan" /\ pc' = [pc EXCEPT ![t] = "rem_count"] /\ size' = size
      /\ removedAt' = [removedAt EXCEPT ![curr[t]] = linked] /\ linked' = linked
      /\ curr[t] # NULL
  BY <1>1 DEF SharedInv, TypeOK, RemHead, Goto, Node, NULL
<1>3. curr[t] \in Live
  BY Zenon, <1>1, <1>2 DEF ThreadInv, WriterInv
<1>4. Live' = Live \ {curr[t]}
  BY Zenon, <1>1, <1>2, <1>3, Unlinking
<1>5. ~Counting' /\ ~Counting /\ ~Uncounting
  BY Zenon, <1>1, <1>2, Exclusive DEF SharedInv, TypeOK, Counting, Uncounting
<1> QED
  BY ZenonT(30), <1>2, <1>3, <1>4, <1>5, UnlinkSize

\* A node behind the head is taken off the list, and never counted.
LEMMA RemUnlinkSize ==
  ASSUME Inv, NEW t \in Threads, RemUnlink(t)
  PROVE  SizeInv'
<1>1. SharedInv /\ ThreadInv(t)
  BY Zenon, InvSplit
<1>2. /\ pc[t] = "rem_scan" /\ pc' = [pc EXCEPT ![t] = "rem_done"] /\ size' = size
      /\ removedAt' = [removedAt EXCEPT ![curr[t]] = linked] /\ linked' = linked
      /\ curr[t] # NULL
  BY <1>1 DEF SharedInv, TypeOK, RemUnlink, Return, Goto, Node, NULL
<1>3. curr[t] \in Live
  BY Zenon, <1>1, <1>2 DEF ThreadInv, WriterInv
<1>4. Live' = Live \ {curr[t]}
  BY Zenon, <1>1, <1>2, <1>3, Unlinking
<1>5. ~Counting' /\ ~Counting /\ ~Uncounting
  BY Zenon, <1>1, <1>2, Exclusive DEF SharedInv, TypeOK, Counting, Uncounting
<1> QED
  BY ZenonT(30), <1>2, <1>3, <1>4, <1>5, UnlinkSize

\* The removal of the head is counted: the size still covers the entries.
LEMMA RemCountSize ==
  ASSUME Inv, NEW t \in Threads, RemCount(t)
  PROVE  SizeInv' /\ size' \in Nat
<1>1. SharedInv
  BY Zenon, InvSplit
<1>2. /\ UNCHANGED list /\ size' = size - 1 /\ size \in Nat
      /\ pc[t] = "rem_count" /\ pc' = [pc EXCEPT ![t] = "rem_done"]
  BY <1>1 DEF SharedInv, TypeOK, list, RemCount, Return, Goto, hist
<1>3. ~Counting /\ ~Counting' /\ Uncounting /\ ~Uncounting'
  BY Zenon, <1>1, <1>2, Exclusive DEF SharedInv, TypeOK, Counting, Uncounting
<1>4. Live' = Live
  BY Zenon, <1>1, <1>2, ListFrame
<1>5. Settled' = Settled
  BY Zenon, <1>3, <1>4 DEF Settled
<1>6. Cardinality(Settled) \in Nat
  BY Zenon, <1>1, SettledFinite
<1>7. size >= Cardinality(Settled) + 1
  BY Zenon, <1>1, <1>3 DEF SharedInv, SizeInv
<1> QED
  BY <1>2, <1>3, <1>5, <1>6, <1>7 DEF SizeInv

\* The initial state satisfies the invariant.
LEMMA InitInv == Init => Inv
<1> SUFFICES ASSUME Init PROVE Inv
  OBVIOUS
<1> USE ThreadsAssumption, PathsAssumption, BoundsAssumption
<1>1. Live = {} /\ Removed = {}
  BY DEF Init, Live, Removed
<1>2. TypeOK
  BY Types DEF Init, TypeOK, RFStates, RF_ON, RF_OFF, RF_REC_OFF
<1>3. LockIsHeld /\ NoDuplicates
  BY Zenon, <1>1 DEF Init, LockIsHeld, NoDuplicates
<1>4. ListInv
  BY Zenon, <1>1 DEF Init, ListInv, Node
<1>5. SizeInv
  <2>1. Settled = {} /\ ~Uncounting
    BY Zenon, <1>1 DEF Init, Settled, Uncounting
  <2>2. Cardinality({}) = 0
    BY Zenon, FS_EmptySet
  <2> QED
    BY <2>1, <2>2 DEF Init, SizeInv
<1>6. ASSUME NEW t \in Threads PROVE ThreadInv(t)
  BY <1>1 DEF Init, ThreadInv, WriterInv, WindowInv, CursorInv, ResultInv, NULL
<1> QED
  BY ZenonT(30), <1>2, <1>3, <1>4, <1>5, <1>6, InvSplit DEF SharedInv

\* Every step preserves the invariant.
LEMMA NextInv == ZeroedAlloc /\ Inv /\ [Next]_vars => Inv'
<1> SUFFICES ASSUME ZeroedAlloc, Inv, [Next]_vars PROVE Inv'
  OBVIOUS
<1>1. SharedInv /\ \A u \in Threads : ThreadInv(u)
  BY Zenon, InvSplit
<1>2. SharedInv' /\ (\A u \in Threads : ThreadInv(u)') => Inv'
  BY Zenon DEF Inv, SharedInv, ThreadInv, ResultInv, CheckHonoursEntries, CheckIsGrounded,
         PrintIsComplete
<1>3. CASE UNCHANGED vars
  <2>1. /\ UNCHANGED list /\ size' = size /\ state' = state /\ lock' = lock
        /\ pc' = pc /\ arg' = arg /\ curr' = curr /\ prev' = prev /\ out' = out /\ ret' = ret
        /\ start' = start /\ gone' = gone /\ modes' = modes
    BY Zenon, <1>3 DEF vars, shared, local, hist, list
  <2>2. ListInv' /\ NoDuplicates' /\ Live' = Live
    BY Zenon, <1>1, <2>1, ListFrame
  <2>3. TypeOK'
    BY Zenon, <1>1, <2>1 DEF SharedInv, TypeOK, list
  <2>4. LockIsHeld'
    BY Zenon, <1>1, <2>1 DEF SharedInv, LockIsHeld
  <2>5. SizeInv'
    <3>1. (Counting' <=> Counting) /\ (Uncounting' <=> Uncounting)
      BY Zenon, <2>1 DEF Counting, Uncounting
    <3>2. Settled' = Settled
      BY Zenon, <2>1, <2>2, <3>1 DEF Settled, list
    <3> QED
      BY ZenonT(30), <1>1, <2>1, <3>1, <3>2 DEF SharedInv, SizeInv
  <2>6. ASSUME NEW u \in Threads PROVE ThreadInv(u)'
    <3>1. SameThread(u)
      BY Zenon, <2>1 DEF SameThread
    <3> QED
      BY Zenon, <1>1, <2>1, <3>1, ThreadFrame
  <2> QED
    BY ZenonT(30), <1>2, <2>2, <2>3, <2>4, <2>5, <2>6 DEF SharedInv
<1>4. ASSUME NEW t \in Threads, Call(t) PROVE Inv'
  <2>1. UserPaths \subseteq Paths /\ Checked \subseteq Paths \cup {NoPath}
    BY Zenon, PathsAssumption DEF Checked
  <2>2. size = 0 => Settled = {}
    BY Zenon, <1>1, SettledFinite
  <2> QED
    BY SMTT(30), <1>1, <1>2, <1>4, <2>1, <2>2, SwitchStateInv, AddCallInv, RemCallInv, ChkEmptyInv,
       ChkCallInv, AddNoMemoryInv, AddNoPathMemoryInv, RemNoMemoryInv, PrtCallInv
       DEF Call
<1>5. ASSUME NEW t \in Threads, Acquire(t) PROVE Inv'
  BY ZenonT(30), <1>1, <1>2, <1>5, AddLockInv, RemLockInv, ChkLockInv DEF Acquire
<1>6. ASSUME NEW t \in Threads, Step(t) PROVE Inv'
  BY SMTT(30), <1>1, <1>2, <1>6, AddScanInv, AddExistsInv, AddLinkInv, AddCountInv, AddCountSize,
     RemScanInv, RemNotFoundInv, RemHeadInv, RemHeadSize, RemCountInv, RemCountSize,
     RemUnlinkInv, RemUnlinkSize, ChkOffInv, ChkOnInv,
     ChkHeadInv, ChkScanInv, ChkFoundInv, ChkEndInv, ChkNullPathInv, PrtRefuseInv,
     PrtEmptyInv, PrtBeginInv, PrtNoRoomInv, PrtMoreInv, PrtNoMoreInv, PrtStepInv,
     PrtLastInv, PrtCopyInv, PrtCopyFaultInv, PrtFreeLiteralInv, FaultInv, ResumeInv
     DEF Step
<1> QED
  BY ZenonT(30), <1>3, <1>4, <1>5, <1>6 DEF Next

\* The invariant holds of every reachable state, for any number of threads, any
\* paths and any bound on the nodes, with allocations and copies that may fail,
\* on a kernel that zeroes the memory it allocates.
THEOREM Invariance == ZeroedAlloc => (Spec => []Inv)
<1> SUFFICES ASSUME ZeroedAlloc PROVE Spec => []Inv
  OBVIOUS
<1>1. Inv /\ [Next]_vars => Inv'
  BY Zenon, NextInv
<1> QED
  BY InitInv, <1>1, PTL DEF Spec

\* Every variable keeps its type, the size counter included: it never becomes
\* negative.
THEOREM TypeCorrect == ZeroedAlloc => (Spec => []TypeOK)
<1>1. Inv => TypeOK
  BY Zenon DEF Inv
<1> QED
  BY <1>1, Invariance, PTL

\* No path is listed twice.
THEOREM NoDuplicatesTheorem == ZeroedAlloc => (Spec => []NoDuplicates)
<1>1. Inv => NoDuplicates
  BY Zenon DEF Inv
<1> QED
  BY <1>1, Invariance, PTL

\* A check that answers 0 overlooks no entry that stayed on the list.
THEOREM CheckHonoursEntriesTheorem == ZeroedAlloc => (Spec => []CheckHonoursEntries)
<1>1. Inv => CheckHonoursEntries
  BY Zenon DEF Inv
<1> QED
  BY <1>1, Invariance, PTL

\* A check that answers 1 found an entry of its own window.
THEOREM CheckIsGroundedTheorem == ZeroedAlloc => (Spec => []CheckIsGrounded)
<1>1. Inv => CheckIsGrounded
  BY Zenon DEF Inv
<1> QED
  BY <1>1, Invariance, PTL

\* A print that ends has written every entry that stayed on the list.
THEOREM PrintIsCompleteTheorem == ZeroedAlloc => (Spec => []PrintIsComplete)
<1>1. Inv => PrintIsComplete
  BY ZenonT(30) DEF Inv
<1> QED
  BY <1>1, Invariance, PTL

\* A print writes nothing that was removed before it began.
THEOREM PrintIsGroundedTheorem == ZeroedAlloc => (Spec => []PrintIsGrounded)
<1>1. Inv => PrintIsGrounded
  BY SMTT(30) DEF Inv, WindowInv, PrintIsGrounded
<1> QED
  BY <1>1, Invariance, PTL

\* The size counts at least the entries.
THEOREM SizeCoversEntriesTheorem == ZeroedAlloc => (Spec => []SizeCoversEntries)
<1>1. Inv => SizeCoversEntries
  <2> SUFFICES ASSUME Inv PROVE SizeCoversEntries
    OBVIOUS
  <2>1. Cardinality(Settled) \in Nat
    BY Zenon, InvSplit, SettledFinite
  <2> QED
    BY <2>1 DEF Inv, TypeOK, SizeInv, SizeCoversEntries
<1> QED
  BY <1>1, Invariance, PTL

\* add_to_blacklist, remove_from_blacklist and is_blacklisted, run by any number of
\* threads with their unlocked reads, behave as atomic operations on a set of paths:
\* an addition takes effect when it is counted, a removal when its node is unlinked, and
\* every answer of a check was right at some moment of the check.
THEOREM ListImplementsSet == ZeroedAlloc => (HSpec => ImplementsSet)
<1> SUFFICES ASSUME ZeroedAlloc PROVE HSpec => ImplementsSet
  OBVIOUS
<1>1. HInit => HInv /\ Set!Init
  BY Zenon, InitInv, StartsAsSet DEF HInit, HInv
<1>2. HInv /\ [HNext]_<<vars, hits>> => HInv' /\ [Set!Next]_(Set!vars)
  <2> SUFFICES ASSUME HInv, [HNext]_<<vars, hits>> PROVE HInv' /\ [Set!Next]_(Set!vars)
    OBVIOUS
  <2>1. [Next]_vars
    BY Zenon DEF HNext
  <2>2. Inv'
    BY Zenon, <2>1, NextInv DEF HInv
  <2>3. size = 0 => Settled = {}
    BY Zenon, InvSplit, SettledFinite DEF HInv
  <2>4. Simulated
    BY Zenon, <2>2, <2>3, Simulation
  <2> QED
    BY Zenon, <2>2, <2>4 DEF Simulated, HInv
<1> QED
  BY <1>1, <1>2, PTL DEF HSpec, ImplementsSet, Set!Spec
================================================================================
