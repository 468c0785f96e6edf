-------------------------- MODULE BlacklistRefinement --------------------------
(*****************************************************************************)
(* The list of Blacklist implements the set of BlacklistSet.                 *)
(*                                                                           *)
(* An addition takes effect when the size is counted, a removal when the     *)
(* node is unlinked.  The answers the list could have given during a check   *)
(* are not part of the program's state: the history variable hits, which no  *)
(* action reads, collects them.                                              *)
(*****************************************************************************)
EXTENDS Blacklist

VARIABLE hits

Checking == {"chk_state", "chk_head", "chk_lock", "chk_scan", "chk_done"}

Listed(p) == IF \E n \in Settled : Hit(n, p) THEN "hit" ELSE "miss"

HInit == Init /\ hits = [t \in Threads |-> {}]

Collect ==
  hits' = [t \in Threads |->
             IF pc'[t] \in Checking
             THEN (IF pc[t] \in Checking THEN hits[t] ELSE {}) \cup {Listed(arg[t])'}
             ELSE {}]

HNext == Next /\ Collect

HSpec == HInit /\ [][HNext]_<<vars, hits>>

FairHSpec == HSpec /\ Fairness

ByChecks(f, none) == [t \in Threads |-> IF pc[t] \in Checking THEN f[t] ELSE none]

Present == {path[n] : n \in Settled}
Asked   == ByChecks(arg, NoPath)
Modes   == ByChecks(modes, {})

\* A removal of the head has its result before it is counted.
Given ==
  [t \in Threads |-> IF pc[t] = "rem_count" THEN "0"
                     ELSE IF pc[t] \in {"add_done", "rem_done", "chk_done"} THEN ret[t]
                     ELSE "none"]

Set == INSTANCE BlacklistSet WITH
  entries <- Present, mode <- Mode(state), asked <- Asked, listed <- hits, modes <- Modes,
  res <- Given

\* add_to_blacklist, remove_from_blacklist and is_blacklisted, run by any
\* number of threads with their unlocked reads, behave as atomic operations on
\* a set, and every answer of a check was right during the check.
ImplementsSet == Set!Spec
================================================================================
