----------------------------- MODULE BlacklistSet -----------------------------
(*****************************************************************************)
(* What the blacklist promises its callers: a set of paths that is changed   *)
(* atomically, and a check whose answer was right, for the list and for the  *)
(* state each on its own, at some moment between its call and its return.    *)
(*****************************************************************************)
CONSTANTS Threads, Paths, EmptyPath, NoPath, Matches

VARIABLES
  entries,    \* the paths in the blacklist
  mode,       \* "on" when the monitor is ON or REC-ON, "off" otherwise
  asked,      \* the path a thread's check is about
  listed,     \* the answers the list gave during the check, {} outside a check
  modes,      \* the values of mode during the check
  res         \* result of the last call, until the caller takes it

vars == <<entries, mode, asked, listed, modes, res>>

\* Is the path protected by an entry of E?
Verdict(E, p) ==
  IF EmptyPath \in E \/ \E e \in E : <<e, p>> \in Matches THEN "hit" ELSE "miss"

\* The answers of the checks in progress, once the entries are E.
Widen(E) ==
  [t \in Threads |-> IF listed[t] = {} THEN {}
                     ELSE listed[t] \cup {Verdict(E, asked[t])}]

Init ==
  /\ entries = {}
  /\ mode = "off"
  /\ asked = [t \in Threads |-> NoPath]
  /\ listed = [t \in Threads |-> {}]
  /\ modes = [t \in Threads |-> {}]
  /\ res = [t \in Threads |-> "none"]

\* A thread that is in no check and has no result to take.
Free(t) == res[t] = "none" /\ listed[t] = {}

Finish(t, r) == res' = [res EXCEPT ![t] = r]

Switch(b) ==
  /\ mode' = b
  /\ modes' = [t \in Threads |-> IF modes[t] = {} THEN {} ELSE modes[t] \cup {b}]
  /\ UNCHANGED <<entries, asked, listed, res>>

Add(t, p) ==
  /\ Free(t)
  /\ p \notin entries
  /\ entries' = entries \cup {p}
  /\ listed' = Widen(entries')
  /\ Finish(t, "0")
  /\ UNCHANGED <<mode, asked, modes>>

Remove(t, p) ==
  /\ Free(t)
  /\ p \in entries
  /\ entries' = entries \ {p}
  /\ listed' = Widen(entries')
  /\ Finish(t, "0")
  /\ UNCHANGED <<mode, asked, modes>>

Refuse(t, p) ==
  /\ Free(t)
  /\ \/ p \in entries /\ Finish(t, "EEXIST")
     \/ p \notin entries /\ Finish(t, "EINVAL")
     \/ Finish(t, "ENOMEM")
  /\ UNCHANGED <<entries, mode, asked, listed, modes>>

Ask(t, p) ==
  /\ Free(t)
  /\ asked' = [asked EXCEPT ![t] = p]
  /\ listed' = [listed EXCEPT ![t] = {Verdict(entries, p)}]
  /\ modes' = [modes EXCEPT ![t] = {mode}]
  /\ \/ UNCHANGED res
     \/ Verdict(entries, p) = "miss" /\ Finish(t, "0")
  /\ UNCHANGED <<entries, mode>>

Answer(t) ==
  /\ listed[t] # {}
  /\ res[t] = "none"
  /\ \/ "hit" \in listed[t] /\ "on" \in modes[t] /\ Finish(t, "1")
     \/ ("miss" \in listed[t] \/ "off" \in modes[t]) /\ Finish(t, "0")
  /\ UNCHANGED <<entries, mode, asked, listed, modes>>

\* The caller takes its result, or a thread dies during a check.
Leave(t) ==
  /\ res' = [res EXCEPT ![t] = "none"]
  /\ asked' = [asked EXCEPT ![t] = NoPath]
  /\ listed' = [listed EXCEPT ![t] = {}]
  /\ modes' = [modes EXCEPT ![t] = {}]
  /\ UNCHANGED <<entries, mode>>

Next ==
  \/ \E b \in {"on", "off"} : Switch(b)
  \/ \E t \in Threads :
       \/ \E p \in Paths : Add(t, p) \/ Remove(t, p) \/ Refuse(t, p)
       \/ \E p \in Paths \cup {NoPath} : Ask(t, p)
       \/ Answer(t) \/ Leave(t)

Spec == Init /\ [][Next]_vars
================================================================================
