-------------------------- MODULE BlacklistImplements --------------------------
(*****************************************************************************)
(* Every step of Blacklist, with the answers that its checks collect, is a   *)
(* step of BlacklistSet or leaves the set as it is, for any number of        *)
(* threads, paths and nodes.                                                 *)
(*                                                                           *)
(* Steps that leave the list alone change the refinement mapping at the      *)
(* thread that takes them only.  For the others, what has to be shown is     *)
(* that a check which walks a list that changes under it has not lost the    *)
(* answer it will give.                                                      *)
(*****************************************************************************)
EXTENDS BlacklistSteps, BlacklistRefinement

\* What a removed node points to was on the list when it was removed.
Past == \A n \in Node : removedAt[n] # 0 /\ next[n] # NULL => next[n] <= removedAt[n]

\* The writers: the node that is linked and not counted yet, and what a removal has
\* seen of the list.
Scan(t) ==
  /\ pc[t] = "add_count" => path[linked] = arg[t]
  /\ pc[t] = "rem_scan" =>
       \A n \in Live : curr[t] = NULL \/ n < curr[t] => path[n] # arg[t]

\* From every node of S the walk of a check for p stays in S, or has found a node.
Caught(S, p) == \A s \in S : Hit(s, p) \/ next[s] \in S

\* The answers that the list could have given: the present one; "hit", if a node that
\* was there matches; and "miss", if the walk can still end without a match.
Answers(t) ==
  /\ pc[t] \notin Checking => hits[t] = {}
  /\ pc[t] \in Checking =>
       /\ Listed(arg[t]) \in hits[t]
       /\ \A n \in (1 .. linked) \ gone[t] :
            Hit(n, arg[t]) /\ ~(Counting /\ n = linked) => "hit" \in hits[t]
  /\ pc[t] \in {"chk_lock", "chk_scan"} =>
       \/ "miss" \in hits[t]
       \/ \E S \in SUBSET (1 .. linked) : curr[t] \in S /\ Caught(S, arg[t])
  /\ pc[t] = "chk_lock" /\ curr[t] # NULL => \A m \in Live : curr[t] <= m

Trail ==
  /\ hits \in [Threads -> SUBSET {"hit", "miss"}]
  /\ Past
  /\ \A t \in Threads : Scan(t) /\ Answers(t)

HInv == Inv /\ Trail

--------------------------------------------------------------------------------
\* Two functions that agree everywhere but at t.
LEMMA OnlyAt ==
  ASSUME NEW f, NEW g, NEW t \in Threads,
         f = [u \in Threads |-> f[u]], g = [u \in Threads |-> g[u]],
         \A u \in Threads \ {t} : g[u] = f[u]
  PROVE  g = [f EXCEPT ![t] = g[t]] /\ (g[t] = f[t] => g = f)
OBVIOUS

\* The values of the refinement mapping, thread by thread.
LEMMA Mapped ==
  /\ Given = [u \in Threads |-> Given[u]] /\ Given' = [u \in Threads |-> Given'[u]]
  /\ Asked = [u \in Threads |-> Asked[u]] /\ Asked' = [u \in Threads |-> Asked'[u]]
  /\ Modes = [u \in Threads |-> Modes[u]] /\ Modes' = [u \in Threads |-> Modes'[u]]
BY Zenon DEF Given, Asked, Modes, ByChecks

\* The values of the mapping at t.
LEMMA MappedAt ==
  ASSUME NEW t \in Threads
  PROVE  /\ Asked[t] = IF pc[t] \in Checking THEN arg[t] ELSE NoPath
         /\ Modes[t] = IF pc[t] \in Checking THEN modes[t] ELSE {}
         /\ Given[t] = IF pc[t] = "rem_count" THEN "0"
                       ELSE IF pc[t] \in {"add_done", "rem_done", "chk_done"} THEN ret[t]
                       ELSE "none"
         /\ Asked'[t] = IF pc'[t] \in Checking THEN arg'[t] ELSE NoPath
         /\ Modes'[t] = IF pc'[t] \in Checking THEN modes'[t] ELSE {}
         /\ Given'[t] = IF pc'[t] = "rem_count" THEN "0"
                        ELSE IF pc'[t] \in {"add_done", "rem_done", "chk_done"} THEN ret'[t]
                        ELSE "none"
BY DEF Given, Asked, Modes, ByChecks

\* The answers collected for one thread.
LEMMA CollectAt ==
  ASSUME Collect, NEW u \in Threads
  PROVE  hits'[u] = IF pc'[u] \in Checking
                    THEN (IF pc[u] \in Checking THEN hits[u] ELSE {}) \cup {Listed(arg[u])'}
                    ELSE {}
BY DEF Collect

LEMMA CollectType ==
  ASSUME Collect, hits \in [Threads -> SUBSET {"hit", "miss"}]
  PROVE  hits' \in [Threads -> SUBSET {"hit", "miss"}]
<1>1. \A u \in Threads : Listed(arg[u])' \in {"hit", "miss"}
  BY Zenon DEF Listed
<1>2. \A u \in Threads : hits[u] \in SUBSET {"hit", "miss"}
  BY Zenon
<1> QED
  BY Zenon, <1>1, <1>2 DEF Collect

\* A step of t that leaves the list, the state and the other threads alone.
Mild(t) ==
  /\ UNCHANGED list
  /\ state' = state
  /\ Settled' = Settled
  /\ Counting' <=> Counting
  /\ \A u \in Threads \ {t} : SameThread(u)

LEMMA QuietIsMild ==
  ASSUME Inv, NEW t \in Threads, Quiet(t),
         pc[t] \notin {"add_count", "rem_count"},
         pc'[t] \notin {"add_count", "rem_count"}
  PROVE  Mild(t)
<1>1. SharedInv
  BY Zenon, InvSplit
<1>2. UNCHANGED list /\ size' = size /\ state' = state
  BY Zenon DEF Quiet
<1>3. \A u \in Threads \ {t} : SameThread(u)
  BY Zenon, <1>1, QuietFrame
<1>4. \A u \in Threads \ {t} : pc'[u] = pc[u]
  BY Zenon, <1>3 DEF SameThread
<1>5. Settled' = Settled
  BY Zenon, <1>1, <1>2, <1>4, SizeFrame
<1>6. Counting' <=> Counting
  BY Zenon, <1>4 DEF Counting
<1> QED
  BY Zenon, <1>2, <1>3, <1>5, <1>6 DEF Mild

\* Such a step leaves the answers of the list as they are.
LEMMA MildList ==
  ASSUME Inv, NEW t \in Threads, Mild(t)
  PROVE  /\ UNCHANGED list
         /\ Live' = Live /\ Settled' = Settled
         /\ Counting' <=> Counting
         /\ \A u \in Threads \ {t} : SameThread(u)
         /\ Mode(state)' = Mode(state)
         /\ Present' = Present
         /\ \A n, p : Hit(n, p)' <=> Hit(n, p)
         /\ \A u \in Threads : arg'[u] = arg[u] => Listed(arg[u])' = Listed(arg[u])
<1>1. SharedInv
  BY Zenon, InvSplit
<1>2. /\ UNCHANGED list /\ state' = state
      /\ \A u \in Threads \ {t} : SameThread(u)
      /\ Settled' = Settled
      /\ Counting' <=> Counting
  BY Zenon DEF Mild
<1>3. Live' = Live /\ \A n, p : Hit(n, p)' <=> Hit(n, p)
  BY Zenon, <1>1, <1>2, ListFrame
<1>4. Present' = Present
  BY Zenon, <1>2 DEF Present, list
<1>5. Mode(state)' = Mode(state)
  BY Zenon, <1>2 DEF Mode, Enforcing
<1>6. \A u \in Threads : arg'[u] = arg[u] => Listed(arg[u])' = Listed(arg[u])
  BY Zenon, <1>2, <1>3 DEF Listed
<1> QED
  BY ZenonT(30), <1>2, <1>3, <1>4, <1>5, <1>6

\* A thread whose answer is the same as before collects nothing new.
LEMMA NothingNew ==
  ASSUME Collect, NEW u \in Threads, Answers(u), pc[u] \in Checking <=> pc'[u] \in Checking,
         pc[u] \in Checking => Listed(arg[u])' = Listed(arg[u])
  PROVE  hits'[u] = hits[u]
<1>1. CASE pc[u] \in Checking
  <2>1. hits'[u] = hits[u] \cup {Listed(arg[u])}
    BY Zenon, <1>1, CollectAt
  <2> QED
    BY Zenon, <1>1, <2>1 DEF Answers
<1>2. CASE pc[u] \notin Checking
  BY Zenon, <1>2, CollectAt DEF Answers
<1> QED
  BY Zenon, <1>1, <1>2

\* Such a step changes the mapping at t only.
LEMMA MildMap ==
  ASSUME HInv, NEW t \in Threads, Mild(t), Collect
  PROVE  /\ Present' = Present /\ Mode(state)' = Mode(state)
         /\ Given' = [Given EXCEPT ![t] = Given'[t]] /\ (Given'[t] = Given[t] => Given' = Given)
         /\ Asked' = [Asked EXCEPT ![t] = Asked'[t]] /\ (Asked'[t] = Asked[t] => Asked' = Asked)
         /\ Modes' = [Modes EXCEPT ![t] = Modes'[t]] /\ (Modes'[t] = Modes[t] => Modes' = Modes)
         /\ hits' = [hits EXCEPT ![t] = hits'[t]] /\ (hits'[t] = hits[t] => hits' = hits)
<1>1. Inv /\ Trail
  BY Zenon DEF HInv
<1>2. /\ Present' = Present /\ Mode(state)' = Mode(state)
      /\ \A u \in Threads \ {t} : SameThread(u)
      /\ \A u \in Threads : arg'[u] = arg[u] => Listed(arg[u])' = Listed(arg[u])
  BY Zenon, <1>1, MildList
<1>3. \A u \in Threads \ {t} : Given'[u] = Given[u] /\ Asked'[u] = Asked[u] /\ Modes'[u] = Modes[u]
  <2>1. SUFFICES ASSUME NEW u \in Threads \ {t}
                 PROVE  Given'[u] = Given[u] /\ Asked'[u] = Asked[u] /\ Modes'[u] = Modes[u]
    BY Zenon
  <2>2. /\ pc'[u] = pc[u] /\ arg'[u] = arg[u] /\ ret'[u] = ret[u] /\ modes'[u] = modes[u]
        /\ u \in Threads
    BY Zenon, <1>2 DEF SameThread
  <2> QED
    BY Zenon, <2>2, MappedAt
<1>4. \A u \in Threads \ {t} : hits'[u] = hits[u]
  BY Zenon, <1>1, <1>2, NothingNew DEF Trail, SameThread
<1>5. hits = [u \in Threads |-> hits[u]] /\ hits' = [u \in Threads |-> hits'[u]]
  <2>1. hits \in [Threads -> SUBSET {"hit", "miss"}] /\ hits' \in [Threads -> SUBSET {"hit", "miss"}]
    BY Zenon, <1>1, CollectType DEF Trail
  <2> QED
    BY <2>1
<1> QED
  BY <1>2, <1>3, <1>4, <1>5, Mapped, OnlyAt


\* After such a step, only the thread itself is left to be looked at.
LEMMA MildTrail ==
  ASSUME HInv, NEW t \in Threads, Mild(t), Collect, Scan(t)', Answers(t)'
  PROVE  Trail'
<1>1. Inv /\ Trail
  BY Zenon DEF HInv
<1>2. /\ UNCHANGED list /\ Live' = Live
      /\ Counting' <=> Counting
      /\ \A u \in Threads \ {t} : SameThread(u)
      /\ \A n, p : Hit(n, p)' <=> Hit(n, p)
      /\ \A u \in Threads : arg'[u] = arg[u] => Listed(arg[u])' = Listed(arg[u])
  BY Zenon, <1>1, MildList
<1>3. hits' \in [Threads -> SUBSET {"hit", "miss"}]
  BY Zenon, <1>1, CollectType DEF Trail
<1>4. Past'
  BY Zenon, <1>1, <1>2 DEF Trail, Past, list
<1>5. ASSUME NEW u \in Threads \ {t} PROVE Scan(u)' /\ Answers(u)'
  <2>1. u \in Threads /\ SameThread(u) /\ Scan(u) /\ Answers(u)
    BY Zenon, <1>1, <1>2 DEF Trail
  <2>2. hits'[u] = hits[u] /\ Listed(arg[u])' = Listed(arg[u])
    <3>1. Listed(arg[u])' = Listed(arg[u]) /\ (pc[u] \in Checking <=> pc'[u] \in Checking)
      BY Zenon, <1>2, <2>1 DEF SameThread
    <3> QED
      BY Zenon, <2>1, <3>1, NothingNew
  <2>3. Scan(u)'
    <3>1. /\ pc'[u] = pc[u] /\ arg'[u] = arg[u] /\ curr'[u] = curr[u]
          /\ path' = path /\ linked' = linked /\ Live' = Live
      BY Zenon, <1>2, <2>1 DEF SameThread, list
    <3> QED
      BY Zenon, <2>1, <3>1 DEF Scan
  <2>4. \A S : Caught(S, arg[u])' <=> Caught(S, arg[u])
    BY Zenon, <1>2, <2>1 DEF Caught, SameThread, list
  <2>5. Answers(u)'
    BY Zenon, <1>2, <2>1, <2>2, <2>4 DEF Answers, SameThread, list
  <2> QED
    BY Zenon, <2>3, <2>5
<1> QED
  BY Zenon, <1>3, <1>4, <1>5 DEF Trail

\* A thread that is in no check has collected nothing.
LEMMA Apart ==
  ASSUME Collect, NEW t \in Threads, pc'[t] \notin Checking
  PROVE  hits'[t] = {} /\ Answers(t)'
<1>1. hits'[t] = {}
  BY Zenon, CollectAt
<1>2. pc'[t] \notin {"chk_lock", "chk_scan"}
  BY Zenon DEF Checking
<1> QED
  BY Zenon, <1>1, <1>2 DEF Answers

\* The step of a thread that is in no check and gives no result.
LEMMA Stutters ==
  ASSUME HInv, NEW t \in Threads, Mild(t), Collect,
         pc[t] \notin Checking \cup {"add_done", "rem_done", "rem_count"},
         pc'[t] \notin Checking \cup {"add_done", "rem_done", "rem_count"}, Scan(t)'
  PROVE  Trail' /\ UNCHANGED Set!vars
<1>1. hits'[t] = {} /\ hits[t] = {} /\ Answers(t)'
  BY Zenon, Apart DEF HInv, Trail, Answers
<1>2. Trail'
  BY Zenon, <1>1, MildTrail
<1>3. Given'[t] = Given[t] /\ Asked'[t] = Asked[t] /\ Modes'[t] = Modes[t]
  BY MappedAt DEF Checking
<1> QED
  BY Zenon, <1>1, <1>2, <1>3, MildMap DEF Set!vars

\* The caller takes the result, or a thread dies.
LEMMA Leaves ==
  ASSUME HInv, NEW t \in Threads, Mild(t), Collect, pc'[t] \in {"idle", "oops"}
  PROVE  Trail' /\ Set!Leave(t)
<1>1. hits'[t] = {} /\ Answers(t)' /\ Scan(t)'
  BY Zenon, Apart DEF Checking, Scan
<1>2. Trail'
  BY Zenon, <1>1, MildTrail
<1>3. Given'[t] = "none" /\ Asked'[t] = NoPath /\ Modes'[t] = {}
  BY MappedAt DEF Checking
<1> QED
  BY Zenon, <1>1, <1>2, <1>3, MildMap DEF Set!Leave

\* A writer returns without effect.
LEMMA Refuses ==
  ASSUME HInv, NEW t \in Threads, Mild(t), Collect, NEW p \in Paths,
         pc[t] \in {"idle", "add_scan", "rem_scan"}, pc'[t] \in {"add_done", "rem_done"},
         \/ ret'[t] = "ENOMEM"
         \/ ret'[t] = "EEXIST" /\ p \in Present
         \/ ret'[t] = "EINVAL" /\ p \notin Present
  PROVE  Trail' /\ Set!Refuse(t, p)
<1>1. hits'[t] = {} /\ Answers(t)' /\ Scan(t)'
  BY Zenon, Apart DEF Checking, Scan
<1>2. hits[t] = {}
  BY Zenon DEF HInv, Trail, Answers, Checking
<1>3. Trail'
  BY Zenon, <1>1, MildTrail
<1>4. Given[t] = "none" /\ Given'[t] = ret'[t] /\ Asked'[t] = Asked[t] /\ Modes'[t] = Modes[t]
  BY MappedAt DEF Checking
<1> QED
  BY ZenonT(30), <1>1, <1>2, <1>3, <1>4, MildMap DEF Set!Refuse, Set!Free, Set!Finish

\* The set gives the answer of the list.
LEMMA VerdictIsListed == \A p : Set!Verdict(Present, p) = Listed(p)
BY ZenonT(30) DEF Set!Verdict, Present, Listed, Hit

\* A check begins, and may return at once when no entry has been counted.
LEMMA Asks ==
  ASSUME HInv, NEW t \in Threads, Mild(t), Collect, NEW p \in Paths \cup {NoPath},
         pc[t] = "idle", arg'[t] = p, gone'[t] = Removed, modes'[t] = {Mode(state)},
         \/ pc'[t] = "chk_state"
         \/ pc'[t] = "chk_done" /\ ret'[t] = "0" /\ Settled = {}
  PROVE  Trail' /\ Set!Ask(t, p)
<1>1. /\ pc[t] \notin Checking /\ pc'[t] \in Checking
      /\ pc'[t] \notin {"chk_lock", "chk_scan", "add_count", "rem_scan"}
  BY Zenon DEF Checking
<1>2. /\ UNCHANGED list /\ Live' = Live /\ Settled' = Settled
      /\ Counting' <=> Counting
      /\ \A n, q : Hit(n, q)' <=> Hit(n, q)
  BY Zenon, MildList DEF HInv
<1>3. Listed(arg[t])' = Listed(p)
  BY Zenon, <1>2 DEF Listed
<1>4. hits'[t] = {Listed(p)}
  BY Zenon, <1>1, <1>3, CollectAt
<1>5. \A n \in (1 .. linked) \ Removed : Hit(n, p) /\ ~(Counting /\ n = linked) => Listed(p) = "hit"
  BY Zenon DEF Listed, Settled, Live, Removed
<1>6. Scan(t)'
  BY Zenon, <1>1 DEF Scan
<1>7. Answers(t)'
  BY Zenon, <1>1, <1>2, <1>3, <1>4, <1>5 DEF Answers, list
<1>8. Trail'
  BY Zenon, <1>6, <1>7, MildTrail
<1>9. hits[t] = {} /\ Given[t] = "none"
  BY Zenon, <1>1, MappedAt DEF HInv, Trail, Answers
<1>10. Asked'[t] = p /\ Modes'[t] = {Mode(state)}
  BY Zenon, <1>1, MappedAt
<1>11. \/ Given'[t] = Given[t]
       \/ Given'[t] = "0" /\ Listed(p) = "miss"
  BY <1>9, MappedAt DEF Listed
<1>12. hits'[t] = {Set!Verdict(Present, p)} /\ Set!Verdict(Present, p) = Listed(p)
  BY Zenon, <1>4, VerdictIsListed
<1> QED
  BY ZenonT(30), <1>8, <1>9, <1>10, <1>11, <1>12, MildMap DEF Set!Ask, Set!Free, Set!Finish

\* A check moves on.
LEMMA MovesOn ==
  ASSUME HInv, NEW t \in Threads, Mild(t), Collect, arg'[t] = arg[t], gone'[t] = gone[t],
         pc[t] \in Checking, pc'[t] \in Checking,
         pc'[t] \in {"chk_lock", "chk_scan"} =>
           \/ "miss" \in hits[t]
           \/ \E S \in SUBSET (1 .. linked) : curr'[t] \in S /\ Caught(S, arg[t]),
         pc'[t] = "chk_lock" /\ curr'[t] # NULL => \A m \in Live : curr'[t] <= m
  PROVE  Trail' /\ hits' = hits
<1>1. /\ UNCHANGED list /\ Live' = Live
      /\ Counting' <=> Counting
      /\ \A n, q : Hit(n, q)' <=> Hit(n, q)
      /\ Listed(arg[t])' = Listed(arg[t])
  BY Zenon, MildList DEF HInv
<1>2. Answers(t)
  BY Zenon DEF HInv, Trail
<1>3. hits'[t] = hits[t]
  BY Zenon, <1>1, <1>2, NothingNew
<1>4. \A S : Caught(S, arg[t])' <=> Caught(S, arg[t])
  BY Zenon, <1>1 DEF Caught, list
<1>5. Scan(t)'
  BY Zenon DEF Scan, Checking
<1>6. Answers(t)'
  BY Zenon, <1>1, <1>2, <1>3, <1>4 DEF Answers, list
<1> QED
  BY Zenon, <1>3, <1>5, <1>6, MildTrail, MildMap

\* A check goes on without an answer.
LEMMA Continues ==
  ASSUME HInv, NEW t \in Threads, Mild(t), arg'[t] = arg[t], modes'[t] = modes[t],
         pc[t] \in Checking \ {"chk_done"}, pc'[t] \in Checking \ {"chk_done"}, Collect, hits' = hits
  PROVE  UNCHANGED Set!vars
<1>1. Given'[t] = Given[t] /\ Asked'[t] = Asked[t] /\ Modes'[t] = Modes[t]
  BY MappedAt DEF Checking
<1> QED
  BY Zenon, <1>1, MildMap DEF Set!vars

\* A check answers.
LEMMA Replies ==
  ASSUME HInv, NEW t \in Threads, Mild(t), arg'[t] = arg[t], modes'[t] = modes[t],
         pc[t] \in Checking \ {"chk_done"}, pc'[t] = "chk_done", Collect, hits' = hits,
         \/ ret'[t] = "1" /\ "hit" \in hits[t] /\ "on" \in modes[t]
         \/ ret'[t] = "0" /\ ("miss" \in hits[t] \/ "off" \in modes[t])
  PROVE  Set!Answer(t)
<1>1. /\ Given[t] = "none" /\ Given'[t] = ret'[t]
      /\ Asked'[t] = Asked[t] /\ Modes'[t] = Modes[t] /\ Modes[t] = modes[t]
  BY MappedAt DEF Checking
<1>2. hits[t] # {}
  BY Zenon DEF HInv, Trail, Answers
<1> QED
  BY ZenonT(30), <1>1, <1>2, MildMap DEF Set!Answer, Set!Finish

(*****************************************************************************)
(* The steps of the threads                                                  *)
(*****************************************************************************)
\* A step of the list is a step of the set, or changes nothing there.
Simulated == Trail' /\ (Set!Next \/ UNCHANGED Set!vars)

\* The steps of a thread of the set.
LEMMA SetSteps ==
  ASSUME NEW t \in Threads
  PROVE  /\ \A p \in Paths : Set!Add(t, p) \/ Set!Remove(t, p) \/ Set!Refuse(t, p) => Set!Next
         /\ \A p \in Paths \cup {NoPath} : Set!Ask(t, p) => Set!Next
         /\ Set!Answer(t) \/ Set!Leave(t) => Set!Next
BY Zenon DEF Set!Next

\* A thread dies.
LEMMA DieSim ==
  ASSUME HInv, NEW t \in Threads, Die(t), pc[t] \notin {"add_count", "rem_count"}, Collect
  PROVE  Simulated
<1>1. SharedInv
  BY Zenon, InvSplit DEF HInv
<1>2. Quiet(t) /\ pc'[t] = "oops"
  BY Zenon, <1>1 DEF SharedInv, TypeOK, Quiet, list, Die, Forget, Return, Goto, shared, hist
<1>3. Mild(t)
  BY Zenon, <1>2, QuietIsMild DEF HInv
<1> QED
  BY Zenon, <1>2, <1>3, Leaves, SetSteps DEF Simulated

\* The caller takes the result.
LEMMA ResumeSim ==
  ASSUME HInv, NEW t \in Threads, Resume(t), Collect
  PROVE  Simulated
<1>1. SharedInv
  BY Zenon, InvSplit DEF HInv
<1>2. /\ Quiet(t) /\ pc'[t] = "idle"
      /\ pc[t] \in {"add_done", "rem_done", "chk_done", "prt_done"}
  BY Zenon, <1>1 DEF SharedInv, TypeOK, Quiet, list, Resume, Forget, Return, Goto, shared, hist
<1>3. Mild(t)
  BY Zenon, <1>2, QuietIsMild DEF HInv
<1> QED
  BY Zenon, <1>2, <1>3, Leaves, SetSteps DEF Simulated

\* The deaths, in the code of the four calls.
LEMMA DeathSim ==
  ASSUME HInv, NEW t \in Threads, Collect,
         AddNoPathMemory(t) \/ ChkNullPath(t) \/ PrtNoRoom(t) \/ PrtFreeLiteral(t) \/ Fault(t)
  PROVE  Simulated
<1>1. Die(t) /\ pc[t] \notin {"add_count", "rem_count"}
  BY Zenon DEF AddNoPathMemory, ChkNullPath, PrtNoRoom, PrtFreeLiteral, Fault
<1> QED
  BY Zenon, <1>1, DieSim

\* The labels of a thread that the set does not know of.
Outside == {"idle", "add_lock", "add_scan", "rem_lock",
            "prt_size", "prt_test", "prt_step", "prt_last", "prt_copy", "prt_done"}

\* A step between two such labels.
LEMMA OutsideSim ==
  ASSUME HInv, NEW t \in Threads, Collect, Quiet(t), pc[t] \in Outside, pc'[t] \in Outside
  PROVE  Simulated
<1>1. Mild(t)
  BY Zenon, QuietIsMild DEF HInv, Outside
<1>2. /\ pc[t] \notin Checking \cup {"add_done", "rem_done", "rem_count"}
      /\ pc'[t] \notin Checking \cup {"add_done", "rem_done", "rem_count"}
  BY Zenon DEF Outside, Checking
<1>3. Scan(t)'
  BY Zenon DEF Scan, Outside
<1> QED
  BY Zenon, <1>1, <1>2, <1>3, Stutters DEF Simulated

\* The calls of the writers, and the scan of an addition.
LEMMA WriterSim ==
  ASSUME HInv, NEW t \in Threads, Collect,
         \/ \E p \in UserPaths : AddCall(t, p) \/ RemCall(t, p)
         \/ AddLock(t) \/ AddScan(t)
  PROVE  Simulated
<1>1. SharedInv
  BY Zenon, InvSplit DEF HInv
<1> USE DEF SharedInv, TypeOK, Quiet, list, Goto, shared, hist
<1>2. ASSUME NEW p, AddCall(t, p) PROVE Quiet(t) /\ pc[t] = "idle" /\ pc'[t] = "add_lock"
  BY Zenon, <1>1, <1>2 DEF AddCall
<1>3. ASSUME NEW p, RemCall(t, p) PROVE Quiet(t) /\ pc[t] = "idle" /\ pc'[t] = "rem_lock"
  BY Zenon, <1>1, <1>3 DEF RemCall
<1>4. CASE AddLock(t)
  <2>1. Quiet(t) /\ pc[t] = "add_lock" /\ pc'[t] = "add_scan"
    BY Zenon, <1>1, <1>4 DEF AddLock
  <2> QED
    BY Zenon, <2>1, OutsideSim DEF Outside
<1>5. CASE AddScan(t)
  <2>1. Quiet(t) /\ pc[t] = "add_scan" /\ pc'[t] = "add_scan"
    BY Zenon, <1>1, <1>5 DEF AddScan
  <2> QED
    BY Zenon, <2>1, OutsideSim DEF Outside
<1> HIDE DEF Quiet
<1> QED
  BY Zenon, <1>2, <1>3, <1>4, <1>5, OutsideSim DEF Outside

\* The steps of a print.
LEMMA PrintSim ==
  ASSUME HInv, NEW t \in Threads, Collect,
         \/ PrtCall(t) \/ PrtRefuse(t) \/ PrtEmpty(t) \/ PrtBegin(t) \/ PrtMore(t)
         \/ PrtNoMore(t) \/ PrtStep(t) \/ PrtLast(t) \/ PrtCopy(t) \/ PrtCopyFault(t)
  PROVE  Simulated
<1>1. SharedInv
  BY Zenon, InvSplit DEF HInv
<1>2. pc[t] \in Outside
  BY Zenon DEF PrtCall, PrtRefuse, PrtEmpty, PrtBegin, PrtMore, PrtNoMore, PrtStep,
               PrtLast, PrtCopy, PrtCopyFault, Outside
<1>3. pc'[t] \in Outside
  BY Zenon, <1>1 DEF SharedInv, TypeOK, Return, Goto, PrtCall, PrtRefuse, PrtEmpty, PrtBegin,
               PrtMore, PrtNoMore, PrtStep, PrtLast, PrtCopy, PrtCopyFault, Outside
<1>4. Quiet(t)
  <2> USE DEF SharedInv, TypeOK, Quiet, list, Return, Goto, shared, hist
  <2>1. CASE PrtCall(t)
    BY Zenon, <1>1, <2>1 DEF PrtCall, OpenWindow
  <2>2. CASE PrtRefuse(t)
    BY Zenon, <1>1, <2>2 DEF PrtRefuse
  <2>3. CASE PrtEmpty(t)
    BY Zenon, <1>1, <2>3 DEF PrtEmpty
  <2>4. CASE PrtBegin(t)
    BY Zenon, <1>1, <2>4 DEF PrtBegin
  <2>5. CASE PrtMore(t)
    BY Zenon, <1>1, <2>5 DEF PrtMore
  <2>6. CASE PrtNoMore(t)
    BY Zenon, <1>1, <2>6 DEF PrtNoMore
  <2>7. CASE PrtStep(t)
    BY Zenon, <1>1, <2>7 DEF PrtStep
  <2>8. CASE PrtLast(t)
    BY Zenon, <1>1, <2>8 DEF PrtLast
  <2>9. CASE PrtCopy(t)
    BY Zenon, <1>1, <2>9 DEF PrtCopy
  <2>10. CASE PrtCopyFault(t)
    BY Zenon, <1>1, <2>10 DEF PrtCopyFault
  <2> HIDE DEF Quiet
  <2> QED
    BY Zenon, <2>1, <2>2, <2>3, <2>4, <2>5, <2>6, <2>7, <2>8, <2>9, <2>10
<1> QED
  BY Zenon, <1>2, <1>3, <1>4, OutsideSim

\* A writer returns -ENOMEM.
LEMMA NoMemorySim ==
  ASSUME HInv, NEW t \in Threads, Collect, AddNoMemory(t) \/ RemNoMemory(t)
  PROVE  Simulated
<1>1. SharedInv
  BY Zenon, InvSplit DEF HInv
<1>2. Quiet(t)
  <2> USE DEF SharedInv, TypeOK, Quiet, list, Return, Goto, shared, hist
  <2>1. CASE AddNoMemory(t)
    BY Zenon, <1>1, <2>1 DEF AddNoMemory
  <2>2. CASE RemNoMemory(t)
    BY Zenon, <1>1, <2>2 DEF RemNoMemory
  <2> QED
    BY Zenon, <2>1, <2>2
<1>3. pc[t] = "idle" /\ pc'[t] \in {"add_done", "rem_done"} /\ ret'[t] = "ENOMEM"
  BY Zenon, <1>1 DEF SharedInv, TypeOK, AddNoMemory, RemNoMemory, Return, Goto
<1>4. Mild(t)
  BY Zenon, <1>2, <1>3, QuietIsMild DEF HInv
<1> QED
  BY Zenon, <1>3, <1>4, Refuses, SetSteps, PathsAssumption DEF Simulated

\* The thread that scans the list knows that no addition is half done.
LEMMA NoneCounting ==
  ASSUME SharedInv, NEW t \in Threads, pc[t] \in {"add_scan", "rem_scan", "rem_count", "chk_scan"}
  PROVE  ~Counting /\ Settled = Live
<1>1. ~Counting
  BY Zenon, Exclusive DEF Counting
<1> QED
  BY Zenon, <1>1 DEF Settled

\* An addition finds the path on the list.
LEMMA AddExistsSim ==
  ASSUME HInv, NEW t \in Threads, Collect, AddExists(t)
  PROVE  Simulated
<1>1. SharedInv /\ ThreadInv(t)
  BY Zenon, Own DEF HInv
<1>2. Quiet(t)
  BY Zenon, <1>1 DEF SharedInv, TypeOK, Quiet, list, AddExists, Return, Goto, shared, hist
<1>3. /\ pc[t] = "add_scan" /\ pc'[t] = "add_done" /\ ret'[t] = "EEXIST"
      /\ curr[t] \in Node /\ path[curr[t]] = arg[t]
  BY Zenon, <1>1 DEF SharedInv, TypeOK, AddExists, Return, Goto
<1>4. Mild(t)
  BY Zenon, <1>2, <1>3, QuietIsMild DEF HInv
<1>5. curr[t] # NULL
  BY SMTT(30), <1>3 DEF Node, NULL
<1>6. curr[t] \in Settled
  BY Zenon, <1>1, <1>3, <1>5, NoneCounting DEF ThreadInv, WriterInv
<1>7. arg[t] \in Present /\ arg[t] \in Paths
  BY Zenon, <1>1, <1>3, <1>6 DEF Present, ThreadInv, WriterInv
<1> QED
  BY Zenon, <1>3, <1>4, <1>7, Refuses, SetSteps DEF Simulated

\* A removal does not find the path.
LEMMA RemNotFoundSim ==
  ASSUME HInv, NEW t \in Threads, Collect, RemNotFound(t)
  PROVE  Simulated
<1>1. SharedInv /\ ThreadInv(t) /\ Scan(t)
  BY Zenon, Own DEF HInv, Trail
<1>2. Quiet(t)
  BY Zenon, <1>1 DEF SharedInv, TypeOK, Quiet, list, RemNotFound, Return, Goto, shared, hist
<1>3. pc[t] = "rem_scan" /\ pc'[t] = "rem_done" /\ ret'[t] = "EINVAL" /\ curr[t] = NULL
  BY Zenon, <1>1 DEF SharedInv, TypeOK, RemNotFound, Return, Goto
<1>4. Mild(t)
  BY Zenon, <1>2, <1>3, QuietIsMild DEF HInv
<1>5. Settled = Live
  BY Zenon, <1>1, <1>3, NoneCounting
<1>6. arg[t] \notin Present /\ arg[t] \in Paths
  BY Zenon, <1>1, <1>3, <1>5 DEF Present, ThreadInv, WriterInv, Scan
<1> QED
  BY Zenon, <1>3, <1>4, <1>6, Refuses, SetSteps DEF Simulated

\* A removal begins its scan, and moves on.
LEMMA RemScanSim ==
  ASSUME HInv, NEW t \in Threads, Collect, RemLock(t) \/ RemScan(t)
  PROVE  Simulated
<1>1. SharedInv /\ ThreadInv(t) /\ Scan(t) /\ ThreadTypes(t)
  BY Zenon, Own DEF HInv, Trail
<1>2. CASE RemLock(t)
  <2>1. Quiet(t)
    BY Zenon, <1>1, <1>2 DEF SharedInv, TypeOK, Quiet, list, RemLock, Goto, shared, hist
  <2>2. pc[t] = "rem_lock" /\ pc'[t] = "rem_scan" /\ curr'[t] = head /\ arg'[t] = arg[t]
    BY Zenon, <1>1, <1>2 DEF SharedInv, TypeOK, RemLock, Goto
  <2>3. Mild(t)
    BY Zenon, <2>1, <2>2, QuietIsMild DEF HInv
  <2>4. Live' = Live
    BY Zenon, <2>3, MildList DEF HInv
  <2>5. \A n \in Live : ~(head = NULL \/ n < head)
    BY SMTT(30), <1>1 DEF SharedInv, TypeOK, ListInv, Live, Pointer
  <2>6. Scan(t)'
    BY Zenon, <2>2, <2>4, <2>5 DEF Scan
  <2> QED
    BY Zenon, <2>2, <2>3, <2>6, Stutters DEF Checking, Simulated
<1>3. CASE RemScan(t)
  <2>1. Quiet(t)
    BY Zenon, <1>1, <1>3 DEF SharedInv, TypeOK, Quiet, list, RemScan, shared, hist
  <2>2. /\ pc[t] = "rem_scan" /\ pc'[t] = "rem_scan" /\ curr'[t] = next[curr[t]] /\ arg'[t] = arg[t]
        /\ curr[t] \in Node /\ path[curr[t]] # arg[t]
    BY Zenon, <1>1, <1>3 DEF SharedInv, TypeOK, RemScan, shared
  <2>3. Mild(t)
    BY Zenon, <2>1, <2>2, QuietIsMild DEF HInv
  <2>4. Live' = Live /\ path' = path
    BY Zenon, <2>3, MildList DEF HInv, list
  <2>5. curr[t] # NULL
    BY SMTT(30), <2>2 DEF Node, NULL
  <2>6. curr[t] \in Live
    BY Zenon, <1>1, <2>2, <2>5 DEF ThreadInv, WriterInv
  <2>7. \A n \in Live : next[curr[t]] = NULL \/ n < next[curr[t]] => n < curr[t] \/ n = curr[t]
    BY SMTT(30), <1>1, <2>2, <2>6 DEF SharedInv, TypeOK, ListInv, Live, Covers, Pointer, Node
  <2>8. \A n \in Live : n < curr[t] => path[n] # arg[t]
    BY Zenon, <1>1, <2>2 DEF Scan
  <2>9. \A n \in Live : next[curr[t]] = NULL \/ n < next[curr[t]] => path[n] # arg[t]
    BY Zenon, <2>2, <2>7, <2>8
  <2>10. Scan(t)'
    BY Zenon, <2>2, <2>4, <2>9 DEF Scan
  <2> QED
    BY Zenon, <2>2, <2>3, <2>10, Stutters DEF Checking, Simulated
<1> QED
  BY Zenon, <1>2, <1>3

\* is_blacklisted is called.
LEMMA AskSim ==
  ASSUME HInv, NEW t \in Threads, Collect, NEW p \in Checked, ChkEmpty(t, p) \/ ChkCall(t, p),
         size = 0 => Settled = {}
  PROVE  Simulated
<1>1. SharedInv
  BY Zenon, InvSplit DEF HInv
<1>2. Quiet(t)
  <2> USE DEF SharedInv, TypeOK, Quiet, list, OpenWindow, Return, Goto, shared, hist
  <2>1. CASE ChkEmpty(t, p)
    BY Zenon, <1>1, <2>1 DEF ChkEmpty
  <2>2. CASE ChkCall(t, p)
    BY Zenon, <1>1, <2>2 DEF ChkCall
  <2> QED
    BY Zenon, <2>1, <2>2
<1>3. pc[t] = "idle" /\ arg'[t] = p /\ gone'[t] = Removed /\ modes'[t] = {Mode(state)}
  BY Zenon, <1>1 DEF SharedInv, TypeOK, ChkEmpty, ChkCall, OpenWindow
<1>4. \/ pc'[t] = "chk_state"
      \/ pc'[t] = "chk_done" /\ ret'[t] = "0" /\ size = 0
  BY Zenon, <1>1 DEF SharedInv, TypeOK, ChkEmpty, ChkCall, Return, Goto
<1>5. Mild(t)
  BY Zenon, <1>2, <1>3, <1>4, QuietIsMild DEF HInv
<1>6. p \in Paths \cup {NoPath}
  BY Zenon, PathsAssumption DEF Checked
<1>7. Trail' /\ Set!Ask(t, p)
  BY Zenon, <1>3, <1>4, <1>5, <1>6, Asks
<1> QED
  BY Zenon, <1>6, <1>7, SetSteps DEF Simulated

\* The nodes up to one that matches: a walk that enters them ends with a match.
LEMMA Trap ==
  SharedInv => \A m \in Live : \A p : Hit(m, p) => Caught({n \in Live : n <= m}, p)
<1> SUFFICES ASSUME SharedInv, NEW m \in Live, NEW p, Hit(m, p), NEW s \in Live, s <= m, ~Hit(s, p)
             PROVE  next[s] \in Live /\ next[s] <= m
  BY Zenon DEF Caught
<1>1. s # m
  BY Zenon
<1>2. s \in 1 .. linked /\ removedAt[s] = 0 /\ m \in 1 .. linked
  BY Zenon DEF Live
<1>3. s < m
  BY <1>1, <1>2
<1>4. next[s] # NULL /\ next[s] <= m
  BY Zenon, <1>2, <1>3 DEF SharedInv, ListInv, Covers
<1> QED
  BY Zenon, <1>4 DEF SharedInv, ListInv

\* A check reads the state, the head, and takes the lock.
LEMMA WalkSim ==
  ASSUME HInv, NEW t \in Threads, Collect, ChkOn(t) \/ ChkHead(t) \/ ChkLock(t) \/ ChkScan(t)
  PROVE  Simulated
<1>1. SharedInv /\ ThreadInv(t) /\ Answers(t)
  BY Zenon, Own DEF HInv, Trail
<1>2. Quiet(t)
  <2> USE DEF SharedInv, TypeOK, Quiet, list, Goto, shared, hist
  <2>1. CASE ChkOn(t)
    BY Zenon, <1>1, <2>1 DEF ChkOn
  <2>2. CASE ChkHead(t)
    BY Zenon, <1>1, <2>2 DEF ChkHead
  <2>3. CASE ChkLock(t)
    BY Zenon, <1>1, <2>3 DEF ChkLock
  <2>4. CASE ChkScan(t)
    BY Zenon, <1>1, <2>4 DEF ChkScan
  <2> QED
    BY Zenon, <2>1, <2>2, <2>3, <2>4
<1>3. arg'[t] = arg[t] /\ gone'[t] = gone[t] /\ modes'[t] = modes[t]
  BY Zenon DEF ChkOn, ChkHead, ChkLock, ChkScan, shared, hist
<1>4. \/ pc[t] = "chk_state" /\ pc'[t] = "chk_head"
      \/ pc[t] = "chk_head" /\ pc'[t] = "chk_lock" /\ curr'[t] = head
      \/ pc[t] = "chk_lock" /\ pc'[t] = "chk_scan" /\ curr'[t] = curr[t]
      \/ /\ pc[t] = "chk_scan" /\ pc'[t] = "chk_scan" /\ curr'[t] = next[curr[t]]
         /\ ~Hit(curr[t], arg[t])
  BY Zenon, <1>1 DEF SharedInv, TypeOK, ChkOn, ChkHead, ChkLock, ChkScan, Goto
<1>5. Mild(t)
  BY Zenon, <1>2, <1>4, QuietIsMild DEF HInv
<1>6. pc[t] \in Checking \ {"chk_done"} /\ pc'[t] \in Checking \ {"chk_done"}
  BY Zenon, <1>4 DEF Checking
<1>7. pc'[t] \in {"chk_lock", "chk_scan"} =>
        \/ "miss" \in hits[t]
        \/ \E S \in SUBSET (1 .. linked) : curr'[t] \in S /\ Caught(S, arg[t])
  <2>1. CASE pc[t] = "chk_head" /\ curr'[t] = head
    <3>1. CASE \E n \in Settled : Hit(n, arg[t])
      <4>1. PICK m \in Settled : Hit(m, arg[t])
        BY Zenon, <3>1
      <4>2. m \in Live /\ Live \subseteq 1 .. linked
        BY Zenon, <1>1, Window
      <4>3. head \in Live /\ head <= m
        BY Zenon, <1>1, <4>2 DEF SharedInv, ListInv
      <4>4. Caught({n \in Live : n <= m}, arg[t])
        BY Zenon, <1>1, <4>1, <4>2, Trap
      <4>5. {n \in Live : n <= m} \in SUBSET (1 .. linked) /\ head \in {n \in Live : n <= m}
        BY Zenon, <4>2, <4>3
      <4> QED
        BY Zenon, <2>1, <4>4, <4>5
    <3>2. CASE ~\E n \in Settled : Hit(n, arg[t])
      BY Zenon, <1>1, <1>6, <3>2 DEF Answers, Listed
    <3> QED
      BY Zenon, <3>1, <3>2
  <2>2. CASE pc[t] = "chk_lock" /\ curr'[t] = curr[t]
    BY Zenon, <1>1, <2>2 DEF Answers
  <2>3. CASE pc[t] = "chk_scan" /\ curr'[t] = next[curr[t]] /\ ~Hit(curr[t], arg[t])
    BY Zenon, <1>1, <2>3 DEF Answers, Caught
  <2> QED
    BY Zenon, <1>4, <2>1, <2>2, <2>3
<1>8. pc'[t] = "chk_lock" /\ curr'[t] # NULL => \A m \in Live : curr'[t] <= m
  BY Zenon, <1>1, <1>4 DEF SharedInv, ListInv
<1>9. Trail' /\ hits' = hits
  BY Zenon, <1>3, <1>5, <1>6, <1>7, <1>8, MovesOn
<1> QED
  BY Zenon, <1>3, <1>5, <1>6, <1>9, Continues DEF Simulated

\* A check answers.
LEMMA ReplySim ==
  ASSUME HInv, NEW t \in Threads, Collect, ChkOff(t) \/ ChkFound(t) \/ ChkEnd(t)
  PROVE  Simulated
<1>1. SharedInv /\ ThreadInv(t) /\ Answers(t)
  BY Zenon, Own DEF HInv, Trail
<1>2. Quiet(t)
  <2> USE DEF SharedInv, TypeOK, Quiet, list, Return, Goto, shared, hist
  <2>1. CASE ChkOff(t)
    BY Zenon, <1>1, <2>1 DEF ChkOff
  <2>2. CASE ChkFound(t)
    BY Zenon, <1>1, <2>2 DEF ChkFound
  <2>3. CASE ChkEnd(t)
    BY Zenon, <1>1, <2>3 DEF ChkEnd
  <2> QED
    BY Zenon, <2>1, <2>2, <2>3
<1>3. arg'[t] = arg[t] /\ gone'[t] = gone[t] /\ modes'[t] = modes[t]
  BY Zenon DEF ChkOff, ChkFound, ChkEnd, shared, hist
<1>4. /\ pc'[t] = "chk_done"
      /\ \/ pc[t] = "chk_state" /\ ret'[t] = "0" /\ ~Enforcing(state)
         \/ pc[t] = "chk_scan" /\ ret'[t] = "1" /\ curr[t] \in Node /\ Hit(curr[t], arg[t])
         \/ pc[t] = "chk_scan" /\ ret'[t] = "0" /\ curr[t] = NULL
  BY Zenon, <1>1 DEF SharedInv, TypeOK, ChkOff, ChkFound, ChkEnd, Return, Goto
<1>5. Mild(t)
  BY Zenon, <1>2, <1>4, QuietIsMild DEF HInv
<1>6. pc[t] \in Checking \ {"chk_done"} /\ pc'[t] \in Checking /\ pc'[t] \notin {"chk_lock", "chk_scan"}
  BY Zenon, <1>4 DEF Checking
<1>7. Trail' /\ hits' = hits
  BY Zenon, <1>3, <1>5, <1>6, MovesOn
<1>8. \/ ret'[t] = "1" /\ "hit" \in hits[t] /\ "on" \in modes[t]
      \/ ret'[t] = "0" /\ ("miss" \in hits[t] \/ "off" \in modes[t])
  <2>1. CASE pc[t] = "chk_state" /\ ret'[t] = "0" /\ ~Enforcing(state)
    BY Zenon, <1>1, <2>1 DEF ThreadInv, WindowInv, Mode
  <2>2. CASE pc[t] = "chk_scan" /\ ret'[t] = "1" /\ curr[t] \in Node /\ Hit(curr[t], arg[t])
    <3>1. curr[t] \in 1 .. linked /\ curr[t] \notin gone[t]
      BY Zenon, <1>1, <2>2, AtNode
    <3>2. ~Counting
      BY Zenon, <1>1, <2>2, NoneCounting
    <3>3. "hit" \in hits[t]
      BY Zenon, <1>1, <1>6, <2>2, <3>1, <3>2 DEF Answers
    <3>4. "on" \in modes[t]
      BY Zenon, <1>1, <2>2 DEF ThreadInv, WindowInv
    <3> QED
      BY Zenon, <2>2, <3>3, <3>4
  <2>3. CASE pc[t] = "chk_scan" /\ ret'[t] = "0" /\ curr[t] = NULL
    <3>1. NULL \notin 1 .. linked
      BY DEF NULL
    <3> QED
      BY Zenon, <1>1, <2>3, <3>1 DEF Answers
  <2> QED
    BY Zenon, <1>4, <2>1, <2>2, <2>3
<1>9. Set!Answer(t)
  BY ZenonT(30), <1>3, <1>4, <1>5, <1>6, <1>7, <1>8, Replies
<1> QED
  BY Zenon, <1>7, <1>9, SetSteps DEF Simulated

(*****************************************************************************)
(* The steps that change the list or the state                               *)
(*****************************************************************************)
\* A step that changes nothing of what the trail is about.
LEMMA TrailFrame ==
  ASSUME Trail, UNCHANGED list, pc' = pc, arg' = arg, curr' = curr, gone' = gone, hits' = hits
  PROVE  Trail'
<1>1. (Counting' <=> Counting) /\ Live' = Live
  BY Zenon DEF Counting, Live, list
<1>2. Settled' = Settled
  BY Zenon, <1>1 DEF Settled, list
<1>3. \A n, p : Hit(n, p)' <=> Hit(n, p)
  BY Zenon DEF Hit, list
<1>4. Past'
  BY Zenon DEF Trail, Past, list
<1>5. ASSUME NEW u \in Threads PROVE Scan(u)' /\ Answers(u)'
  <2>1. Scan(u) /\ Answers(u)
    BY Zenon DEF Trail
  <2>2. Listed(arg[u])' = Listed(arg[u])
    BY Zenon, <1>2, <1>3 DEF Listed
  <2>3. \A S : Caught(S, arg[u])' <=> Caught(S, arg[u])
    BY Zenon, <1>3 DEF Caught, list
  <2>4. Scan(u)'
    BY Zenon, <1>1, <2>1 DEF Scan, list
  <2>5. Answers(u)'
    BY Zenon, <1>1, <1>3, <2>1, <2>2, <2>3 DEF Answers, list
  <2> QED
    BY Zenon, <2>4, <2>5
<1> QED
  BY Zenon, <1>4, <1>5 DEF Trail

\* sys_switch_rf_state.
LEMMA SwitchSim ==
  ASSUME HInv, NEW t \in Threads, NEW s \in States, SwitchState(t, s), Collect
  PROVE  Simulated
<1>1. /\ UNCHANGED list /\ pc' = pc /\ arg' = arg /\ curr' = curr /\ gone' = gone /\ ret' = ret
      /\ Mode(state)' = Mode(s)
      /\ \A u \in Threads : modes'[u] = IF modes[u] = {} THEN {} ELSE modes[u] \cup {Mode(s)}
  BY Zenon DEF SwitchState, list, local, Mode, Enforcing
<1>2. Settled' = Settled /\ \A n, p : Hit(n, p)' <=> Hit(n, p)
  BY Zenon, <1>1 DEF Settled, Live, Counting, Hit, list
<1>3. \A u \in Threads : hits'[u] = hits[u]
  <2>1. \A u \in Threads : Listed(arg[u])' = Listed(arg[u])
    BY Zenon, <1>1, <1>2 DEF Listed
  <2> QED
    BY Zenon, <1>1, <2>1, NothingNew DEF HInv, Trail
<1>4. hits' = hits
  <2>1. hits \in [Threads -> SUBSET {"hit", "miss"}] /\ hits' \in [Threads -> SUBSET {"hit", "miss"}]
    BY Zenon, CollectType DEF HInv, Trail
  <2> QED
    BY <1>3, <2>1
<1>5. Trail'
  BY Zenon, <1>1, <1>4, TrailFrame DEF HInv
<1>6. Present' = Present /\ Asked' = Asked /\ Given' = Given
  BY Zenon, <1>1, <1>2 DEF Present, Asked, ByChecks, Given, list
<1>7. Modes' = [u \in Threads |-> IF Modes[u] = {} THEN {} ELSE Modes[u] \cup {Mode(s)}]
  <2>1. \A u \in Threads : Modes'[u] = IF Modes[u] = {} THEN {} ELSE Modes[u] \cup {Mode(s)}
    BY <1>1, MappedAt
  <2> QED
    BY Zenon, <2>1, Mapped
<1>8. Mode(s) \in {"on", "off"}
  BY Zenon DEF Mode
<1>9. Set!Switch(Mode(s))
  BY Zenon, <1>1, <1>4, <1>6, <1>7 DEF Set!Switch
<1> QED
  BY Zenon, <1>5, <1>8, <1>9 DEF Simulated, Set!Next

\* The removal of the head is counted: it took effect before.
LEMMA RemCountSim ==
  ASSUME HInv, NEW t \in Threads, RemCount(t), Collect
  PROVE  Simulated
<1>1. SharedInv
  BY Zenon, InvSplit DEF HInv
<1>2. pc[t] = "rem_count" /\ pc' = [pc EXCEPT ![t] = "rem_done"] /\ ret'[t] = "0"
  BY Zenon, <1>1 DEF SharedInv, TypeOK, RemCount, Return, Goto
<1>3. pc'[t] = "rem_done" /\ \A u \in Threads \ {t} : SameThread(u)
  BY <1>1 DEF SharedInv, TypeOK, RemCount, Return, Goto, hist, SameThread
<1>4. ~Counting /\ ~Counting'
  BY Zenon, <1>1, <1>2, <1>3, NoneCounting DEF Counting, SameThread
<1>5. UNCHANGED list /\ state' = state
  BY Zenon DEF RemCount, list, hist
<1>6. Mild(t)
  <2>1. Settled' = Settled
    BY Zenon, <1>4, <1>5 DEF Settled, Live, list
  <2> QED
    BY Zenon, <1>3, <1>4, <1>5, <2>1 DEF Mild
<1>7. hits'[t] = {} /\ hits[t] = {} /\ Answers(t)' /\ Scan(t)'
  BY Zenon, <1>2, <1>3, Apart DEF HInv, Trail, Answers, Scan, Checking
<1>8. Trail'
  BY Zenon, <1>6, <1>7, MildTrail
<1>9. Given'[t] = Given[t] /\ Asked'[t] = Asked[t] /\ Modes'[t] = Modes[t]
  BY <1>2, <1>3, MappedAt DEF Checking
<1> QED
  BY Zenon, <1>6, <1>7, <1>8, <1>9, MildMap DEF Set!vars, Simulated

\* What a check has collected, after a step of another thread that changes the list.
LEMMA OtherAnswers ==
  ASSUME Trail, Collect, NEW u \in Threads, SameThread(u),
         \A n \in 1 .. linked' :
           ~(Counting' /\ n = linked') => \/ n \in Settled'
                                          \/ n \in 1 .. linked /\ ~(Counting /\ n = linked),
         \A n \in 1 .. linked : Hit(n, arg[u])' <=> Hit(n, arg[u]),
         pc[u] \in {"chk_lock", "chk_scan"} =>
           \/ "miss" \in hits'[u]
           \/ \E S \in SUBSET (1 .. linked') : curr[u] \in S /\ Caught(S, arg[u])',
         pc[u] = "chk_lock" /\ curr[u] # NULL => \A m \in Live' : curr[u] <= m
  PROVE  Answers(u)'
<1>1. Answers(u) /\ pc'[u] = pc[u] /\ arg'[u] = arg[u] /\ curr'[u] = curr[u] /\ gone'[u] = gone[u]
  BY Zenon DEF Trail, SameThread
<1>2. pc[u] \notin Checking => hits'[u] = {}
  BY Zenon, <1>1, CollectAt
<1>3. pc[u] \in Checking => hits'[u] = hits[u] \cup {Listed(arg[u])'}
  BY Zenon, <1>1, CollectAt
<1>4. ASSUME pc[u] \in Checking, NEW n \in (1 .. linked') \ gone[u],
             Hit(n, arg[u])', ~(Counting' /\ n = linked')
      PROVE  "hit" \in hits'[u]
  <2>1. CASE n \in Settled'
    BY Zenon, <1>3, <1>4, <2>1 DEF Listed
  <2>2. CASE n \in 1 .. linked /\ ~(Counting /\ n = linked)
    BY Zenon, <1>1, <1>3, <1>4, <2>2 DEF Answers
  <2> QED
    BY Zenon, <1>4, <2>1, <2>2
<1>5. pc[u] \in Checking => Listed(arg[u])' \in hits'[u]
  BY Zenon, <1>3
<1> QED
  BY ZenonT(30), <1>1, <1>2, <1>4, <1>5 DEF Answers

\* The set collects the same answers.
LEMMA Widens ==
  ASSUME HInv, Collect,
         \A u \in Threads : /\ pc'[u] \in Checking <=> pc[u] \in Checking
                            /\ pc[u] \in Checking => arg'[u] = arg[u]
  PROVE  hits' = Set!Widen(Present')
<1>1. \A u \in Threads : Set!Verdict(Present', arg'[u]) = Listed(arg[u])'
  BY ZenonT(30) DEF Set!Verdict, Present, Listed, Hit
<1>2. \A u \in Threads : hits[u] = {} <=> pc[u] \notin Checking
  BY Zenon DEF HInv, Trail, Answers
<1>3. \A u \in Threads : pc[u] \in Checking => Asked[u] = arg'[u]
  BY Zenon, MappedAt
<1>4. \A u \in Threads : hits'[u] = IF hits[u] = {} THEN {}
                                    ELSE hits[u] \cup {Set!Verdict(Present', Asked[u])}
  <2> SUFFICES ASSUME NEW u \in Threads
               PROVE  hits'[u] = IF hits[u] = {} THEN {}
                                 ELSE hits[u] \cup {Set!Verdict(Present', Asked[u])}
    BY Zenon
  <2>1. CASE pc[u] \in Checking
    BY Zenon, <1>1, <1>2, <1>3, <2>1, CollectAt
  <2>2. CASE pc[u] \notin Checking
    BY Zenon, <1>2, <2>2, CollectAt
  <2> QED
    BY Zenon, <2>1, <2>2
<1>5. hits' = [u \in Threads |-> hits'[u]]
  <2>1. hits' \in [Threads -> SUBSET {"hit", "miss"}]
    BY Zenon, CollectType DEF HInv, Trail
  <2> QED
    BY <2>1
<1> QED
  BY Zenon, <1>4, <1>5 DEF Set!Widen

\* A writer takes effect, or links its node: the mapping changes at most at t, in the result.
LEMMA WriterMap ==
  ASSUME NEW t \in Threads, state' = state, \A u \in Threads \ {t} : SameThread(u),
         pc[t] \in {"add_scan", "add_count", "rem_scan"},
         \/ pc'[t] = "add_count"
         \/ pc'[t] = "rem_count"
         \/ pc'[t] \in {"add_done", "rem_done"} /\ ret'[t] = "0"
  PROVE  /\ Mode(state)' = Mode(state) /\ Asked' = Asked /\ Modes' = Modes
         /\ Given[t] = "none"
         /\ Given' = IF pc'[t] = "add_count" THEN Given ELSE [Given EXCEPT ![t] = "0"]
<1>1. /\ Given[t] = "none" /\ Asked'[t] = Asked[t] /\ Modes'[t] = Modes[t]
      /\ Given'[t] = IF pc'[t] = "add_count" THEN "none" ELSE "0"
  BY MappedAt DEF Checking
<1>2. \A u \in Threads \ {t} : Given'[u] = Given[u] /\ Asked'[u] = Asked[u] /\ Modes'[u] = Modes[u]
  <2>1. SUFFICES ASSUME NEW u \in Threads \ {t}
                 PROVE  Given'[u] = Given[u] /\ Asked'[u] = Asked[u] /\ Modes'[u] = Modes[u]
    BY Zenon
  <2>2. /\ pc'[u] = pc[u] /\ arg'[u] = arg[u] /\ ret'[u] = ret[u] /\ modes'[u] = modes[u]
        /\ u \in Threads
    BY Zenon DEF SameThread
  <2> QED
    BY Zenon, <2>2, MappedAt
<1>3. Asked' = Asked /\ Modes' = Modes
  BY <1>1, <1>2, Mapped, OnlyAt
<1>4. Given' = [Given EXCEPT ![t] = Given'[t]] /\ (Given'[t] = Given[t] => Given' = Given)
  BY <1>2, Mapped, OnlyAt
<1>5. Mode(state)' = Mode(state)
  BY Zenon DEF Mode, Enforcing
<1> QED
  BY Zenon, <1>1, <1>3, <1>4, <1>5

\* An addition takes effect when it is counted.
LEMMA AddCountSim ==
  ASSUME HInv, NEW t \in Threads, AddCount(t), Collect
  PROVE  Simulated
<1>1. SharedInv /\ ThreadInv(t) /\ Trail /\ Scan(t)
  BY Zenon, Own DEF HInv, Trail
<1>2. /\ pc[t] = "add_count" /\ ret'[t] = "0" /\ arg' = arg
      /\ UNCHANGED list /\ state' = state
  BY Zenon, <1>1 DEF SharedInv, TypeOK, AddCount, Return, Goto, hist, list
<1>3. pc'[t] = "add_done" /\ \A u \in Threads \ {t} : SameThread(u)
  BY <1>1 DEF SharedInv, TypeOK, AddCount, Return, Goto, hist, SameThread
<1>4. Counting /\ ~Counting'
  BY Zenon, <1>1, <1>2, <1>3, Exclusive DEF Counting, SameThread
<1>5. /\ linked \in Live /\ arg[t] \in Paths /\ path[linked] = arg[t]
      /\ Live' = Live /\ Settled' = Live /\ Settled = Live \ {linked}
      /\ \A n, p : Hit(n, p)' <=> Hit(n, p)
  BY Zenon, <1>1, <1>2, <1>4, ListFrame DEF ThreadInv, WriterInv, Scan, Settled
<1>6. Present' = Present \cup {arg[t]} /\ arg[t] \notin Present
  <2>1. path' = path
    BY Zenon, <1>2 DEF list
  <2>2. \A n \in Live \ {linked} : path[n] # arg[t]
    BY Zenon, <1>1, <1>5 DEF SharedInv, NoDuplicates
  <2> QED
    BY Zenon, <1>5, <2>1, <2>2 DEF Present
<1>7. ASSUME NEW u \in Threads \ {t} PROVE Scan(u)' /\ Answers(u)'
  <2>1. u \in Threads /\ SameThread(u) /\ Answers(u)
    BY Zenon, <1>1, <1>3 DEF Trail
  <2>2. pc[u] \notin {"add_count", "rem_scan", "chk_scan"}
    BY Zenon, <1>1, <1>2, Exclusive
  <2>3. Scan(u)'
    BY Zenon, <2>1, <2>2 DEF Scan, SameThread
  <2>4. hits[u] \subseteq hits'[u] \/ pc[u] \notin Checking
    BY Zenon, <2>1, CollectAt DEF SameThread
  <2>5. \A S : Caught(S, arg[u])' <=> Caught(S, arg[u])
    BY Zenon, <1>2, <1>5, <2>1 DEF Caught, SameThread, list
  <2>6. pc[u] \in {"chk_lock", "chk_scan"} =>
          \/ "miss" \in hits'[u]
          \/ \E S \in SUBSET (1 .. linked') : curr[u] \in S /\ Caught(S, arg[u])'
    BY Zenon, <1>2, <2>1, <2>4, <2>5 DEF Answers, Checking, list
  <2>7. pc[u] = "chk_lock" /\ curr[u] # NULL => \A m \in Live' : curr[u] <= m
    BY Zenon, <1>5, <2>1 DEF Answers
  <2>8. \A n \in 1 .. linked' : n \in Settled' \/ (n \in 1 .. linked /\ ~(Counting /\ n = linked))
    BY Zenon, <1>2, <1>5 DEF list
  <2>9. \A n \in 1 .. linked : Hit(n, arg[u])' <=> Hit(n, arg[u])
    BY Zenon, <1>5, <2>1 DEF SameThread
  <2> QED
    BY Zenon, <1>1, <2>1, <2>3, <2>6, <2>7, <2>8, <2>9, OtherAnswers
<1>8. hits'[t] = {} /\ hits[t] = {} /\ Answers(t)' /\ Scan(t)'
  BY Zenon, <1>1, <1>2, <1>3, Apart DEF Trail, Answers, Scan, Checking
<1>9. Trail'
  <2>1. hits' \in [Threads -> SUBSET {"hit", "miss"}]
    BY Zenon, <1>1, CollectType DEF Trail
  <2>2. Past'
    BY Zenon, <1>1, <1>2 DEF Trail, Past, list
  <2> QED
    BY Zenon, <1>7, <1>8, <2>1, <2>2 DEF Trail
<1>10. hits' = Set!Widen(Present')
  <2>1. \A u \in Threads : /\ pc'[u] \in Checking <=> pc[u] \in Checking
                           /\ pc[u] \in Checking => arg'[u] = arg[u]
    BY Zenon, <1>2, <1>3 DEF SameThread, Checking
  <2> QED
    BY Zenon, <2>1, Widens
<1>11. Set!Add(t, arg[t])
  BY Zenon, <1>6, <1>8, <1>10, <1>2, <1>3, WriterMap DEF Set!Add, Set!Free, Set!Finish
<1> QED
  BY Zenon, <1>5, <1>9, <1>11, SetSteps DEF Simulated

\* An addition links its node: the set does not see it yet.
LEMMA AddLinkSim ==
  ASSUME HInv, NEW t \in Threads, AddLink(t), Collect
  PROVE  Simulated
<1> DEFINE new == linked + 1
           c   == curr[t]
<1>1. SharedInv /\ ThreadInv(t) /\ Trail
  BY Zenon, Own DEF HInv
<1>2. /\ pc[t] = "add_scan" /\ linked' = new /\ state' = state /\ arg' = arg /\ removedAt' = removedAt
      /\ path' = [path EXCEPT ![new] = arg[t]]
      /\ c \in Node => next[c] = NULL
  BY Zenon DEF AddLink, hist
<1>3. PICK f : next' = [n \in Node |-> IF n = new THEN f ELSE IF n = c THEN new ELSE next[n]]
  BY Zenon DEF AddLink
<1>4. pc'[t] = "add_count" /\ \A u \in Threads \ {t} : SameThread(u)
  BY <1>1 DEF SharedInv, TypeOK, AddLink, Goto, hist, SameThread
<1>5. linked \in Nat /\ linked < MaxNodes /\ c \in Pointer /\ (c # NULL => c \in Live)
  <2>1. linked < MaxNodes /\ c \in Pointer /\ (c # NULL => c \in Live)
    BY Zenon, <1>1, <1>2 DEF SharedInv, TypeOK, ThreadInv, WriterInv
  <2> QED
    BY Zenon, <1>1, <2>1, Window
<1>6. new \in Node /\ new \notin 1 .. linked /\ 1 .. linked \subseteq Node /\ new \in Nat
  BY <1>5, BoundsAssumption DEF Node
<1>7. \A n \in 1 .. linked : next[n] # NULL => next'[n] = next[n]
  BY Zenon, <1>2, <1>3, <1>6
<1>8. removedAt[new] = 0 /\ \A n \in Node : removedAt[n] # 0 => n \in 1 .. linked /\ n # c
  <2>1. \A n \in Node : removedAt[n] # 0 => n <= linked
    <3>1. \A n \in Node : removedAt[n] # 0 => n <= removedAt[n] /\ removedAt[n] <= linked
      BY Zenon, <1>1 DEF SharedInv, ListInv
    <3>2. \A n \in Node : removedAt[n] \in 0 .. MaxNodes
      BY Zenon, <1>1 DEF SharedInv, TypeOK
    <3> QED
      BY <1>5, <3>1, <3>2, BoundsAssumption DEF Node
  <2>2. removedAt[new] = 0 /\ \A n \in Node : removedAt[n] # 0 => n \in 1 .. linked
    BY <1>5, <1>6, <2>1 DEF Node
  <2>3. \A n \in Node : n = c => removedAt[n] = 0
    <3>1. NULL \notin Node
      BY DEF NULL, Node
    <3> QED
      BY Zenon, <1>5, <3>1 DEF Live
  <2> QED
    BY Zenon, <2>2, <2>3
<1>9. ~Counting /\ Settled = Live /\ Counting'
  BY Zenon, <1>1, <1>2, <1>4, NoneCounting DEF Counting
<1>10. Live' = Live \cup {new}
  BY SMTT(30), <1>2, <1>5, <1>8 DEF Live
<1>11. Settled' = Settled
  BY Zenon, <1>2, <1>6, <1>9, <1>10 DEF Settled, Live
<1> HIDE DEF new, c
<1>12. \A n \in 1 .. linked : path'[n] = path[n]
  BY Zenon, <1>1, <1>2, <1>6 DEF SharedInv, TypeOK
<1>13. \A n \in 1 .. linked : \A p : Hit(n, p)' <=> Hit(n, p)
  BY Zenon, <1>12 DEF Hit
<1>14. Settled \subseteq 1 .. linked
  BY Zenon, <1>1, Window
<1>15. \A u \in Threads : Listed(arg[u])' = Listed(arg[u])
  BY Zenon, <1>2, <1>11, <1>13, <1>14 DEF Listed
<1>16. \A u \in Threads : pc'[u] \in Checking <=> pc[u] \in Checking
  BY Zenon, <1>2, <1>4 DEF SameThread, Checking
<1>17. \A u \in Threads : hits'[u] = hits[u]
  BY Zenon, <1>1, <1>15, <1>16, NothingNew DEF Trail
<1>18. hits' \in [Threads -> SUBSET {"hit", "miss"}] /\ hits \in [Threads -> SUBSET {"hit", "miss"}]
  BY Zenon, <1>1, CollectType DEF Trail
<1>19. hits' = hits
  BY <1>17, <1>18
<1>20. Past'
  BY Zenon, <1>1, <1>2, <1>3, <1>6, <1>8 DEF Trail, Past
<1>21. ASSUME NEW u \in Threads \ {t} PROVE Scan(u)' /\ Answers(u)'
  <2>1. u \in Threads /\ SameThread(u) /\ Answers(u) /\ ThreadInv(u)
    BY Zenon, <1>1, <1>4, InvSplit DEF Trail, HInv
  <2>2. pc[u] \notin {"add_count", "rem_scan", "chk_scan"}
    BY Zenon, <1>1, <1>2, Exclusive
  <2>3. Scan(u)'
    BY Zenon, <2>1, <2>2 DEF Scan, SameThread
  <2>4. \A n \in 1 .. linked' : n # linked' => n \in 1 .. linked
    BY <1>2, <1>5 DEF new
  <2>5. \A n \in 1 .. linked' : ~(Counting' /\ n = linked') => n \in 1 .. linked /\ ~(Counting /\ n = linked)
    BY Zenon, <1>9, <2>4
  <2>6. ASSUME NEW S \in SUBSET (1 .. linked), Caught(S, arg[u])
        PROVE  Caught(S, arg[u])' /\ S \in SUBSET (1 .. linked')
    <3>1. NULL \notin S
      BY <2>6 DEF NULL
    <3>2. Caught(S, arg[u])'
      BY Zenon, <1>7, <1>13, <2>1, <2>6, <3>1 DEF Caught, SameThread
    <3>3. 1 .. linked \subseteq 1 .. linked'
      BY <1>2, <1>5 DEF new
    <3> QED
      BY Zenon, <3>2, <3>3
  <2>7. pc[u] \in {"chk_lock", "chk_scan"} =>
          \/ "miss" \in hits'[u]
          \/ \E S \in SUBSET (1 .. linked') : curr[u] \in S /\ Caught(S, arg[u])'
    BY Zenon, <1>19, <2>1, <2>6 DEF Answers
  <2>8. pc[u] = "chk_lock" /\ curr[u] # NULL => \A m \in Live' : curr[u] <= m
    <3>1. pc[u] = "chk_lock" => curr[u] \in 0 .. linked
      BY Zenon, <2>1 DEF ThreadInv, CursorInv
    <3>2. pc[u] = "chk_lock" => curr[u] <= new
      BY <1>5, <3>1 DEF new
    <3> QED
      BY Zenon, <1>10, <2>1, <3>2 DEF Answers
  <2>9. \A n \in 1 .. linked : Hit(n, arg[u])' <=> Hit(n, arg[u])
    BY Zenon, <1>13, <2>1 DEF SameThread
  <2> QED
    BY Zenon, <1>1, <2>1, <2>3, <2>5, <2>7, <2>8, <2>9, OtherAnswers
<1>22. Answers(t)'
  BY Zenon, <1>4, Apart DEF Checking
<1>23. Scan(t)'
  <2>1. path'[linked'] = arg'[t]
    BY Zenon, <1>1, <1>2, <1>6 DEF SharedInv, TypeOK
  <2> QED
    BY Zenon, <1>4, <2>1 DEF Scan
<1>24. Trail'
  BY Zenon, <1>18, <1>20, <1>21, <1>22, <1>23 DEF Trail
<1>25. Present' = Present
  BY Zenon, <1>11, <1>12, <1>14 DEF Present
<1>26. Mode(state)' = Mode(state) /\ Asked' = Asked /\ Modes' = Modes /\ Given' = Given
  BY Zenon, <1>2, <1>4, WriterMap
<1> QED
  BY Zenon, <1>19, <1>24, <1>25, <1>26 DEF Simulated, Set!vars

\* A removal takes effect when the node is unlinked.
LEMMA RemovalSim ==
  ASSUME HInv, NEW t \in Threads, Collect, NEW c \in Live, path[c] = arg[t], pc[t] = "rem_scan",
         removedAt' = [removedAt EXCEPT ![c] = linked], linked' = linked, path' = path,
         state' = state, arg' = arg, \A u \in Threads \ {t} : SameThread(u),
         pc'[t] = "rem_count" \/ (pc'[t] = "rem_done" /\ ret'[t] = "0"),
         Past',
         \A u \in Threads \ {t} : pc[u] = "chk_lock" =>
           \/ "miss" \in hits'[u]
           \/ \E S \in SUBSET (1 .. linked) : curr[u] \in S /\ Caught(S, arg[u])'
  PROVE  Simulated
<1>1. SharedInv /\ ThreadInv(t) /\ Trail /\ arg[t] \in Paths
  BY Zenon, Own DEF HInv, ThreadInv, WriterInv
<1>2. Live' = Live \ {c}
  BY Zenon, <1>1, Unlinking
<1>3. ~Counting /\ Settled = Live
  BY Zenon, <1>1, NoneCounting
<1>4. ~Counting'
  BY Zenon, <1>1, Exclusive DEF Counting, SameThread
<1>5. Settled' = Live \ {c}
  BY Zenon, <1>2, <1>4 DEF Settled
<1>6. Present' = Present \ {arg[t]} /\ arg[t] \in Present
  <2>1. \A n \in Live \ {c} : path[n] # arg[t]
    BY Zenon, <1>1 DEF SharedInv, NoDuplicates
  <2> QED
    BY Zenon, <1>3, <1>5, <2>1 DEF Present
<1>7. ASSUME NEW u \in Threads \ {t} PROVE Scan(u)' /\ Answers(u)'
  <2>1. u \in Threads /\ SameThread(u) /\ Answers(u)
    BY Zenon, <1>1 DEF Trail
  <2>2. pc[u] \notin {"add_count", "rem_scan", "chk_scan"}
    BY Zenon, <1>1, <2>1, Exclusive
  <2>3. Scan(u)'
    BY Zenon, <2>1, <2>2 DEF Scan, SameThread
  <2>4. \A n \in 1 .. linked' : n \in 1 .. linked /\ ~(Counting /\ n = linked)
    BY Zenon, <1>3
  <2>5. \A n \in 1 .. linked : Hit(n, arg[u])' <=> Hit(n, arg[u])
    BY Zenon, <2>1 DEF Hit, SameThread
  <2>6. pc[u] \in {"chk_lock", "chk_scan"} =>
          \/ "miss" \in hits'[u]
          \/ \E S \in SUBSET (1 .. linked') : curr[u] \in S /\ Caught(S, arg[u])'
    BY Zenon, <2>2
  <2>7. pc[u] = "chk_lock" /\ curr[u] # NULL => \A m \in Live' : curr[u] <= m
    BY Zenon, <1>2, <2>1 DEF Answers
  <2> QED
    BY Zenon, <1>1, <2>1, <2>3, <2>4, <2>5, <2>6, <2>7, OtherAnswers
<1>8. hits'[t] = {} /\ hits[t] = {} /\ Answers(t)' /\ Scan(t)'
  BY Zenon, <1>1, Apart DEF Trail, Answers, Scan, Checking
<1>9. hits' \in [Threads -> SUBSET {"hit", "miss"}]
  BY Zenon, <1>1, CollectType DEF Trail
<1>10. Trail'
  BY Zenon, <1>7, <1>8, <1>9 DEF Trail
<1>11. hits' = Set!Widen(Present')
  <2>1. \A u \in Threads : /\ pc'[u] \in Checking <=> pc[u] \in Checking
                           /\ pc[u] \in Checking => arg'[u] = arg[u]
    BY Zenon DEF SameThread, Checking
  <2> QED
    BY Zenon, <2>1, Widens
<1>12. /\ Mode(state)' = Mode(state) /\ Asked' = Asked /\ Modes' = Modes
       /\ Given[t] = "none" /\ Given' = [Given EXCEPT ![t] = "0"]
  BY Zenon, WriterMap
<1>13. Set!Remove(t, arg[t])
  BY Zenon, <1>6, <1>8, <1>11, <1>12 DEF Set!Remove, Set!Free, Set!Finish
<1> QED
  BY Zenon, <1>1, <1>10, <1>13, SetSteps DEF Simulated

\* A node points to a later one.
LEMMA Links ==
  ASSUME SharedInv, NEW n \in Live, next[n] # NULL
  PROVE  n < next[n] /\ next[n] <= linked
<1>1. n \in 1 .. linked /\ n \in Node /\ linked \in Nat
  BY Zenon, Window DEF Live
<1>2. n <= linked
  BY <1>1
<1> QED
  BY Zenon, <1>1, <1>2 DEF SharedInv, ListInv

\* The head is unlinked: no pointer between nodes changes.
LEMMA RemHeadSim ==
  ASSUME HInv, NEW t \in Threads, RemHead(t), Collect
  PROVE  Simulated
<1> DEFINE c == curr[t]
<1>1. SharedInv /\ ThreadInv(t) /\ Trail
  BY Zenon, Own DEF HInv
<1>2. /\ pc[t] = "rem_scan" /\ c \in Node /\ path[c] = arg[t]
      /\ removedAt' = [removedAt EXCEPT ![c] = linked] /\ linked' = linked /\ path' = path
      /\ next' = next /\ state' = state /\ arg' = arg
  BY Zenon DEF RemHead
<1>3. pc'[t] = "rem_count" /\ \A u \in Threads \ {t} : SameThread(u)
  BY <1>1 DEF SharedInv, TypeOK, RemHead, Goto, SameThread
<1>4. c # NULL
  BY SMTT(30), <1>2 DEF Node, NULL
<1>5. c \in Live
  BY Zenon, <1>1, <1>2, <1>4 DEF ThreadInv, WriterInv
<1> HIDE DEF c
<1>6. Past'
  <2>1. \A n \in Node : removedAt'[n] = IF n = c THEN linked ELSE removedAt[n]
    BY Zenon, <1>1, <1>2 DEF SharedInv, TypeOK
  <2>2. next[c] # NULL => next[c] <= linked
    BY Zenon, <1>1, <1>5, Links
  <2> QED
    BY Zenon, <1>1, <1>2, <2>1, <2>2 DEF Trail, Past
<1>7. ASSUME NEW u \in Threads \ {t}, pc[u] = "chk_lock"
      PROVE  \/ "miss" \in hits'[u]
             \/ \E S \in SUBSET (1 .. linked) : curr[u] \in S /\ Caught(S, arg[u])'
  <2>1. u \in Threads /\ SameThread(u) /\ Answers(u)
    BY Zenon, <1>1, <1>3, <1>7 DEF Trail
  <2>2. hits[u] \subseteq hits'[u]
    BY Zenon, <1>7, <2>1, CollectAt DEF SameThread, Checking
  <2>3. \A S : Caught(S, arg[u])' <=> Caught(S, arg[u])
    BY Zenon, <1>2, <2>1 DEF Caught, Hit, SameThread
  <2> QED
    BY Zenon, <1>7, <2>1, <2>2, <2>3 DEF Answers
<1> QED
  BY Zenon, <1>2, <1>3, <1>5, <1>6, <1>7, RemovalSim

\* After a step, the nodes up to one that matches catch a walk.
LEMMA TrapAfter ==
  ASSUME SharedInv', NEW u \in Threads, NEW m \in Live', Hit(m, arg[u])', NEW s \in Live', s <= m
  PROVE  Hit(s, arg[u])' \/ (next'[s] \in Live' /\ next'[s] <= m)
<1> SUFFICES ASSUME ~Hit(s, arg[u])' PROVE next'[s] \in Live' /\ next'[s] <= m
  BY Zenon
<1>1. s # m
  BY Zenon
<1>2. s \in 1 .. linked' /\ removedAt'[s] = 0 /\ m \in 1 .. linked'
  BY Zenon DEF Live
<1>3. s < m
  BY <1>1, <1>2
<1>4. next'[s] # NULL /\ next'[s] <= m
  BY Zenon, <1>2, <1>3 DEF SharedInv, ListInv, Covers
<1> QED
  BY Zenon, <1>4 DEF SharedInv, ListInv

\* Another node is unlinked.  A check that stands on a node unlinked before it took the
\* lock, or on the head, and that would have found the node, finds another one, or the
\* path is protected no longer.
LEMMA RemUnlinkSim ==
  ASSUME HInv, SharedInv', NEW t \in Threads, RemUnlink(t), Collect
  PROVE  Simulated
<1> DEFINE c == curr[t]
           x == prev[t]
<1>1. SharedInv /\ ThreadInv(t) /\ Trail
  BY Zenon, Own DEF HInv
<1>2. /\ pc[t] = "rem_scan" /\ c \in Node /\ path[c] = arg[t] /\ x # NULL
      /\ removedAt' = [removedAt EXCEPT ![c] = linked] /\ linked' = linked /\ path' = path
      /\ next' = [next EXCEPT ![x] = next[c]] /\ state' = state /\ arg' = arg
  BY Zenon DEF RemUnlink
<1>3. pc'[t] = "rem_done" /\ ret'[t] = "0" /\ \A u \in Threads \ {t} : SameThread(u)
  BY <1>1 DEF SharedInv, TypeOK, RemUnlink, Return, Goto, SameThread
<1>4. c # NULL
  BY SMTT(30), <1>2 DEF Node, NULL
<1>5. c \in Live /\ x \in Live /\ next[x] = c
  BY Zenon, <1>1, <1>2, <1>4 DEF ThreadInv, WriterInv
<1> HIDE DEF c, x
<1>6. /\ \A n \in Node : removedAt'[n] = IF n = c THEN linked ELSE removedAt[n]
      /\ \A n \in Node : next'[n] = IF n = x THEN next[c] ELSE next[n]
  BY Zenon, <1>1, <1>2 DEF SharedInv, TypeOK
<1>7. Live \subseteq 1 .. linked /\ 1 .. linked \subseteq Node /\ linked \in Nat
  BY Zenon, <1>1, Window
<1>8. x < c
  BY Zenon, <1>1, <1>4, <1>5, Links
<1>9. x # c
  BY <1>5, <1>7, <1>8
<1>10. removedAt[x] = 0 /\ removedAt[c] = 0
  BY Zenon, <1>5 DEF Live
<1>11. Past'
  <2>1. next[c] # NULL => next[c] <= linked
    BY Zenon, <1>1, <1>5, Links
  <2> QED
    BY Zenon, <1>1, <1>6, <1>9, <1>10, <2>1 DEF Trail, Past
<1>12. ASSUME NEW u \in Threads \ {t}, pc[u] = "chk_lock"
       PROVE  \/ "miss" \in hits'[u]
              \/ \E S \in SUBSET (1 .. linked) : curr[u] \in S /\ Caught(S, arg[u])'
  <2> DEFINE p == arg[u]
  <2>1. /\ u \in Threads /\ SameThread(u) /\ Answers(u) /\ pc[u] \in Checking /\ pc'[u] \in Checking
        /\ arg'[u] = p
    BY Zenon, <1>1, <1>3, <1>12 DEF Trail, SameThread, Checking
  <2>2. hits'[u] = hits[u] \cup {Listed(arg[u])'}
    BY Zenon, <2>1, CollectAt
  <2>3. \A n : Hit(n, arg[u])' <=> Hit(n, p)
    BY Zenon, <1>2, <2>1 DEF Hit
  <2>4. SUFFICES ASSUME "miss" \notin hits'[u]
                 PROVE  \E S \in SUBSET (1 .. linked) : curr[u] \in S /\ Caught(S, arg[u])'
    BY Zenon
  <2>5. PICK S \in SUBSET (1 .. linked) : curr[u] \in S /\ Caught(S, p)
    BY Zenon, <1>12, <2>1, <2>2, <2>4 DEF Answers
  <2>6. \A T : (\A s \in T : Hit(s, p) \/ next'[s] \in T) => Caught(T, arg[u])'
    BY Zenon, <2>3 DEF Caught
  <2> HIDE DEF p
  <2>7. \A s \in S : s # x => Hit(s, p) \/ next'[s] \in S
    BY Zenon, <1>6, <1>7, <2>5 DEF Caught
  <2>8. CASE x \notin S \/ Hit(x, p) \/ ~Hit(c, p)
    <3>1. x \in S => Hit(x, p) \/ next'[x] \in S
      BY Zenon, <1>5, <1>6, <1>7, <2>5, <2>8 DEF Caught
    <3>2. \A s \in S : Hit(s, p) \/ next'[s] \in S
      BY Zenon, <2>7, <3>1
    <3> QED
      BY Zenon, <2>5, <2>6, <3>2
  <2>9. CASE x \in S /\ ~Hit(x, p) /\ Hit(c, p)
    <3>1. PICK m \in Settled' : Hit(m, p)
      <4>1. Listed(arg[u])' # "miss"
        BY Zenon, <2>2, <2>4
      <4> QED
        BY Zenon, <2>3, <4>1 DEF Listed
    <3>2. m \in Live' /\ Live' = Live \ {c}
      BY Zenon, <1>1, <1>2, <1>5, Unlinking DEF Settled
    <3>3. m \in Live /\ m # x
      BY Zenon, <2>9, <3>1, <3>2
    <3>4. CASE x < m
      <4> DEFINE T == {n \in Live' : n <= m}
      <4>1. \A s \in T : Hit(s, p) \/ next'[s] \in T
        <5>1. \A s \in T : Hit(s, arg[u])' \/ (next'[s] \in Live' /\ next'[s] <= m)
          BY Zenon, <2>1, <2>3, <3>1, <3>2, TrapAfter
        <5> QED
          BY Zenon, <2>3, <5>1
      <4>2. x \in T
        BY <1>5, <1>7, <1>9, <3>2, <3>3, <3>4
      <4>3. T \in SUBSET (1 .. linked)
        BY Zenon, <1>7, <3>2
      <4> HIDE DEF T
      <4>4. \A s \in S \cup T : Hit(s, p) \/ next'[s] \in S \cup T
        BY Zenon, <2>7, <4>1, <4>2
      <4>5. S \cup T \in SUBSET (1 .. linked) /\ curr[u] \in S \cup T
        BY Zenon, <2>5, <4>3
      <4> QED
        BY Zenon, <2>6, <4>4, <4>5
    <3>5. CASE m < x
      <4> DEFINE T == {n \in S : n <= m}
      <4>1. curr[u] \in T
        <5>1. curr[u] # NULL
          BY <2>5 DEF NULL
        <5>2. curr[u] <= m
          BY Zenon, <1>12, <2>1, <3>3, <5>1 DEF Answers
        <5> QED
          BY Zenon, <2>5, <5>2
      <4>2. ASSUME NEW s \in S, s <= m, ~Hit(s, p) PROVE next'[s] \in S /\ next'[s] <= m
        <5>1. s \in 1 .. linked /\ s \in Node /\ m \in 1 .. linked /\ m \in Nat /\ x \in Nat
          BY SMTT(30), <1>5, <1>7, <2>5, <3>3
        <5>2. s # m
          BY Zenon, <3>1, <4>2
        <5>3. s < m /\ s # x
          BY SMTT(30), <3>5, <4>2, <5>1, <5>2
        <5>4. next'[s] = next[s] /\ next[s] \in S
          BY Zenon, <1>6, <2>5, <4>2, <5>1, <5>3 DEF Caught
        <5>5. next[s] # NULL /\ next[s] \in Nat
          <6>1. next[s] \in 1 .. linked
            BY Zenon, <2>5, <5>4
          <6> QED
            BY <6>1 DEF NULL
        <5>6. CASE Covers(s, m)
          BY Zenon, <1>1, <3>3, <5>1, <5>3, <5>4, <5>6 DEF SharedInv, ListInv
        <5>7. CASE ~Covers(s, m)
          <6>1. removedAt[s] # 0 /\ ~(m <= removedAt[s])
            BY Zenon, <4>2, <5>7 DEF Covers
          <6>2. next[s] <= removedAt[s] /\ removedAt[s] \in 0 .. MaxNodes
            BY Zenon, <1>1, <5>1, <5>5, <6>1 DEF Trail, Past, SharedInv, TypeOK
          <6>3. next[s] <= m
            BY SMTT(30), <5>1, <5>5, <6>1, <6>2, BoundsAssumption
          <6> QED
            BY Zenon, <5>4, <6>3
        <5> QED
          BY Zenon, <5>6, <5>7
      <4>3. \A s \in T : Hit(s, p) \/ next'[s] \in T
        BY Zenon, <4>2
      <4>4. T \in SUBSET (1 .. linked)
        BY Zenon, <2>5
      <4> QED
        BY Zenon, <2>6, <4>1, <4>3, <4>4
    <3>6. m \in 1 .. linked /\ x \in 1 .. linked
      BY Zenon, <1>5, <1>7, <3>3
    <3>7. x < m \/ m < x
      BY <3>3, <3>6
    <3> QED
      BY Zenon, <3>4, <3>5, <3>7
  <2> QED
    BY Zenon, <2>8, <2>9
<1> QED
  BY Zenon, <1>2, <1>3, <1>5, <1>11, <1>12, RemovalSim

(*****************************************************************************)
(* The steps together                                                        *)
(*****************************************************************************)
\* The list starts as the set does.
LEMMA StartsAsSet == HInit => Trail /\ Set!Init
<1> SUFFICES ASSUME HInit PROVE Trail /\ Set!Init
  OBVIOUS
<1>1. /\ linked = 0 /\ state = RF_OFF /\ hits = [t \in Threads |-> {}]
      /\ pc = [t \in Threads |-> "idle"] /\ removedAt = [n \in Node |-> 0]
  BY Zenon DEF HInit, Init
<1>2. Live = {}
  BY <1>1 DEF Live
<1>3. Present = {}
  BY Zenon, <1>2 DEF Present, Settled
<1>4. Mode(state) = "off"
  BY Zenon, <1>1 DEF Mode, Enforcing
<1>5. \A t \in Threads : pc[t] = "idle"
  BY Zenon, <1>1
<1>6. /\ Asked = [t \in Threads |-> NoPath] /\ Modes = [t \in Threads |-> {}]
      /\ Given = [t \in Threads |-> "none"]
  BY <1>5 DEF Asked, Modes, Given, ByChecks, Checking
<1>7. \A t \in Threads : Scan(t) /\ Answers(t)
  BY Zenon, <1>1, <1>5 DEF Scan, Answers, Checking
<1>8. Past
  BY Zenon, <1>1 DEF Past
<1>9. hits \in [Threads -> SUBSET {"hit", "miss"}]
  BY Zenon, <1>1
<1> QED
  BY Zenon, <1>1, <1>3, <1>4, <1>6, <1>7, <1>8, <1>9 DEF Trail, Set!Init

\* A step that changes nothing.
LEMMA StutterSim ==
  ASSUME HInv, UNCHANGED <<vars, hits>>
  PROVE  Simulated
<1>1. /\ UNCHANGED list /\ pc' = pc /\ arg' = arg /\ curr' = curr /\ gone' = gone /\ hits' = hits
      /\ ret' = ret /\ modes' = modes /\ state' = state
  BY Zenon DEF vars, shared, local, hist, list
<1>2. Trail'
  BY Zenon, <1>1, TrailFrame DEF HInv
<1>3. Settled' = Settled
  BY Zenon, <1>1 DEF Settled, Live, Counting, list
<1>4. /\ Present' = Present /\ Mode(state)' = Mode(state)
      /\ Asked' = Asked /\ Modes' = Modes /\ Given' = Given
  BY Zenon, <1>1, <1>3 DEF Present, Mode, Enforcing, Asked, Modes, ByChecks, Given, list
<1> QED
  BY Zenon, <1>1, <1>2, <1>4 DEF Simulated, Set!vars

\* Every step of the list is one of the set, or changes nothing there.
LEMMA Simulation ==
  ASSUME HInv, Inv', size = 0 => Settled = {}, [HNext]_<<vars, hits>>
  PROVE  Simulated
<1>1. CASE UNCHANGED <<vars, hits>>
  BY Zenon, <1>1, StutterSim
<1>2. ASSUME Collect, NEW t \in Threads, Call(t) PROVE Simulated
  BY ZenonT(30), <1>2, SwitchSim, WriterSim, AskSim, NoMemorySim, DeathSim, PrintSim DEF Call
<1>3. ASSUME Collect, NEW t \in Threads, Acquire(t) PROVE Simulated
  BY ZenonT(30), <1>3, WriterSim, RemScanSim, WalkSim DEF Acquire
<1>4. ASSUME Collect, NEW t \in Threads, Step(t) PROVE Simulated
  <2>1. SharedInv'
    BY Zenon DEF Inv, SharedInv
  <2> QED
    BY ZenonT(30), <1>4, <2>1, WriterSim, AddExistsSim, AddLinkSim, AddCountSim, RemScanSim,
       RemNotFoundSim, RemHeadSim, RemCountSim, RemUnlinkSim, ReplySim, WalkSim, DeathSim,
       PrintSim, ResumeSim DEF Step
<1> QED
  BY Zenon, <1>1, <1>2, <1>3, <1>4 DEF HNext, Next
================================================================================
