----------------------------- MODULE MonitorProofs -----------------------------
(*****************************************************************************)
(* Monitor: types, refusals and their records, for any number of threads,    *)
(* any paths, any probes and any bound on the operations.                    *)
(*****************************************************************************)
EXTENDS Monitor, TLAPS, FiniteSetTheorems

\* An administrator between its checks and the end of its call has a state that
\* exists, or a path that may be listed.
AdminInv(t) ==
  /\ pc[t] \in {"sw_store", "sw_probe"} => goal[t] \in RFStates
  /\ pc[t] \in {"add", "remove"} => targets[t][1] \in Entries

TypeInv == TypeOK /\ \A t \in Admins : AdminInv(t)

\* If a sequence of three checks has no error, the first one has none.
LEMMA FirstErrorZero ==
  ASSUME NEW a \in Int, NEW b \in Int, NEW c \in Int
  PROVE  /\ FirstError(<<a, b, c>>) \in {0, a, b, c}
         /\ FirstError(<<a, b, c>>) = 0 => a = 0
<1> DEFINE checks == <<a, b, c>>
           First(i) == checks[i] # 0 /\ \A j \in 1 .. i - 1 : checks[j] = 0
<1>1. DOMAIN checks = 1 .. 3 /\ checks[1] = a /\ checks[2] = b /\ checks[3] = c
  BY SMT
<1>2. CASE a = 0 /\ b = 0 /\ c = 0
  <2>1. \A i \in 1 .. 3 : i = 1 \/ i = 2 \/ i = 3
    BY SMT
  <2>2. ~ \E i \in DOMAIN checks : checks[i] # 0
    BY Zenon, <1>1, <1>2, <2>1
  <2> QED
    BY Zenon, <1>2, <2>2 DEF FirstError
<1>3. CASE ~(a = 0 /\ b = 0 /\ c = 0)
  <2>1. \E i \in DOMAIN checks : First(i)
    <3>1. CASE a # 0
      <4>1. First(1) /\ 1 \in DOMAIN checks
        BY SMT, <1>1, <3>1
      <4> QED
        BY Zenon, <4>1
    <3>2. CASE a = 0 /\ b # 0
      <4>1. First(2) /\ 2 \in DOMAIN checks
        BY SMT, <1>1, <3>2
      <4> QED
        BY Zenon, <4>1
    <3>3. CASE a = 0 /\ b = 0
      <4>1. First(3) /\ 3 \in DOMAIN checks
        BY SMT, <1>1, <1>3, <3>3
      <4> QED
        BY Zenon, <4>1
    <3> QED
      BY Zenon, <3>1, <3>2, <3>3
  <2> DEFINE k == CHOOSE i \in DOMAIN checks : First(i)
  <2>2. k \in DOMAIN checks /\ First(k)
    BY Zenon, <2>1
  <2>3. FirstError(checks) = checks[k]
    BY Zenon, <2>1 DEF FirstError
  <2>4. k = 1 \/ k = 2 \/ k = 3
    <3> HIDE DEF k
    <3> QED
      BY SMT, <1>1, <2>2
  <2> QED
    BY Zenon, <1>1, <2>2, <2>3, <2>4
<1> QED
  BY Zenon, <1>2, <1>3

\* The checks of a switch give a result, and let states through that exist.
LEMMA SwitchChecks ==
  ASSUME NEW s \in Int, NEW c \in Callers
  PROVE  LET e == FirstError(<<rf_state_check(s), password_check(c), euid_check(c)>>)
         IN  e \in Results /\ (e = 0 => s \in RFStates)
<1>1. /\ rf_state_check(s) \in {0, EINVAL} /\ password_check(c) \in {0, EAGAIN, EACCES}
      /\ euid_check(c) \in {0, EPERM}
  BY Zenon DEF rf_state_check, password_check, euid_check, Callers
<1>2. rf_state_check(s) = 0 => s \in RFStates
  BY SMT DEF rf_state_check, EINVAL, RFStates, RF_ON, RF_REC_OFF
<1>3. {0, EINVAL, EAGAIN, EACCES, EPERM} \subseteq Int \cap Results
  BY SMT DEF Results, EINVAL, EAGAIN, EACCES, EPERM, RFStates, RF_ON, RF_REC_OFF
<1> QED
  BY SMT, <1>1, <1>2, <1>3, FirstErrorZero

\* Those of an addition or removal give one.
LEMMA RecChecks ==
  ASSUME NEW s \in RFStates, NEW c \in Callers
  PROVE  LET e == FirstError(<<is_rf_rec(s), password_check(c), euid_check(c)>>)
         IN  e \in Results
<1>1. /\ is_rf_rec(s) \in {0, EPERM} /\ password_check(c) \in {0, EAGAIN, EACCES}
      /\ euid_check(c) \in {0, EPERM}
  BY Zenon DEF is_rf_rec, password_check, euid_check, Callers
<1>2. {0, EAGAIN, EACCES, EPERM} \subseteq Int \cap Results
  BY SMT DEF Results, EAGAIN, EACCES, EPERM, RFStates, RF_ON, RF_REC_OFF
<1> QED
  BY SMT, <1>1, <1>2, FirstErrorZero

\* Every entry handler looks up paths.
LEMMA HandlerType ==
  ASSUME NEW r, r.path \in Paths, r.other \in Paths
  PROVE  EntryHandler(r) \in Seq(Paths)
<1>1. /\ << >> \in Seq(Paths)
      /\ \A p, q \in Paths : <<p>> \in Seq(Paths) /\ <<p, q>> \in Seq(Paths)
  BY SMT
<1>2. Parent[r.path] \in Paths
  BY Zenon, PathsAssumption
<1>3. open_entry_handler(r) \in Seq(Paths)
  BY Zenon, <1>1 DEF open_entry_handler
<1> QED
  BY Zenon, <1>1, <1>2, <1>3
     DEF EntryHandler, inode_unlink_entry_handler, inode_link_entry_handler,
         inode_symlink_entry_handler, inode_create_entry_handler, inode_mkdir_entry_handler,
         inode_rename_entry_handler, inode_rmdir_entry_handler, vfs_write_entry_handler,
         vfs_lseek_entry_handler

\* What the primed variables are made of.
LEMMA Members ==
  /\ {"idle", "done", "oops", "sw_store", "sw_probe", "add", "remove"} \subseteq Labels
  /\ {"chk_state", "chk_list", "body", "return"} \subseteq Labels
  /\ << >> \in Seq(Paths) /\ 1 \in Nat \ {0} /\ RF_OFF \in Int /\ {0, 1} \subseteq Results
  /\ {EACCES, EEXIST, ENOMEM} \subseteq Results
  /\ "none" \in Kinds
BY SMT DEF Labels, Kinds, RF_OFF, Results, RFStates, RF_ON, RF_REC_OFF

LEMMA Update ==
  ASSUME NEW S, NEW T, NEW f \in [S -> T], NEW s \in S, NEW v \in T
  PROVE  [f EXCEPT ![s] = v] \in [S -> T]
OBVIOUS

LEMMA GotoType ==
  ASSUME TypeOK, NEW t \in Actors, NEW label \in Labels, Goto(t, label)
  PROVE  /\ pc' \in [Actors -> Labels] /\ pc'[t] = label
         /\ \A u \in Actors \ {t} : pc'[u] = pc[u]
BY Zenon, Update DEF TypeOK, Goto

LEMMA ReturnType ==
  ASSUME TypeOK, NEW t \in Actors, NEW v \in Results, Return(t, v)
  PROVE  /\ pc' \in [Actors -> Labels] /\ pc'[t] = "done"
         /\ \A u \in Actors \ {t} : pc'[u] = pc[u]
         /\ ret' \in [Actors -> Results]
<1>1. pc' \in [Actors -> Labels] /\ pc'[t] = "done" /\ \A u \in Actors \ {t} : pc'[u] = pc[u]
  BY Zenon, Members, GotoType DEF Return
<1>2. ret' \in [Actors -> Results]
  BY Zenon, Update DEF TypeOK, Return
<1> QED
  BY Zenon, <1>1, <1>2

\* A step of one actor does not disturb the others.
LEMMA AdminFrame ==
  ASSUME TypeInv, NEW t \in Actors,
         \A u \in Actors \ {t} : pc'[u] = pc[u] /\ goal'[u] = goal[u] /\ targets'[u] = targets[u],
         t \in Admins => AdminInv(t)', TypeOK'
  PROVE  TypeInv'
BY Zenon DEF TypeInv, AdminInv, Actors

\* What a call that is let through, or is not, leaves behind.
LEMMA AuthoriseType ==
  ASSUME TypeOK, NEW t \in Actors, NEW e \in Results, NEW label \in Labels, NEW s \in Int,
         NEW paths \in Seq(Paths), Authorise(t, e, label, s, paths)
  PROVE  /\ pc' \in [Actors -> Labels] /\ goal' \in [Actors -> Int]
         /\ targets' \in [Actors -> Seq(Paths)] /\ ret' \in [Actors -> Results]
<1>1. CASE e = 0
  <2>1. /\ Goto(t, label) /\ goal' = [goal EXCEPT ![t] = s]
        /\ targets' = [targets EXCEPT ![t] = paths] /\ ret' = ret
    BY Zenon, <1>1 DEF Authorise
  <2> QED
    BY Zenon, <2>1, Update DEF TypeOK, Goto
<1>2. CASE e # 0
  <2>1. Goto(t, "done") /\ goal' = goal /\ targets' = targets /\ ret' = [ret EXCEPT ![t] = e]
    BY Zenon, <1>2 DEF Authorise, Return
  <2> QED
    BY Zenon, <2>1, Members, Update DEF TypeOK, Goto
<1> QED
  BY Zenon, <1>1, <1>2

\* What is left of a call that has returned.
LEMMA RestType ==
  ASSUME TypeOK, NEW t \in Actors, Rest(t)
  PROVE  /\ pc' \in [Actors -> Labels] /\ kind' \in [Actors -> Kinds]
         /\ targets' \in [Actors -> Seq(Paths)] /\ idx' \in [Actors -> Nat \ {0}]
         /\ blocked' \in [Actors -> BOOLEAN]
         /\ goal' \in [Actors -> Int] /\ effect' \in [Actors -> BOOLEAN]
         /\ ret' \in [Actors -> Results] /\ lasting' \in [Actors -> SUBSET Entries]
         /\ steady' \in [Actors -> BOOLEAN] /\ armed' \in [Actors -> BOOLEAN]
<1>1. /\ pc' \in [Actors -> Labels] /\ kind' \in [Actors -> Kinds]
      /\ targets' \in [Actors -> Seq(Paths)] /\ idx' \in [Actors -> Nat \ {0}]
      /\ blocked' \in [Actors -> BOOLEAN]
  BY Zenon, Members, Update DEF TypeOK, Rest, Goto
<1>2. /\ goal' \in [Actors -> Int] /\ effect' \in [Actors -> BOOLEAN]
      /\ ret' \in [Actors -> Results] /\ lasting' \in [Actors -> SUBSET Entries]
      /\ steady' \in [Actors -> BOOLEAN] /\ armed' \in [Actors -> BOOLEAN]
  BY Zenon, Members, Update DEF TypeOK, Rest
<1> QED
  BY Zenon, <1>1, <1>2

\* The calls of the administrators.
LEMMA AdminCallType ==
  ASSUME TypeInv, NEW t \in Admins, AdminCall(t)
  PROVE  TypeInv'
<1>0. t \in Actors /\ TypeOK /\ AdminInv(t)
  BY Zenon DEF Actors, TypeInv
<1>1. ASSUME NEW s \in States, NEW c \in Callers, SwitchCall(t, s, c) PROVE TypeInv'
  <2> DEFINE e == FirstError(<<rf_state_check(s), password_check(c), euid_check(c)>>)
  <2>1. s \in Int /\ e \in Results /\ (e = 0 => s \in RFStates)
    BY Zenon, SwitchChecks, ProbesAssumption
  <2>2. << >> \in Seq(Paths)
    BY Zenon, Members
  <2>3. Authorise(t, e, "sw_store", s, << >>)
    BY Zenon, <1>1 DEF SwitchCall
  <2> HIDE DEF e
  <2>4. TypeOK'
    <3>1. /\ pc' \in [Actors -> Labels] /\ goal' \in [Actors -> Int]
          /\ targets' \in [Actors -> Seq(Paths)] /\ ret' \in [Actors -> Results]
      BY Zenon, <1>0, <2>1, <2>2, <2>3, Members, AuthoriseType
    <3> QED
      BY Zenon, <1>0, <1>1, <3>1 DEF TypeOK, SwitchCall, control, journal, window
  <2>5. AdminInv(t)'
    BY Zenon, <1>0, <2>1, <2>3 DEF TypeOK, AdminInv, Authorise, Return, Goto
  <2> QED
    BY Zenon, <1>0, <2>3, <2>4, <2>5, AdminFrame DEF TypeOK, Authorise, Return, Goto
<1>2. ASSUME NEW p \in Entries, NEW c \in Callers, NEW label \in {"add", "remove"},
             Reconfigure(t, p, c, label)
      PROVE  TypeInv'
  <2> DEFINE e == FirstError(<<is_rf_rec(state), password_check(c), euid_check(c)>>)
  <2>1. e \in Results
    BY Zenon, <1>0, RecChecks DEF TypeOK
  <2>2. <<p>> \in Seq(Paths) /\ <<p>>[1] = p
    BY SMT, PathsAssumption
  <2>3. Authorise(t, e, label, goal[t], <<p>>)
    BY Zenon, <1>2 DEF Reconfigure
  <2> HIDE DEF e
  <2>4. TypeOK'
    <3>1. /\ pc' \in [Actors -> Labels] /\ goal' \in [Actors -> Int]
          /\ targets' \in [Actors -> Seq(Paths)] /\ ret' \in [Actors -> Results]
      BY Zenon, <1>0, <1>2, <2>1, <2>2, <2>3, Members, AuthoriseType DEF TypeOK
    <3> QED
      BY Zenon, <1>0, <1>2, <3>1 DEF TypeOK, Reconfigure, control, journal, window
  <2>5. AdminInv(t)'
    BY Zenon, <1>0, <1>2, <2>1, <2>2, <2>3 DEF TypeOK, AdminInv, Authorise, Return, Goto
  <2> QED
    BY Zenon, <1>0, <2>3, <2>4, <2>5, AdminFrame DEF TypeOK, Authorise, Return, Goto
<1>3. ASSUME NEW v \in Results, Return(t, v),
             UNCHANGED <<control, journal, kind, targets, idx, blocked, goal, effect, window, begun>>
      PROVE  TypeInv'
  <2>1. TypeOK'
    BY Zenon, <1>0, <1>3, Members, Update DEF TypeOK, Return, Goto, control, journal, window
  <2>2. AdminInv(t)'
    BY Zenon, <1>0, <1>3 DEF TypeOK, AdminInv, Return, Goto
  <2> QED
    BY Zenon, <1>0, <1>3, <2>1, <2>2, AdminFrame DEF TypeOK, Return, Goto
<1>4. state \in Results /\ ENOMEM \in Results
  BY Zenon, <1>0 DEF TypeOK, Results
<1> QED
  BY Zenon, <1>1, <1>2, <1>3, <1>4 DEF AdminCall, AddCall, RemoveCall, GetState, NoMemory

\* The steps of the administrators.
LEMMA AdminStepType ==
  ASSUME TypeInv, NEW t \in Admins, AdminStep(t)
  PROVE  TypeInv'
<1>0. t \in Actors /\ TypeOK /\ AdminInv(t)
  BY Zenon DEF Actors, TypeInv
<1>1. CASE SwitchStore(t)
  <2>1. TypeOK'
    BY Zenon, <1>0, <1>1 DEF TypeOK, AdminInv, Labels, SwitchStore, Goto, journal, local
  <2>2. AdminInv(t)'
    BY Zenon, <1>0, <1>1 DEF TypeOK, AdminInv, SwitchStore, Goto, local
  <2> QED
    BY Zenon, <1>0, <1>1, <2>1, <2>2, AdminFrame DEF TypeOK, SwitchStore, Goto, local
<1>2. CASE SwitchProbe(t)
  <2>1. idx[t] + 1 \in Nat \ {0}
    BY SMT, <1>0 DEF TypeOK
  <2>2. (Registered /\ Enforcing(goal[t])) \in BOOLEAN
    BY Zenon
  <2>3. TypeOK'
    BY Zenon, <1>0, <1>2, <2>1, <2>2 DEF TypeOK, SwitchProbe, journal, window
  <2>4. AdminInv(t)'
    BY Zenon, <1>0, <1>2 DEF AdminInv, SwitchProbe
  <2> QED
    BY Zenon, <1>0, <1>2, <2>3, <2>4, AdminFrame DEF SwitchProbe
<1>3. ASSUME NEW v \in Results, Return(t, v),
             UNCHANGED <<control, journal, kind, targets, idx, blocked, goal, effect, window, begun>>
      PROVE  TypeInv'
  <2>1. TypeOK'
    BY Zenon, <1>0, <1>3, Members, Update DEF TypeOK, Return, Goto, control, journal, window
  <2>2. AdminInv(t)'
    BY Zenon, <1>0, <1>3 DEF TypeOK, AdminInv, Return, Goto
  <2> QED
    BY Zenon, <1>0, <1>3, <2>1, <2>2, AdminFrame DEF TypeOK, Return, Goto
<1>4. CASE SwitchReturn(t)
  <2>1. \A v \in {state} \cup IF AllocFails THEN {ENOMEM} ELSE {} : v \in Results
    BY Zenon, <1>0 DEF TypeOK, Results
  <2> QED
    BY Zenon, <1>3, <1>4, <2>1 DEF SwitchReturn
<1>5. CASE Add(t) \/ Remove(t)
  <2>2. targets[t][1] \in Entries
    BY Zenon, <1>0, <1>5 DEF AdminInv, Add, Remove
  <2>3. \A u \in Actors : lasting[u] \ {targets[t][1]} \in SUBSET Entries
    BY Zenon, <1>0 DEF TypeOK
  <2>4. TypeOK'
    <3>1. list' \subseteq Entries /\ lasting' \in [Actors -> SUBSET Entries]
      BY SMTT(20), <1>0, <1>5, <2>2, <2>3 DEF TypeOK, Add, Remove, window
    <3>2. \E v \in Results : Return(t, v)
      <4>1. \A p : {IF p \in list THEN EEXIST ELSE 0, IF p \in list THEN 0 ELSE 1} \subseteq Results
        BY Zenon, Members
      <4> QED
        BY Zenon, <1>5, <4>1 DEF Add, Remove
    <3>3. pc' \in [Actors -> Labels] /\ ret' \in [Actors -> Results]
      BY Zenon, <1>0, <3>2, ReturnType
    <3> QED
      BY ZenonT(30), <1>0, <1>5, <3>1, <3>3 DEF TypeOK, Add, Remove, journal, window
  <2>5. AdminInv(t)'
    BY Zenon, <1>0, <1>5 DEF TypeOK, AdminInv, Add, Remove, Return, Goto
  <2> QED
    BY Zenon, <1>0, <1>5, <2>4, <2>5, AdminFrame DEF TypeOK, Add, Remove, Return, Goto
<1>6. CASE Resume(t)
  <2>2. TypeOK'
    BY Zenon, <1>0, <1>6, RestType DEF TypeOK, Resume, Rest, control, journal
  <2>3. AdminInv(t)'
    BY Zenon, <1>0, <1>6 DEF TypeOK, AdminInv, Resume, Rest, Goto
  <2> QED
    BY Zenon, <1>0, <1>6, <2>2, <2>3, AdminFrame DEF TypeOK, Resume, Rest, Goto
<1> QED
  BY Zenon, <1>1, <1>2, <1>4, <1>5, <1>6 DEF AdminStep

\* Nobody but an administrator moves: those keep what they have.
LEMMA OthersFrame ==
  ASSUME TypeInv, NEW t \in Users \cup Workers, TypeOK',
         \A u \in Actors \ {t} : pc'[u] = pc[u] /\ goal'[u] = goal[u] /\ targets'[u] = targets[u]
  PROVE  TypeInv'
BY Zenon, ActorsAssumption, AdminFrame DEF Actors

\* The function is called, by a user or by the deferred work.
LEMMA BeginType ==
  ASSUME TypeOK, NEW t \in Actors, NEW r, Begin(t, r),
         r.kind \in Kinds, r.path \in Paths, r.other \in Paths
  PROVE  /\ pc' \in [Actors -> Labels] /\ kind' \in [Actors -> Kinds]
         /\ targets' \in [Actors -> Seq(Paths)] /\ idx' \in [Actors -> Nat \ {0}]
         /\ lasting' \in [Actors -> SUBSET Entries]
         /\ steady' \in [Actors -> BOOLEAN] /\ armed' \in [Actors -> BOOLEAN]
<1>1. EntryHandler(r) \in Seq(Paths) /\ list \in SUBSET Entries
  BY Zenon, HandlerType DEF TypeOK
<1>2. (Probed(r.kind) /\ Enforcing(state)) \in BOOLEAN /\ Armed \in BOOLEAN
  BY Zenon DEF Armed
<1>3. \E label \in Labels : Goto(t, label)
  <2>1. (IF Probed(r.kind) THEN "chk_state" ELSE "body") \in Labels
    BY Zenon, Members
  <2> QED
    BY Zenon, <2>1 DEF Begin
<1>4. pc' \in [Actors -> Labels] /\ kind' \in [Actors -> Kinds]
  <2>1. pc' \in [Actors -> Labels]
    BY Zenon, <1>3, GotoType
  <2> QED
    BY Zenon, <2>1, Update DEF TypeOK, Begin
<1>5. targets' \in [Actors -> Seq(Paths)] /\ idx' \in [Actors -> Nat \ {0}]
  BY Zenon, <1>1, Members, Update DEF TypeOK, Begin
<1>6. /\ lasting' \in [Actors -> SUBSET Entries]
      /\ steady' \in [Actors -> BOOLEAN] /\ armed' \in [Actors -> BOOLEAN]
  BY Zenon, <1>1, <1>2, Update DEF TypeOK, Begin
<1> QED
  BY Zenon, <1>4, <1>5, <1>6

\* The steps of a file operation.
LEMMA FileStepType ==
  ASSUME TypeInv, NEW t \in Users \cup Workers, FileStep(t)
  PROVE  TypeInv'
<1>0. t \in Actors /\ TypeOK
  BY Zenon DEF Actors, TypeInv
<1>1. idx[t] + 1 \in Nat \ {0} /\ lost + 1 \in Nat
  BY SMT, <1>0 DEF TypeOK
<1>2. CASE CheckState(t) \/ CheckList(t)
  <2>1. pc' \in [Actors -> Labels]
    <3>1. pc' = pc \/ Goto(t, "chk_list") \/ Goto(t, "chk_state") \/ Goto(t, "body")
      BY Zenon, <1>2 DEF CheckState, CheckList
    <3> QED
      BY Zenon, <1>0, <3>1, Members, GotoType DEF TypeOK
  <2>2. idx' \in [Actors -> Nat \ {0}]
    <3>1. idx' = idx \/ idx' = [idx EXCEPT ![t] = idx[t] + 1]
      BY Zenon, <1>2 DEF CheckState, CheckList
    <3> QED
      BY ZenonT(30), <1>0, <1>1, <3>1, Update DEF TypeOK
  <2>3. blocked' \in [Actors -> BOOLEAN]
    <3>1. blocked' = blocked \/ blocked' = [blocked EXCEPT ![t] = TRUE]
      BY Zenon, <1>2 DEF CheckState, CheckList
    <3> QED
      BY Zenon, <1>0, <3>1, Update DEF TypeOK
  <2>4. UNCHANGED <<control, journal, kind, targets, goal, effect, ret, window, begun>>
    BY Zenon, <1>2 DEF CheckState, CheckList
  <2>5. TypeOK'
    BY Zenon, <1>0, <2>1, <2>2, <2>3, <2>4 DEF TypeOK, control, journal, window
  <2>6. \A u \in Actors \ {t} : pc'[u] = pc[u]
    BY Zenon, <1>0, <1>2 DEF TypeOK, CheckState, CheckList, Goto
  <2> QED
    BY Zenon, <2>4, <2>5, <2>6, OthersFrame
<1>3. CASE CheckNullPath(t)
  <2>1. pc' \in [Actors -> Labels] /\ \A u \in Actors \ {t} : pc'[u] = pc[u]
    BY Zenon, <1>0, <1>3, Members, GotoType DEF CheckNullPath
  <2>2. queue' \in Nat /\ logged' \in Nat /\ refused' \in Nat /\ lost' \in Nat
    BY Zenon, <1>0, <1>1, <1>3 DEF TypeOK, CheckNullPath, Lose, journal
  <2>3. TypeOK'
    BY Zenon, <1>0, <1>3, <2>1, <2>2 DEF TypeOK, CheckNullPath, local, window
  <2> QED
    BY Zenon, <1>3, <2>1, <2>3, OthersFrame DEF CheckNullPath, local
<1>4. CASE CheckPass(t)
  <2>1. pc' \in [Actors -> Labels] /\ \A u \in Actors \ {t} : pc'[u] = pc[u]
    BY Zenon, <1>0, <1>4, Members, GotoType DEF CheckPass
  <2>2. TypeOK'
    BY Zenon, <1>0, <1>4, <2>1 DEF TypeOK, CheckPass, control, journal, local, window
  <2> QED
    BY Zenon, <1>4, <2>1, <2>2, OthersFrame DEF CheckPass, local
<1>5. CASE Body(t)
  <2>1. pc' \in [Actors -> Labels] /\ \A u \in Actors \ {t} : pc'[u] = pc[u]
    BY Zenon, <1>0, <1>5, Members, GotoType DEF Body
  <2>2. effect' \in [Actors -> BOOLEAN]
    BY Zenon, <1>0, <1>5, Update DEF TypeOK, Body, IsHook
  <2>3. TypeOK'
    BY Zenon, <1>0, <1>5, <2>1, <2>2 DEF TypeOK, Body, control, journal, window
  <2> QED
    BY Zenon, <1>5, <2>1, <2>3, OthersFrame DEF Body
<1>6. CASE ReturnPlain(t)
  <2>1. /\ pc' \in [Actors -> Labels] /\ \A u \in Actors \ {t} : pc'[u] = pc[u]
        /\ ret' \in [Actors -> Results]
    BY Zenon, <1>0, <1>6, Members, ReturnType DEF ReturnPlain
  <2>2. effect' \in [Actors -> BOOLEAN]
    BY Zenon, <1>0, <1>6, Update DEF TypeOK, ReturnPlain
  <2>3. TypeOK'
    BY Zenon, <1>0, <1>6, <2>1, <2>2 DEF TypeOK, ReturnPlain, control, journal, window
  <2> QED
    BY Zenon, <1>6, <2>1, <2>3, OthersFrame DEF ReturnPlain
<1> QED
  BY Zenon, <1>2, <1>3, <1>4, <1>5, <1>6 DEF FileStep

\* The other steps of the users and of the workers.
LEMMA OtherStepType ==
  ASSUME TypeInv, NEW t \in Users \cup Workers,
         \/ \E r \in Requests : Operate(t, r)
         \/ Resume(t) \/ ret_handler(t) \/ WorkerRefused(t) \/ WorkerNoMemory(t)
         \/ WorkBegin(t) \/ WorkWrite(t) \/ WorkWriteFails(t) \/ WorkNoLog(t) \/ WorkNullPath(t)
  PROVE  TypeInv'
<1>0. t \in Actors /\ TypeOK
  BY Zenon DEF Actors, TypeInv
<1>1. /\ {queue + 1, logged + 1, refused + 1, lost + 1} \subseteq Nat
      /\ queue > 0 => queue - 1 \in Nat
      /\ begun < MaxOps => begun + 1 \in 0 .. MaxOps
  BY SMT, <1>0, ProbesAssumption DEF TypeOK
<1>2. ASSUME NEW r \in Requests, Operate(t, r) PROVE TypeInv'
  <2>1. r.kind \in Kinds /\ r.path \in Paths /\ r.other \in Paths
    BY Zenon, ProbesAssumption DEF Kinds
  <2>2. Begin(t, r)
    BY Zenon, <1>2 DEF Operate
  <2>3. TypeOK'
    BY Zenon, <1>0, <1>1, <1>2, <2>1, <2>2, BeginType
       DEF TypeOK, Operate, Begin, control, journal
  <2> QED
    BY Zenon, <1>0, <2>2, <2>3, OthersFrame DEF TypeOK, Begin, Goto
<1>3. CASE WorkBegin(t)
  <2>1. LogOpen.kind \in Kinds /\ LogOpen.path \in Paths /\ LogOpen.other \in Paths
    BY Zenon, PathsAssumption DEF Kinds, LogOpen
  <2>2. Begin(t, LogOpen)
    BY Zenon, <1>3 DEF WorkBegin
  <2>3. TypeOK'
    BY Zenon, <1>0, <1>1, <1>3, <2>1, <2>2, BeginType
       DEF TypeOK, WorkBegin, Begin, control
  <2> QED
    BY Zenon, <1>0, <2>2, <2>3, OthersFrame DEF TypeOK, Begin, Goto
<1>4. CASE Resume(t) \/ WorkWrite(t) \/ WorkWriteFails(t) \/ WorkerNoMemory(t)
  <2>1. Rest(t)
    BY Zenon, <1>4 DEF Resume, WorkWrite, WorkWriteFails, WorkerNoMemory
  <2>2. queue' \in Nat /\ logged' \in Nat /\ refused' \in Nat /\ lost' \in Nat
    BY Zenon, <1>0, <1>1, <1>4
       DEF TypeOK, Resume, WorkWrite, WorkWriteFails, WorkerNoMemory, Lose, journal
  <2>3. TypeOK'
    BY Zenon, <1>0, <2>1, <2>2, RestType DEF TypeOK, Rest, control
  <2> QED
    BY Zenon, <1>0, <2>1, <2>3, OthersFrame DEF TypeOK, Rest, Goto
<1>5. CASE ret_handler(t)
  <2>1. /\ pc' \in [Actors -> Labels] /\ \A u \in Actors \ {t} : pc'[u] = pc[u]
        /\ ret' \in [Actors -> Results]
    BY Zenon, <1>0, <1>5, Members, ReturnType DEF ret_handler
  <2>2. blocked' \in [Actors -> BOOLEAN]
    BY Zenon, <1>0, <1>5, Update DEF TypeOK, ret_handler
  <2>3. queue' \in Nat /\ refused' \in Nat /\ lost' \in Nat
    BY Zenon, <1>0, <1>1, <1>5 DEF TypeOK, ret_handler
  <2>4. TypeOK'
    BY Zenon, <1>0, <1>5, <2>1, <2>2, <2>3 DEF TypeOK, ret_handler, control, window
  <2> QED
    BY Zenon, <1>5, <2>1, <2>4, OthersFrame DEF ret_handler
<1>6. CASE WorkerRefused(t) \/ WorkNullPath(t)
  <2>1. /\ pc' \in [Actors -> Labels] /\ \A u \in Actors \ {t} : pc'[u] = pc[u]
    BY Zenon, <1>0, <1>6, Members, GotoType DEF WorkerRefused, WorkNullPath
  <2>2. queue' \in Nat /\ logged' \in Nat /\ refused' \in Nat /\ lost' \in Nat
    BY Zenon, <1>0, <1>1, <1>6 DEF TypeOK, WorkerRefused, WorkNullPath, Lose
  <2>3. UNCHANGED <<control, local, window, begun>>
    BY Zenon, <1>6 DEF WorkerRefused, WorkNullPath
  <2>4. TypeOK'
    BY Zenon, <1>0, <2>1, <2>2, <2>3 DEF TypeOK, control, local, window
  <2> QED
    BY Zenon, <2>1, <2>3, <2>4, OthersFrame DEF local
<1>7. CASE WorkNoLog(t)
  <2>1. TypeOK'
    BY Zenon, <1>0, <1>1, <1>7 DEF TypeOK, WorkNoLog, control, local, window
  <2> QED
    BY Zenon, <1>7, <2>1, OthersFrame DEF WorkNoLog, local
<1> QED
  BY Zenon, <1>2, <1>3, <1>4, <1>5, <1>6, <1>7

\* Types are preserved.
LEMMA TypeStep == TypeInv /\ [Next]_vars => TypeInv'
<1> SUFFICES ASSUME TypeInv, [Next]_vars PROVE TypeInv'
  OBVIOUS
<1>1. CASE UNCHANGED vars
  BY Zenon, <1>1
     DEF TypeInv, TypeOK, AdminInv, vars, control, journal, local, window
<1>2. ASSUME NEW t \in Admins, AdminCall(t) \/ AdminStep(t) PROVE TypeInv'
  BY Zenon, <1>2, AdminCallType, AdminStepType
<1>3. ASSUME NEW t \in Users, (\E r \in Requests : Operate(t, r)) \/ UserStep(t) PROVE TypeInv'
  BY Zenon, <1>3, FileStepType, OtherStepType DEF UserStep
<1>4. ASSUME NEW t \in Workers, WorkerStep(t) PROVE TypeInv'
  BY Zenon, <1>4, FileStepType, OtherStepType DEF WorkerStep
<1> QED
  BY Zenon, <1>1, <1>2, <1>3, <1>4 DEF Next

LEMMA TypeInit == Init => TypeInv
<1> SUFFICES ASSUME Init PROVE TypeInv
  OBVIOUS
<1>1. /\ state \in RFStates /\ queue \in Nat /\ logged \in Nat /\ refused \in Nat /\ lost \in Nat
      /\ begun \in 0 .. MaxOps
  BY SMT, ProbesAssumption DEF Init, RFStates, RF_ON, RF_OFF, RF_REC_OFF
<1>2. /\ list \subseteq Entries /\ enabled \in [Probes -> BOOLEAN] /\ stuck \in BOOLEAN
      /\ pc \in [Actors -> Labels] /\ kind \in [Actors -> Kinds]
      /\ targets \in [Actors -> Seq(Paths)] /\ idx \in [Actors -> Nat \ {0}]
  BY Zenon, Members DEF Init
<1>3. /\ blocked \in [Actors -> BOOLEAN] /\ goal \in [Actors -> Int]
      /\ effect \in [Actors -> BOOLEAN] /\ ret \in [Actors -> Results]
      /\ lasting \in [Actors -> SUBSET Entries]
      /\ steady \in [Actors -> BOOLEAN] /\ armed \in [Actors -> BOOLEAN]
  BY Zenon, Members DEF Init
<1>4. TypeOK
  BY Zenon, <1>1, <1>2, <1>3 DEF TypeOK
<1>5. \A t \in Admins : pc[t] = "idle"
  BY Zenon DEF Init, Actors
<1> QED
  BY Zenon, <1>4, <1>5 DEF TypeInv, AdminInv

\* Every variable keeps its type: a switch stores a state that exists, and only
\* paths of the administrators' calls get on the list.
THEOREM TypeCorrect == Spec => []TypeOK
<1>1. TypeInv => TypeOK
  BY Zenon DEF TypeInv
<1> QED
  BY <1>1, TypeInit, TypeStep, PTL DEF Spec

--------------------------------------------------------------------------------
(*****************************************************************************)
(* Refusals.  The paths before idx have been looked up, and no entry that    *)
(* has been on the list since the operation began protects one of them; an   *)
(* operation that goes on unblocked has no protected path at all.            *)
(*****************************************************************************)
Clear(t, n) ==
  \A e \in lasting[t], i \in DOMAIN targets[t] : i < n => <<e, targets[t][i]>> \notin Matches

FileInv(t) ==
  /\ lasting[t] \subseteq list
  /\ steady[t] => Enforcing(state)
  /\ blocked[t] => pc[t] \in {"body", "return"}
  /\ pc[t] = "return" => effect[t] = ~IsHook(kind[t])
  /\ steady[t] /\ pc[t] \in {"chk_state", "chk_list"} => Clear(t, idx[t])
  /\ steady[t] /\ ~blocked[t] /\ pc[t] \in {"body", "return"} =>
       ~Protects(lasting[t], targets[t])
  /\ steady[t] /\ pc[t] = "done" /\ Protects(lasting[t], targets[t]) => Refused(t)

\* The step does not concern u: it may only take entries off the list, or turn
\* the monitor off.
Apart(u) ==
  /\ pc'[u] = pc[u] /\ kind'[u] = kind[u] /\ targets'[u] = targets[u] /\ idx'[u] = idx[u]
  /\ blocked'[u] = blocked[u] /\ goal'[u] = goal[u] /\ effect'[u] = effect[u]
  /\ ret'[u] = ret[u]
  /\ lasting'[u] \subseteq lasting[u]
  /\ lasting[u] \subseteq list => lasting'[u] \subseteq list'
  /\ steady'[u] => steady[u]
  /\ steady'[u] /\ Enforcing(state) => Enforcing(state')

LEMMA ApartKeeps ==
  ASSUME NEW u, FileInv(u), Apart(u)
  PROVE  FileInv(u)'
<1>1. (lasting[u] \subseteq list)' /\ (steady[u] => Enforcing(state))'
  BY Zenon DEF FileInv, Apart, Enforcing
<1>2. /\ (blocked[u] => pc[u] \in {"body", "return"})'
      /\ (pc[u] = "return" => effect[u] = ~IsHook(kind[u]))'
  BY Zenon DEF FileInv, Apart, IsHook
<1>3. (steady[u] /\ pc[u] \in {"chk_state", "chk_list"} => Clear(u, idx[u]))'
  BY Zenon DEF FileInv, Apart, Clear
<1>4. Protects(lasting[u], targets[u])' => Protects(lasting[u], targets[u])
  BY Zenon DEF Apart, Protects
<1>5. (steady[u] /\ ~blocked[u] /\ pc[u] \in {"body", "return"} =>
         ~Protects(lasting[u], targets[u]))'
  BY Zenon, <1>4 DEF FileInv, Apart
<1>6. (steady[u] /\ pc[u] = "done" /\ Protects(lasting[u], targets[u]) => Refused(u))'
  BY Zenon, <1>4 DEF FileInv, Apart, Refused, IsHook
<1> QED
  BY Zenon, <1>1, <1>2, <1>3, <1>5, <1>6 DEF FileInv

\* The administrators do not concern the others otherwise.
LEMMA AdminApart ==
  ASSUME TypeOK, NEW a \in Admins, AdminCall(a) \/ AdminStep(a), NEW u \in Actors \ {a}
  PROVE  Apart(u)
<1>0. a \in Actors /\ u \in Actors /\ u # a
  BY Zenon DEF Actors
<1>1. ASSUME NEW e, NEW label, NEW s, NEW paths, Authorise(a, e, label, s, paths),
             UNCHANGED <<control, journal, kind, idx, blocked, effect, window, begun>>
      PROVE  Apart(u)
  <2>1. pc'[u] = pc[u] /\ targets'[u] = targets[u] /\ goal'[u] = goal[u] /\ ret'[u] = ret[u]
    BY Zenon, <1>0, <1>1 DEF TypeOK, Authorise, Return, Goto
  <2> QED
    BY Zenon, <1>1, <2>1 DEF Apart, control, window
<1>2. ASSUME NEW v, Return(a, v),
             UNCHANGED <<control, journal, kind, targets, idx, blocked, goal, effect, window, begun>>
      PROVE  Apart(u)
  <2>1. pc'[u] = pc[u] /\ ret'[u] = ret[u]
    BY Zenon, <1>0, <1>2 DEF TypeOK, Return, Goto
  <2> QED
    BY Zenon, <1>2, <2>1 DEF Apart, control, window
<1>3. CASE AdminCall(a)
  BY Zenon, <1>1, <1>2, <1>3
     DEF AdminCall, SwitchCall, AddCall, RemoveCall, Reconfigure, GetState, NoMemory
<1>4. CASE SwitchStore(a)
  BY Zenon, <1>0, <1>4 DEF TypeOK, SwitchStore, Goto, Apart, local
<1>5. CASE SwitchProbe(a)
  BY Zenon, <1>0, <1>5 DEF TypeOK, SwitchProbe, Apart, window
<1>6. CASE SwitchReturn(a)
  BY Zenon, <1>2, <1>6 DEF SwitchReturn
<1>7. CASE Add(a)
  <2>1. pc'[u] = pc[u] /\ ret'[u] = ret[u]
    BY Zenon, <1>0, <1>7 DEF TypeOK, Add, Return, Goto
  <2> QED
    BY Zenon, <1>7, <2>1 DEF Add, Apart, window
<1>8. CASE Remove(a)
  <2>1. pc'[u] = pc[u] /\ ret'[u] = ret[u]
    BY Zenon, <1>0, <1>8 DEF TypeOK, Remove, Return, Goto
  <2> QED
    BY Zenon, <1>0, <1>8, <2>1 DEF Remove, Apart
<1>9. CASE Resume(a)
  BY Zenon, <1>0, <1>9 DEF TypeOK, Resume, Rest, Goto, Apart, control
<1> QED
  BY Zenon, <1>3, <1>4, <1>5, <1>6, <1>7, <1>8, <1>9 DEF AdminStep

\* Nor do the other users and the workers.
LEMMA OthersApart ==
  ASSUME TypeOK, NEW t \in Users \cup Workers, NEW u \in Actors, u # t,
         (\E r \in Requests : Operate(t, r)) \/ UserStep(t) \/ WorkerStep(t)
  PROVE  Apart(u)
<1>0. t \in Actors /\ u \in Actors
  BY Zenon DEF Actors
<1>1. ASSUME NEW r, Begin(t, r) PROVE Apart(u)
  BY Zenon, <1>0, <1>1 DEF TypeOK, Begin, Goto, Apart, control
<1>2. ASSUME Rest(t) PROVE Apart(u)
  BY Zenon, <1>0, <1>2 DEF TypeOK, Rest, Goto, Apart, control
<1>3. CASE CheckState(t)
  BY Zenon, <1>0, <1>3 DEF TypeOK, CheckState, Goto, Apart, control, window
<1>4. CASE CheckList(t)
  BY Zenon, <1>0, <1>4 DEF TypeOK, CheckList, Goto, Apart, control, window
<1>5. CASE CheckPass(t) \/ CheckNullPath(t) \/ WorkerRefused(t) \/ WorkNullPath(t)
  BY Zenon, <1>0, <1>5
     DEF TypeOK, CheckPass, CheckNullPath, WorkerRefused, WorkNullPath, Goto, Apart, control,
         local, window
<1>6. CASE Body(t)
  BY Zenon, <1>0, <1>6 DEF TypeOK, Body, Goto, Apart, control, window
<1>7. CASE ReturnPlain(t)
  BY Zenon, <1>0, <1>7 DEF TypeOK, ReturnPlain, Return, Goto, Apart, control, window
<1>8. CASE ret_handler(t)
  BY Zenon, <1>0, <1>8 DEF TypeOK, ret_handler, Return, Goto, Apart, control, window
<1>9. CASE WorkNoLog(t)
  BY Zenon, <1>9 DEF WorkNoLog, Apart, control, local, window
<1> QED
  BY Zenon, <1>1, <1>2, <1>3, <1>4, <1>5, <1>6, <1>7, <1>8, <1>9
     DEF Operate, UserStep, WorkerStep, FileStep, Resume, WorkBegin, WorkWrite, WorkWriteFails,
         WorkerNoMemory

\* A user's own steps: the handler looks up its paths one by one.
LEMMA OwnFile ==
  ASSUME TypeOK, NEW t \in Users, FileInv(t), FileStep(t)
  PROVE  FileInv(t)'
<1>0. t \in Actors /\ idx[t] \in Nat \ {0} /\ DOMAIN targets[t] = 1 .. Len(targets[t])
      /\ Len(targets[t]) \in Nat
  BY SMT DEF TypeOK, Actors
<1>1. /\ \A i \in DOMAIN targets[t] : i < idx[t] + 1 => i < idx[t] \/ i = idx[t]
      /\ idx[t] \notin DOMAIN targets[t] => \A i \in DOMAIN targets[t] : i < idx[t]
  BY SMT, <1>0
<1>2. CASE CheckState(t)
  <2>1. /\ UNCHANGED <<state, list>> /\ lasting'[t] = lasting[t] /\ steady'[t] = steady[t]
        /\ targets'[t] = targets[t] /\ blocked'[t] = blocked[t]
    BY Zenon, <1>2 DEF CheckState, control, window
  <2>2. CASE (list = {} \/ ~Enforcing(state)) /\ idx' = [idx EXCEPT ![t] = idx[t] + 1] /\ pc' = pc
    <3>1. pc'[t] = "chk_state" /\ pc[t] = "chk_state" /\ idx'[t] = idx[t] + 1
      BY Zenon, <1>0, <1>2, <2>2 DEF TypeOK, CheckState
    <3>2. steady'[t] => Clear(t, idx[t])'
      BY Zenon, <2>1, <2>2 DEF FileInv, Clear
    <3> QED
      BY Zenon, <2>1, <3>1, <3>2 DEF FileInv, Enforcing
  <2>3. CASE Goto(t, "chk_list") /\ idx' = idx
    <3>1. pc'[t] = "chk_list" /\ pc[t] = "chk_state" /\ idx'[t] = idx[t]
      BY Zenon, <1>0, <1>2, <2>3 DEF TypeOK, CheckState, Goto
    <3> QED
      BY Zenon, <2>1, <3>1 DEF FileInv, Enforcing, Clear
  <2> QED
    BY Zenon, <1>2, <2>2, <2>3 DEF CheckState
<1>3. CASE CheckList(t)
  <2>1. /\ UNCHANGED <<state, list>> /\ lasting'[t] = lasting[t] /\ steady'[t] = steady[t]
        /\ targets'[t] = targets[t] /\ pc[t] = "chk_list"
    BY Zenon, <1>3 DEF CheckList, control, window
  <2>2. CASE /\ \A e \in list : <<e, targets[t][idx[t]]>> \notin Matches
             /\ idx' = [idx EXCEPT ![t] = idx[t] + 1] /\ Goto(t, "chk_state") /\ blocked' = blocked
    <3>1. pc'[t] = "chk_state" /\ idx'[t] = idx[t] + 1 /\ ~blocked'[t]
      BY Zenon, <1>0, <2>1, <2>2 DEF TypeOK, FileInv, Goto
    <3>2. steady'[t] => Clear(t, idx[t])'
      BY Zenon, <1>1, <2>1, <2>2, <3>1 DEF FileInv, Clear
    <3> QED
      BY Zenon, <2>1, <3>1, <3>2 DEF FileInv, Enforcing
  <2>3. CASE blocked' = [blocked EXCEPT ![t] = TRUE] /\ Goto(t, "body")
    <3>1. pc'[t] = "body" /\ blocked'[t] = TRUE
      BY Zenon, <1>0, <2>3 DEF TypeOK, Goto
    <3> QED
      BY Zenon, <2>1, <3>1 DEF FileInv, Enforcing
  <2> QED
    BY Zenon, <1>3, <2>2, <2>3 DEF CheckList
<1>4. CASE CheckNullPath(t)
  <2>1. /\ UNCHANGED <<state, list>> /\ lasting'[t] = lasting[t] /\ steady'[t] = steady[t]
        /\ blocked'[t] = blocked[t] /\ pc[t] = "chk_list" /\ pc'[t] = "oops"
    BY Zenon, <1>0, <1>4 DEF TypeOK, CheckNullPath, Goto, local, window
  <2> QED
    BY Zenon, <2>1 DEF FileInv, Enforcing
<1>5. CASE CheckPass(t)
  <2>1. /\ UNCHANGED <<state, list>> /\ lasting'[t] = lasting[t] /\ steady'[t] = steady[t]
        /\ targets'[t] = targets[t] /\ blocked'[t] = blocked[t]
        /\ pc[t] = "chk_state" /\ pc'[t] = "body" /\ idx[t] \notin DOMAIN targets[t]
    BY Zenon, <1>0, <1>5 DEF TypeOK, CheckPass, Goto, control, local, window
  <2>2. steady[t] => ~Protects(lasting[t], targets[t])
    BY Zenon, <1>1, <2>1 DEF FileInv, Clear, Protects
  <2> QED
    BY Zenon, <2>1, <2>2 DEF FileInv, Enforcing
<1>6. CASE Body(t)
  <2>1. /\ UNCHANGED <<state, list>> /\ lasting'[t] = lasting[t] /\ steady'[t] = steady[t]
        /\ targets'[t] = targets[t] /\ blocked'[t] = blocked[t] /\ kind'[t] = kind[t]
        /\ pc[t] = "body" /\ pc'[t] = "return" /\ effect'[t] = ~IsHook(kind[t])
    BY Zenon, <1>0, <1>6 DEF TypeOK, Body, Goto, control, window
  <2> QED
    BY Zenon, <2>1 DEF FileInv, Enforcing, IsHook
<1>7. CASE ReturnPlain(t)
  <2>1. /\ UNCHANGED <<state, list>> /\ lasting'[t] = lasting[t] /\ steady'[t] = steady[t]
        /\ targets'[t] = targets[t] /\ blocked'[t] = blocked[t] /\ ~blocked[t]
        /\ pc[t] = "return" /\ pc'[t] = "done"
    BY Zenon, <1>0, <1>7 DEF TypeOK, ReturnPlain, Return, Goto, control, window
  <2> QED
    BY Zenon, <2>1 DEF FileInv, Enforcing
<1> QED
  BY Zenon, <1>2, <1>3, <1>4, <1>5, <1>6, <1>7 DEF FileStep

\* The call, its refusal, and its end.
LEMMA OwnOther ==
  ASSUME TypeOK, NEW t \in Users, FileInv(t),
         (\E r \in Requests : Operate(t, r)) \/ ret_handler(t) \/ Resume(t),
         targets'[t] \in Seq(Paths)
  PROVE  FileInv(t)'
<1>0. t \in Actors
  BY Zenon DEF Actors
<1>1. ASSUME NEW r, Operate(t, r) PROVE FileInv(t)'
  <2>1. /\ UNCHANGED <<state, list>> /\ lasting'[t] = list /\ idx'[t] = 1
        /\ (steady'[t] <=> Probed(r.kind) /\ Enforcing(state))
        /\ blocked'[t] = blocked[t] /\ pc[t] = "idle"
        /\ pc'[t] = IF Probed(r.kind) THEN "chk_state" ELSE "body"
    BY Zenon, <1>0, <1>1 DEF TypeOK, Operate, Begin, Goto, control
  <2>2. Clear(t, idx[t])'
    <3>1. DOMAIN targets'[t] = 1 .. Len(targets'[t])
      BY SMT
    <3>2. \A i \in 1 .. Len(targets'[t]) : ~(i < 1)
      BY SMT
    <3> QED
      BY Zenon, <2>1, <3>1, <3>2 DEF Clear
  <2> QED
    BY Zenon, <2>1, <2>2 DEF FileInv, Enforcing
<1>2. CASE ret_handler(t)
  <2>1. /\ UNCHANGED <<state, list>> /\ lasting'[t] = lasting[t] /\ steady'[t] = steady[t]
        /\ kind'[t] = kind[t] /\ effect'[t] = effect[t] /\ ~blocked'[t]
        /\ pc[t] = "return" /\ pc'[t] = "done" /\ ret'[t] = EACCES
    BY Zenon, <1>0, <1>2 DEF TypeOK, ret_handler, Return, Goto, control, window
  <2> QED
    BY Zenon, <2>1 DEF FileInv, Enforcing, Refused, IsHook
<1>3. CASE Resume(t)
  <2>1. /\ UNCHANGED <<state, list>> /\ lasting'[t] = {} /\ steady'[t] = FALSE
        /\ ~blocked'[t] /\ pc[t] = "done" /\ pc'[t] = "idle"
    BY Zenon, <1>0, <1>3 DEF TypeOK, Resume, Rest, Goto, control
  <2> QED
    BY Zenon, <2>1 DEF FileInv
<1> QED
  BY Zenon, <1>1, <1>2, <1>3

RefusalInv == TypeInv /\ \A t \in Users : FileInv(t)

LEMMA RefusalStep == RefusalInv /\ [Next]_vars => RefusalInv'
<1> SUFFICES ASSUME RefusalInv, [Next]_vars PROVE RefusalInv'
  OBVIOUS
<1>0. TypeInv /\ TypeInv' /\ TypeOK /\ TypeOK' /\ \A u \in Users : FileInv(u)
  BY Zenon, TypeStep DEF RefusalInv, TypeInv
<1> SUFFICES ASSUME NEW u \in Users PROVE FileInv(u)'
  BY Zenon, <1>0 DEF RefusalInv
<1>1. CASE UNCHANGED vars
  <2>1. Apart(u)
    BY Zenon, <1>1 DEF Apart, vars, control, local, window
  <2> QED
    BY Zenon, <1>0, <2>1, ApartKeeps
<1>2. ASSUME NEW t \in Admins, AdminCall(t) \/ AdminStep(t) PROVE FileInv(u)'
  <2>1. u \in Actors \ {t}
    BY Zenon, ActorsAssumption DEF Actors
  <2> QED
    BY Zenon, <1>0, <1>2, <2>1, AdminApart, ApartKeeps
<1>3. ASSUME NEW t \in Users, (\E r \in Requests : Operate(t, r)) \/ UserStep(t)
      PROVE  FileInv(u)'
  <2>1. CASE u = t
    <3>1. targets'[t] \in Seq(Paths)
      BY Zenon, <1>0 DEF TypeOK, Actors
    <3> QED
      BY Zenon, <1>0, <1>3, <2>1, <3>1, OwnFile, OwnOther DEF UserStep
  <2>2. CASE u # t
    BY Zenon, <1>0, <1>3, <2>2, OthersApart, ApartKeeps DEF Actors
  <2> QED
    BY Zenon, <2>1, <2>2
<1>4. ASSUME NEW t \in Workers, WorkerStep(t) PROVE FileInv(u)'
  <2>1. u # t
    BY Zenon, ActorsAssumption
  <2> QED
    BY Zenon, <1>0, <1>4, <2>1, OthersApart, ApartKeeps DEF Actors
<1> QED
  BY Zenon, <1>0, <1>1, <1>2, <1>3, <1>4 DEF Next

LEMMA RefusalInit == Init => RefusalInv
<1> SUFFICES ASSUME Init, NEW t \in Users PROVE FileInv(t)
  BY Zenon, TypeInit DEF RefusalInv
<1>1. lasting[t] = {} /\ ~steady[t] /\ ~blocked[t] /\ pc[t] = "idle"
  BY Zenon DEF Init, Actors
<1> QED
  BY Zenon, <1>1 DEF FileInv

\* Whatever the administrators do at the same time, and however few instances
\* the probes have: an operation that was probed, in a monitor that stayed on, is
\* refused if an entry that stayed on the list protects one of its paths.
THEOREM ProbedRefused == Spec => []ProbedOpsAreRefused
<1>1. RefusalInv => ProbedOpsAreRefused
  BY Zenon DEF RefusalInv, FileInv, ProbedOpsAreRefused, Ended
<1> QED
  BY <1>1, RefusalInit, RefusalStep, PTL DEF Spec

--------------------------------------------------------------------------------
(*****************************************************************************)
(* One administrator at a time.  The one that is in a switch has the state it*)
(* has stored, and the probes before idx follow that state.                  *)
(*****************************************************************************)
OneAdmin == \A a, b \in Admins : a = b

SoleInv(a) ==
  /\ ~blocked[a] /\ pc[a] \notin {"chk_state", "chk_list"}
  /\ pc[a] \notin {"sw_probe", "done"} => idx[a] = 1
  /\ pc[a] = "sw_probe" =>
       /\ goal[a] = state
       /\ \A i \in DOMAIN ProbeArray :
            i < idx[a] => (enabled[ProbeArray[i]] <=> Registered /\ Enforcing(state))

AdminsInv ==
  /\ TypeInv
  /\ \A a \in Admins : SoleInv(a)
  /\ ~Switching => \A k \in Probes : enabled[k] <=> Registered /\ Enforcing(state)

\* Users and workers leave the administrators, and what these control, alone.
LEMMA OthersKeep ==
  ASSUME AdminsInv, TypeInv', NEW t \in Users \cup Workers,
         (\E r \in Requests : Operate(t, r)) \/ UserStep(t) \/ WorkerStep(t)
  PROVE  UNCHANGED <<state, list, enabled>> /\ AdminsInv'
<1>1. UNCHANGED <<state, list, enabled>>
  <2>1. ASSUME NEW r, Begin(t, r) PROVE UNCHANGED <<state, list, enabled>>
    BY Zenon, <2>1 DEF Begin, control
  <2>2. ASSUME Rest(t) PROVE UNCHANGED <<state, list, enabled>>
    BY Zenon, <2>2 DEF Rest, control
  <2>3. ASSUME FileStep(t) PROVE UNCHANGED <<state, list, enabled>>
    BY Zenon, <2>3
       DEF FileStep, CheckState, CheckList, CheckNullPath, CheckPass, Body, ReturnPlain, control
  <2> QED
    BY Zenon, <2>1, <2>2, <2>3
       DEF Operate, UserStep, WorkerStep, Resume, ret_handler, WorkerRefused, WorkerNoMemory,
           WorkBegin, WorkWrite, WorkWriteFails, WorkNoLog, WorkNullPath, control
<1>2. \A a \in Admins : a \in Actors /\ a # t
  BY Zenon, ActorsAssumption DEF Actors
<1>3. \A a \in Admins : /\ pc'[a] = pc[a] /\ blocked'[a] = blocked[a]
                        /\ goal'[a] = goal[a] /\ idx'[a] = idx[a]
  <2>1. \A a \in Admins : Apart(a)
    BY Zenon, <1>2, OthersApart DEF AdminsInv, TypeInv
  <2> QED
    BY Zenon, <2>1 DEF Apart
<1>4. ASSUME NEW a \in Admins PROVE SoleInv(a)'
  BY ZenonT(30), <1>1, <1>3 DEF AdminsInv, SoleInv, Enforcing
<1>5. Switching' <=> Switching
  BY Zenon, <1>3 DEF Switching
<1> QED
  BY Zenon, <1>1, <1>4, <1>5 DEF AdminsInv, Enforcing

\* A call of the only administrator.
LEMMA SoleCall ==
  ASSUME OneAdmin, AdminsInv, TypeInv', NEW a \in Admins, AdminCall(a)
  PROVE  UNCHANGED <<state, list, enabled>> /\ AdminsInv'
<1>0. TypeOK /\ a \in Actors /\ SoleInv(a) /\ \A b \in Admins : b = a
  BY Zenon DEF AdminsInv, TypeInv, Actors, OneAdmin
<1>1. /\ UNCHANGED <<state, list, enabled, idx, blocked>> /\ pc[a] = "idle"
      /\ pc'[a] \in {"sw_store", "add", "remove", "done"}
  <2>1. ASSUME NEW s \in States, NEW c \in Callers, SwitchCall(a, s, c)
        PROVE  /\ UNCHANGED <<state, list, enabled, idx, blocked>> /\ pc[a] = "idle"
               /\ pc'[a] \in {"sw_store", "done"}
    BY Zenon, <1>0, <2>1 DEF TypeOK, SwitchCall, Authorise, Return, Goto, control
  <2>2. ASSUME NEW p \in Entries, NEW c \in Callers, NEW label \in {"add", "remove"},
               Reconfigure(a, p, c, label)
        PROVE  /\ UNCHANGED <<state, list, enabled, idx, blocked>> /\ pc[a] = "idle"
               /\ pc'[a] \in {"add", "remove", "done"}
    BY Zenon, <1>0, <2>2 DEF TypeOK, Reconfigure, Authorise, Return, Goto, control
  <2>3. ASSUME GetState(a) \/ NoMemory(a)
        PROVE  /\ UNCHANGED <<state, list, enabled, idx, blocked>> /\ pc[a] = "idle"
               /\ pc'[a] = "done"
    BY Zenon, <1>0, <2>3 DEF TypeOK, GetState, NoMemory, Return, Goto, control
  <2> QED
    BY Zenon, <2>1, <2>2, <2>3 DEF AdminCall, AddCall, RemoveCall
<1>2. SoleInv(a)'
  BY Zenon, <1>0, <1>1 DEF SoleInv
<1>3. ~Switching
  BY Zenon, <1>0, <1>1 DEF Switching
<1> QED
  BY Zenon, <1>0, <1>1, <1>2, <1>3 DEF AdminsInv, Enforcing

\* A step of its call.
LEMMA SoleStep ==
  ASSUME OneAdmin, AdminsInv, TypeInv', NEW a \in Admins, AdminStep(a)
  PROVE  AdminsInv'
<1>0. TypeOK /\ a \in Actors /\ SoleInv(a) /\ \A b \in Admins : b = a
  BY Zenon DEF AdminsInv, TypeInv, Actors, OneAdmin
<1>1. CASE SwitchStore(a)
  <2>1. /\ state' = goal[a] /\ pc[a] = "sw_store" /\ pc'[a] = "sw_probe"
        /\ UNCHANGED <<list, idx, goal, blocked>>
    BY Zenon, <1>0, <1>1 DEF TypeOK, SwitchStore, Goto, local
  <2>2. \A i \in DOMAIN ProbeArray : ~(i < 1)
    BY SMT, ProbesAssumption
  <2>3. SoleInv(a)'
    BY Zenon, <1>0, <2>1, <2>2 DEF SoleInv
  <2>4. Switching'
    BY Zenon, <2>1 DEF Switching
  <2> QED
    BY Zenon, <1>0, <2>1, <2>3, <2>4 DEF AdminsInv
<1>2. CASE SwitchProbe(a)
  <2>1. /\ idx[a] \in DOMAIN ProbeArray /\ pc[a] = "sw_probe" /\ goal[a] = state
        /\ UNCHANGED <<state, list, pc, goal, blocked>> /\ idx'[a] = idx[a] + 1
        /\ enabled' = [enabled EXCEPT ![ProbeArray[idx[a]]] = Registered /\ Enforcing(goal[a])]
    BY Zenon, <1>0, <1>2 DEF TypeOK, SoleInv, SwitchProbe
  <2>2. \A i \in DOMAIN ProbeArray : i < idx[a] + 1 => i < idx[a] \/ i = idx[a]
    BY SMT, <1>0, ProbesAssumption DEF TypeOK
  <2>3. \A i \in DOMAIN ProbeArray :
          i < idx[a] + 1 => (enabled'[ProbeArray[i]] <=> Registered /\ Enforcing(state))
    <3> SUFFICES ASSUME NEW i \in DOMAIN ProbeArray, i < idx[a] \/ i = idx[a]
                 PROVE  enabled'[ProbeArray[i]] <=> Registered /\ Enforcing(state)
      BY Zenon, <2>2
    <3>1. ProbeArray[i] \in Probes /\ enabled \in [Probes -> BOOLEAN]
      BY Zenon, <1>0 DEF TypeOK, Probes
    <3>2. CASE ProbeArray[i] = ProbeArray[idx[a]]
      <4>1. enabled'[ProbeArray[i]] = (Registered /\ Enforcing(goal[a]))
        BY Zenon, <2>1, <3>1, <3>2
      <4> QED
        BY Zenon, <2>1, <4>1
    <3>3. CASE ProbeArray[i] # ProbeArray[idx[a]]
      <4>1. enabled'[ProbeArray[i]] = enabled[ProbeArray[i]]
        BY Zenon, <2>1, <3>1, <3>3
      <4> QED
        BY Zenon, <1>0, <2>1, <3>3, <4>1 DEF SoleInv
    <3> QED
      BY Zenon, <3>2, <3>3
  <2>4. SoleInv(a)'
    BY Zenon, <1>0, <2>1, <2>3 DEF SoleInv, Enforcing
  <2>5. Switching'
    BY Zenon, <2>1 DEF Switching
  <2> QED
    BY Zenon, <1>0, <2>1, <2>4, <2>5 DEF AdminsInv
<1>3. CASE SwitchReturn(a)
  <2>1. /\ idx[a] \notin DOMAIN ProbeArray /\ pc[a] = "sw_probe"
        /\ UNCHANGED <<state, list, enabled, goal, blocked>> /\ pc'[a] = "done"
    BY Zenon, <1>0, <1>3 DEF TypeOK, SwitchReturn, Return, Goto, control
  <2>2. \A i \in DOMAIN ProbeArray : i < idx[a]
    BY SMT, <1>0, <2>1, ProbesAssumption DEF TypeOK
  <2>3. \A k \in Probes : enabled[k] <=> Registered /\ Enforcing(state)
    BY Zenon, <1>0, <2>1, <2>2 DEF SoleInv, Probes
  <2>4. SoleInv(a)'
    BY Zenon, <1>0, <2>1 DEF SoleInv
  <2> QED
    BY Zenon, <1>0, <2>1, <2>3, <2>4 DEF AdminsInv, Enforcing
<1>4. CASE Add(a) \/ Remove(a) \/ Resume(a)
  <2>1. /\ pc[a] \in {"add", "remove", "done"}
        /\ UNCHANGED <<state, enabled>> /\ ~blocked'[a]
    BY Zenon, <1>0, <1>4 DEF TypeOK, SoleInv, Add, Remove, Resume, Rest, control
  <2>2. (pc'[a] = "done") \/ (pc'[a] = "idle" /\ idx'[a] = 1)
    BY Zenon, <1>0, <1>4 DEF TypeOK, Add, Remove, Resume, Rest, Return, Goto
  <2>3. SoleInv(a)'
    BY Zenon, <1>0, <2>1, <2>2 DEF SoleInv
  <2>4. ~Switching
    BY Zenon, <1>0, <2>1 DEF Switching
  <2> QED
    BY Zenon, <1>0, <2>1, <2>3, <2>4 DEF AdminsInv, SoleInv, Enforcing
<1> QED
  BY Zenon, <1>1, <1>2, <1>3, <1>4 DEF AdminStep

LEMMA AdminsInit == Init => AdminsInv
<1> SUFFICES ASSUME Init PROVE AdminsInv
  OBVIOUS
<1>1. \A a \in Admins : pc[a] = "idle" /\ idx[a] = 1 /\ ~blocked[a]
  BY Zenon DEF Init, Actors
<1>2. ~Enforcing(state)
  BY SMT DEF Init, Enforcing, RF_OFF, RF_ON, RF_REC_ON
<1>3. \A k \in Probes : ~enabled[k]
  BY Zenon DEF Init
<1> QED
  BY Zenon, <1>1, <1>2, <1>3, TypeInit DEF AdminsInv, SoleInv

LEMMA AdminsNext ==
  ASSUME OneAdmin, AdminsInv, [Next]_vars
  PROVE  AdminsInv'
<1>0. TypeInv'
  BY Zenon, TypeStep DEF AdminsInv
<1>1. CASE UNCHANGED vars
  <2>1. UNCHANGED <<state, list, enabled, pc, idx, goal, blocked>>
    BY Zenon, <1>1 DEF vars, control, local
  <2> QED
    BY Zenon, <1>0, <2>1 DEF AdminsInv, SoleInv, Switching, Enforcing
<1>2. ASSUME NEW a \in Admins, AdminCall(a) \/ AdminStep(a)
      PROVE  AdminsInv'
  BY Zenon, <1>0, <1>2, SoleCall, SoleStep
<1>3. ASSUME NEW t \in Users \cup Workers,
             (\E r \in Requests : Operate(t, r)) \/ UserStep(t) \/ WorkerStep(t)
      PROVE  AdminsInv'
  BY Zenon, <1>0, <1>3, OthersKeep
<1> QED
  BY Zenon, <1>1, <1>2, <1>3 DEF Next

\* With one administrator, and probes that could be registered, the probes are
\* enabled exactly in the states that are on, whenever no switch is under way:
\* the loop over the probes and the store of the state agree.
THEOREM ProbesAgree ==
  ASSUME OneAdmin, Registered
  PROVE  Spec => []ProbesFollowState
<1>1. AdminsInv => ProbesFollowState
  BY Zenon DEF AdminsInv, ProbesFollowState
<1>2. AdminsInv /\ [Next]_vars => AdminsInv'
  BY Zenon, AdminsNext
<1> QED
  BY <1>1, <1>2, AdminsInit, PTL DEF Spec

(*****************************************************************************)
(* What depends on the number of threads.  The instances of a probe suffice  *)
(* when there is one for every thread that operates on files, and every      *)
(* refusal is accounted for.                                                 *)
(*****************************************************************************)

\* Every function that users call has a registered probe, and each probe an
\* instance for every thread that may be in it.
Ample ==
  /\ Registered
  /\ \A r \in Requests : r.kind \in Probes
  /\ Cardinality(Users \cup Workers) <= MaxActive

ProtectionInv == AdminsInv /\ RefusalInv /\ \A t \in Users : armed[t] => steady[t]

LEMMA FiniteThreads == IsFiniteSet(Users \cup Workers) /\ IsFiniteSet(Workers)
<1>1. Users \cup Workers \subseteq Actors /\ Workers \subseteq Actors
  BY Zenon DEF Actors
<1> QED
  BY Zenon, <1>1, ActorsAssumption, FS_Subset

\* An idle thread finds an instance: the others hold one each at most.
LEMMA InstanceFree ==
  ASSUME Ample, ProtectionInv, NEW t \in Users, pc[t] = "idle", NEW k
  PROVE  Cardinality(Busy(k)) < MaxActive
<1> DEFINE Threads == Users \cup Workers
           Others == Threads \ {t}
<1>1. ~blocked[t]
  BY Zenon DEF ProtectionInv, RefusalInv, FileInv
<1>2. Busy(k) \subseteq Others
  <2>1. \A a \in Admins : ~blocked[a] /\ pc[a] \notin {"chk_state", "chk_list"}
    BY Zenon DEF ProtectionInv, AdminsInv, SoleInv
  <2> QED
    BY Zenon, <1>1, <2>1 DEF Busy, Actors
<1>3. /\ IsFiniteSet(Others) /\ Cardinality(Others) = Cardinality(Threads) - 1
      /\ Cardinality(Threads) \in Nat
  BY Zenon, FiniteThreads, FS_RemoveElement, FS_CardinalityType
<1>4. Cardinality(Busy(k)) <= Cardinality(Others) /\ Cardinality(Busy(k)) \in Nat
  BY Zenon, <1>2, <1>3, FS_Subset, FS_CardinalityType
<1>5. Cardinality(Threads) <= MaxActive
  BY Zenon DEF Ample
<1> HIDE DEF Threads, Others
<1> QED
  BY SMT, <1>3, <1>4, <1>5, ProbesAssumption

\* An operation that begins in an armed monitor is probed, and the next switch
\* ends that.
LEMMA ArmedStep ==
  ASSUME OneAdmin, Ample, ProtectionInv, [Next]_vars, NEW u \in Users
  PROVE  armed'[u] => steady'[u]
<1>0. TypeOK /\ u \in Actors /\ (armed[u] => steady[u])
  BY Zenon DEF ProtectionInv, AdminsInv, TypeInv, Actors
<1>1. ASSUME NEW t \in Users, NEW r \in Requests, Operate(t, r) PROVE armed'[u] => steady'[u]
  <2>1. CASE u # t
    BY Zenon, <1>0, <1>1, <2>1 DEF TypeOK, Operate, Begin
  <2>2. CASE u = t
    <3>1. /\ armed'[u] <=> Armed
          /\ steady'[u] <=> Probed(r.kind) /\ Enforcing(state)
      BY Zenon, <1>0, <1>1, <2>2 DEF TypeOK, Operate, Begin
    <3>2. Armed => enabled[r.kind] /\ r.kind \in Probes /\ Enforcing(state)
      BY Zenon DEF Armed, Ample, ProtectionInv, AdminsInv
    <3>3. Cardinality(Busy(r.kind)) < MaxActive
      BY Zenon, <1>1, <2>2, InstanceFree DEF Operate
    <3> QED
      BY Zenon, <3>1, <3>2, <3>3 DEF Probed
  <2> QED
    BY Zenon, <2>1, <2>2
<1>2. ASSUME NEW t \in Actors, NEW r, Begin(t, r), u # t PROVE armed'[u] => steady'[u]
  BY Zenon, <1>0, <1>2 DEF TypeOK, Begin
<1>3. ASSUME NEW t \in Actors, Rest(t) PROVE armed'[u] => steady'[u]
  BY Zenon, <1>0, <1>3 DEF TypeOK, Rest
<1>4. ASSUME armed' = armed, steady' = steady PROVE armed'[u] => steady'[u]
  BY Zenon, <1>0, <1>4
<1>5. ASSUME NEW a \in Admins, AdminCall(a) \/ AdminStep(a) PROVE armed'[u] => steady'[u]
  <2>1. a \in Actors
    BY Zenon DEF Actors
  <2>2. CASE SwitchStore(a)
    BY Zenon, <1>0, <2>2 DEF SwitchStore
  <2>3. CASE Resume(a)
    BY Zenon, <1>3, <2>1, <2>3 DEF Resume
  <2>4. CASE AdminCall(a)
    BY Zenon, <1>4, <2>4
       DEF AdminCall, SwitchCall, AddCall, RemoveCall, Reconfigure, GetState, NoMemory, window
  <2>5. CASE SwitchProbe(a) \/ SwitchReturn(a) \/ Add(a) \/ Remove(a)
    BY Zenon, <1>4, <2>5 DEF SwitchProbe, SwitchReturn, Add, Remove, window
  <2> QED
    BY Zenon, <1>5, <2>2, <2>3, <2>4, <2>5 DEF AdminStep
<1>6. ASSUME NEW t \in Actors, FileStep(t) PROVE armed'[u] => steady'[u]
  BY Zenon, <1>4, <1>6
     DEF FileStep, CheckState, CheckList, CheckNullPath, CheckPass, Body, ReturnPlain, window
<1>7. ASSUME NEW t \in Users, UserStep(t) PROVE armed'[u] => steady'[u]
  BY Zenon, <1>3, <1>4, <1>6, <1>7 DEF UserStep, Resume, ret_handler, window, Actors
<1>8. ASSUME NEW t \in Workers, WorkerStep(t) PROVE armed'[u] => steady'[u]
  <2>1. t \in Actors /\ u # t
    BY Zenon, ActorsAssumption DEF Actors
  <2>2. CASE WorkBegin(t)
    BY Zenon, <1>2, <2>1, <2>2 DEF WorkBegin
  <2>3. CASE WorkWrite(t) \/ WorkWriteFails(t) \/ WorkerNoMemory(t)
    BY Zenon, <1>3, <2>1, <2>3 DEF WorkWrite, WorkWriteFails, WorkerNoMemory
  <2>4. CASE WorkerRefused(t) \/ WorkNoLog(t) \/ WorkNullPath(t)
    BY Zenon, <1>4, <2>4 DEF WorkerRefused, WorkNoLog, WorkNullPath, window
  <2> QED
    BY Zenon, <1>6, <1>8, <2>1, <2>2, <2>3, <2>4 DEF WorkerStep
<1>9. CASE UNCHANGED vars
  BY Zenon, <1>4, <1>9 DEF vars, window
<1> QED
  BY Zenon, <1>1, <1>5, <1>7, <1>8, <1>9 DEF Next

\* With one administrator, a registered probe on every function that users call,
\* and enough instances: once the monitor is on and no switch is under way, every
\* operation on a protected path is refused until the next switch.
THEOREM ProtectionHolds ==
  ASSUME OneAdmin, Ample
  PROVE  Spec => []Protection
<1>1. Init => ProtectionInv
  <2>1. Init => \A t \in Users : ~armed[t]
    BY Zenon DEF Init, Actors
  <2> QED
    BY Zenon, <2>1, AdminsInit, RefusalInit DEF ProtectionInv
<1>2. ProtectionInv /\ [Next]_vars => ProtectionInv'
  BY Zenon, AdminsNext, RefusalStep, ArmedStep DEF ProtectionInv
<1>3. ProtectionInv => Protection
  BY Zenon DEF ProtectionInv, RefusalInv, FileInv, Protection, Ended
<1> QED
  BY <1>1, <1>2, <1>3, PTL DEF Spec

--------------------------------------------------------------------------------
(*****************************************************************************)
(* The records of the refusals.                                              *)
(*****************************************************************************)
AccountInv == TypeInv /\ RefusalsAreAccounted

\* The workers that have a record: one comes, one goes, or all stay.
LEMMA WorkingSize ==
  ASSUME NEW t, \A u \in Workers \ {t} : pc'[u] = pc[u]
  PROVE  /\ Cardinality(Working) \in Nat /\ Cardinality(Working') \in Nat
         /\ t \in Workers \ Working /\ t \in Working' =>
              Cardinality(Working') = Cardinality(Working) + 1
         /\ t \in Working /\ t \notin Working' =>
              Cardinality(Working) = Cardinality(Working') + 1
         /\ (t \in Working <=> t \in Working') => Cardinality(Working') = Cardinality(Working)
<1>1. Working \subseteq Workers /\ Working' \subseteq Workers
  BY Zenon DEF Working
<1>2. /\ IsFiniteSet(Working) /\ IsFiniteSet(Working')
      /\ Cardinality(Working) \in Nat /\ Cardinality(Working') \in Nat
  BY Zenon, <1>1, FiniteThreads, FS_Subset, FS_CardinalityType
<1>3. \A u \in Workers \ {t} : u \in Working <=> u \in Working'
  BY Zenon DEF Working
<1>4. ASSUME t \in Workers \ Working, t \in Working'
      PROVE  Cardinality(Working') = Cardinality(Working) + 1
  <2>1. Working' = Working \cup {t}
    BY Zenon, <1>1, <1>3, <1>4
  <2> QED
    BY Zenon, <1>2, <1>4, <2>1, FS_AddElement
<1>5. ASSUME t \in Working, t \notin Working'
      PROVE  Cardinality(Working) = Cardinality(Working') + 1
  <2>1. Working = Working' \cup {t}
    BY Zenon, <1>1, <1>3, <1>5
  <2> QED
    BY Zenon, <1>2, <1>5, <2>1, FS_AddElement
<1>6. ASSUME t \in Working <=> t \in Working'
      PROVE  Cardinality(Working') = Cardinality(Working)
  <2>1. Working' = Working
    <3>1. \A u : u \in Working <=> u \in Working'
      BY Zenon, <1>1, <1>3, <1>6
    <3> QED
      BY Zenon, <3>1
  <2> QED
    BY Zenon, <2>1
<1> QED
  BY Zenon, <1>2, <1>4, <1>5, <1>6

\* A step that is not a worker's: only a refusal changes the journal.
LEMMA AccountOthers ==
  ASSUME AccountInv, \A w \in Workers : pc'[w] = pc[w],
         \/ UNCHANGED journal
         \/ /\ refused' = refused + 1 /\ UNCHANGED logged
            /\ \/ queue' = queue + 1 /\ UNCHANGED lost
               \/ lost' = lost + 1 /\ UNCHANGED queue
  PROVE  RefusalsAreAccounted'
<1>1. Working' = Working
  BY Zenon DEF Working
<1>2. Cardinality(Working) \in Nat
  BY Zenon, FiniteThreads, FS_Subset, FS_CardinalityType DEF Working
<1>3. queue \in Nat /\ logged \in Nat /\ refused \in Nat /\ lost \in Nat
  BY Zenon DEF AccountInv, TypeInv, TypeOK
<1>4. refused = queue + Cardinality(Working) + logged + lost
  BY Zenon DEF AccountInv, RefusalsAreAccounted
<1> QED
  BY SMT, <1>1, <1>2, <1>3, <1>4 DEF RefusalsAreAccounted, journal

\* A worker takes a record from the queue, and logs or loses it.
LEMMA AccountWorker ==
  ASSUME AccountInv, NEW t \in Workers, WorkerStep(t)
  PROVE  RefusalsAreAccounted'
<1> DEFINE n == Cardinality(Working)
           m == Cardinality(Working')
<1>0. /\ TypeOK /\ t \in Actors
      /\ queue \in Nat /\ logged \in Nat /\ refused \in Nat /\ lost \in Nat
      /\ refused = queue + n + logged + lost
  BY Zenon DEF AccountInv, TypeInv, TypeOK, RefusalsAreAccounted, Actors
<1>1. \A u \in Workers \ {t} : pc'[u] = pc[u]
  <2>1. \A u \in Workers \ {t} : Apart(u)
    BY Zenon, <1>0, OthersApart DEF Actors
  <2> QED
    BY Zenon, <2>1 DEF Apart
<1>2. /\ n \in Nat /\ m \in Nat
      /\ t \notin Working /\ t \in Working' => m = n + 1
      /\ t \in Working /\ t \notin Working' => n = m + 1
      /\ (t \in Working <=> t \in Working') => m = n
  BY Zenon, <1>1, WorkingSize
<1>3. /\ t \in Working <=> pc[t] # "idle" /\ pc[t] # "oops"
      /\ t \in Working' <=> pc'[t] # "idle" /\ pc'[t] # "oops"
  BY Zenon DEF Working
<1>4. (refused' = queue' + m + logged' + lost') => RefusalsAreAccounted'
  BY Zenon DEF RefusalsAreAccounted
<1> HIDE DEF n, m
<1>5. CASE WorkBegin(t)
  <2>1. pc[t] = "idle" /\ (pc'[t] = "chk_state" \/ pc'[t] = "body")
    BY Zenon, <1>0, <1>5 DEF TypeOK, WorkBegin, Begin, Goto
  <2>2. m = n + 1
    BY Zenon, <1>2, <1>3, <2>1
  <2> QED
    BY SMT, <1>0, <1>2, <1>4, <1>5, <2>2 DEF WorkBegin
<1>6. CASE WorkWrite(t) \/ WorkWriteFails(t)
  <2>1. pc[t] = "done" /\ pc'[t] = "idle"
    BY Zenon, <1>0, <1>6 DEF TypeOK, WorkWrite, WorkWriteFails, Rest, Goto
  <2>2. n = m + 1
    BY Zenon, <1>2, <1>3, <2>1
  <2> QED
    BY SMT, <1>0, <1>2, <1>4, <1>6, <2>2 DEF WorkWrite, WorkWriteFails
<1>7. CASE WorkerRefused(t) \/ CheckNullPath(t)
  <2>1. (pc[t] = "return" \/ pc[t] = "chk_list") /\ pc'[t] = "oops" /\ Lose
    BY Zenon, <1>0, <1>7 DEF TypeOK, WorkerRefused, CheckNullPath, Goto
  <2>2. n = m + 1
    BY Zenon, <1>2, <1>3, <2>1
  <2> QED
    BY SMT, <1>0, <1>2, <1>4, <2>1, <2>2 DEF Lose
<1>8. CASE WorkerNoMemory(t)
  <2>1. pc[t] = "return" /\ pc'[t] = "idle" /\ Lose
    BY Zenon, <1>0, <1>8 DEF TypeOK, WorkerNoMemory, Rest, Goto
  <2>2. n = m + 1
    BY Zenon, <1>2, <1>3, <2>1
  <2> QED
    BY SMT, <1>0, <1>2, <1>4, <2>1, <2>2 DEF Lose
<1>9. CASE WorkNoLog(t) \/ WorkNullPath(t)
  <2>1. pc[t] = "idle" /\ (pc'[t] = "idle" \/ pc'[t] = "oops")
    BY Zenon, <1>0, <1>9 DEF TypeOK, WorkNoLog, WorkNullPath, Goto
  <2>2. m = n
    BY Zenon, <1>2, <1>3, <2>1
  <2> QED
    BY SMT, <1>0, <1>2, <1>4, <1>9, <2>2 DEF WorkNoLog, WorkNullPath
<1>10. CASE CheckState(t) \/ CheckList(t) \/ CheckPass(t) \/ Body(t) \/ ReturnPlain(t)
  <2>1. /\ pc[t] \in {"chk_state", "chk_list", "body", "return"}
        /\ pc'[t] \in {"chk_state", "chk_list", "body", "return", "done"}
    BY Zenon, <1>0, <1>10
       DEF TypeOK, CheckState, CheckList, CheckPass, Body, ReturnPlain, Return, Goto
  <2>2. m = n
    BY Zenon, <1>2, <1>3, <2>1
  <2>3. UNCHANGED journal
    BY Zenon, <1>10 DEF CheckState, CheckList, CheckPass, Body, ReturnPlain
  <2> QED
    BY SMT, <1>0, <1>4, <2>2, <2>3 DEF journal
<1> QED
  BY Zenon, <1>5, <1>6, <1>7, <1>9, <1>10, <1>8 DEF WorkerStep, FileStep

\* Every refusal is in the queue, with a worker, in the log, or lost: none
\* vanishes and none is written twice, whatever fails.
THEOREM RefusalsAccounted == Spec => []RefusalsAreAccounted
<1>1. Init => AccountInv
  <2> SUFFICES ASSUME Init PROVE RefusalsAreAccounted
    BY Zenon, TypeInit DEF AccountInv
  <2>1. Working = {}
    BY Zenon DEF Init, Working, Actors
  <2>2. Cardinality(Working) = 0
    BY Zenon, <2>1, FS_EmptySet
  <2> QED
    BY SMT, <2>2 DEF Init, RefusalsAreAccounted
<1>2. AccountInv /\ [Next]_vars => AccountInv'
  <2> SUFFICES ASSUME AccountInv, [Next]_vars PROVE RefusalsAreAccounted'
    BY Zenon, TypeStep DEF AccountInv
  <2>0. TypeOK
    BY Zenon DEF AccountInv, TypeInv
  <2>1. CASE UNCHANGED vars
    BY Zenon, <2>1, AccountOthers DEF vars, journal
  <2>2. ASSUME NEW a \in Admins, AdminCall(a) \/ AdminStep(a) PROVE RefusalsAreAccounted'
    <3>1. UNCHANGED journal
      BY Zenon, <2>2
         DEF AdminCall, AdminStep, SwitchCall, AddCall, RemoveCall, Reconfigure, GetState,
             NoMemory, SwitchStore, SwitchProbe, SwitchReturn, Add, Remove, Resume
    <3>2. \A w \in Workers : pc'[w] = pc[w]
      <4>1. \A w \in Workers : w \in Actors \ {a}
        BY Zenon, ActorsAssumption DEF Actors
      <4>2. \A w \in Actors \ {a} : pc'[w] = pc[w]
        BY Zenon, <2>0, <2>2, AdminApart DEF Apart
      <4> QED
        BY Zenon, <4>1, <4>2
    <3> QED
      BY Zenon, <3>1, <3>2, AccountOthers
  <2>3. ASSUME NEW t \in Users, (\E r \in Requests : Operate(t, r)) \/ UserStep(t)
        PROVE  RefusalsAreAccounted'
    <3>1. \A w \in Workers : pc'[w] = pc[w]
      <4>1. \A w \in Workers : w \in Actors /\ w # t
        BY Zenon, ActorsAssumption DEF Actors
      <4>2. \A w \in Workers : Apart(w)
        BY Zenon, <2>0, <2>3, <4>1, OthersApart
      <4> QED
        BY Zenon, <4>2 DEF Apart
    <3>2. t \notin Workers
      BY Zenon, ActorsAssumption
    <3>3. CASE ret_handler(t)
      BY Zenon, <3>1, <3>3, AccountOthers DEF ret_handler
    <3>4. CASE (\E r \in Requests : Operate(t, r)) \/ FileStep(t) \/ Resume(t)
      <4>1. UNCHANGED journal
        BY Zenon, <3>2, <3>4
           DEF Operate, FileStep, CheckState, CheckList, CheckNullPath, CheckPass, Body,
               ReturnPlain, Resume
      <4> QED
        BY Zenon, <3>1, <4>1, AccountOthers
    <3> QED
      BY Zenon, <2>3, <3>3, <3>4 DEF UserStep
  <2> QED
    BY Zenon, <2>1, <2>2, <2>3, AccountWorker DEF Next
<1>3. AccountInv => RefusalsAreAccounted
  BY Zenon DEF AccountInv
<1> QED
  BY <1>1, <1>2, <1>3, PTL DEF Spec
================================================================================
