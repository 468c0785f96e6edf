------------------------------ MODULE MCBlacklist ------------------------------
(* Small instances of Blacklist for TLC. *)
EXTENDS Blacklist, TLC

CONSTANTS t1, t2, none, dir, file, empty, null

MCThreads   == {t1, t2}
MCPaths     == {dir, file, empty}
\* dir is a prefix of file, and the empty string is a prefix of everything.
MCMatches   == {<<p, p>> : p \in MCPaths} \cup {<<dir, file>>}
                 \cup {<<empty, p>> : p \in MCPaths}
MCUserPaths == {dir, file}
\* One path, and the empty string that a fault leaves of it.
MCOnePath   == {file}
MCStates    == {RF_ON, RF_OFF}
\* The state is RF_OFF at first.
MCTurnOn    == {RF_ON}
MCSymmetry  == Permutations(Threads)
================================================================================
