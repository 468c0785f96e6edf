------------------------------- MODULE MCMonitor -------------------------------
(* Instances of Monitor for TLC: one protected directory and one file in it. *)
EXTENDS Monitor, TLC

CONSTANTS a1, a2, u1, u2, w1, dir, file, log, top

MCAdmins1  == {a1}
MCAdmins2  == {a1, a2}
MCUsers1   == {u1}
MCUsers2   == {u1, u2}
MCSymmetry == Permutations(MCAdmins2) \cup Permutations(MCUsers2)
MCWorkers  == {w1}
MCPaths    == {dir, file, log, top}
MCEntries  == {dir}
MCParent   == [p \in MCPaths |-> IF p = file THEN dir ELSE top]
MCMatches  == {<<dir, dir>>, <<dir, file>>}

\* The log is in the protected directory.
MCLogInside == MCMatches \cup {<<dir, log>>}

MCStates == -1 .. 4
MCRecOn  == {RF_REC_ON}
MCRecOff == {RF_REC_ON, RF_OFF}
MCOnOff  == {RF_ON, RF_OFF, RF_REC_ON}

MCOpen(f)  == [kind |-> "security_file_open", path |-> f, other |-> top,
               flags |-> {"O_WRONLY"}]
MCRead(f)  == [kind |-> "security_file_open", path |-> f, other |-> top,
               flags |-> {"O_NONBLOCK"}]
MCWrite(f) == [kind |-> "vfs_write", path |-> f, other |-> top, flags |-> {}]
MCMove(f, g) == [kind |-> "security_inode_rename", path |-> f, other |-> g, flags |-> {}]

MCProbes2 == <<"security_file_open", "security_inode_rename">>
MCProbes3 == <<"security_file_open", "security_inode_rename", "vfs_write">>
MCProbes10 ==
  <<"security_file_open", "security_inode_unlink", "security_inode_create",
    "security_inode_mkdir", "security_inode_rename", "security_inode_rmdir",
    "security_inode_link", "security_inode_symlink", "vfs_write", "vfs_llseek">>

MCRequests3 == {MCOpen(file), MCRead(file), MCMove(top, file), MCWrite(file)}
MCRequests1 == {MCMove(top, file)}
MCRequests2 == {MCOpen(file), MCMove(top, file)}
MCRequests10 ==
  {[kind |-> k, path |-> top, other |-> top, flags |-> {}] : k \in Probes}
    \cup {[kind |-> k, path |-> file, other |-> top, flags |-> {"O_CREAT"}] : k \in Probes}
    \cup {MCMove(top, file), MCOpen(log)}
================================================================================
