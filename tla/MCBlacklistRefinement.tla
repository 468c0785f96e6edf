------------------------ MODULE MCBlacklistRefinement ------------------------
(* The instances of MCBlacklist, with the history variable. *)
EXTENDS MCBlacklist, BlacklistRefinement
================================================================================
