-------------------------------- MODULE MCLogFS --------------------------------
(* Small instances of LogFS for TLC: two blocks of three bytes. *)
EXTENDS LogFS

CONSTANTS w1, w2, r1, none

MCWriters  == {w1, w2}
MCReaders  == {r1}
MCPayloads == {0, 2, 3}
MCLengths  == {2, 4}
================================================================================
