-------------------------------- MODULE MCClient -------------------------------
(* The clients and the life of the modules, for TLC. *)
EXTENDS Client, TLC

Symmetry == Permutations(Procs)

\* Entries 2, 3 and 5 to 8 of the full table are free.
MCNiOffsets == <<2, 5, 8>>
MCNumber == [k \in CallNames |->
  CASE k = "switch" -> 2 [] k = "get" -> 3 [] k = "add" -> 5
    [] k = "remove" -> 6 [] k = "print" -> 7 [] k = "size" -> 8]
MCKernelWords == {"ni", "f", "g", "h", "k"} \cup CallNames

Full == <<"f", "g", "ni", "ni", "h", "ni", "ni", "ni", "ni">>
\* A kernel in which most of them are taken.
Short == <<"f", "g", "ni", "s", "h", "ni", "t", "u", "ni">>
Last == (Pages + 1) * PageSize - 1

\* The words before the table, and the table; the others are no addresses.
Layout(at, before, table) ==
  [a \in 0 .. Last |-> IF a < at THEN before
                      ELSE IF a - at \in 0 .. 8 THEN table[a - at + 1] ELSE "zero"]

\* Page 0 is mapped and page 1 is not; pages 2 and 3 are a large one, and the table
\* lies across the two, after an array of equal pointers.
MCImages ==
  {[table |-> 23, words |-> Layout(23, "k", table),
    valid |-> {<<0>>, <<0, 0>>, <<0, 0, 0>>, <<0, 0, 1>>, <<0, 0, 0, 0>>},
    large |-> {<<0, 0, 1>>}] : table \in {Full, Short}}
================================================================================
