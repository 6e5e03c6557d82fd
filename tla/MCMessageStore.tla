--------------------------- MODULE MCMessageStore ---------------------------
(* MessageStore on small instances for TLC.                                *)
EXTENDS MessageStore, TLC

Symmetry == Permutations(Names) \cup Permutations(Attrs) \cup Permutations(Handlers)
=============================================================================
