-------------------------- MODULE MCConsumerManager --------------------------
(* ConsumerManager on small instances for TLC.                             *)
EXTENDS ConsumerManager, TLC

(* Everything but the keys' bookkeeping is interchangeable.                *)
Symmetry == Permutations(Keys) \cup Permutations(Configs) \cup Permutations(Chans)
              \cup Permutations(Goroutines) \cup Permutations(Callers)

(* Bound of the two-key instance: of the workers that are neither waiting  *)
(* in their select nor have ended, all have the same key.  Workers of      *)
(* different keys share no step, so their own interleavings add nothing.   *)
OneKeyMoves ==
    \A g, h \in {w \in Goroutines : pc[w] \notin {"none", "select"}} : gkey[g] = gkey[h]
=============================================================================
