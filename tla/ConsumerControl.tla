--------------------------- MODULE ConsumerControl ---------------------------
(***************************************************************************)
(* What the consumer manager promises about the workers it controls,       *)
(* whatever channels, registry entries and retries it uses to do it:       *)
(*                                                                         *)
(*   - a consumer key has at most one worker;                              *)
(*   - a worker ends only because a stop was asked for its key;            *)
(*   - a stop may be lost, but it is never inherited: a worker that starts *)
(*     starts with no stop pending for its key.                            *)
(*                                                                         *)
(* ConsumerManager implements this specification.                          *)
(***************************************************************************)
CONSTANT Keys                 \* consumer keys, "<message name>-<consumer ID>"

VARIABLES
    running,                  \* the keys that have a worker
    asked                     \* the keys for which a stop is pending

vars == <<running, asked>>

TypeOK == /\ running \subseteq Keys
          /\ asked \subseteq Keys

Init == /\ running = {}
        /\ asked = {}

(* An "update" request for a key without a worker starts one.              *)
Start(k) == /\ k \notin running
            /\ k \notin asked
            /\ running' = running \cup {k}
            /\ UNCHANGED asked

(* A "delete" request asks the worker of a key to stop.                    *)
Ask(k) == /\ k \notin asked
          /\ asked' = asked \cup {k}
          /\ UNCHANGED running

(* A stop can be lost: an update replaces the channel that carries it.     *)
Lose(k) == /\ k \in asked
           /\ asked' = asked \ {k}
           /\ UNCHANGED running

(* The worker of a key obeys the stop and is gone.                         *)
Exit(k) == /\ k \in running
           /\ k \in asked
           /\ running' = running \ {k}
           /\ asked' = asked \ {k}

Next == \E k \in Keys : Start(k) \/ Ask(k) \/ Lose(k) \/ Exit(k)

Spec == Init /\ [][Next]_vars
=============================================================================
