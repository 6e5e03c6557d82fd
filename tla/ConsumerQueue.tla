---------------------------- MODULE ConsumerQueue ----------------------------
(***************************************************************************)
(* What wmq promises about a consumer's queue: the messages are handled at *)
(* least once and, as far as one worker goes, in the order in which they   *)
(* were queued.  Only one message at a time is taken from the front,       *)
(* handled, again and again if need be, and it leaves the queue when it    *)
(* was handled, or when it cannot be read.  The front passes over what is  *)
(* held back by a worker that has left, until that lets go of it.          *)
(* Delivery implements this specification.                                 *)
(***************************************************************************)
EXTENDS Naturals, Sequences, Functions

CONSTANTS Msgs

VARIABLES
    log,           \* all the messages ever queued, in order
    gone,          \* those that have left the queue
    handled,       \* those that the consumer's URL has handled
    current,       \* the one that is taken from the queue, if any
    held,          \* those that a worker which has left holds back
    unreadable     \* those that cannot be handled

(* m is at the front of the queue, but for what S contains.                *)
FrontBut(S, m) ==
    \E i \in DOMAIN log :
      /\ log[i] = m
      /\ m \notin gone \cup held
      /\ \A j \in 1..(i - 1) : log[j] \in gone \cup held \cup S

Init == /\ log = <<>>
        /\ gone = {}
        /\ handled = {}
        /\ current = {}
        /\ held = {}
        /\ unreadable \subseteq Msgs

Enqueue == /\ \E m \in Msgs \ Range(log) : log' = Append(log, m)
           /\ UNCHANGED <<gone, handled, current, held>>

Take == /\ current = {}
        /\ \E m \in Msgs : FrontBut({}, m) /\ current' = {m}
        /\ UNCHANGED <<log, gone, handled, held>>

Handle == /\ \E m \in current : handled' = handled \cup {m}
          /\ UNCHANGED <<log, gone, current, held>>

Remove == /\ \E m \in current \cap (handled \cup unreadable) : gone' = gone \cup {m}
          /\ current' = {}
          /\ UNCHANGED <<log, handled, held>>

(* The worker gives back what it has taken, or leaves and holds it back.   *)
GiveBack == /\ current' = {}
            /\ held' \in SUBSET (held \cup current)
            /\ UNCHANGED <<log, gone, handled>>

(* A worker that has left is given one more, or lets go of what it holds.  *)
Hold == /\ \E m \in Msgs : FrontBut(current, m) /\ held' = held \cup {m}
        /\ UNCHANGED <<log, gone, handled, current>>

Release == /\ held' \in SUBSET held
           /\ UNCHANGED <<log, gone, handled, current>>

Next == /\ Enqueue \/ Take \/ Handle \/ Remove \/ GiveBack \/ Hold \/ Release
        /\ UNCHANGED unreadable

Spec == Init /\ [][Next]_<<log, gone, handled, current, held, unreadable>>
=============================================================================
