---------------------------- MODULE MCWmqService ----------------------------
(* WmqService on small instances for TLC.                                  *)
EXTENDS WmqService

CONSTANTS x, y, a, direct, topic, red

Of(n, f) == [name |-> n, mode |-> direct, consumers |-> f]

OfA == Of(x, [i \in {a} |-> red])

(* wmq has an empty file and a broker with nothing, ...                    *)
Fresh ==
    /\ conf = <<>>
    /\ used = {}
    /\ queues = {}
    /\ bound = {}
    /\ \A n \in Names : exchange[n] = None

(* ... or a message with a consumer, and a broker with exchanges of another *)
(* mode and a queue bound to one.                                           *)
Stale ==
    /\ queues = {<<x, a>>}
    /\ bound = {<<<<x, a>>, red>>}
    /\ \A n \in Names : exchange[n] = topic

(* The second is two messages, a name that is listed twice, or a message   *)
(* to which a consumer can be added.  A call may fail at a fresh broker,   *)
(* or with two messages.                                                   *)
Starts ==
    /\ conf \in {<<>>, <<OfA, Of(y, <<>>)>>, <<OfA, Of(x, <<>>)>>, <<OfA>>}
    /\ Init
    /\ \/ Fresh /\ faults = 0
       \/ Stale /\ conf = <<OfA, Of(y, <<>>)>> /\ used = Ids /\ faults = 0
       \/ Stale /\ conf = <<OfA, Of(x, <<>>)>> /\ used = Ids /\ faults = MaxFaults
       \/ Stale /\ conf = <<OfA>> /\ used = {a} /\ faults = MaxFaults

MCSpec == Starts /\ [][Next]_vars /\ Fairness
=============================================================================
