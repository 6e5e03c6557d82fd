---------------------------- MODULE DeliveryProofs ----------------------------
(***************************************************************************)
(* Proofs about Delivery, for any set of messages, of configurations, of   *)
(* channels and of foreign messages.                                       *)
(*                                                                         *)
(* A delivery goes from the worker's channel to inbox to the worker's      *)
(* hands to the consumer's URL, and the broker makes one only when none is *)
(* unacknowledged on that channel.  Hence, at each of these places, all    *)
(* that was queued before a message has left the queue, or was held by     *)
(* the channel of a worker that had left when the message was delivered    *)
(* (OrderInv), even for the deliveries that a broken channel has left      *)
(* behind in the worker.  What is at one of these places, the URL apart,   *)
(* is still in the queue (WayInv), so that the worker works it off from    *)
(* its front: Delivery implements ConsumerQueue.                           *)
(***************************************************************************)
EXTENDS Delivery, FiniteSetTheorems, TLAPS

Busy == wpc \in {"process", "ack", "nack"}

InHand == IF Busy THEN {job} ELSE {}

Unsupported == {m \in Msgs : KindOf(m) = "unsupported"}

HandInv ==
    /\ InHand \subseteq Range(log)
    /\ wpc = "ack" => job \in handled \cup Unsupported

QueueInv ==
    /\ \A c \in Chans : IsFiniteSet(unacked[c])
    /\ \A c, d \in Chans : c # d => unacked[c] \cap unacked[d] = {}
    /\ \A c \in Chans \ open : unacked[c] = {}
    /\ \A i, j \in DOMAIN log : log[i] = log[j] => i = j

(* All the messages that are at some place of a delivery's way to the URL. *)
Delivered == Range(inbox) \cup InHand \cup handled

OrderInv ==
    \A i, j \in DOMAIN log :
      i < j /\ log[j] \in Delivered => log[i] \in gone \/ <<log[i], log[j]>> \in overtaken

(* While the last update is in force, a worker that will select with its   *)
(* copy of the item has the update in it, or no delivery was counted       *)
(* since; while it is not, a worker between its Get and its Set has read   *)
(* what is in force.                                                       *)
StaleInv ==
    /\ StaleOnce
    /\ wpc \in {"retouch", "touch", "select"} /\ config = wanted /\ stale # 0
         => local = wanted
    /\ wpc \in {"retouch", "touch"} /\ config # wanted => local = config

(* What a delivery's way holds is still in the queue.  An open channel of  *)
(* the worker has one delivery unacknowledged at most, in deliveryChn or   *)
(* in the worker's hands; of one that broke the same is left.              *)
WayInv ==
    /\ (Range(inbox) \cup InHand) \cap gone = {}
    /\ chan \in open => unacked[chan] = Range(inbox) \cup InHand
    /\ inbox = <<>> \/ \E m \in Msgs : inbox = <<m>>
    /\ Busy => inbox = <<>>
    /\ wpc \in {"none", "setup", "retouch", "connect"} => chan = None /\ inbox = <<>>
    /\ job # None => Busy

DeliveryInv == TypeOK /\ HandInv /\ QueueInv /\ OrderInv /\ AtLeastOnce /\ StaleInv /\ WayInv

-----------------------------------------------------------------------------
(* Sequences                                                               *)

(* Appending adds one element.                                             *)
LEMMA Appended ==
    ASSUME NEW S, NEW s \in Seq(S), NEW x
    PROVE  /\ x \in S => Append(s, x) \in Seq(S)
           /\ DOMAIN Append(s, x) = DOMAIN s \cup {Len(s) + 1}
           /\ \A j \in DOMAIN s : j \in Nat /\ j < Len(s) + 1
           /\ \A j \in DOMAIN s : Append(s, x)[j] = s[j]
           /\ Append(s, x)[Len(s) + 1] = x
           /\ Range(Append(s, x)) = Range(s) \cup {x}
<1>1. /\ x \in S => Append(s, x) \in Seq(S)
      /\ DOMAIN Append(s, x) = DOMAIN s \cup {Len(s) + 1}
      /\ \A j \in DOMAIN s : j \in Nat /\ j < Len(s) + 1
      /\ \A j \in DOMAIN s : Append(s, x)[j] = s[j]
      /\ Append(s, x)[Len(s) + 1] = x
    OBVIOUS
<1>2. QED
    BY <1>1 DEF Range

(* No element, and one.                                                    *)
LEMMA OneMessage ==
    /\ Range(<<>>) = {}
    /\ \A m : Range(<<m>>) = {m} /\ Head(<<m>>) = m /\ Tail(<<m>>) = <<>> /\ <<m>> # <<>>
BY DEF Range

-----------------------------------------------------------------------------
(* The invariant                                                           *)

(* Init                                                                    *)
LEMMA InitInv == Init => DeliveryInv
<1> SUFFICES ASSUME Init PROVE DeliveryInv
    OBVIOUS
<1>1. DOMAIN log = {} /\ Range(log) = {} /\ Range(inbox) = {}
    BY DEF Init, Range
<1>2. log \in Seq(Msgs) /\ inbox \in Seq(Range(log)) /\ 0 \in 0..StaleCap
    BY DEF Init, StaleCap
<1>3. TypeOK
    BY <1>1, <1>2 DEF Init, TypeOK, WorkerSteps
<1>4. HandInv /\ OrderInv /\ AtLeastOnce /\ StaleInv
    BY <1>1 DEF Init, HandInv, InHand, Busy, OrderInv, AtLeastOnce, StaleInv, StaleOnce
<1>5. QueueInv
    BY <1>1, FS_EmptySet DEF Init, QueueInv
<1>6. WayInv
    BY <1>1 DEF Init, WayInv, InHand, Busy
<1>7. QED
    BY <1>3, <1>4, <1>5, <1>6 DEF DeliveryInv

(* A channel's deliveries stay, or all of them are given back.             *)
Lost ==
    /\ open' \subseteq Chans
    /\ unacked' \in [Chans -> SUBSET (Range(log) \ gone)]
    /\ \A c \in Chans : unacked'[c] \in {{}, unacked[c]} /\ (c \notin open' => unacked'[c] = {})

LEMMA LostStays == ASSUME DeliveryInv, UNCHANGED chanVars PROVE Lost
BY DEF DeliveryInv, TypeOK, QueueInv, chanVars, Lost

LEMMA LostLoses == ASSUME DeliveryInv, NEW C, Lose(C) PROVE Lost
<1>1. /\ unacked \in [Chans -> SUBSET (Range(log) \ gone)]
      /\ open \subseteq Chans
      /\ \A c \in Chans \ open : unacked[c] = {}
      /\ open' = open \ C
    BY DEF DeliveryInv, TypeOK, QueueInv, Lose
<1>2. unacked' = [c \in Chans |-> IF c \in C THEN {} ELSE unacked[c]]
    BY DEF Lose
<1>3. \A c \in Chans : unacked'[c] = IF c \in C THEN {} ELSE unacked[c]
    BY <1>2
<1>4. \A c \in Chans : unacked'[c] \in {{}, unacked[c]} /\ (c \notin open' => unacked'[c] = {})
    BY <1>1, <1>3
<1>5. unacked' \in [Chans -> SUBSET (Range(log) \ gone)]
    BY <1>1, <1>2
<1>6. QED
    BY <1>1, <1>4, <1>5 DEF Lost

(* The steps that leave log and gone alone and bring no message on its     *)
(* way but those that already were, such as a loss, a failure, a panic.    *)
LEMMA QuietStep ==
    ASSUME DeliveryInv, UNCHANGED <<log, gone, kind, overtaken>>,
           Lost,
           chan' \in Chans \cup {None},
           inbox' \in {<<>>, inbox},
           handled' \in {handled, handled \cup InHand},
           InHand' \subseteq InHand \cup Range(inbox),
           wpc' = "ack" => job' \in handled' \cup Unsupported,
           job' \in Msgs \cup {None},
           wpc' \in WorkerSteps,
           {config', local', wanted'} \subseteq Configs \cup {None},
           stale' \in 0..StaleCap,
           StaleInv', WayInv'
    PROVE  DeliveryInv'
<1> USE DEF DeliveryInv
<1>1. Unsupported' = Unsupported
    BY DEF Unsupported, KindOf
<1>2. Range(inbox) \subseteq Range(log) /\ Range(inbox') \subseteq Range(inbox)
    BY OneMessage DEF TypeOK, Range
<1>3. InHand \subseteq Range(log)
    BY DEF HandInv
<1>4. inbox' \in Seq(Range(log))
    <2>1. <<>> \in Seq(Range(log))
        OBVIOUS
    <2>2. inbox \in Seq(Range(log))
        BY DEF TypeOK
    <2>3. QED
        BY <2>1, <2>2
<1>5. TypeOK'
    <2>1. handled' \subseteq Range(log)
        BY <1>3 DEF TypeOK
    <2>2. Range(log') = Range(log)
        OBVIOUS
    <2>3. QED
        BY <1>4, <2>1, <2>2 DEF TypeOK, Lost
<1>6. HandInv'
    BY <1>1, <1>2, <1>3 DEF HandInv
<1>7. QueueInv'
    <2>1. \A c \in Chans : IsFiniteSet(unacked'[c])
        BY FS_EmptySet DEF QueueInv, Lost
    <2>2. \A c, d \in Chans : c # d => unacked'[c] \cap unacked'[d] = {}
        BY DEF QueueInv, Lost
    <2>3. QED
        BY <2>1, <2>2 DEF QueueInv, Lost
<1>8. Delivered' \subseteq Delivered
    BY <1>2 DEF Delivered
<1>9. OrderInv'
    BY <1>8 DEF OrderInv
<1>10. AtLeastOnce'
    BY <1>1 DEF AtLeastOnce, Unsupported
<1>11. QED
    BY <1>5, <1>6, <1>7, <1>9, <1>10

(* A message is queued behind the others.                                  *)
LEMMA ArriveStep ==
    ASSUME DeliveryInv, NEW m \in Msgs, Arrive(m)
    PROVE  DeliveryInv'
<1> USE DEF DeliveryInv, Arrive, chanVars, confVars, updateVars
<1>1. /\ log \in Seq(Msgs) /\ log' \in Seq(Msgs)
      /\ DOMAIN log' = DOMAIN log \cup {Len(log) + 1}
      /\ \A j \in DOMAIN log : j \in Nat /\ j < Len(log) + 1 /\ log'[j] = log[j]
      /\ log'[Len(log) + 1] = m
      /\ Range(log') = Range(log) \cup {m}
      /\ Len(log) + 1 \in Nat
    BY Appended DEF TypeOK
<1>2. InHand' = InHand /\ Unsupported' = Unsupported /\ Busy' = Busy
    BY DEF InHand, Busy, Unsupported, KindOf
<1>3. inbox' \in Seq(Range(log'))
    BY <1>1 DEF TypeOK
<1>4. unacked' \in [Chans -> SUBSET (Range(log') \ gone')]
    <2>1. m \notin gone /\ Range(log) \ gone \subseteq Range(log') \ gone'
        BY <1>1 DEF TypeOK
    <2>2. QED
        BY <2>1 DEF TypeOK
<1>5. TypeOK'
    BY <1>1, <1>3, <1>4 DEF TypeOK
<1>6. HandInv'
    BY <1>1, <1>2 DEF HandInv
<1>7. QueueInv'
    BY <1>1 DEF QueueInv, Range
<1>8. Delivered' = Delivered /\ Delivered \subseteq Range(log)
    BY <1>2 DEF Delivered, TypeOK, HandInv, Range
<1>9. OrderInv'
    <2> SUFFICES ASSUME NEW i \in DOMAIN log', NEW j \in DOMAIN log',
                        i < j, log'[j] \in Delivered
                 PROVE  log'[i] \in gone \/ <<log'[i], log'[j]>> \in overtaken
        BY <1>8 DEF OrderInv
    <2>1. j # Len(log) + 1
        BY <1>1, <1>8
    <2>2. i # Len(log) + 1
        BY <1>1, <2>1
    <2>3. QED
        BY <1>1, <2>1, <2>2 DEF OrderInv
<1>10. AtLeastOnce' /\ StaleInv'
    BY <1>2 DEF AtLeastOnce, Unsupported, StaleInv, StaleOnce
<1>11. WayInv'
    BY <1>2 DEF WayInv
<1>12. QED
    BY <1>5, <1>6, <1>7, <1>9, <1>10, <1>11

(* A message is delivered to a channel that has none unacknowledged, the   *)
(* oldest: what was queued before it has left the queue or is held by      *)
(* another channel.                                                        *)
LEMMA NoneUnacked ==
    ASSUME DeliveryInv, NEW c \in Chans, Cardinality(unacked[c]) < Prefetch
    PROVE  unacked[c] = {}
<1>1. IsFiniteSet(unacked[c])
    BY DEF DeliveryInv, QueueInv
<1>2. Cardinality(unacked[c]) \in Nat
    BY <1>1, FS_CardinalityType
<1>3. Cardinality(unacked[c]) = 0
    BY <1>2 DEF Prefetch
<1>4. QED
    BY <1>1, <1>3, FS_EmptySet

LEMMA OldestReady ==
    ASSUME DeliveryInv, NEW c \in Chans, NEW m \in Msgs, Deliver(c, m)
    PROVE  \A i, j \in DOMAIN log :
             i < j /\ log[j] = m
               => \/ log[i] \in gone
                  \/ /\ \E d \in Chans \ {c} : log[i] \in unacked[d]
                     /\ Pos(log[i]) < Pos(m)
<1> SUFFICES ASSUME NEW i \in DOMAIN log, NEW j \in DOMAIN log, i < j, log[j] = m,
                    log[i] \notin gone
             PROVE  /\ \E d \in Chans \ {c} : log[i] \in unacked[d]
                    /\ Pos(log[i]) < Pos(m)
    OBVIOUS
<1>1. Pos(m) = j /\ Pos(log[i]) = i
    BY DEF Pos, DeliveryInv, QueueInv
<1>2. i \in Nat /\ j \in Nat
    BY DEF DeliveryInv, TypeOK
<1>3. log[i] \notin Ready
    BY <1>1, <1>2 DEF Deliver
<1>4. PICK d \in Chans : log[i] \in unacked[d]
    BY <1>3 DEF Ready, Range
<1>5. unacked[c] = {}
    BY NoneUnacked DEF Deliver
<1>6. QED
    BY <1>1, <1>4, <1>5

LEMMA DeliverStep ==
    ASSUME DeliveryInv, NEW c \in Chans, NEW m \in Msgs, Deliver(c, m)
    PROVE  DeliveryInv'
<1> USE DEF DeliveryInv, Deliver, queueVars, confVars, updateVars
<1>1. unacked[c] = {}
    BY NoneUnacked
<1>2. m \in Range(log) \ gone /\ \A d \in Chans : m \notin unacked[d]
    BY DEF Ready
<1>3. InHand' = InHand /\ Unsupported' = Unsupported /\ Busy' = Busy
    BY DEF InHand, Busy, Unsupported, KindOf
<1>4. \A d \in Chans : unacked'[d] = IF d = c THEN {m} ELSE unacked[d]
    BY <1>1 DEF TypeOK
<1>5. unacked' \in [Chans -> SUBSET (Range(log) \ gone)]
    BY <1>2 DEF TypeOK
<1>6. inbox' \in Seq(Range(log)) /\ Range(inbox') \subseteq Range(inbox) \cup {m}
      /\ (c # chan => inbox' = inbox)
    BY <1>2, Appended DEF TypeOK
<1>7. overtaken \subseteq overtaken' /\ overtaken' \subseteq Range(log) \X Range(log)
    BY <1>2 DEF TypeOK, Passed, Held
<1>8. TypeOK'
    BY <1>5, <1>6, <1>7 DEF TypeOK
<1>9. HandInv'
    BY <1>3 DEF HandInv
<1>10. QueueInv'
    <2>1. IsFiniteSet({m})
        BY FS_Singleton
    <2>2. \A d \in Chans : IsFiniteSet(unacked'[d])
        BY <1>4, <2>1 DEF QueueInv
    <2>3. \A d, e \in Chans : d # e => unacked'[d] \cap unacked'[e] = {}
        BY <1>2, <1>4 DEF QueueInv
    <2>4. \A d \in Chans \ open : unacked'[d] = {}
        BY <1>4 DEF QueueInv
    <2>5. QED
        BY <2>2, <2>3, <2>4 DEF QueueInv
<1>11. OrderInv'
    <2> SUFFICES ASSUME NEW i \in DOMAIN log, NEW j \in DOMAIN log,
                        i < j, log[j] \in Delivered'
                 PROVE  log[i] \in gone \/ <<log[i], log[j]>> \in overtaken'
        BY DEF OrderInv
    <2>1. CASE log[j] \in Delivered
        BY <1>7, <2>1 DEF OrderInv
    <2>2. CASE log[j] = m /\ c = chan
        <3>1. SUFFICES ASSUME log[i] \notin gone PROVE <<log[i], log[j]>> \in overtaken'
            OBVIOUS
        <3>2. log[i] \in Held /\ Pos(log[i]) < Pos(m)
            BY <2>2, <3>1, OldestReady DEF Held
        <3>3. QED
            BY <2>2, <3>2 DEF Passed
    <2>3. QED
        BY <1>3, <1>6, <2>1, <2>2 DEF Delivered
<1>12. AtLeastOnce' /\ StaleInv'
    BY <1>3 DEF AtLeastOnce, Unsupported, StaleInv, StaleOnce
<1>13. WayInv'
    <2>1. CASE c = chan
        <3>1. inbox = <<>> /\ ~Busy
            BY <1>1, <2>1, OneMessage DEF WayInv, InHand
        <3>2. inbox' = <<m>> /\ m \notin gone
            BY <1>2, <2>1, <3>1
        <3>3. unacked'[chan] = {m} /\ Range(inbox') = {m}
            BY <1>4, <2>1, <3>2, OneMessage
        <3>4. chan # None
            BY <2>1, DeliveryAssumption
        <3>5. QED
            BY <1>3, <2>1, <3>1, <3>2, <3>3, <3>4 DEF WayInv, InHand
    <2>2. CASE c # chan
        <3>1. chan \in open => unacked'[chan] = unacked[chan]
            BY <1>4, <2>2 DEF TypeOK
        <3>2. QED
            BY <1>3, <1>6, <2>2, <3>1 DEF WayInv
    <2>3. QED
        BY <2>1, <2>2
<1>14. QED
    BY <1>8, <1>9, <1>10, <1>11, <1>12, <1>13

(* An acknowledgement, or a negative one, that may reach the broker.       *)
LEMMA AnswerStep ==
    ASSUME DeliveryInv, Ack \/ Nack
    PROVE  DeliveryInv'
<1> USE DEF DeliveryInv, Ack, Nack, Done, confVars, updateVars
<1>1. job \in Range(log) /\ Busy /\ inbox = <<>>
    BY DEF HandInv, InHand, Busy, WayInv
<1>2. InHand' = {} /\ Unsupported' = Unsupported /\ ~Busy'
    BY DEF InHand, Busy, Unsupported, KindOf
<1>3. \A c \in Chans : unacked'[c] = IF c = chan /\ c \in open
                                     THEN unacked[c] \ {job} ELSE unacked[c]
    BY DEF Answered
<1>4. \/ gone' = gone
      \/ chan \in open /\ gone' = gone \cup {job} /\ wpc = "ack"
    OBVIOUS
<1>5. chan \in open => unacked[chan] = {job} /\ chan \in Chans
    BY <1>1, OneMessage DEF WayInv, InHand, TypeOK
<1>6. \A c \in Chans : unacked'[c] \subseteq Range(log) \ gone'
    <2>1. SUFFICES ASSUME NEW c \in Chans PROVE unacked'[c] \subseteq Range(log) \ gone'
        OBVIOUS
    <2>2. unacked[c] \subseteq Range(log) \ gone /\ unacked'[c] \subseteq unacked[c]
        BY <1>3 DEF TypeOK
    <2>3. chan \in open => job \notin unacked'[c]
        BY <1>3, <1>5 DEF QueueInv
    <2>4. QED
        BY <1>4, <2>2, <2>3
<1>7. unacked' \in [Chans -> SUBSET (Range(log) \ gone')]
    BY <1>6 DEF Answered
<1>8. TypeOK'
    BY <1>1, <1>4, <1>7 DEF TypeOK, WorkerSteps
<1>9. HandInv'
    BY <1>2 DEF HandInv
<1>10. QueueInv'
    <2>1. \A c \in Chans : unacked'[c] \in {unacked[c], unacked[c] \ {job}}
        BY <1>3
    <2>2. \A c \in Chans : IsFiniteSet(unacked[c] \ {job})
        BY FS_RemoveElement DEF QueueInv
    <2>3. \A c \in Chans : IsFiniteSet(unacked'[c])
        BY <2>1, <2>2 DEF QueueInv
    <2>4. \A c, d \in Chans : c # d => unacked'[c] \cap unacked'[d] = {}
        BY <2>1 DEF QueueInv
    <2>5. QED
        BY <2>1, <2>3, <2>4 DEF QueueInv
<1>11. OrderInv'
    BY <1>2, <1>4 DEF OrderInv, Delivered
<1>12. AtLeastOnce'
    BY <1>2, <1>4 DEF AtLeastOnce, HandInv, Unsupported
<1>13. StaleInv'
    BY DEF StaleInv, StaleOnce
<1>14. WayInv'
    <2>1. chan \in open => unacked'[chan] = {}
        BY <1>3, <1>5
    <2>2. QED
        BY <1>1, <1>2, <2>1, OneMessage DEF WayInv
<1>15. QED
    BY <1>8, <1>9, <1>10, <1>11, <1>12, <1>13, <1>14

(* The other steps are quiet.                                              *)
LEMMA SetupQuiet ==
    ASSUME DeliveryInv,
           \/ \E c \in Configs : Start(c) \/ Update(c)
           \/ TouchGet \/ TouchSet \/ SetupFails \/ UNCHANGED vars
    PROVE  DeliveryInv'
<1> USE DEF DeliveryInv, Goto, TypeOK, WorkerSteps, StaleCap, InHand, Busy, HandInv
<1>1. ASSUME NEW c \in Configs, Start(c) \/ Update(c) PROVE DeliveryInv'
    <2> USE DEF Start, Update, Configure, queueVars, chanVars
    <2>1. Lost
        BY <1>1, LostStays
    <2>2. StaleInv' /\ WayInv'
        BY <1>1 DEF StaleInv, StaleOnce, WayInv
    <2>3. QED
        BY <1>1, <2>1, <2>2, QuietStep
<1>2. CASE TouchGet \/ TouchSet
    <2> USE DEF TouchGet, TouchSet, updateVars, queueVars, chanVars
    <2>1. Lost
        BY <1>2, LostStays
    <2>2. StaleInv' /\ WayInv'
        BY <1>2 DEF StaleInv, StaleOnce, WayInv
    <2>3. QED
        BY <1>2, <2>1, <2>2, QuietStep
<1>3. CASE SetupFails \/ UNCHANGED vars
    <2> USE DEF SetupFails, vars, confVars, updateVars, queueVars, chanVars
    <2>1. Lost
        BY <1>3, LostStays
    <2>2. StaleInv' /\ WayInv'
        BY <1>3 DEF StaleInv, StaleOnce, WayInv
    <2>3. QED
        BY <1>3, <2>1, <2>2, QuietStep
<1>4. QED
    BY <1>1, <1>2, <1>3

(* A channel that a worker takes for its own has no deliveries yet.        *)
LEMMA SubscribeQuiet ==
    ASSUME DeliveryInv, NEW c \in Chans, Subscribe(c)
    PROVE  DeliveryInv'
<1> USE DEF DeliveryInv, Subscribe, Goto, TypeOK, WorkerSteps, InHand, Busy, HandInv,
            queueVars, confVars, updateVars
<1>1. unacked[c] = {}
    BY DEF QueueInv
<1>2. Lost
    BY <1>1 DEF Lost, QueueInv
<1>3. StaleInv' /\ WayInv'
    BY <1>1, OneMessage DEF StaleInv, StaleOnce, WayInv
<1>4. QED
    BY <1>2, <1>3, QuietStep

LEMMA SelectQuiet ==
    ASSUME DeliveryInv, SelectClosed \/ SelectExit \/ SelectDelivery
    PROVE  DeliveryInv'
<1> USE DEF DeliveryInv, Goto, TypeOK, WorkerSteps, InHand, Busy, HandInv,
            queueVars, chanVars, confVars
<1>1. CASE SelectClosed \/ SelectExit
    <2> USE DEF SelectClosed, SelectExit, updateVars
    <2>1. Lost
        BY <1>1, LostStays
    <2>2. StaleInv' /\ WayInv'
        BY <1>1, DeliveryAssumption DEF StaleInv, StaleOnce, WayInv
    <2>3. QED
        BY <1>1, <2>1, <2>2, QuietStep
<1>2. CASE SelectDelivery
    <2> USE DEF SelectDelivery
    <2>1. Lost
        BY <1>2, LostStays
    <2>2. PICK m \in Msgs : inbox = <<m>>
        BY <1>2 DEF WayInv
    <2>3. inbox' = <<>> /\ job' = m /\ Range(inbox) = {m} /\ Range(inbox') = {}
        BY <1>2, <2>2, OneMessage
    <2>4. StaleInv' /\ stale' \in 0..StaleCap
        BY <1>2 DEF StaleInv, StaleOnce, StaleCap
    <2>5. WayInv'
        BY <1>2, <2>3 DEF WayInv
    <2>6. QED
        BY <1>2, <2>1, <2>3, <2>4, <2>5, QuietStep
<1>3. QED
    BY <1>1, <1>2

LEMMA ProcessQuiet ==
    ASSUME DeliveryInv, Process
    PROVE  DeliveryInv'
<1> USE DEF DeliveryInv, Goto, TypeOK, WorkerSteps, InHand, Busy, HandInv,
            queueVars, chanVars, confVars, updateVars, Process, ProcessSucceeds,
            ProcessFails, ProcessDrops, FailureStep
<1>1. Lost
    BY LostStays
<1>2. StaleInv'
    BY DEF StaleInv, StaleOnce
<1>3. WayInv'
    BY DEF WayInv
<1>4. wpc' = "ack" => job' \in handled' \cup Unsupported
    <2>1. Range(log) \subseteq Msgs
        BY DEF Range
    <2>2. job \in Msgs
        BY <2>1
    <2>3. QED
        BY <2>2 DEF Unsupported
<1>5. QED
    BY <1>1, <1>2, <1>3, <1>4, QuietStep

(* Channels break or close, workers leave, the process dies.               *)
LEMMA LeavingQuiet ==
    ASSUME DeliveryInv,
           \/ \E c \in Chans : ChannelBreaks(c) \/ Close(c)
           \/ Remove \/ Crash \/ Panic
    PROVE  DeliveryInv'
<1> USE DEF DeliveryInv, Goto, TypeOK, WorkerSteps, InHand, Busy, HandInv
<1>1. ASSUME NEW c \in Chans, ChannelBreaks(c) \/ Close(c) PROVE DeliveryInv'
    <2> USE DEF ChannelBreaks, Close, confVars, updateVars
    <2>1. Lost /\ Lose({c})
        BY <1>1, LostLoses
    <2>2. open' \subseteq open /\ \A d \in open' : unacked'[d] = unacked[d]
        BY <2>1 DEF Lose
    <2>3. StaleInv'
        BY <1>1 DEF StaleInv, StaleOnce
    <2>4. WayInv'
        BY <1>1, <2>1, <2>2 DEF WayInv, Lose, queueVars
    <2>5. QED
        BY <1>1, <2>1, <2>3, <2>4, QuietStep DEF Lose, queueVars
<1>2. CASE Remove \/ Crash \/ Panic
    <2> USE DEF Remove, Crash, Panic, Dies, Leaves, Configure, StaleCap
    <2>1. Lost
        BY <1>2, LostStays, LostLoses
    <2>2. UNCHANGED <<log, gone, kind, handled, overtaken>>
        BY <1>2 DEF Lose, queueVars
    <2>3. StaleInv'
        BY <1>2 DEF StaleInv, StaleOnce
    <2>4. None \notin open'
        BY <2>1, DeliveryAssumption DEF Lost
    <2>5. WayInv'
        BY <1>2, <2>2, <2>4, OneMessage DEF WayInv
    <2>6. QED
        BY <1>2, <2>1, <2>2, <2>3, <2>5, QuietStep
<1>3. QED
    BY <1>1, <1>2

(* Every step preserves the invariant.                                     *)
LEMMA NextInv == DeliveryInv /\ [Next]_vars => DeliveryInv'
<1> SUFFICES ASSUME DeliveryInv, [Next]_vars PROVE DeliveryInv'
    OBVIOUS
<1>1. ASSUME NEW m \in Msgs, Arrive(m) PROVE DeliveryInv'
    BY <1>1, ArriveStep
<1>2. CASE Broker
    BY <1>2, DeliverStep DEF Broker
<1>3. CASE Worker
    BY <1>3, SetupQuiet, SubscribeQuiet, SelectQuiet, ProcessQuiet, LeavingQuiet, AnswerStep
       DEF Worker
<1>4. CASE Leaver \/ (\E c \in Chans : ChannelBreaks(c)) \/ Crash
    BY <1>4, LeavingQuiet DEF Leaver
<1>5. CASE SelectExit
    BY <1>5, SelectQuiet
<1>6. CASE SetupFails \/ (\E c \in Configs : Start(c) \/ Update(c)) \/ UNCHANGED vars
    BY <1>6, SetupQuiet
<1>7. QED
    BY <1>1, <1>2, <1>3, <1>4, <1>5, <1>6 DEF Next

-----------------------------------------------------------------------------
(* The queue is worked off from its front                                  *)

Current == Range(inbox) \cup ({job} \ {None})

queue == <<log, gone, handled, Current, Held, Unsupported>>

(* What the worker has taken is what is in deliveryChn or in its hands.    *)
LEMMA CurrentIs ==
    ASSUME DeliveryInv
    PROVE  /\ Current = Range(inbox) \cup InHand
           /\ Busy => job \in Msgs /\ Current = {job}
           /\ chan \in open => chan \in Chans /\ unacked[chan] = Current
<1>1. Range(log) \subseteq Msgs
    BY DEF DeliveryInv, TypeOK, Range
<1>2. Busy => job \in Msgs /\ job # None
    BY <1>1, DeliveryAssumption DEF DeliveryInv, HandInv, InHand
<1>3. ~Busy => job = None
    BY DEF DeliveryInv, WayInv
<1>4. Busy => Range(inbox) = {}
    BY OneMessage DEF DeliveryInv, WayInv
<1>5. Current = Range(inbox) \cup InHand
    BY <1>2, <1>3 DEF Current, InHand
<1>6. Busy => Current = {job}
    BY <1>4, <1>5 DEF InHand
<1>7. chan \in open => chan \in Chans /\ unacked[chan] = Current
    BY <1>5 DEF DeliveryInv, WayInv, TypeOK
<1>8. QED
    BY <1>2, <1>5, <1>6, <1>7

(* A delivery to the worker takes from the queue, one to the channel of a  *)
(* worker that has left holds back.                                        *)
LEMMA DeliveryTakes ==
    ASSUME DeliveryInv, NEW c \in Chans, NEW m \in Msgs, Deliver(c, m),
           UNCHANGED Unsupported
    PROVE  Queue!Next
<1>1. unacked[c] = {} /\ m \in Range(log) \ gone /\ \A d \in Chans : m \notin unacked[d]
    BY NoneUnacked DEF Deliver, Ready
<1>2. \A d \in Chans : unacked'[d] = IF d = c THEN {m} ELSE unacked[d]
    BY <1>1 DEF Deliver, DeliveryInv, TypeOK
<1>3. PICK j \in DOMAIN log : log[j] = m
    BY <1>1 DEF Range
<1>4. j \in Nat /\ \A i \in 1..(j - 1) : i \in DOMAIN log /\ i < j
    BY DEF DeliveryInv, TypeOK
<1>5. m \notin gone \cup Held
    BY <1>1 DEF Held
<1>6. \A i \in 1..(j - 1) : log[i] \in gone \/ \E d \in Chans \ {c} : log[i] \in unacked[d]
    BY <1>3, <1>4, OldestReady
<1>7. UNCHANGED <<log, gone, handled, job>>
    BY DEF Deliver, queueVars
<1>8. CASE c = chan
    <2>1. Current = {}
        BY <1>1, <1>8, CurrentIs DEF Deliver
    <2>2. inbox = <<>> /\ job \in {None}
        BY <2>1, OneMessage DEF DeliveryInv, WayInv, Current
    <2>3. inbox' = <<m>>
        BY <1>8, <2>2 DEF Deliver
    <2>4. Current' = {m}
        BY <1>7, <2>2, <2>3, OneMessage DEF Current
    <2>5. Held' = Held
        BY <1>2, <1>8 DEF Held, Deliver
    <2>6. \A i \in 1..(j - 1) : log[i] \in gone \cup Held
        BY <1>6, <1>8 DEF Held
    <2>7. Queue!FrontBut({}, m)
        BY <1>3, <1>5, <2>6 DEF Queue!FrontBut, Held
    <2>8. Queue!Take
        BY <1>7, <2>1, <2>4, <2>5, <2>7 DEF Queue!Take, Current, Held
    <2>9. QED
        BY <2>8 DEF Queue!Next, Unsupported
<1>9. CASE c # chan
    <2>1. Current' = Current
        BY <1>7, <1>9 DEF Current, Deliver
    <2>2. Held' = Held \cup {m}
        BY <1>1, <1>2, <1>9 DEF Held, Deliver
    <2>3. \A i \in 1..(j - 1) : log[i] \in gone \cup Held \cup Current
        <3>1. SUFFICES ASSUME NEW i \in 1..(j - 1), log[i] \notin gone, log[i] \notin Held
                       PROVE  log[i] \in Current
            OBVIOUS
        <3>2. chan \in Chans /\ log[i] \in unacked[chan]
            BY <1>6, <3>1 DEF Held
        <3>3. chan \in open
            BY <3>2 DEF DeliveryInv, QueueInv
        <3>4. QED
            BY <3>2, <3>3, CurrentIs
    <2>4. Queue!FrontBut(Current, m)
        BY <1>3, <1>5, <2>3 DEF Queue!FrontBut, Held
    <2>5. Queue!Hold
        BY <1>7, <2>1, <2>2, <2>4 DEF Queue!Hold, Current, Held
    <2>6. QED
        BY <2>5 DEF Queue!Next, Unsupported
<1>10. QED
    BY <1>8, <1>9

(* A step that removes and handles nothing and after which the worker has  *)
(* what it had, or nothing, and others hold no more than they did or than  *)
(* it had, gives back or lets go.                                          *)
LEMMA LetsGo ==
    ASSUME UNCHANGED <<log, gone, handled, Unsupported>>,
           \/ Current' = Current /\ Held' \subseteq Held
           \/ Current' = {} /\ Held' \subseteq Held \cup Current
    PROVE  Queue!Next
<1>1. CASE Current' = Current /\ Held' \subseteq Held
    BY <1>1 DEF Queue!Next, Queue!Release, Current, Held, Unsupported
<1>2. CASE Current' = {} /\ Held' \subseteq Held \cup Current
    BY <1>2 DEF Queue!Next, Queue!GiveBack, Current, Held, Unsupported
<1>3. QED
    BY <1>1, <1>2

(* The broker's removal of what was acknowledged, and a requeue.           *)
LEMMA AnswerRemoves ==
    ASSUME DeliveryInv, Ack \/ Nack, UNCHANGED Unsupported
    PROVE  Queue!Next
<1> USE DEF Ack, Nack, Done
<1>1. Busy /\ inbox = <<>>
    BY DEF Busy, DeliveryInv, WayInv
<1>2. Current = {job}
    BY <1>1, CurrentIs
<1>3. Current' = {}
    BY <1>1, OneMessage DEF Current
<1>4. Held' = Held
    BY DEF Held, Answered
<1>5. CASE gone' = gone
    BY <1>3, <1>4, <1>5, LetsGo
<1>6. CASE gone' # gone
    <2>1. gone' = gone \cup {job} /\ job \in handled \cup Unsupported
        BY <1>6 DEF DeliveryInv, HandInv
    <2>2. Queue!Remove
        BY <1>2, <1>3, <1>4, <2>1 DEF Queue!Remove, Current, Held, Unsupported
    <2>3. QED
        BY <2>2 DEF Queue!Next, Unsupported
<1>7. QED
    BY <1>5, <1>6

(* process handles what the worker has taken, or does not.                 *)
LEMMA ProcessHandles ==
    ASSUME DeliveryInv, Process, UNCHANGED Unsupported
    PROVE  Queue!Next
<1>1. /\ Busy
      /\ UNCHANGED <<log, gone, inbox, job, chan, unacked>>
      /\ handled' \in {handled, handled \cup {job}}
    BY DEF Process, ProcessSucceeds, ProcessFails, ProcessDrops, Goto, Busy, queueVars, chanVars
<1>2. Current' = Current /\ Held' = Held /\ job \in Current
    BY <1>1, CurrentIs DEF Current, Held
<1>3. CASE handled' = handled
    BY <1>1, <1>2, <1>3, LetsGo
<1>4. CASE handled' = handled \cup {job}
    BY <1>1, <1>2, <1>4 DEF Queue!Next, Queue!Handle, Current, Held, Unsupported
<1>5. QED
    BY <1>1, <1>3, <1>4

(* Channels break or close, workers leave, the process dies.               *)
LEMMA LeavingLetsGo ==
    ASSUME DeliveryInv, UNCHANGED Unsupported,
           \/ \E c \in Chans : ChannelBreaks(c) \/ Close(c)
           \/ Remove \/ Crash \/ Panic
    PROVE  Queue!Next
<1>1. UNCHANGED <<log, gone, handled>>
    BY DEF ChannelBreaks, Close, Remove, Crash, Panic, Dies, Lose, queueVars
<1>2. ASSUME NEW c \in Chans, ChannelBreaks(c) \/ Close(c) PROVE Queue!Next
    <2>1. Lost /\ UNCHANGED <<chan, inbox, job>>
        BY <1>2, LostLoses DEF ChannelBreaks, Close
    <2>2. Current' = Current /\ Held' \subseteq Held
        BY <2>1 DEF Current, Held, Lost
    <2>3. QED
        BY <1>1, <2>2, LetsGo
<1>3. CASE Remove \/ Crash \/ Panic
    <2>1. Lost /\ chan' = None /\ inbox' = <<>> /\ job' = None
        BY <1>3, LostStays, LostLoses DEF Remove, Crash, Panic, Dies, Leaves
    <2>2. Current' = {}
        BY <2>1, OneMessage DEF Current
    <2>3. \A c \in Chans : unacked'[c] \subseteq Held \cup Current
        <3>1. SUFFICES ASSUME NEW c \in Chans PROVE unacked[c] \subseteq Held \cup Current
            BY <2>1 DEF Lost
        <3>2. CASE c # chan
            BY <3>2 DEF Held
        <3>3. CASE c = chan
            BY <3>3, CurrentIs DEF DeliveryInv, QueueInv
        <3>4. QED
            BY <3>2, <3>3
    <2>4. Held' \subseteq Held \cup Current
        BY <2>1, <2>3 DEF Held
    <2>5. QED
        BY <1>1, <2>2, <2>4, LetsGo
<1>4. QED
    BY <1>2, <1>3

(* The worker's own steps between its channel and process.                 *)
LEMMA WorkerLetsGo ==
    ASSUME DeliveryInv, UNCHANGED Unsupported,
           \/ \E c \in Configs : Start(c) \/ Update(c)
           \/ TouchGet \/ TouchSet \/ SetupFails \/ SelectExit
           \/ \E c \in Chans : Subscribe(c)
           \/ SelectClosed \/ SelectDelivery
    PROVE  Queue!Next
<1> USE DEF queueVars, chanVars, Goto
<1>1. CASE \/ \E c \in Configs : Start(c) \/ Update(c)
           \/ TouchGet \/ TouchSet \/ SetupFails \/ SelectExit
    BY <1>1, LetsGo DEF Start, Update, TouchGet, TouchSet, SetupFails, SelectExit, Current, Held
<1>2. ASSUME NEW c \in Chans, Subscribe(c) PROVE Queue!Next
    <2>1. unacked[c] = {} /\ chan = None /\ chan' = c /\ UNCHANGED <<unacked, inbox, job>>
        BY <1>2 DEF Subscribe, DeliveryInv, QueueInv, WayInv
    <2>2. Current' = Current /\ Held' \subseteq Held
        BY <2>1, DeliveryAssumption DEF Current, Held
    <2>3. QED
        BY <1>2, <2>2, LetsGo DEF Subscribe
<1>3. CASE SelectClosed
    <2>1. \A c \in Chans : c = chan => unacked[c] = {}
        BY <1>3 DEF SelectClosed, DeliveryInv, QueueInv
    <2>2. Current' = Current /\ Held' \subseteq Held
        BY <1>3, <2>1 DEF Current, Held, SelectClosed
    <2>3. QED
        BY <1>3, <2>2, LetsGo DEF SelectClosed
<1>4. CASE SelectDelivery
    <2>1. PICK m \in Msgs : inbox = <<m>>
        BY <1>4 DEF SelectDelivery, DeliveryInv, WayInv
    <2>2. inbox' = <<>> /\ job' = m /\ Range(inbox) = {m} /\ Range(inbox') = {} /\ m # None
        BY <1>4, <2>1, OneMessage, DeliveryAssumption DEF SelectDelivery
    <2>3. job = None
        BY <1>4 DEF SelectDelivery, DeliveryInv, WayInv, Busy
    <2>4. Current' = Current /\ Held' = Held
        BY <1>4, <2>2, <2>3 DEF Current, Held, SelectDelivery
    <2>5. QED
        BY <1>4, <2>4, LetsGo DEF SelectDelivery
<1>5. QED
    BY <1>1, <1>2, <1>3, <1>4

LEMMA QueueStep == DeliveryInv /\ [Next]_vars => [Queue!Next]_queue
<1> SUFFICES ASSUME DeliveryInv, [Next]_vars PROVE [Queue!Next]_queue
    OBVIOUS
<1>1. UNCHANGED Unsupported
    <2>1. kind' = kind
        BY DEF Next, Broker, Worker, Leaver, Process, Arrive, Deliver, Lose, ChannelBreaks,
               Close, Start, Update, TouchGet, TouchSet, Subscribe, SetupFails, SelectClosed,
               SelectExit, SelectDelivery, Remove, ProcessSucceeds, ProcessFails, ProcessDrops,
               Done, Ack, Nack, Dies, Crash, Panic, queueVars, vars
    <2>2. QED
        BY <2>1 DEF Unsupported, KindOf
<1>2. ASSUME NEW m \in Msgs, Arrive(m) PROVE Queue!Next
    <2>1. Current' = Current /\ Held' = Held
        BY <1>2 DEF Arrive, Current, Held, chanVars
    <2>2. QED
        BY <1>1, <1>2, <2>1 DEF Arrive, Range, Current, Held, Queue!Next, Queue!Enqueue,
           Queue!Range, Unsupported
<1>3. CASE Broker
    BY <1>1, <1>3, DeliveryTakes DEF Broker
<1>4. CASE Worker
    BY <1>1, <1>4, WorkerLetsGo, LeavingLetsGo, ProcessHandles, AnswerRemoves DEF Worker
<1>5. CASE Leaver \/ (\E c \in Chans : ChannelBreaks(c)) \/ Crash
    BY <1>1, <1>5, LeavingLetsGo DEF Leaver
<1>6. CASE SelectExit \/ SetupFails \/ \E c \in Configs : Start(c) \/ Update(c)
    BY <1>1, <1>6, WorkerLetsGo
<1>7. CASE UNCHANGED vars
    BY <1>1, <1>7 DEF vars, queueVars, chanVars, queue, Current, Held
<1>8. QED
    BY <1>2, <1>3, <1>4, <1>5, <1>6, <1>7 DEF Next

-----------------------------------------------------------------------------
(* Theorems                                                                *)

(* The invariant holds of every behaviour of the workers and the broker.   *)
THEOREM DeliveryInvariant == Spec => []DeliveryInv
<1>1. QED
    BY InitInv, NextInv, PTL DEF Spec

(* Every variable of the delivery has its type (message.go:473-604).       *)
THEOREM DeliveryTypes == Spec => []TypeOK
<1>1. DeliveryInv => TypeOK
    BY DEF DeliveryInv
<1>2. QED
    BY <1>1, DeliveryInvariant, PTL

(* The broker drops a message only once the consumer's URL has handled it, *)
(* or because process could not read it (message.go:589-591).              *)
THEOREM DeliveredAtLeastOnce == Spec => []AtLeastOnce
<1>1. DeliveryInv => AtLeastOnce
    BY DEF DeliveryInv
<1>2. QED
    BY <1>1, DeliveryInvariant, PTL

(* No message is handled before one queued earlier has been handled or has *)
(* left the queue, but for what the channel of a worker that has left      *)
(* still held when it was delivered (message.go:478, 480, 546).            *)
THEOREM DeliveredInOrder == Spec => []HandledInOrder
<1>1. DeliveryInv => HandledInOrder
    BY DEF DeliveryInv, OrderInv, Delivered, HandledInOrder
<1>2. QED
    BY <1>1, DeliveryInvariant, PTL

(* After an update that the worker's write-back has not undone, at most    *)
(* one more delivery is begun with the old configuration                   *)
(* (message.go:569-589).                                                   *)
THEOREM DeliveredStaleOnce == Spec => []StaleOnce
<1>1. DeliveryInv => StaleOnce
    BY DEF DeliveryInv, StaleInv
<1>2. QED
    BY <1>1, DeliveryInvariant, PTL

(* What the worker passes to the URL has not left the queue: nothing that  *)
(* was acknowledged is handled again (message.go:478-480, 554, 581-604).   *)
THEOREM DeliveredStillQueued == Spec => []InHandStillQueued
<1>1. DeliveryInv => InHandStillQueued
    BY DEF DeliveryInv, WayInv, InHand, InHandStillQueued
<1>2. QED
    BY <1>1, DeliveryInvariant, PTL

(* The worker works the queue off from its front, one message after the    *)
(* other, passing only what the channel of a worker that has left holds    *)
(* back: Delivery implements ConsumerQueue (message.go:478-480, 546-604).  *)
THEOREM DeliveredFromFront == Spec => ImplementsQueue
<1>1. Init => Queue!Init
    <2> SUFFICES ASSUME Init PROVE Queue!Init
        OBVIOUS
    <2>1. Range(inbox) = {} /\ {job} \ {None} = {} /\ Held = {}
        BY OneMessage DEF Init, Held
    <2>2. QED
        BY <2>1 DEF Init, Queue!Init, Held
<1>2. DeliveryInv /\ [Next]_vars
        => [Queue!Next]_<<log, gone, handled, Range(inbox) \cup ({job} \ {None}), Held,
                          {m \in Msgs : KindOf(m) = "unsupported"}>>
    BY QueueStep DEF queue, Current, Unsupported
<1>3. QED
    BY <1>1, <1>2, DeliveryInvariant, PTL DEF Spec, ImplementsQueue, Queue!Spec
=============================================================================
