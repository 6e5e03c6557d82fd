------------------------------ MODULE Delivery ------------------------------
(***************************************************************************)
(* How wmq delivers the messages of a consumer's queue to the consumer's   *)
(* URL: the consuming loop of the worker and process (src/message.go).     *)
(* The worker takes one delivery at a time, calls the URL, acknowledges    *)
(* what succeeded and requeues what failed.                                *)
(*                                                                         *)
(* A worker that is told to exit removes its key from the registry before  *)
(* it closes its channel (478, 480): the next worker may consume the queue *)
(* while the broker still counts on the old channel, which may hold a      *)
(* delivery that nobody will take.                                         *)
(*                                                                         *)
(* Messages come from apiPublish (see Publishing) or from other programs   *)
(* that publish to the exchange.  How the manager starts and stops workers *)
(* and each call of their set-up are in ConsumerManager.  The broker is    *)
(* external: it keeps its queue when wmq or a connection dies, and         *)
(* requeues at its place what was delivered and not acknowledged.          *)
(***************************************************************************)
EXTENDS Naturals, FiniteSets, Sequences, Functions

CONSTANTS
    Msgs,          \* messages
    Foreign,       \* the messages that other programs publish
    Configs,       \* configurations of the consumer: its URL, ...
    Chans,         \* channels to the broker
    None           \* no message, no channel, no item

ASSUME DeliveryAssumption ==
    /\ Foreign \subseteq Msgs
    /\ None \notin Msgs \cup Chans \cup Configs

VARIABLES
    log,           \* all the messages routed to the queue, in order
    gone,          \* the messages the broker has removed from the queue
    kind,          \* of each foreign message, what process makes of it
    open,          \* the channels that consume the queue
    unacked,       \* of each channel, its deliveries not acknowledged
    chan,          \* the channel of the worker
    inbox,         \* deliveryChn: the deliveries the worker has not taken
    wpc,           \* the worker's step
    job,           \* the delivery the worker has in hand
    config,        \* the registry's item, if any: the configuration in force
    local,         \* the worker's copy of it, _item
    handled,       \* history: the messages the consumer's URL has handled
    overtaken,     \* history: <<x, m>> if m was delivered to the worker
                   \* while a worker that has left held x
    wanted,        \* history: the configuration of the last update
    stale          \* history: how many deliveries were begun with another
                   \* configuration since, to StaleCap

queueVars == <<log, gone, kind>>
chanVars == <<open, unacked>>
confVars == <<config, local>>
updateVars == <<wanted, stale>>
vars == <<queueVars, chanVars, chan, inbox, wpc, job, confVars, handled, overtaken,
          updateVars>>

-----------------------------------------------------------------------------
(* A foreign message may be like those of wmq; lack a field, which drops   *)
(* it; be no JSON and shorter than the 20 bytes that are logged, which     *)
(* panics; or have a method that is neither get nor post, which fails it.  *)
Kinds == {"good", "unsupported", "short", "method"}

KindOf(m) == IF m \in Foreign THEN kind[m] ELSE "good"

WorkerSteps == {"none", "setup", "retouch", "connect", "loop", "touch", "select",
                "process", "ack", "nack", "remove"}

(* Deliveries with an old configuration are counted up to this bound.      *)
StaleCap == 2

(* What was delivered to others than the worker: to the channels of        *)
(* workers that have left.                                                 *)
Held == UNION {unacked[c] : c \in Chans \ {chan}}

Ready == Range(log) \ (gone \cup UNION {unacked[c] : c \in Chans})

Pos(m) == CHOOSE i \in DOMAIN log : log[i] = m

(* What m passes if it is delivered to the worker.                         *)
Passed(m) == {x \in Held : Pos(x) < Pos(m)} \X {m}

TypeOK ==
    /\ log \in Seq(Msgs)
    /\ gone \subseteq Range(log)
    /\ kind \in [Foreign -> Kinds]
    /\ open \subseteq Chans
    /\ unacked \in [Chans -> SUBSET (Range(log) \ gone)]
    /\ chan \in Chans \cup {None}
    /\ inbox \in Seq(Range(log))
    /\ wpc \in WorkerSteps
    /\ job \in Msgs \cup {None}
    /\ {config, local, wanted} \subseteq Configs \cup {None}
    /\ handled \subseteq Range(log)
    /\ overtaken \subseteq Range(log) \X Range(log)
    /\ stale \in 0..StaleCap

Init ==
    /\ log = <<>>
    /\ gone = {}
    /\ kind \in [Foreign -> Kinds]
    /\ open = {}
    /\ unacked = [c \in Chans |-> {}]
    /\ chan = None
    /\ inbox = <<>>
    /\ wpc = "none"
    /\ job = None
    /\ config = None
    /\ local = None
    /\ handled = {}
    /\ overtaken = {}
    /\ wanted = None
    /\ stale = 0

-----------------------------------------------------------------------------
(* The broker                                                              *)

(* A message is routed to the queue.                                       *)
Arrive(m) ==
    /\ m \notin Range(log)
    /\ log' = Append(log, m)
    /\ UNCHANGED <<gone, kind, chanVars, chan, inbox, wpc, job, confVars, handled,
                   overtaken, updateVars>>

(* Qos: how many deliveries a channel may have unacknowledged.             *)
PrefetchTwo == 2                                                   \* fault

Prefetch == 1

(* The broker delivers the oldest message to a channel that consumes, while *)
(* the prefetch allows.                                                    *)
Deliver(c, m) ==
    /\ c \in open
    /\ Cardinality(unacked[c]) < Prefetch
    /\ m \in Ready
    /\ \A n \in Ready : Pos(m) <= Pos(n)
    /\ unacked' = [unacked EXCEPT ![c] = @ \cup {m}]
    /\ inbox' = IF c = chan THEN Append(inbox, m) ELSE inbox
    /\ overtaken' = IF c = chan THEN overtaken \cup Passed(m) ELSE overtaken
    /\ UNCHANGED <<queueVars, open, chan, wpc, job, confVars, handled, updateVars>>

(* Channels close; the broker requeues what was delivered on them.  The    *)
(* deliveries already in deliveryChn can still be read from it.            *)
Lose(C) ==
    /\ open' = open \ C
    /\ unacked' = [c \in Chans |-> IF c \in C THEN {} ELSE unacked[c]]
    /\ UNCHANGED <<queueVars, handled, overtaken>>

ChannelBreaks(c) ==
    /\ c \in open
    /\ Lose({c})
    /\ UNCHANGED <<chan, inbox, wpc, job, confVars, updateVars>>

-----------------------------------------------------------------------------
(* The worker: its set-up                                                  *)

Goto(from, to) == wpc = from /\ wpc' = to

(* The registry has a new item, or none any more.                          *)
Configure(c) ==
    /\ config' = c
    /\ wanted' = c
    /\ stale' = 0

(* The manager starts a worker for a consumer that is not registered ...   *)
Start(c) ==
    /\ Goto("none", "setup")
    /\ Configure(c)
    /\ UNCHANGED <<queueVars, chanVars, chan, inbox, job, local, handled, overtaken>>

(* ... or it serves an update of one that is.                              *)
Update(c) ==
    /\ wpc # "none"
    /\ Configure(c)
    /\ UNCHANGED <<queueVars, chanVars, chan, inbox, wpc, job, local, handled, overtaken>>

(* Each attempt of the set-up, and each round of the loop, begins with a   *)
(* Get of the item ...                                                     *)
TouchGet ==
    /\ Goto("setup", "retouch") \/ Goto("loop", "touch")
    /\ local' = config
    /\ UNCHANGED <<queueVars, chanVars, chan, inbox, job, config, handled, overtaken,
                   updateVars>>

(* ... and a Set of it with a new lasttime, which undoes an update between *)
(* the two.                                                                *)
TouchSet ==
    /\ Goto("retouch", "connect") \/ Goto("touch", "select")
    /\ config' = local
    /\ UNCHANGED <<queueVars, chanVars, chan, inbox, job, local, handled, overtaken,
                   updateVars>>

(* A worker has its channel, its queue and its deliveryChn (Consume) ...   *)
Subscribe(c) ==
    /\ c \notin open
    /\ Goto("connect", "loop")
    /\ open' = open \cup {c}
    /\ chan' = c
    /\ UNCHANGED <<queueVars, unacked, inbox, job, confVars, handled, overtaken, updateVars>>

(* ... or a call of the set-up fails, and it starts again.                 *)
SetupFails ==
    /\ Goto("connect", "setup")
    /\ UNCHANGED <<queueVars, chanVars, chan, inbox, job, confVars, handled, overtaken,
                   updateVars>>

-----------------------------------------------------------------------------
(* The worker: its consuming loop                                          *)

(* select: deliveryChn is closed, once it is read to the end...            *)
SelectClosed ==
    /\ Goto("select", "setup")
    /\ chan \notin open
    /\ inbox = <<>>
    /\ chan' = None
    /\ UNCHANGED <<queueVars, chanVars, inbox, job, confVars, handled, overtaken, updateVars>>

(* ... or the worker is told to exit and leaves the loop...                *)
SelectExit ==
    /\ Goto("select", "remove")
    /\ UNCHANGED <<queueVars, chanVars, chan, inbox, job, confVars, handled, overtaken,
                   updateVars>>

(* ... or there is a delivery.                                             *)
SelectDelivery ==
    /\ inbox # <<>>
    /\ Goto("select", "process")
    /\ job' = Head(inbox)
    /\ inbox' = Tail(inbox)
    /\ stale' = IF local # wanted /\ stale < StaleCap THEN stale + 1 ELSE stale
    /\ UNCHANGED <<queueVars, chanVars, chan, confVars, handled, overtaken, wanted>>

(* A worker and the registry's item are gone.                              *)
Leaves ==
    /\ chan' = None
    /\ Configure(None)
    /\ local' = None
    /\ wpc' = "none"
    /\ job' = None

(* A worker that leaves removes its key from the registry: from now on     *)
(* another may be started, with a channel and a deliveryChn of its own.    *)
RemoveKeepsInbox ==                                                \* fault
    /\ wpc = "remove"
    /\ Leaves
    /\ UNCHANGED <<queueVars, chanVars, inbox, handled, overtaken>>

Remove ==
    /\ wpc = "remove"
    /\ Leaves
    /\ inbox' = <<>>
    /\ UNCHANGED <<queueVars, chanVars, handled, overtaken>>

(* Then it closes its channel, if it has not broken.                       *)
Close(c) ==
    /\ c \in open \ {chan}
    /\ Lose({c})
    /\ UNCHANGED <<chan, inbox, wpc, job, confVars, updateVars>>

(* process: the URL answers in time and as it should.                      *)
ProcessSucceeds ==
    /\ KindOf(job) = "good"
    /\ Goto("process", "ack")
    /\ handled' = handled \cup {job}
    /\ UNCHANGED <<queueVars, chanVars, chan, inbox, job, confVars, overtaken, updateVars>>

(* process fails: the URL is not reached, answers with another code, or    *)
(* has handled the message when the time is out.                           *)
FailureAcked == "ack"                                              \* fault

FailureStep == "nack"

ProcessFails(late) ==
    /\ KindOf(job) \in {"good", "method"}
    /\ late => KindOf(job) = "good"
    /\ Goto("process", FailureStep)
    /\ handled' = IF late THEN handled \cup {job} ELSE handled
    /\ UNCHANGED <<queueVars, chanVars, chan, inbox, job, confVars, overtaken, updateVars>>

(* What process cannot read it drops, and the worker acknowledges.         *)
ProcessDrops ==
    /\ KindOf(job) = "unsupported"
    /\ Goto("process", "ack")
    /\ UNCHANGED <<queueVars, chanVars, chan, inbox, job, confVars, handled, overtaken,
                   updateVars>>

(* After an ack or a nack, failed or not, the worker goes round the loop.  *)
DoneSelects ==                                                     \* fault
    /\ wpc' = "select"
    /\ job' = None
    /\ UNCHANGED <<log, kind, open, chan, inbox, confVars, handled, overtaken, updateVars>>

Done ==
    /\ wpc' = "loop"
    /\ job' = None
    /\ UNCHANGED <<log, kind, open, chan, inbox, confVars, handled, overtaken, updateVars>>

(* The broker takes the answer for a delivery, on a channel that is open.  *)
Answered(m) ==
    unacked' = [c \in Chans |-> IF c = chan /\ c \in open THEN unacked[c] \ {m} ELSE unacked[c]]

AckKeeps ==                                                        \* fault
    /\ wpc = "ack"
    /\ gone' = IF chan \in open THEN gone \cup {job} ELSE gone
    /\ UNCHANGED unacked
    /\ Done

AckLost ==                                                         \* fault
    /\ wpc = "ack"
    /\ UNCHANGED <<gone, unacked>>
    /\ Done

Ack ==
    /\ wpc = "ack"
    /\ gone' = IF chan \in open THEN gone \cup {job} ELSE gone
    /\ Answered(job)
    /\ Done

Nack ==
    /\ wpc = "nack"
    /\ Answered(job)
    /\ UNCHANGED gone
    /\ Done

-----------------------------------------------------------------------------
(* The process dies and is started again, killed ...                       *)
Dies ==
    /\ Lose(Chans)
    /\ Leaves
    /\ inbox' = <<>>

Crash == Dies

(* ... or by process, which logs 20 bytes of what it cannot read, or takes *)
(* for a string what is none: no goroutine recovers from a panic.          *)
Panic == wpc = "process" /\ KindOf(job) = "short" /\ Dies

Broker == \E c \in Chans, m \in Msgs : Deliver(c, m)

Process == ProcessSucceeds \/ (\E late \in BOOLEAN : ProcessFails(late)) \/ ProcessDrops

Worker ==
    \/ TouchGet \/ TouchSet
    \/ \E c \in Chans : Subscribe(c)
    \/ SelectClosed \/ SelectDelivery \/ Remove
    \/ Process \/ Panic \/ Ack \/ Nack

Leaver == \E c \in Chans : Close(c)

Next ==
    \/ \E m \in Msgs : Arrive(m)
    \/ Broker
    \/ Worker
    \/ Leaver
    \/ \E c \in Configs : Start(c) \/ Update(c)
    \/ \E c \in Chans : ChannelBreaks(c)
    \/ SelectExit \/ SetupFails \/ Crash

Spec == Init /\ [][Next]_vars

(* Fairness: the Go scheduler runs a worker that can run, and the deferred *)
(* close of one that has left; the broker delivers; the URL eventually     *)
(* does what it is asked again and again.                                  *)
Fairness ==
    /\ WF_vars(Broker)
    /\ WF_vars(Worker)
    /\ WF_vars(Leaver)
    /\ SF_vars(ProcessSucceeds)

FairSpec == Spec /\ Fairness

-----------------------------------------------------------------------------
(* Safety                                                                  *)

(* At least once: the broker removes a message from the queue only after   *)
(* the consumer's URL handled it, or because process could not read it,    *)
(* whatever breaks between the delivery, the call and the acknowledgement. *)
AtLeastOnce ==
    gone \subseteq handled \cup {m \in Msgs : KindOf(m) = "unsupported"}

(* In order: a message is not handled before one that was queued earlier,  *)
(* however often deliveries are requeued and repeated, because the worker  *)
(* takes one at a time (message.go:546), with one exception: it may be     *)
(* handled before a delivery that the channel of a worker which has left   *)
(* still held when it was delivered (message.go:478, 480).                 *)
HandledInOrder ==
    \A i, j \in DOMAIN log :
      i < j /\ log[j] \in handled
        => log[i] \in handled \cup gone \/ <<log[i], log[j]>> \in overtaken

(* After an update at most one more delivery is begun with what the        *)
(* registry held before, the one the worker was waiting for with its old   *)
(* copy (message.go:575-589), however many were waiting in the queue,      *)
(* unless the worker's write-back has undone the update (492, 572).        *)
StaleOnce == config = wanted => stale <= 1

(* What the worker has in hand is still in the queue: a message that was   *)
(* acknowledged is never passed to the URL again, although the deliveries  *)
(* of a channel that broke can still be read from deliveryChn when the     *)
(* broker has requeued them, and a worker that has left may still have its *)
(* channel (message.go:478-480, 554, 581-604).                             *)
InHandStillQueued == job # None => job \notin gone

(* The worker works the queue off from its front, one message after the    *)
(* other, whatever breaks meanwhile, passing only what the channel of a    *)
(* worker that has left holds back (message.go:478-480, 546-604).          *)
Queue == INSTANCE ConsumerQueue
           WITH unreadable <- {m \in Msgs : KindOf(m) = "unsupported"},
                current <- Range(inbox) \cup ({job} \ {None}),
                held <- Held

ImplementsQueue == Queue!Spec

-----------------------------------------------------------------------------
(* Liveness                                                                *)

(* A queued message leaves the queue, once the worker's channel, its       *)
(* set-up, the process and the consumer's configuration are left in peace, *)
(* unless nobody starts a worker, or it or a message queued before it is   *)
(* never acknowledged, because process fails it whenever it is delivered,  *)
(* or panics: that one is requeued at its place for ever and, one delivery *)
(* at a time, nothing passes it.  What the channel of a worker that has    *)
(* left holds back comes free, whenever that worker gets to its close.     *)
Disturbed ==
    \/ \E c \in Chans : ChannelBreaks(c)
    \/ SetupFails \/ SelectExit \/ Crash

Blocked(m) ==
    \E i, j \in DOMAIN log :
      /\ i <= j
      /\ log[j] = m
      /\ KindOf(log[i]) \in {"short", "method"}

Drains ==
    \A m \in Msgs :
      \/ []<><<Disturbed>>_vars
      \/ <>[](wpc = "none")
      \/ m \in Range(log) ~> (m \in gone \/ Blocked(m))
=============================================================================
