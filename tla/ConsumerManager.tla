--------------------------- MODULE ConsumerManager ---------------------------
(***************************************************************************)
(* The consumer manager of wmq and the worker goroutines it controls       *)
(* (src/message.go, initConsumerManager and notifyConsumerManager).        *)
(*                                                                         *)
(* One manager goroutine receives control requests ("update", "delete",    *)
(* "status") over a channel of capacity one, keeps a concurrent map from   *)
(* consumer keys to items, and answers over a second channel of capacity   *)
(* one.  An item holds the consumer's configuration, the time it was last  *)
(* active and a pair of control channels, both of capacity one.  A worker  *)
(* goroutine per key reads and rewrites the same map: every Get and every  *)
(* Set of the map is a step of its own, so the read-modify-writes of the   *)
(* manager and of the workers interleave as they do in the program.  Only  *)
(* a worker's two Gets in a row (489 and 494, 564 and 569) are one step:   *)
(* nobody else removes its key.                                            *)
(*                                                                         *)
(* The callers are the API handlers and initMessages: they send a request  *)
(* and wait for the answer while holding msgLock.  The broker is an        *)
(* environment here: every call a worker makes to it succeeds or fails.    *)
(***************************************************************************)
EXTENDS Naturals, FiniteSets

CONSTANTS
    Keys,          \* consumer keys, "<message name>-<consumer ID>"
    Configs,       \* what a request says of the consumer and its message
    Chans,         \* control channel pairs; one nobody refers to is reused
    Goroutines,    \* worker goroutine slots; an ended one is reused
    Callers,       \* goroutines that call notifyConsumerManager
    None           \* nil: no item, no request, no caller

ASSUME NoneAssumption ==
    /\ None \notin Keys
    /\ None \notin Callers
    /\ None \notin [action : {"update", "delete", "status"}, key : Keys, cfg : Configs]
    /\ None \notin [cfg : Configs, ch : Chans, active : BOOLEAN]
    /\ \A r \in [action : {"update", "delete", "status"}, key : Keys, cfg : Configs] :
         None \notin [to : {r}, text : {"completed", "zero", "time"}]

VARIABLES
    registry,      \* wrapedConsumers: the item of each key, None when absent
    exit,          \* the pairs whose consumerReadChan holds "exit"
    exitOk,        \* the pairs whose consumerWriteChan holds "exit_ok"
    mpc,           \* where the manager goroutine is
    mreq,          \* the request the manager is serving, wrapedConsumer
    mitem,         \* the manager's local copy of an item, item and _item
    reqChan,       \* consumerManageReadChan: the request in it, or None
    ansChan,       \* consumerManageWriteChan: the answer in it, or None
    holder,        \* the caller that holds msgLock, or None
    await,         \* the request each caller waits to be answered, or None
    pc,            \* where each worker goroutine is
    gkey,          \* the key each worker was started for
    local,         \* each worker's local copy of its item, _item
    conn           \* the workers that hold a connection of the pool

mvars == <<mpc, mreq, mitem>>
cvars == <<holder, await>>
wvars == <<pc, gkey, local, conn>>
chvars == <<exit, exitOk>>
vars == <<registry, chvars, mvars, reqChan, ansChan, cvars, wvars>>

-----------------------------------------------------------------------------
(* The data                                                                *)

Request == [action : {"update", "delete", "status"}, key : Keys, cfg : Configs]

(* active stands for lasttime # 0.                                         *)
Item == [cfg : Configs, ch : Chans, active : BOOLEAN]

(* A status request is answered with lasttime, zero or not, the others     *)
(* with a word.  The request answered is remembered beside the text.       *)
Answer == [to : Request, text : {"completed", "zero", "time"}]

ManagerSteps == {"recv", "lookup", "touch", "store", "stop", "send", "report"}

(* The worker between its start and its consuming state: it holds a pool   *)
(* connection in the steps of HoldsConn.                                   *)
Setup == {"start", "touch", "connect", "exchange", "queue", "bind", "consume"}
Loop == {"loop", "loopTouch", "select", "process"}
Ending == {"reply", "remove"}
HoldsConn == {"exchange", "queue", "bind", "consume"} \cup Loop

(* A worker whose deferred Remove has not run yet: its key is its own.     *)
Working == Setup \cup Loop
Alive == Working \cup Ending
WorkerSteps == Alive \cup {"none", "close", "panicked"}

Workers(k) == {g \in Goroutines : pc[g] \in Alive /\ gkey[g] = k}

(* The control channels that some variable still refers to; make(chan)     *)
(* yields any other one, empty.                                            *)
Referenced ==
    {registry[k].ch : k \in {j \in Keys : registry[j] # None}}
        \cup {local[g].ch : g \in {h \in Goroutines : local[h] # None}}
        \cup (IF mitem = None THEN {} ELSE {mitem.ch})

TypeOK ==
    /\ registry \in [Keys -> Item \cup {None}]
    /\ exit \subseteq Chans
    /\ exitOk \subseteq Chans
    /\ mpc \in ManagerSteps
    /\ mreq \in Request \cup {None}
    /\ mitem \in Item \cup {None}
    /\ reqChan \in Request \cup {None}
    /\ ansChan \in Answer \cup {None}
    /\ holder \in Callers \cup {None}
    /\ await \in [Callers -> Request \cup {None}]
    /\ pc \in [Goroutines -> WorkerSteps]
    /\ gkey \in [Goroutines -> Keys \cup {None}]
    /\ local \in [Goroutines -> Item \cup {None}]
    /\ conn \subseteq Goroutines

Init ==
    /\ registry = [k \in Keys |-> None]
    /\ exit = {}
    /\ exitOk = {}
    /\ mpc = "recv"
    /\ mreq = None
    /\ mitem = None
    /\ reqChan = None
    /\ ansChan = None
    /\ holder = None
    /\ await = [p \in Callers |-> None]
    /\ pc = [g \in Goroutines |-> "none"]
    /\ gkey = [g \in Goroutines |-> None]
    /\ local = [g \in Goroutines |-> None]
    /\ conn = {}

-----------------------------------------------------------------------------
(* The callers: notifyConsumerManager under msgLock                        *)

Acquire(p) ==
    /\ holder = None
    /\ holder' = p
    /\ UNCHANGED <<registry, chvars, mvars, reqChan, ansChan, await, wvars>>

(* Fault: a caller that does not take msgLock.                             *)
SendRequestUnlocked(p, r) ==
    /\ await[p] = None
    /\ reqChan = None
    /\ reqChan' = r
    /\ await' = [await EXCEPT ![p] = r]
    /\ UNCHANGED <<registry, chvars, mvars, ansChan, holder, wvars>>

SendRequest(p, r) ==
    /\ holder = p
    /\ await[p] = None
    /\ reqChan = None
    /\ reqChan' = r
    /\ await' = [await EXCEPT ![p] = r]
    /\ UNCHANGED <<registry, chvars, mvars, ansChan, holder, wvars>>

TakeAnswer(p) ==
    /\ await[p] # None
    /\ ansChan # None
    /\ ansChan' = None
    /\ await' = [await EXCEPT ![p] = None]
    /\ UNCHANGED <<registry, chvars, mvars, reqChan, holder, wvars>>

Release(p) ==
    /\ holder = p
    /\ await[p] = None
    /\ holder' = None
    /\ UNCHANGED <<registry, chvars, mvars, reqChan, ansChan, await, wvars>>

-----------------------------------------------------------------------------
(* The manager                                                             *)

Dispatch == [update |-> "lookup", delete |-> "stop", status |-> "report"]

Recv ==
    /\ mpc = "recv"
    /\ reqChan # None
    /\ reqChan' = None
    /\ mreq' = reqChan
    /\ mpc' = Dispatch[reqChan.action]
    /\ UNCHANGED <<registry, chvars, mitem, ansChan, cvars, wvars>>

(* The manager answers and goes back to its receive.                       *)
Reply(a) ==
    /\ ansChan = None
    /\ ansChan' = [to |-> mreq, text |-> a]
    /\ mpc' = "recv"
    /\ mreq' = None
    /\ mitem' = None

(* update: is the consumer known?                                          *)
Lookup ==
    /\ mpc = "lookup"
    /\ mitem' = registry[mreq.key]
    /\ mpc' = IF registry[mreq.key] = None THEN "store" ELSE "touch"
    /\ UNCHANGED <<registry, chvars, mreq, reqChan, ansChan, cvars, wvars>>

(* update: rewrite the old item with a new time.                           *)
Touch ==
    /\ mpc = "touch"
    /\ registry' = [registry EXCEPT ![mreq.key] = [mitem EXCEPT !.active = TRUE]]
    /\ mpc' = "store"
    /\ UNCHANGED <<chvars, mreq, mitem, reqChan, ansChan, cvars, wvars>>

(* update: store a new item, with new channels and no time, and start a    *)
(* worker when the consumer was not known.                                 *)
Spawn(g) ==
    /\ pc[g] = "none"
    /\ pc' = [pc EXCEPT ![g] = "start"]
    /\ gkey' = [gkey EXCEPT ![g] = mreq.key]
    /\ UNCHANGED <<local, conn>>

(* Fault: the new item is stored without its channels.                     *)
StoreItemNoChannels(c) ==
    /\ registry' = [registry EXCEPT ![mreq.key] =
                       [cfg |-> mreq.cfg, ch |-> None, active |-> FALSE]]
    /\ exit' = exit \ {c}
    /\ exitOk' = exitOk \ {c}

StoreItem(c) ==
    /\ registry' = [registry EXCEPT ![mreq.key] =
                       [cfg |-> mreq.cfg, ch |-> c, active |-> FALSE]]
    /\ exit' = exit \ {c}
    /\ exitOk' = exitOk \ {c}

(* Fault: every update starts a worker.                                    *)
StoreAlwaysSpawns ==
    /\ mpc = "store"
    /\ \E c \in Chans \ Referenced : StoreItem(c)
    /\ \E g \in Goroutines : Spawn(g)
    /\ Reply("completed")
    /\ UNCHANGED <<reqChan, cvars>>

(* Fault: the channels are not made anew but may be another item's.        *)
StoreSharedChannels ==
    /\ mpc = "store"
    /\ \E c \in Chans : StoreItem(c)
    /\ IF mitem = None THEN \E g \in Goroutines : Spawn(g)
                       ELSE UNCHANGED wvars
    /\ Reply("completed")
    /\ UNCHANGED <<reqChan, cvars>>

Store ==
    /\ mpc = "store"
    /\ \E c \in Chans \ Referenced : StoreItem(c)
    /\ IF mitem = None THEN \E g \in Goroutines : Spawn(g)
                       ELSE UNCHANGED wvars
    /\ Reply("completed")
    /\ UNCHANGED <<reqChan, cvars>>

(* delete: is the consumer known?                                          *)
Stop ==
    /\ mpc = "stop"
    /\ mitem' = registry[mreq.key]
    /\ mpc' = "send"
    /\ UNCHANGED <<registry, chvars, mreq, reqChan, ansChan, cvars, wvars>>

(* delete: send "exit" to the channel of the item that was found.  The     *)
(* send blocks while the channel still holds an earlier "exit".            *)
(* Fault: the manager removes the key itself.                              *)
SendAndRemove ==
    /\ mpc = "send"
    /\ IF mitem = None THEN UNCHANGED exit
                       ELSE mitem.ch \notin exit /\ exit' = exit \cup {mitem.ch}
    /\ registry' = [registry EXCEPT ![mreq.key] = None]
    /\ Reply("completed")
    /\ UNCHANGED <<exitOk, reqChan, cvars, wvars>>

Send ==
    /\ mpc = "send"
    /\ IF mitem = None THEN UNCHANGED exit
                       ELSE mitem.ch \notin exit /\ exit' = exit \cup {mitem.ch}
    /\ Reply("completed")
    /\ UNCHANGED <<registry, exitOk, reqChan, cvars, wvars>>

(* status: answer the consumer's last active time, zero when not known.    *)
(* Fault: the status of an unknown consumer is not answered.               *)
ReportKnownOnly ==
    /\ mpc = "report"
    /\ IF registry[mreq.key] = None
       THEN mpc' = "recv" /\ mreq' = None /\ UNCHANGED <<ansChan, mitem>>
       ELSE Reply(IF registry[mreq.key].active THEN "time" ELSE "zero")
    /\ UNCHANGED <<registry, chvars, reqChan, cvars, wvars>>

Report ==
    /\ mpc = "report"
    /\ Reply(IF registry[mreq.key] = None \/ ~registry[mreq.key].active
             THEN "zero" ELSE "time")
    /\ UNCHANGED <<registry, chvars, reqChan, cvars, wvars>>

Manager == Recv \/ Lookup \/ Touch \/ Store \/ Stop \/ Send \/ Report

-----------------------------------------------------------------------------
(* A worker                                                                *)

Goto(g, step) == pc' = [pc EXCEPT ![g] = step]

(* The map of the manager and its channels, which most steps leave alone.  *)
shared == <<registry, chvars, mvars, reqChan, ansChan, cvars>>

(* 1. Leave when the key is gone, else read the item...                    *)
Start(g) ==
    /\ pc[g] = "start"
    /\ local' = [local EXCEPT ![g] = registry[gkey[g]]]
    /\ Goto(g, IF registry[gkey[g]] = None THEN "remove" ELSE "touch")
    /\ UNCHANGED <<shared, gkey, conn>>

(* ... and write it back with a new time.                                  *)
WriteBack(g, from, to) ==
    /\ pc[g] = from
    /\ registry' = [registry EXCEPT ![gkey[g]] = [local[g] EXCEPT !.active = TRUE]]
    /\ Goto(g, to)
    /\ UNCHANGED <<chvars, mvars, reqChan, ansChan, cvars, gkey, local, conn>>

TouchStart(g) == WriteBack(g, "touch", "connect")

(* 2, 3. Take a pool connection and open an AMQP channel on it.  After a   *)
(* failure the worker sleeps and starts again, here as everywhere below.   *)
Connect(g, ok) ==
    /\ pc[g] = "connect"
    /\ Goto(g, IF ok THEN "exchange" ELSE "start")
    /\ conn' = IF ok THEN conn \cup {g} ELSE conn
    /\ UNCHANGED <<shared, gkey, local>>

(* One broker call of the set-up; a failure returns the connection.        *)
(* Fault: a worker gives up after a failed broker call.                    *)
BrokerCallGivesUp(g, from, to, ok) ==
    /\ pc[g] = from
    /\ Goto(g, IF ok THEN to ELSE "remove")
    /\ conn' = IF ok THEN conn ELSE conn \ {g}
    /\ UNCHANGED <<shared, gkey>>

BrokerCall(g, from, to, ok) ==
    /\ pc[g] = from
    /\ Goto(g, IF ok THEN to ELSE "start")
    /\ conn' = IF ok THEN conn ELSE conn \ {g}
    /\ UNCHANGED <<shared, gkey>>

(* 4. Read the item again and declare the message's exchange.  The type    *)
(* assertion on the item panics when the key is gone.                      *)
DeclareExchange(g, ok) ==
    /\ pc[g] = "exchange"
    /\ local' = [local EXCEPT ![g] = registry[gkey[g]]]
    /\ IF registry[gkey[g]] # None
       THEN BrokerCall(g, "exchange", "queue", ok)
       ELSE /\ Goto(g, "panicked")
            /\ UNCHANGED <<shared, gkey, conn>>

(* 5, 6. Declare the consumer's queue and bind it to the exchange.         *)
DeclareQueue(g, ok) == BrokerCall(g, "queue", "bind", ok) /\ UNCHANGED local
BindQueue(g, ok) == BrokerCall(g, "bind", "consume", ok) /\ UNCHANGED local

(* 7, 8. Set the prefetch window to one and subscribe to the queue.        *)
Consume(g, ok) == BrokerCall(g, "consume", "loop", ok) /\ UNCHANGED local

(* Top of the consuming loop: leave when the key is gone (the connection   *)
(* is not returned), else read the item and write it back.                 *)
LoopGet(g) ==
    /\ pc[g] = "loop"
    /\ local' = [local EXCEPT ![g] = registry[gkey[g]]]
    /\ Goto(g, IF registry[gkey[g]] = None THEN "remove" ELSE "loopTouch")
    /\ UNCHANGED <<shared, gkey, conn>>

TouchLoop(g) == WriteBack(g, "loopTouch", "select")

(* select: the "exit" in the item's channel is received...                 *)
SelectExit(g) ==
    /\ pc[g] = "select"
    /\ local[g].ch \in exit
    /\ exit' = exit \ {local[g].ch}
    /\ conn' = conn \ {g}
    /\ Goto(g, "reply")
    /\ UNCHANGED <<registry, exitOk, mvars, reqChan, ansChan, cvars, gkey, local>>

(* ... and "exit_ok" is sent, which would block were the channel full.     *)
(* Fault: the worker goes on after its "exit_ok".                          *)
ReplyExitOkContinues(g) ==
    /\ pc[g] = "reply"
    /\ local[g].ch \notin exitOk
    /\ exitOk' = exitOk \cup {local[g].ch}
    /\ Goto(g, "start")
    /\ UNCHANGED <<registry, exit, mvars, reqChan, ansChan, cvars, gkey, local, conn>>

ReplyExitOk(g) ==
    /\ pc[g] = "reply"
    /\ local[g].ch \notin exitOk
    /\ exitOk' = exitOk \cup {local[g].ch}
    /\ Goto(g, "remove")
    /\ UNCHANGED <<registry, exit, mvars, reqChan, ansChan, cvars, gkey, local, conn>>

(* select: a delivery; process it with the item read before the select,    *)
(* ack or nack it, and go round the loop.                                  *)
SelectDelivery(g) ==
    /\ pc[g] = "select"
    /\ Goto(g, "process")
    /\ UNCHANGED <<shared, gkey, local, conn>>

Process(g) ==
    /\ pc[g] = "process"
    /\ Goto(g, "loop")
    /\ UNCHANGED <<shared, gkey, local, conn>>

(* select: the delivery channel was closed (the connection or channel is   *)
(* gone, or the queue was deleted); return the connection and start again. *)
(* Fault: the connection is not returned.                                  *)
SelectClosedKeepsConn(g) ==
    /\ pc[g] = "select"
    /\ Goto(g, "start")
    /\ UNCHANGED <<shared, gkey, local, conn>>

(* Fault: a closed delivery channel ends the worker.                       *)
SelectClosedEnds(g) ==
    /\ pc[g] = "select"
    /\ Goto(g, "remove")
    /\ conn' = conn \ {g}
    /\ UNCHANGED <<shared, gkey, local>>

SelectClosed(g) ==
    /\ pc[g] = "select"
    /\ Goto(g, "start")
    /\ conn' = conn \ {g}
    /\ UNCHANGED <<shared, gkey, local>>

(* The deferred function: remove the key from the map, close the channel.  *)
Remove(g) ==
    /\ pc[g] = "remove"
    /\ registry' = [registry EXCEPT ![gkey[g]] = None]
    /\ local' = [local EXCEPT ![g] = None]
    /\ Goto(g, "close")
    /\ UNCHANGED <<chvars, mvars, reqChan, ansChan, cvars, gkey, conn>>

Close(g) ==
    /\ pc[g] = "close"
    /\ Goto(g, "none")
    /\ gkey' = [gkey EXCEPT ![g] = None]
    /\ UNCHANGED <<shared, local, conn>>

Worker(g) ==
    \/ Start(g) \/ TouchStart(g)
    \/ \E ok \in BOOLEAN :
         Connect(g, ok) \/ DeclareExchange(g, ok) \/ DeclareQueue(g, ok)
           \/ BindQueue(g, ok) \/ Consume(g, ok)
    \/ LoopGet(g) \/ TouchLoop(g)
    \/ SelectExit(g) \/ ReplyExitOk(g)
    \/ SelectDelivery(g) \/ Process(g) \/ SelectClosed(g)
    \/ Remove(g) \/ Close(g)

-----------------------------------------------------------------------------
Next ==
    \/ Manager
    \/ \E p \in Callers :
         Acquire(p) \/ TakeAnswer(p) \/ Release(p)
           \/ \E r \in Request : SendRequest(p, r)
    \/ \E g \in Goroutines : Worker(g)

Spec == Init /\ [][Next]_vars

(* Fairness: the Go scheduler runs every goroutine that can run.  A select *)
(* with several ready cases picks one at random, so a stop that stays      *)
(* ready is eventually picked (strong fairness).  Only LiveSpec also       *)
(* assumes that the broker recovers: a call tried again and again          *)
(* eventually succeeds.                                                    *)
Fairness ==
    /\ WF_vars(Manager)
    /\ \A p \in Callers : WF_vars(TakeAnswer(p))
    /\ \A g \in Goroutines :
         /\ WF_vars(Worker(g) /\ pc[g] # "select")
         /\ SF_vars(SelectExit(g))

BrokerRecovers ==
    \A g \in Goroutines :
      /\ SF_vars(Connect(g, TRUE))
      /\ SF_vars(DeclareExchange(g, TRUE))
      /\ SF_vars(DeclareQueue(g, TRUE))
      /\ SF_vars(BindQueue(g, TRUE))
      /\ SF_vars(Consume(g, TRUE))

FairSpec == Spec /\ Fairness
LiveSpec == FairSpec /\ BrokerRecovers

-----------------------------------------------------------------------------
(* Safety                                                                  *)

(* A consumer never has two workers: the manager starts one only when the  *)
(* key is absent from the map (message.go:459-475), and only the worker's  *)
(* own deferred Remove (478) makes it absent again.                        *)
OneWorkerPerKey ==
    \A g, h \in Goroutines :
      pc[g] \in Alive /\ pc[h] \in Alive /\ gkey[g] = gkey[h] => g = h

(* The key of a worker that has not been told to exit stays in the map,    *)
(* whatever the read-modify-writes of manager and workers do to its item:  *)
(* the "not found, now exit" branches (489, 564), the second of which      *)
(* would leak the pool connection, and a panic of the type assertion       *)
(* (516) are never reached.                                                *)
LiveWorkerRegistered ==
    \A g \in Goroutines :
      /\ pc[g] # "panicked"
      /\ pc[g] \in Working => registry[gkey[g]] # None

(* A control channel belongs to one key: an "exit" sent for one consumer   *)
(* (616) can never be received by the worker of another one (574).         *)
NoCrossTalk ==
    /\ \A k, j \in Keys :
         registry[k] # None /\ registry[j] # None
             /\ registry[k].ch = registry[j].ch => k = j
    /\ \A g \in Goroutines, k \in Keys :
         pc[g] \in Alive /\ local[g] # None /\ registry[k] # None
             /\ registry[k].ch = local[g].ch => gkey[g] = k

(* Nobody reads consumerWriteChan, yet a worker that leaves never blocks   *)
(* on its "exit_ok" (577): a channel pair takes at most one of them.       *)
ExitOkNeverBlocks ==
    \A g \in Goroutines : pc[g] = "reply" => local[g].ch \notin exitOk

(* The answer a caller of notifyConsumerManager reads (371) is the answer  *)
(* to its own request: the two channels are shared by all callers, and     *)
(* only msgLock keeps the exchanges apart.                                 *)
AnswerMatchesRequest ==
    \A p \in Callers :
      await[p] # None /\ ansChan # None =>
        /\ ansChan.to = await[p]
        /\ (ansChan.text = "completed") = (await[p].action # "status")

(* A worker holds a connection of the pool exactly while it sets up its    *)
(* queue or consumes: every failure, close and exit path returns it.       *)
ConnReturned == conn = {g \in Goroutines : pc[g] \in HoldsConn}

(* The promise of the component: at most one worker per key, which ends    *)
(* only because of a stop asked while it ran, never one asked before.  A   *)
(* stop is pending from the moment it is in a channel of the key until the *)
(* worker that received it, and said "exit_ok", has left.                  *)
Pending(k) ==
    \/ registry[k] # None /\ registry[k].ch \in exit
    \/ \E g \in Workers(k) : \/ pc[g] = "reply"
                             \/ (pc[g] = "remove" /\ local[g] # None
                                                 /\ local[g].ch \in exitOk)
                             \/ (local[g] # None /\ local[g].ch \in exit)

Control == INSTANCE ConsumerControl
             WITH running <- {k \in Keys : Workers(k) # {}},
                  asked <- {k \in Keys : Pending(k)}

ImplementsControl == Control!Spec

-----------------------------------------------------------------------------
(* What comments of the source say and the code does not do                *)

(* "update consumer active time" (message.go:493, 568): what a worker      *)
(* writes back to the map differs from what is there in the active time    *)
(* only.  An update between the worker's Get and its Set is undone.        *)
WorkerWritesActiveTimeOnly ==
    [][\A g \in Goroutines :
         pc[g] \in {"touch", "loopTouch"} /\ pc'[g] # pc[g] =>
           \A k \in Keys : registry[k] # None =>
             registry'[k].cfg = registry[k].cfg /\ registry'[k].ch = registry[k].ch]_vars

(* "update or insert consumer ... start consumer go" (message.go:457-474): *)
(* between requests a consumer that is in the map has a worker, so that    *)
(* taking it for an update is right.  A worker that removes its key        *)
(* between the manager's Get and its Set leaves a consumer that no later   *)
(* update will start again.                                                *)
RegisteredConsumerHasWorker ==
    mpc = "recv" => \A k \in Keys : registry[k] # None => Workers(k) # {}

-----------------------------------------------------------------------------
(* Liveness                                                                *)

(* A worker that listens on the channel that holds its stop leaves, or an  *)
(* update meanwhile replaces the channel registered for its key, however   *)
(* many deliveries, closed delivery channels and retries compete with the  *)
(* stop (message.go:573-585).                                              *)
StopPending(g) == pc[g] \in Loop /\ local[g].ch \in exit
ChannelReplaced(g) == pc[g] \in Working /\ local[g] # None
                        /\ registry[gkey[g]].ch # local[g].ch

StopHonoured ==
    \A g \in Goroutines :
      StopPending(g) ~> (pc[g] = "none" \/ ChannelReplaced(g))

(* A caller of notifyConsumerManager is answered, unless the manager is    *)
(* blocked sending a second "exit" into a channel nobody has emptied.      *)
AnsweredUnlessStopPending ==
    \A p \in Callers :
      await[p] # None ~> \/ await[p] = None
                         \/ (mpc = "send" /\ mitem # None /\ mitem.ch \in exit)

(* A worker that starts, first or again, ends up consuming, when the       *)
(* broker recovers from every failure.                                     *)
WorkerConsumes ==
    \A g \in Goroutines : pc[g] = "start" ~> pc[g] \in Loop
=============================================================================
