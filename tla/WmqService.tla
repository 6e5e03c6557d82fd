------------------------------ MODULE WmqService ------------------------------
(***************************************************************************)
(* The management API of wmq and its workers against the broker: what the  *)
(* operations of src/message.go declare, bind and delete there (with the   *)
(* calls of src/mq.go), while the workers declare and bind the same        *)
(* objects for themselves.                                                 *)
(*                                                                         *)
(* An API operation holds msgLock from its first step to its last.  What   *)
(* it does after changing the configuration, and what a worker does before *)
(* it consumes, is a list of calls, its program, that is run one call, or  *)
(* one broker operation of a call, at a time; the first call that fails    *)
(* ends it.  A worker then starts again with the configuration that the    *)
(* manager's registry has for it; an API operation is over.                *)
(*                                                                         *)
(* The configuration is the list of messages, in which a name may occur    *)
(* twice.  Of a message it holds its mode, on which a declaration must     *)
(* agree with what the broker has, and for each of its consumers the key   *)
(* by which it is routed.  All objects are durable.  What the manager does *)
(* for an "update" and a "delete" is that of ConsumerManager, in           *)
(* ConsumerControl's terms.                                                *)
(***************************************************************************)
EXTENDS Naturals, Sequences, FiniteSets, SequencesExt

CONSTANTS
    Names,         \* message names; a message's exchange has its name
    Ids,           \* consumer IDs, which are never used twice (UUIDs)
    Modes,         \* message modes, "fanout", "topic" or "direct"
    Routes,        \* routing keys
    Api,           \* the goroutine that holds msgLock
    None,          \* no exchange, no item, no key
    MaxRequests,   \* bound: API requests
    MaxFaults      \* bound: calls that fail though the broker could serve them

ASSUME ServiceAssumption ==
    /\ IsFiniteSet(Names) /\ IsFiniteSet(Ids)
    /\ Api \notin Names \X Ids
    /\ Names \cap (Names \X Ids) = {}
    /\ None \notin Modes
    /\ MaxRequests \in Nat
    /\ MaxFaults \in Nat

(* A consumer's key is also the name of its queue.                         *)
Keys == Names \X Ids
Actors == Keys \cup {Api}

VARIABLES
    conf,          \* messages: name, mode and the consumers' routing keys
    used,          \* the IDs given so far
    vacant,        \* the names that a handler waiting to add may have found free
    look,          \* what an update handler looked up before it had msgLock
    phase,         \* the process: booting, serving or down
    prog,          \* the calls each actor has still to do
    try,           \* how far it is in the first of them
    wpc,           \* each key's worker
    item,          \* the mode and routing key in the registry, or None
    asked,         \* the keys with a stop pending
    exchange,      \* broker: the mode of each exchange, or None
    queues,        \* broker: the queues
    bound,         \* broker: the queues bound to the exchange of their message,
                   \* and by which routing keys
    subscribed,    \* broker: the queues that their worker consumes
    doubt,         \* history: the names whose objects the operation in progress
                   \* has still to put right
    spoiled,       \* history: the names whose objects a retry has deleted, or
                   \* that an operation has failed to put right
    left,          \* history: the queues left behind for consumers that are gone
    requests,      \* counts API requests
    faults         \* counts faults

confVars == <<conf, used, vacant, look, phase, requests>>
workers == <<wpc, item, asked>>
broker == <<exchange, queues, bound, subscribed>>
force == <<doubt, spoiled>>
history == <<force, left, faults>>
vars == <<confVars, prog, try, workers, broker, history>>

-----------------------------------------------------------------------------
(* The positions in a list of messages that have the name n.               *)
Named(cf, n) == {j \in DOMAIN cf : cf[j].name = n}

Listed(n) == Named(conf, n) # {}

(* getMessage and getConsumer look no further than the first.              *)
First(n) == Min(Named(conf, n))

Configured(k) == Listed(k[1]) /\ k[2] \in DOMAIN conf[First(k[1])].consumers

(* Some message of a list has the consumer of k.                           *)
Lists(cf, k) == \E j \in Named(cf, k[1]) : k[2] \in DOMAIN cf[j].consumers

Unlisted(cf) == {n \in Names : Named(cf, n) = {}}

Running == {k \in Keys : wpc[k] # "none"}

Registered == {k \in Keys : item[k] # None}

Idle == prog[Api] = <<>>

Message == [name : Names, mode : Modes, consumers : UNION {[S -> Routes] : S \in SUBSET Ids}]

(* What a call, and an item of the registry, has of a message and of one   *)
(* of its consumers.                                                       *)
Settings == [mode : Modes, key : Routes \cup {None}]

ASSUME NoneAssumption ==
    None \notin Settings /\ None \notin Keys \X Modes /\ None \notin Routes

Verbs == {"exchange", "queue", "bind", "update", "consume", "stop",
          "deleteQueue", "deleteExchange", "remove"}

Call(v, x, s) == [do |-> v, on |-> x, as |-> s]

TypeOK ==
    /\ conf \in Seq(Message)
    /\ used \subseteq Ids
    /\ vacant \subseteq Names
    /\ look \in (Keys \X Modes) \cup {None}
    /\ phase \in {"boot", "serve", "down"}
    /\ \A a \in Actors : \A j \in DOMAIN prog[a] :
         prog[a][j] \in [do : Verbs, on : Keys \cup Names, as : Settings]
    /\ try \in [Actors -> 0..3]
    /\ wpc \in [Keys -> {"none", "start", "setup", "loop", "remove"}]
    /\ item \in [Keys -> Settings \cup {None}]
    /\ asked \subseteq Registered
    /\ exchange \in [Names -> Modes \cup {None}]
    /\ queues \subseteq Keys
    /\ bound \subseteq queues \X Routes
    /\ subscribed \subseteq queues \cap Running
    /\ doubt \subseteq Names
    /\ spoiled \subseteq Names
    /\ left \subseteq Keys

-----------------------------------------------------------------------------
(* The programs                                                            *)

(* For every x of S, in one order, the calls P(x).                         *)
ForEach(S, P(_)) == FlattenSeq([j \in 1..Cardinality(S) |-> P(SetToSeq(S)[j])])

(* What the worker of k does before it consumes.                           *)
Setup(k, s) ==
    <<Call("exchange", k[1], s), Call("queue", k, s), Call("bind", k, s),
      Call("consume", k, s)>>

OfMessage(e) == [mode |-> e.mode, key |-> None]

OfConsumer(e, i) == [mode |-> e.mode, key |-> e.consumers[i]]

(* The loop of initMessages for a message e, ...                           *)
InitMessage(e) ==
    LET OfId(i) ==
          LET k == <<e.name, i>>
              s == OfConsumer(e, i)
          IN  <<Call("queue", k, s), Call("bind", k, s), Call("update", k, s)>>
    IN  <<Call("exchange", e.name, OfMessage(e))>> \o ForEach(DOMAIN e.consumers, OfId)

(* ... and for all messages of a configuration cf.                         *)
InitMessages(cf) == FlattenSeq([j \in DOMAIN cf |-> InitMessage(cf[j])])

(* The loop of updateMessage and stopAllConsumer that stops the consumers. *)
Stops(e) ==
    LET OfId(i) == <<Call("stop", <<e.name, i>>, OfMessage(e))>>
    IN  ForEach(DOMAIN e.consumers, OfId)

(* deleteMessage                                                           *)
Deletion(n) ==
    LET e == conf[First(n)]
        s == OfMessage(e)
        OfId(i) == <<Call("stop", <<n, i>>, s), Call("deleteQueue", <<n, i>>, s)>>
    IN  ForEach(DOMAIN e.consumers, OfId)
          \o <<Call("deleteExchange", n, s), Call("remove", n, s)>>
          \o InitMessages(RemoveAt(conf, First(n)))

-----------------------------------------------------------------------------
(* wmq starts with messages loaded from its file, and whatever an earlier  *)
(* run has left at the broker.  IDs may have been given to consumers that  *)
(* are gone.                                                               *)
Init ==
    /\ conf \in Seq(Message)
    /\ used \in SUBSET Ids
    /\ \A j \in DOMAIN conf : DOMAIN conf[j].consumers \subseteq used
    /\ vacant = Unlisted(conf)
    /\ look = None
    /\ phase = "boot"
    /\ prog = [a \in Actors |-> IF a = Api THEN InitMessages(conf) ELSE <<>>]
    /\ try = [a \in Actors |-> 0]
    /\ wpc = [k \in Keys |-> "none"]
    /\ item = [k \in Keys |-> None]
    /\ asked = {}
    /\ exchange \in [Names -> Modes \cup {None}]
    /\ queues \in SUBSET Keys
    /\ bound \in SUBSET ({k \in queues : exchange[k[1]] # None} \X Routes)
    /\ subscribed = {}
    /\ doubt = Names
    /\ spoiled = {}
    /\ left = queues
    /\ requests = 0
    /\ faults \in 0..MaxFaults

-----------------------------------------------------------------------------
(* One call of a program                                                   *)

(* Actor a is at a call v.                                                 *)
At(a, v) == prog[a] # <<>> /\ Head(prog[a]).do = v

On(a) == Head(prog[a]).on

NameOf(x) == IF x \in Names THEN x ELSE x[1]

Try(a, t) == try' = [try EXCEPT ![a] = t]

(* What the operation in progress has still to do v to.                    *)
Pending(v) ==
    {prog[Api][j].on : j \in {i \in DOMAIN prog[Api] : prog[Api][i].do = v}}

(* The messages that there will be when it is over.                        *)
Remaining ==
    IF Pending("remove") = {} THEN conf
    ELSE RemoveAt(conf, First(CHOOSE n \in Pending("remove") : TRUE))

(* The call is done; the next one is tried.                                *)
Done(a) == prog' = [prog EXCEPT ![a] = Tail(@)] /\ Try(a, 0)

Again(a, t) == UNCHANGED prog /\ Try(a, t)

(* The call has failed.  The worker sleeps and begins again; the operation *)
(* is over, and the process is if it was main's.  The operation leaves the *)
(* objects it had to put right, and the message it is at, as they are, and *)
(* the queues it had to delete behind.                                     *)
Fails(a) ==
    /\ IF a = Api /\ phase = "boot"
       THEN /\ prog' = [b \in Actors |-> <<>>]
            /\ try' = [b \in Actors |-> 0]
            /\ wpc' = [k \in Keys |-> "none"]
            /\ item' = [k \in Keys |-> None]
            /\ asked' = {}
            /\ phase' = "down"
            /\ subscribed' = {}
       ELSE /\ prog' = [prog EXCEPT ![a] = <<>>]
            /\ Try(a, 0)
            /\ wpc' = IF a = Api THEN wpc ELSE [wpc EXCEPT ![a] = "start"]
            /\ UNCHANGED <<item, asked, phase, subscribed>>
    /\ IF a = Api
       THEN /\ spoiled' = spoiled \cup doubt \cup {NameOf(On(Api))}
            /\ doubt' = {}
            /\ left' = left \cup Pending("deleteQueue")
       ELSE UNCHANGED <<force, left>>
    /\ UNCHANGED <<conf, used, vacant, look, requests, exchange, queues, bound>>

(* The connection, or the broker, fails a call that it could serve.        *)
Fault == faults < MaxFaults /\ faults' = faults + 1

BrokerCalls == {"exchange", "queue", "bind", "consume", "deleteQueue", "deleteExchange"}

FaultFails(a) == (\E v \in BrokerCalls : At(a, v)) /\ Fault /\ Fails(a)

(* exchangeDeclare and queueDeclare try twice, and delete what is in the   *)
(* way after each failure.                                                 *)
Declaring(a) == (At(a, "exchange") \/ At(a, "queue")) /\ try[a] \in {0, 2}

Clearing(a) == (At(a, "exchange") \/ At(a, "queue")) /\ try[a] \in {1, 3}

ExchangeAgrees(a) == exchange[On(a)] \in {None, Head(prog[a]).as.mode}

Declare(a) ==
    /\ Declaring(a)
    /\ \/ /\ At(a, "exchange")
          /\ ExchangeAgrees(a)
          /\ exchange' = [exchange EXCEPT ![On(a)] = Head(prog[a]).as.mode]
          /\ IF a = Api
             THEN doubt' = doubt \ {On(a)} /\ spoiled' = spoiled \ {On(a)}
             ELSE UNCHANGED force
          /\ UNCHANGED <<queues, left>>
       \/ /\ At(a, "queue")
          /\ queues' = queues \cup {On(a)}
          /\ left' = IF a # Api /\ ~Lists(Remaining, On(a)) THEN left \cup {On(a)} ELSE left
          /\ UNCHANGED <<exchange, force>>
    /\ Done(a)
    /\ UNCHANGED <<confVars, workers, bound, subscribed, faults>>

DeclareRefused(a) ==
    /\ Declaring(a)
    /\ At(a, "exchange")
    /\ ~ExchangeAgrees(a)
    /\ Again(a, try[a] + 1)
    /\ UNCHANGED <<confVars, workers, broker, history>>

DeclareFault(a) ==
    /\ Declaring(a)
    /\ Fault
    /\ Again(a, try[a] + 1)
    /\ UNCHANGED <<confVars, workers, broker, force, left>>

(* A queue or an exchange and its bindings are gone; the consumer of a     *)
(* queue is told.  It is no error that there was none.                     *)
DropQueue(k) ==
    /\ queues' = queues \ {k}
    /\ bound' = {b \in bound : b[1] # k}
    /\ subscribed' = subscribed \ {k}
    /\ left' = left \ {k}
    /\ UNCHANGED exchange

DropExchange(n) ==
    /\ exchange' = [exchange EXCEPT ![n] = None]
    /\ bound' = {b \in bound : b[1][1] # n}
    /\ UNCHANGED <<queues, subscribed, left>>

(* The operation declares the queue again and binds it, but that of        *)
(* statusConsumer binds nothing.                                           *)
Rebinds(a) == a = Api /\ At(a, "queue") /\ try[a] = 1 /\ Len(prog[a]) > 1

ClearRetries(a) ==                                                 \* fault
    /\ Clearing(a)
    /\ IF At(a, "exchange") THEN DropExchange(On(a)) ELSE DropQueue(On(a))
    /\ Again(a, IF try[a] = 1 THEN 2 ELSE 0)
    /\ spoiled' = IF Rebinds(a) THEN spoiled ELSE spoiled \cup {NameOf(On(a))}
    /\ UNCHANGED <<confVars, workers, doubt, faults>>

(* After the second delete the result of the delete is returned: success   *)
(* when it worked, though nothing is declared.                             *)
Clear(a) ==
    /\ Clearing(a)
    /\ IF At(a, "exchange") THEN DropExchange(On(a)) ELSE DropQueue(On(a))
    /\ IF try[a] = 1 THEN Again(a, 2) ELSE Done(a)
    /\ spoiled' = IF Rebinds(a) THEN spoiled ELSE spoiled \cup {NameOf(On(a))}
    /\ UNCHANGED <<confVars, workers, doubt, faults>>

ClearFault(a) ==
    /\ Clearing(a)
    /\ try[a] = 1
    /\ Fault
    /\ Again(a, 2)
    /\ UNCHANGED <<confVars, workers, broker, force, left>>

Bindable(k) == exchange[k[1]] # None /\ k \in queues

Bind(a) ==
    /\ At(a, "bind")
    /\ Bindable(On(a))
    /\ bound' = bound \cup {<<On(a), Head(prog[a]).as.key>>}
    /\ Done(a)
    /\ UNCHANGED <<confVars, workers, exchange, queues, subscribed, history>>

BindAgain(a) ==                                                    \* fault
    /\ At(a, "bind")
    /\ ~Bindable(On(a))
    /\ UNCHANGED vars

BindRefused(a) ==
    /\ At(a, "bind")
    /\ ~Bindable(On(a))
    /\ Fails(a)
    /\ UNCHANGED faults

DeleteQueue ==
    /\ At(Api, "deleteQueue")
    /\ DropQueue(On(Api))
    /\ Done(Api)
    /\ UNCHANGED <<confVars, workers, force, faults>>

DeleteExchange ==
    /\ At(Api, "deleteExchange")
    /\ DropExchange(On(Api))
    /\ Done(Api)
    /\ UNCHANGED <<confVars, workers, force, faults>>

Unlist ==
    /\ At(Api, "remove")
    /\ conf' = RemoveAt(conf, First(On(Api)))
    /\ vacant' = vacant \cup Unlisted(conf')
    /\ Done(Api)
    /\ UNCHANGED <<used, look, phase, requests, workers, broker, history>>

-----------------------------------------------------------------------------
(* The consumer manager                                                    *)

(* updateConsumerWorker: the manager looks the key up ...                  *)
Lookup ==
    /\ At(Api, "update")
    /\ try[Api] = 0
    /\ Again(Api, IF On(Api) \in Registered THEN 1 ELSE 2)
    /\ UNCHANGED <<confVars, workers, broker, history>>

(* ... and stores an item with new channels, so that a stop in the old     *)
(* ones is lost; for a key that was not there it starts a worker.  A       *)
(* worker that is between its Get and its Set of the item undoes the store.*)
StoreKeepsStop(undone) ==                                          \* fault
    LET k == On(Api) IN
    /\ At(Api, "update")
    /\ try[Api] # 0
    /\ undone => wpc[k] \in {"start", "loop"}
    /\ item' = IF undone THEN item ELSE [item EXCEPT ![k] = Head(prog[Api]).as]
    /\ wpc' = IF try[Api] = 2 THEN [wpc EXCEPT ![k] = "start"] ELSE wpc
    /\ asked' = IF try[Api] = 2 THEN asked \cup {k} ELSE asked
    /\ Done(Api)
    /\ UNCHANGED <<confVars, broker, history>>

Store(undone) ==
    LET k == On(Api) IN
    /\ At(Api, "update")
    /\ try[Api] # 0
    /\ undone => wpc[k] \in {"start", "loop"}
    /\ item' = IF undone THEN item ELSE [item EXCEPT ![k] = Head(prog[Api]).as]
    /\ wpc' = IF try[Api] = 2 THEN [wpc EXCEPT ![k] = "start"] ELSE wpc
    /\ asked' = IF undone THEN asked ELSE asked \ {k}
    /\ Done(Api)
    /\ UNCHANGED <<confVars, broker, history>>

(* stopConsumerWorker: the manager waits for room in the control channel.  *)
StopBlocked == At(Api, "stop") /\ On(Api) \in asked

Stop ==
    /\ At(Api, "stop")
    /\ ~StopBlocked
    /\ asked' = IF On(Api) \in Registered THEN asked \cup {On(Api)} ELSE asked
    /\ Done(Api)
    /\ UNCHANGED <<confVars, wpc, item, broker, history>>

-----------------------------------------------------------------------------
(* A worker                                                                *)

Goto(k, from, to) == wpc[k] = from /\ wpc' = [wpc EXCEPT ![k] = to]

(* It reads its item and declares and binds what it says.                  *)
Start(k) ==
    /\ Goto(k, "start", "setup")
    /\ prog' = [prog EXCEPT ![k] = Setup(k, item[k])]
    /\ UNCHANGED <<confVars, try, item, asked, broker, history>>

Consume(k) ==
    /\ At(k, "consume")
    /\ k \in queues
    /\ Goto(k, "setup", "loop")
    /\ subscribed' = subscribed \cup {k}
    /\ Done(k)
    /\ UNCHANGED <<confVars, item, asked, exchange, queues, bound, history>>

ConsumeRefused(k) ==
    /\ At(k, "consume")
    /\ k \notin queues
    /\ Fails(k)
    /\ UNCHANGED faults

(* Its channel breaks.                                                     *)
Unsubscribe(k) ==
    /\ k \in subscribed
    /\ Fault
    /\ subscribed' = subscribed \ {k}
    /\ UNCHANGED <<confVars, prog, try, workers, exchange, queues, bound, force, left>>

SelectsAgain(k) ==                                                 \* fault
    /\ Goto(k, "loop", "loop")
    /\ k \notin subscribed
    /\ UNCHANGED <<confVars, prog, try, item, asked, broker, history>>

SelectClosed(k) ==
    /\ Goto(k, "loop", "start")
    /\ k \notin subscribed
    /\ UNCHANGED <<confVars, prog, try, item, asked, broker, history>>

(* It takes the stop, ...                                                  *)
SelectExit(k) ==
    /\ Goto(k, "loop", "remove")
    /\ k \in asked
    /\ asked' = asked \ {k}
    /\ UNCHANGED <<confVars, prog, try, item, broker, history>>

(* ... and removes its item, or what the manager has stored meanwhile, and *)
(* closes its channel.  In Delivery these are two steps.                   *)
EndsKeepsStop(k) ==                                                \* fault
    /\ Goto(k, "remove", "none")
    /\ item' = [item EXCEPT ![k] = None]
    /\ subscribed' = subscribed \ {k}
    /\ UNCHANGED <<confVars, prog, try, asked, exchange, queues, bound, history>>

Ends(k) ==
    /\ Goto(k, "remove", "none")
    /\ item' = [item EXCEPT ![k] = None]
    /\ asked' = asked \ {k}
    /\ subscribed' = subscribed \ {k}
    /\ UNCHANGED <<confVars, prog, try, exchange, queues, bound, history>>

-----------------------------------------------------------------------------
(* The API operations and main                                             *)

Booted ==
    /\ phase = "boot"
    /\ Idle
    /\ phase' = "serve"
    /\ UNCHANGED <<conf, used, vacant, look, requests, prog, try, workers, broker, history>>

Boot ==
    /\ phase = "down"
    /\ phase' = "boot"
    /\ prog' = [prog EXCEPT ![Api] = InitMessages(conf)]
    /\ vacant' = Unlisted(conf)
    /\ doubt' = Names
    /\ spoiled' = {}
    /\ UNCHANGED <<conf, used, look, requests, try, workers, broker, left, faults>>

(* A request is served: conf becomes cf and the program is p.              *)
Begin(cf, p) ==
    /\ phase = "serve"
    /\ Idle
    /\ requests < MaxRequests
    /\ requests' = requests + 1
    /\ conf' = cf
    /\ prog' = [prog EXCEPT ![Api] = p]
    /\ UNCHANGED <<vacant, phase, try, workers, broker, left, faults>>

(* The program has all of initMessages, and puts right the objects of the  *)
(* names in S and of those that were spoiled.                              *)
Whole(S) == doubt' = spoiled \cup S /\ spoiled' = {}

(* It has not, and those of the names in S are no more what they should be.*)
Part(S) == doubt' = {} /\ spoiled' = spoiled \cup S

(* apiMessageAdd has looked for the name before addMessage has msgLock.    *)
AddMessage(n, m) ==
    LET cf == Append(conf, [name |-> n, mode |-> m, consumers |-> <<>>]) IN
    /\ n \in vacant
    /\ Begin(cf, InitMessages(cf)) /\ Whole({n})
    /\ UNCHANGED <<used, look>>

UpdateNoInit(n, m) ==                                              \* fault
    LET cf == [conf EXCEPT ![First(n)].mode = m] IN
    /\ Listed(n)
    /\ Begin(cf, Stops(cf[First(n)])) /\ Whole({n})
    /\ UNCHANGED <<used, look>>

UpdateMessage(n, m) ==
    LET cf == [conf EXCEPT ![First(n)].mode = m] IN
    /\ Listed(n)
    /\ Begin(cf, Stops(cf[First(n)]) \o InitMessages(cf)) /\ Whole({n})
    /\ UNCHANGED <<used, look>>

DeleteMessage(n) ==
    /\ Listed(n)
    /\ Begin(conf, Deletion(n)) /\ Whole({n})
    /\ UNCHANGED <<used, look>>

(* A consumer's keys with that of i set to r, or without i.                *)
With(f, i, r) == [x \in DOMAIN f \cup {i} |-> IF x = i THEN r ELSE f[x]]

Without(f, i) == [x \in DOMAIN f \ {i} |-> f[x]]

AddConsumer(n, i, r) ==
    LET cf == [conf EXCEPT ![First(n)].consumers = With(@, i, r)] IN
    /\ Listed(n)
    /\ i \notin used
    /\ used' = used \cup {i}
    /\ Begin(cf, InitMessages(cf)) /\ Whole({n})
    /\ UNCHANGED look

(* apiConsumerUpdate looks the message up, ...                             *)
LookUp(k) ==
    /\ phase = "serve"
    /\ look = None
    /\ requests < MaxRequests
    /\ Configured(k)
    /\ look' = <<k, conf[First(k[1])].mode>>
    /\ UNCHANGED <<conf, used, vacant, phase, requests, prog, try, workers, broker, history>>

(* ... and has msgLock later.  Nothing is bound by the new routing key.    *)
UpdateConsumer(r) ==
    LET k == look[1]
        j == First(k[1])
    IN
    /\ look # None
    /\ look' = None
    /\ IF Configured(k)
       THEN /\ Begin([conf EXCEPT ![j].consumers = With(@, k[2], r)],
                     <<Call("update", k, [mode |-> look[2], key |-> r])>>)
            /\ Part(IF conf[j].consumers[k[2]] = r THEN {} ELSE {k[1]})
       ELSE Begin(conf, <<>>) /\ Part({})
    /\ UNCHANGED used

DeleteNoQueue(k) ==                                                \* fault
    LET j == First(k[1])
        cf == [conf EXCEPT ![j].consumers = Without(@, k[2])]
        s == OfConsumer(conf[j], k[2])
    IN
    /\ Configured(k)
    /\ Begin(cf, <<Call("stop", k, s)>> \o InitMessages(cf)) /\ Whole({k[1]})
    /\ UNCHANGED <<used, look>>

DeleteConsumer(k) ==
    LET j == First(k[1])
        cf == [conf EXCEPT ![j].consumers = Without(@, k[2])]
        s == OfConsumer(conf[j], k[2])
    IN
    /\ Configured(k)
    /\ Begin(cf, <<Call("stop", k, s)>> \o InitMessages(cf) \o <<Call("deleteQueue", k, s)>>)
    /\ Whole({k[1]})
    /\ UNCHANGED <<used, look>>

(* statusConsumer declares the queue to count its messages.                *)
StatusConsumer(k) ==
    /\ Configured(k)
    /\ Begin(conf, <<Call("queue", k, OfConsumer(conf[First(k[1])], k[2]))>>) /\ Part({})
    /\ UNCHANGED <<used, look>>

Restart ==
    /\ Begin(conf, FlattenSeq([j \in DOMAIN conf |-> Stops(conf[j])]) \o InitMessages(conf))
    /\ Whole({})
    /\ UNCHANGED <<used, look>>

Reload ==
    /\ Begin(conf, InitMessages(conf)) /\ Whole({})
    /\ UNCHANGED <<used, look>>

Operations ==
    \/ \E n \in Names :
         \/ \E m \in Modes : AddMessage(n, m) \/ UpdateMessage(n, m)
         \/ DeleteMessage(n)
         \/ \E i \in Ids, r \in Routes : AddConsumer(n, i, r)
    \/ \E k \in Keys : LookUp(k) \/ DeleteConsumer(k) \/ StatusConsumer(k)
    \/ \E r \in Routes : UpdateConsumer(r)
    \/ Restart
    \/ Reload

Calls(a) ==
    \/ Declare(a) \/ DeclareRefused(a) \/ Clear(a)
    \/ Bind(a) \/ BindRefused(a)

ApiStep ==
    \/ Calls(Api)
    \/ DeleteQueue \/ DeleteExchange \/ Unlist
    \/ Lookup \/ Stop \/ (\E undone \in BOOLEAN : Store(undone))
    \/ Booted

WorkerStep(k) ==
    \/ Calls(k)
    \/ Start(k) \/ Consume(k) \/ ConsumeRefused(k)
    \/ SelectClosed(k) \/ Ends(k)

Faults ==
    \/ \E a \in Actors : DeclareFault(a) \/ ClearFault(a) \/ FaultFails(a)
    \/ \E k \in Keys : Unsubscribe(k)

Next ==
    \/ Operations
    \/ ApiStep
    \/ Boot
    \/ \E k \in Keys : WorkerStep(k) \/ SelectExit(k)
    \/ Faults

Spec == Init /\ [][Next]_vars

(* Fairness: the Go scheduler runs the holder of msgLock, the manager and  *)
(* the workers.  Nothing makes a worker take a stop: it may be waiting on  *)
(* the control channel that an update has replaced.                        *)
Fairness ==
    /\ WF_vars(ApiStep)
    /\ \A k \in Keys : WF_vars(WorkerStep(k))

FairSpec == Spec /\ Fairness

-----------------------------------------------------------------------------
(* Safety                                                                  *)

(* Between two operations the broker has what the configuration says of a  *)
(* message that no other has the name of, its exchange with its mode and   *)
(* the queues of its consumers bound to it by their routing keys, whatever *)
(* the workers do meanwhile with older settings, unless a retry of theirs  *)
(* has deleted one of these objects since (mq.go:74, 122).  An operation   *)
(* that fails leaves in this doubt only the message it is about, and the   *)
(* one at which it fails, and updateConsumer one whose routing key it      *)
(* changes (message.go:260).                                               *)
InForce ==
    phase = "serve" /\ Idle =>
      \A j \in DOMAIN conf :
        LET e == conf[j] IN
        Named(conf, e.name) = {j} /\ e.name \notin spoiled =>
          /\ exchange[e.name] = e.mode
          /\ \A i \in DOMAIN e.consumers : <<<<e.name, i>>, e.consumers[i]>> \in bound

(* Between two operations a queue is that of a consumer in the messages,   *)
(* or it collects messages for nobody, and this only if an earlier run has *)
(* left it, or a worker has declared it that was told to stop, or the      *)
(* operation that deletes it has failed first (message.go:285-288).        *)
QueueWanted ==
    phase = "serve" /\ Idle => \A k \in queues : Lists(conf, k) \/ k \in left

(* What the operations and the workers do to each other through the        *)
(* manager is what ConsumerControl allows, but for the end of the process. *)
Obeying == {k \in Keys : wpc[k] \notin {"none", "remove"}}

Control == INSTANCE ConsumerControl WITH running <- Obeying

Controlled == [][phase' = "down" \/ Control!Next]_<<Obeying, asked>>

(* The most steps that the holder of msgLock has still to take.            *)
CallsLeft == 4 * Len(prog[Api]) - try[Api]

(* An operation makes its calls one after the other, each declaration at   *)
(* most twice, and nothing that workers, the manager or a failing broker   *)
(* do makes it repeat one: msgLock is held for a number of steps that is   *)
(* known when it is taken (mq.go:48-139, message.go:378-436).              *)
OperationsAdvance ==
    [][~Idle => UNCHANGED <<prog[Api], try[Api]>> \/ CallsLeft' < CallsLeft]_vars

-----------------------------------------------------------------------------
(* Liveness                                                                *)

(* Once the broker's failures and the requests are over, every worker that *)
(* has not been asked to stop consumes its queue, unless another worker of *)
(* the message has an item with another mode: they may for ever delete the *)
(* exchange the other has just declared (message.go:507-535).              *)
Agreed(n) == \A k, j \in Running : k[1] = n /\ j[1] = n => item[k].mode = item[j].mode

Served ==
    \A k \in Keys :
      <>[](k \in Running /\ k \notin asked /\ Agreed(k[1]))
        => <>[](k \in subscribed)

(* Every operation ends and gives msgLock back, unless it waits to stop a  *)
(* consumer whose worker has not taken the last stop.                      *)
OperationsEnd == ~Idle ~> (Idle \/ StopBlocked)
=============================================================================
