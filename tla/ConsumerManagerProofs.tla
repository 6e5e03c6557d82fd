------------------------ MODULE ConsumerManagerProofs ------------------------
(***************************************************************************)
(* Proofs about ConsumerManager, for any number of keys, channels, worker  *)
(* slots and callers.                                                      *)
(*                                                                         *)
(* The invariants that TLC checks are not inductive.  IInv strengthens     *)
(* them along three lines:                                                 *)
(*   - who owns a key: an alive worker's key is in the map, and the        *)
(*     manager about to insert a key knows it has no worker;               *)
(*   - who owns a channel: the channels referred to on behalf of two keys  *)
(*     are disjoint, and none of a live worker's holds "exit_ok";          *)
(*   - who is being served: one exchange at a time goes round reqChan, the *)
(*     manager and ansChan, and the holder of msgLock waits for it.        *)
(***************************************************************************)
EXTENDS ConsumerManager, TLAPS

(* Channel c is referred to on behalf of key k.                            *)
RefersTo(k, c) ==
    \/ registry[k] # None /\ registry[k].ch = c
    \/ \E g \in Goroutines : local[g] # None /\ gkey[g] = k /\ local[g].ch = c
    \/ mitem # None /\ mreq.key = k /\ mitem.ch = c

WorkerInv ==
    \A g \in Goroutines :
      /\ pc[g] # "panicked"
      /\ pc[g] \in Alive => gkey[g] \in Keys /\ registry[gkey[g]] # None
      /\ pc[g] \in Alive \ {"start"} => local[g] # None
      /\ pc[g] \notin Alive => local[g] = None
      /\ pc[g] = "remove" => local[g].ch \in exitOk

ManagerInv ==
    /\ mpc = "recv" => mreq = None /\ mitem = None
    /\ mpc # "recv" => mreq # None
    /\ mpc \in {"lookup", "touch", "store"} => mreq.action = "update"
    /\ mpc \in {"stop", "send"} => mreq.action = "delete"
    /\ mpc = "report" => mreq.action = "status"
    /\ mpc = "touch" => mitem # None
    /\ mpc = "store" /\ mitem = None =>
         /\ registry[mreq.key] = None
         /\ \A g \in Goroutines : pc[g] \in Alive => gkey[g] # mreq.key

ChannelInv ==
    \A c \in Chans, k, j \in Keys : RefersTo(k, c) /\ RefersTo(j, c) => k = j

ExitOkInv ==
    \A g \in Goroutines, c \in Chans :
      pc[g] \in Working \cup {"reply"} /\ c \in exitOk => ~RefersTo(gkey[g], c)

ExchangeInv ==
    /\ \A p \in Callers : await[p] # None => holder = p
    /\ reqChan # None => /\ holder # None
                         /\ await[holder] = reqChan
                         /\ ansChan = None
                         /\ mpc = "recv"
    /\ mpc # "recv" => /\ holder # None
                       /\ await[holder] = mreq
                       /\ reqChan = None
                       /\ ansChan = None
    /\ ansChan # None => /\ holder # None
                         /\ await[holder] = ansChan.to
                         /\ (ansChan.text = "completed") = (ansChan.to.action # "status")

IInv ==
    /\ TypeOK
    /\ WorkerInv
    /\ OneWorkerPerKey
    /\ ManagerInv
    /\ ChannelInv
    /\ ExitOkInv
    /\ ExchangeInv
    /\ ConnReturned

-----------------------------------------------------------------------------
(* Each part of IInv is kept by every step                                 *)

(* Every action keeps the types.                                            *)
LEMMA TypeStep == IInv /\ [Next]_vars => TypeOK'
<1> SUFFICES ASSUME IInv, [Next]_vars PROVE TypeOK'
    OBVIOUS
<1> USE NoneAssumption
    DEF IInv, mvars, cvars, wvars, chvars, TypeOK, WorkerInv, ManagerInv,
        Request, Item, Answer, ManagerSteps, WorkerSteps, Alive, Working, Setup,
        Loop, Ending
<1>1. CASE Recv
    BY <1>1 DEF Recv, Dispatch
<1>2. CASE Lookup
    BY <1>2 DEF Lookup
<1>3. CASE Touch
    BY <1>3 DEF Touch
<1>4. CASE Store
    BY <1>4 DEF Store, StoreItem, Spawn, Reply
<1>5. CASE Stop
    BY <1>5 DEF Stop
<1>6. CASE Send
    BY <1>6 DEF Send, Reply
<1>7. CASE Report
    BY <1>7 DEF Report, Reply
<1>8. ASSUME NEW p \in Callers, Acquire(p) PROVE TypeOK'
    BY <1>8 DEF Acquire
<1>9. ASSUME NEW p \in Callers, NEW r \in Request, SendRequest(p, r)
      PROVE TypeOK'
    BY <1>9 DEF SendRequest
<1>10. ASSUME NEW p \in Callers, TakeAnswer(p) PROVE TypeOK'
    BY <1>10 DEF TakeAnswer
<1>11. ASSUME NEW p \in Callers, Release(p) PROVE TypeOK'
    BY <1>11 DEF Release
<1>12. ASSUME NEW g \in Goroutines, Start(g) PROVE TypeOK'
    BY <1>12 DEF Start, Goto, shared
<1>13. ASSUME NEW g \in Goroutines, TouchStart(g) PROVE TypeOK'
  <2>1. local[g] \in Item \ {None} /\ gkey[g] \in Keys
    BY <1>13
       DEF TouchStart, WriteBack, TypeOK, WorkerInv, Alive, Working, Setup,
           Loop, Ending
  <2>2. [local[g] EXCEPT !.active = TRUE] \in Item
    BY <2>1 DEF Item
  <2>3. QED
    BY <1>13, <2>1, <2>2 DEF TouchStart, WriteBack, Goto
<1>14. ASSUME NEW g \in Goroutines, NEW ok \in BOOLEAN, Connect(g, ok)
      PROVE TypeOK'
    BY <1>14 DEF Connect, Goto, shared
<1>15. ASSUME NEW g \in Goroutines, NEW ok \in BOOLEAN, DeclareExchange(g, ok)
      PROVE TypeOK'
    BY <1>15 DEF DeclareExchange, BrokerCall, Goto, shared
<1>16. ASSUME NEW g \in Goroutines, NEW ok \in BOOLEAN, DeclareQueue(g, ok)
      PROVE TypeOK'
    BY <1>16 DEF DeclareQueue, BrokerCall, Goto, shared
<1>17. ASSUME NEW g \in Goroutines, NEW ok \in BOOLEAN, BindQueue(g, ok)
      PROVE TypeOK'
    BY <1>17 DEF BindQueue, BrokerCall, Goto, shared
<1>18. ASSUME NEW g \in Goroutines, NEW ok \in BOOLEAN, Consume(g, ok)
      PROVE TypeOK'
    BY <1>18 DEF Consume, BrokerCall, Goto, shared
<1>19. ASSUME NEW g \in Goroutines, LoopGet(g) PROVE TypeOK'
    BY <1>19 DEF LoopGet, Goto, shared
<1>20. ASSUME NEW g \in Goroutines, TouchLoop(g) PROVE TypeOK'
  <2>1. local[g] \in Item \ {None} /\ gkey[g] \in Keys
    BY <1>20
       DEF TouchLoop, WriteBack, TypeOK, WorkerInv, Alive, Working, Setup,
           Loop, Ending
  <2>2. [local[g] EXCEPT !.active = TRUE] \in Item
    BY <2>1 DEF Item
  <2>3. QED
    BY <1>20, <2>1, <2>2 DEF TouchLoop, WriteBack, Goto
<1>21. ASSUME NEW g \in Goroutines, SelectExit(g) PROVE TypeOK'
    BY <1>21 DEF SelectExit, Goto, shared
<1>22. ASSUME NEW g \in Goroutines, ReplyExitOk(g) PROVE TypeOK'
    BY <1>22 DEF ReplyExitOk, Goto, shared
<1>23. ASSUME NEW g \in Goroutines, SelectDelivery(g) PROVE TypeOK'
    BY <1>23 DEF SelectDelivery, Goto, shared
<1>24. ASSUME NEW g \in Goroutines, Process(g) PROVE TypeOK'
    BY <1>24 DEF Process, Goto, shared
<1>25. ASSUME NEW g \in Goroutines, SelectClosed(g) PROVE TypeOK'
    BY <1>25 DEF SelectClosed, Goto, shared
<1>26. ASSUME NEW g \in Goroutines, Remove(g) PROVE TypeOK'
    BY <1>26 DEF Remove, Goto, shared
<1>27. ASSUME NEW g \in Goroutines, Close(g) PROVE TypeOK'
    BY <1>27 DEF Close, Goto, shared
<1>28. CASE UNCHANGED vars
    BY <1>28 DEF vars
<1>29. QED
    BY <1>1, <1>2, <1>3, <1>4, <1>5, <1>6, <1>7, <1>8, <1>9, <1>10,
       <1>11, <1>12, <1>13, <1>14, <1>15, <1>16, <1>17, <1>18,
       <1>19, <1>20, <1>21, <1>22, <1>23, <1>24, <1>25, <1>26,
       <1>27, <1>28
       DEF Next, Manager, Worker

(* An alive worker keeps its key in the map: only its own Remove takes it   *)
(* out.                                                                     *)
LEMMA WorkerStep == IInv /\ [Next]_vars => WorkerInv'
<1> SUFFICES ASSUME IInv, [Next]_vars PROVE WorkerInv'
    OBVIOUS
<1> USE NoneAssumption
    DEF IInv, mvars, cvars, wvars, chvars, TypeOK, WorkerInv,
        OneWorkerPerKey, ManagerInv, Request, Item, ManagerSteps, WorkerSteps,
        Alive, Working, Setup, Loop, Ending
<1>1. CASE Recv
    BY <1>1 DEF Recv, Dispatch
<1>2. CASE Lookup
    BY <1>2 DEF Lookup
<1>3. CASE Touch
  <2>1. mitem \in Item \ {None} /\ mreq.key \in Keys
    BY <1>3 DEF Touch
  <2>2. [mitem EXCEPT !.active = TRUE] \in Item
    BY <2>1 DEF Item
  <2>3. QED
    BY <1>3, <2>1, <2>2 DEF Touch
<1>4. CASE Store
  <2>1. PICK c \in Chans \ Referenced : StoreItem(c)
    BY <1>4 DEF Store
  <2>2. [cfg |-> mreq.cfg, ch |-> c, active |-> FALSE] \in Item \ {None}
    <3>1. mreq \in Request /\ mreq.cfg \in Configs
      BY <1>4 DEF Store
    <3>2. [cfg |-> mreq.cfg, ch |-> c, active |-> FALSE] \in Item
      BY <3>1 DEF Item
    <3>3. QED
      BY <3>2
  <2>3. mreq.key \in Keys /\ registry'[mreq.key] # None
    BY <1>4, <2>1, <2>2 DEF Store, StoreItem
  <2>4. \A k \in Keys : k # mreq.key => registry'[k] = registry[k]
    BY <2>1 DEF StoreItem
  <2>5. ASSUME NEW g \in Goroutines, pc[g] = "remove"
        PROVE  local[g].ch \in exitOk'
    <3>1. local[g] # None /\ local[g].ch \in Referenced
      BY <2>5 DEF Referenced
    <3>2. QED
      BY <2>1, <2>5, <3>1 DEF StoreItem
  <2>6. local' = local
    BY <1>4 DEF Store, Spawn
  <2>7. CASE mitem = None
    <3>1. PICK g \in Goroutines : Spawn(g)
      BY <1>4, <2>7 DEF Store
    <3>2. QED
      BY <2>3, <2>4, <2>5, <2>6, <3>1 DEF Spawn
  <2>8. CASE mitem # None
    BY <1>4, <2>3, <2>4, <2>5, <2>6, <2>8 DEF Store
  <2>9. QED
    BY <2>7, <2>8
<1>5. CASE Stop
    BY <1>5 DEF Stop
<1>6. CASE Send
    BY <1>6 DEF Send, Reply
<1>7. CASE Report
    BY <1>7 DEF Report, Reply
<1>8. ASSUME NEW p \in Callers, Acquire(p) PROVE WorkerInv'
    BY <1>8 DEF Acquire
<1>9. ASSUME NEW p \in Callers, NEW r \in Request, SendRequest(p, r)
      PROVE WorkerInv'
    BY <1>9 DEF SendRequest
<1>10. ASSUME NEW p \in Callers, TakeAnswer(p) PROVE WorkerInv'
    BY <1>10 DEF TakeAnswer
<1>11. ASSUME NEW p \in Callers, Release(p) PROVE WorkerInv'
    BY <1>11 DEF Release
<1>12. ASSUME NEW g \in Goroutines, Start(g) PROVE WorkerInv'
    BY <1>12 DEF Start, Goto, shared
<1>13. ASSUME NEW g \in Goroutines, TouchStart(g) PROVE WorkerInv'
  <2>1. local[g] \in Item \ {None} /\ gkey[g] \in Keys
    BY <1>13
       DEF TouchStart, WriteBack, TypeOK, WorkerInv, Alive, Working, Setup,
           Loop, Ending
  <2>2. [local[g] EXCEPT !.active = TRUE] \in Item
    BY <2>1 DEF Item
  <2>3. QED
    BY <1>13, <2>1, <2>2, ZenonT(60) DEF TouchStart, WriteBack, Goto
<1>14. ASSUME NEW g \in Goroutines, NEW ok \in BOOLEAN, Connect(g, ok)
      PROVE WorkerInv'
    BY <1>14 DEF Connect, Goto, shared
<1>15. ASSUME NEW g \in Goroutines, NEW ok \in BOOLEAN, DeclareExchange(g, ok)
      PROVE WorkerInv'
    BY <1>15 DEF DeclareExchange, BrokerCall, Goto, shared
<1>16. ASSUME NEW g \in Goroutines, NEW ok \in BOOLEAN, DeclareQueue(g, ok)
      PROVE WorkerInv'
    BY <1>16 DEF DeclareQueue, BrokerCall, Goto, shared
<1>17. ASSUME NEW g \in Goroutines, NEW ok \in BOOLEAN, BindQueue(g, ok)
      PROVE WorkerInv'
    BY <1>17 DEF BindQueue, BrokerCall, Goto, shared
<1>18. ASSUME NEW g \in Goroutines, NEW ok \in BOOLEAN, Consume(g, ok)
      PROVE WorkerInv'
    BY <1>18 DEF Consume, BrokerCall, Goto, shared
<1>19. ASSUME NEW g \in Goroutines, LoopGet(g) PROVE WorkerInv'
    BY <1>19 DEF LoopGet, Goto, shared
<1>20. ASSUME NEW g \in Goroutines, TouchLoop(g) PROVE WorkerInv'
  <2>1. local[g] \in Item \ {None} /\ gkey[g] \in Keys
    BY <1>20
       DEF TouchLoop, WriteBack, TypeOK, WorkerInv, Alive, Working, Setup,
           Loop, Ending
  <2>2. [local[g] EXCEPT !.active = TRUE] \in Item
    BY <2>1 DEF Item
  <2>3. QED
    BY <1>20, <2>1, <2>2 DEF TouchLoop, WriteBack, Goto
<1>21. ASSUME NEW g \in Goroutines, SelectExit(g) PROVE WorkerInv'
    BY <1>21 DEF SelectExit, Goto, shared
<1>22. ASSUME NEW g \in Goroutines, ReplyExitOk(g) PROVE WorkerInv'
    BY <1>22 DEF ReplyExitOk, Goto, shared
<1>23. ASSUME NEW g \in Goroutines, SelectDelivery(g) PROVE WorkerInv'
    BY <1>23 DEF SelectDelivery, Goto, shared
<1>24. ASSUME NEW g \in Goroutines, Process(g) PROVE WorkerInv'
    BY <1>24 DEF Process, Goto, shared
<1>25. ASSUME NEW g \in Goroutines, SelectClosed(g) PROVE WorkerInv'
    BY <1>25 DEF SelectClosed, Goto, shared
<1>26. ASSUME NEW g \in Goroutines, Remove(g) PROVE WorkerInv'
    BY <1>26 DEF Remove, Goto, shared
<1>27. ASSUME NEW g \in Goroutines, Close(g) PROVE WorkerInv'
    BY <1>27 DEF Close, Goto, shared
<1>28. CASE UNCHANGED vars
    BY <1>28 DEF vars
<1>29. QED
    BY <1>1, <1>2, <1>3, <1>4, <1>5, <1>6, <1>7, <1>8, <1>9, <1>10,
       <1>11, <1>12, <1>13, <1>14, <1>15, <1>16, <1>17, <1>18,
       <1>19, <1>20, <1>21, <1>22, <1>23, <1>24, <1>25, <1>26,
       <1>27, <1>28
       DEF Next, Manager, Worker

(* A worker is started only for a key without one.                          *)
LEMMA UniqueStep == IInv /\ [Next]_vars => OneWorkerPerKey'
<1> SUFFICES ASSUME IInv, [Next]_vars PROVE OneWorkerPerKey'
    OBVIOUS
<1> USE NoneAssumption
    DEF IInv, mvars, cvars, wvars, chvars, TypeOK, WorkerInv,
        OneWorkerPerKey, ManagerInv, ManagerSteps, WorkerSteps, Alive, Working,
        Setup, Loop, Ending
<1>1. CASE Recv
    BY <1>1 DEF Recv, Dispatch
<1>2. CASE Lookup
    BY <1>2 DEF Lookup
<1>3. CASE Touch
    BY <1>3 DEF Touch
<1>4. CASE Store
    BY <1>4 DEF Store, StoreItem, Spawn, Reply
<1>5. CASE Stop
    BY <1>5 DEF Stop
<1>6. CASE Send
    BY <1>6 DEF Send, Reply
<1>7. CASE Report
    BY <1>7 DEF Report, Reply
<1>8. ASSUME NEW p \in Callers, Acquire(p) PROVE OneWorkerPerKey'
    BY <1>8 DEF Acquire
<1>9. ASSUME NEW p \in Callers, NEW r \in Request, SendRequest(p, r)
      PROVE OneWorkerPerKey'
    BY <1>9 DEF SendRequest
<1>10. ASSUME NEW p \in Callers, TakeAnswer(p) PROVE OneWorkerPerKey'
    BY <1>10 DEF TakeAnswer
<1>11. ASSUME NEW p \in Callers, Release(p) PROVE OneWorkerPerKey'
    BY <1>11 DEF Release
<1>12. ASSUME NEW g \in Goroutines, Start(g) PROVE OneWorkerPerKey'
    BY <1>12 DEF Start, Goto, shared
<1>13. ASSUME NEW g \in Goroutines, TouchStart(g) PROVE OneWorkerPerKey'
    BY <1>13 DEF TouchStart, WriteBack, Goto
<1>14. ASSUME NEW g \in Goroutines, NEW ok \in BOOLEAN, Connect(g, ok)
      PROVE OneWorkerPerKey'
    BY <1>14 DEF Connect, Goto, shared
<1>15. ASSUME NEW g \in Goroutines, NEW ok \in BOOLEAN, DeclareExchange(g, ok)
      PROVE OneWorkerPerKey'
    BY <1>15 DEF DeclareExchange, BrokerCall, Goto, shared
<1>16. ASSUME NEW g \in Goroutines, NEW ok \in BOOLEAN, DeclareQueue(g, ok)
      PROVE OneWorkerPerKey'
    BY <1>16 DEF DeclareQueue, BrokerCall, Goto, shared
<1>17. ASSUME NEW g \in Goroutines, NEW ok \in BOOLEAN, BindQueue(g, ok)
      PROVE OneWorkerPerKey'
    BY <1>17 DEF BindQueue, BrokerCall, Goto, shared
<1>18. ASSUME NEW g \in Goroutines, NEW ok \in BOOLEAN, Consume(g, ok)
      PROVE OneWorkerPerKey'
    BY <1>18 DEF Consume, BrokerCall, Goto, shared
<1>19. ASSUME NEW g \in Goroutines, LoopGet(g) PROVE OneWorkerPerKey'
    BY <1>19 DEF LoopGet, Goto, shared
<1>20. ASSUME NEW g \in Goroutines, TouchLoop(g) PROVE OneWorkerPerKey'
    BY <1>20 DEF TouchLoop, WriteBack, Goto
<1>21. ASSUME NEW g \in Goroutines, SelectExit(g) PROVE OneWorkerPerKey'
    BY <1>21 DEF SelectExit, Goto, shared
<1>22. ASSUME NEW g \in Goroutines, ReplyExitOk(g) PROVE OneWorkerPerKey'
    BY <1>22 DEF ReplyExitOk, Goto, shared
<1>23. ASSUME NEW g \in Goroutines, SelectDelivery(g) PROVE OneWorkerPerKey'
    BY <1>23 DEF SelectDelivery, Goto, shared
<1>24. ASSUME NEW g \in Goroutines, Process(g) PROVE OneWorkerPerKey'
    BY <1>24 DEF Process, Goto, shared
<1>25. ASSUME NEW g \in Goroutines, SelectClosed(g) PROVE OneWorkerPerKey'
    BY <1>25 DEF SelectClosed, Goto, shared
<1>26. ASSUME NEW g \in Goroutines, Remove(g) PROVE OneWorkerPerKey'
    BY <1>26 DEF Remove, Goto, shared
<1>27. ASSUME NEW g \in Goroutines, Close(g) PROVE OneWorkerPerKey'
    BY <1>27 DEF Close, Goto, shared
<1>28. CASE UNCHANGED vars
    BY <1>28 DEF vars
<1>29. QED
    BY <1>1, <1>2, <1>3, <1>4, <1>5, <1>6, <1>7, <1>8, <1>9, <1>10,
       <1>11, <1>12, <1>13, <1>14, <1>15, <1>16, <1>17, <1>18,
       <1>19, <1>20, <1>21, <1>22, <1>23, <1>24, <1>25, <1>26,
       <1>27, <1>28
       DEF Next, Manager, Worker

(* The manager that found a key absent still finds it absent when it        *)
(* stores: workers only write keys of their own, which are present.         *)
LEMMA ManagerStep == IInv /\ [Next]_vars => ManagerInv'
<1> SUFFICES ASSUME IInv, [Next]_vars PROVE ManagerInv'
    OBVIOUS
<1> USE NoneAssumption
    DEF IInv, mvars, cvars, wvars, chvars, TypeOK, WorkerInv,
        OneWorkerPerKey, ManagerInv, Request, ManagerSteps, WorkerSteps, Alive,
        Working, Setup, Loop, Ending
<1>1. CASE Recv
    BY <1>1 DEF Recv, Dispatch
<1>2. CASE Lookup
    BY <1>2 DEF Lookup
<1>3. CASE Touch
    BY <1>3 DEF Touch
<1>4. CASE Store
    BY <1>4 DEF Store, StoreItem, Spawn, Reply
<1>5. CASE Stop
    BY <1>5 DEF Stop
<1>6. CASE Send
    BY <1>6 DEF Send, Reply
<1>7. CASE Report
    BY <1>7 DEF Report, Reply
<1>8. ASSUME NEW p \in Callers, Acquire(p) PROVE ManagerInv'
    BY <1>8 DEF Acquire
<1>9. ASSUME NEW p \in Callers, NEW r \in Request, SendRequest(p, r)
      PROVE ManagerInv'
    BY <1>9 DEF SendRequest
<1>10. ASSUME NEW p \in Callers, TakeAnswer(p) PROVE ManagerInv'
    BY <1>10 DEF TakeAnswer
<1>11. ASSUME NEW p \in Callers, Release(p) PROVE ManagerInv'
    BY <1>11 DEF Release
<1>12. ASSUME NEW g \in Goroutines, Start(g) PROVE ManagerInv'
    BY <1>12 DEF Start, Goto, shared
<1>13. ASSUME NEW g \in Goroutines, TouchStart(g) PROVE ManagerInv'
    BY <1>13 DEF TouchStart, WriteBack, Goto
<1>14. ASSUME NEW g \in Goroutines, NEW ok \in BOOLEAN, Connect(g, ok)
      PROVE ManagerInv'
    BY <1>14 DEF Connect, Goto, shared
<1>15. ASSUME NEW g \in Goroutines, NEW ok \in BOOLEAN, DeclareExchange(g, ok)
      PROVE ManagerInv'
    BY <1>15 DEF DeclareExchange, BrokerCall, Goto, shared
<1>16. ASSUME NEW g \in Goroutines, NEW ok \in BOOLEAN, DeclareQueue(g, ok)
      PROVE ManagerInv'
    BY <1>16 DEF DeclareQueue, BrokerCall, Goto, shared
<1>17. ASSUME NEW g \in Goroutines, NEW ok \in BOOLEAN, BindQueue(g, ok)
      PROVE ManagerInv'
    BY <1>17 DEF BindQueue, BrokerCall, Goto, shared
<1>18. ASSUME NEW g \in Goroutines, NEW ok \in BOOLEAN, Consume(g, ok)
      PROVE ManagerInv'
    BY <1>18 DEF Consume, BrokerCall, Goto, shared
<1>19. ASSUME NEW g \in Goroutines, LoopGet(g) PROVE ManagerInv'
    BY <1>19 DEF LoopGet, Goto, shared
<1>20. ASSUME NEW g \in Goroutines, TouchLoop(g) PROVE ManagerInv'
    BY <1>20 DEF TouchLoop, WriteBack, Goto
<1>21. ASSUME NEW g \in Goroutines, SelectExit(g) PROVE ManagerInv'
    BY <1>21 DEF SelectExit, Goto, shared
<1>22. ASSUME NEW g \in Goroutines, ReplyExitOk(g) PROVE ManagerInv'
    BY <1>22 DEF ReplyExitOk, Goto, shared
<1>23. ASSUME NEW g \in Goroutines, SelectDelivery(g) PROVE ManagerInv'
    BY <1>23 DEF SelectDelivery, Goto, shared
<1>24. ASSUME NEW g \in Goroutines, Process(g) PROVE ManagerInv'
    BY <1>24 DEF Process, Goto, shared
<1>25. ASSUME NEW g \in Goroutines, SelectClosed(g) PROVE ManagerInv'
    BY <1>25 DEF SelectClosed, Goto, shared
<1>26. ASSUME NEW g \in Goroutines, Remove(g) PROVE ManagerInv'
    BY <1>26 DEF Remove, Goto, shared
<1>27. ASSUME NEW g \in Goroutines, Close(g) PROVE ManagerInv'
    BY <1>27 DEF Close, Goto, shared
<1>28. CASE UNCHANGED vars
    BY <1>28 DEF vars
<1>29. QED
    BY <1>1, <1>2, <1>3, <1>4, <1>5, <1>6, <1>7, <1>8, <1>9, <1>10,
       <1>11, <1>12, <1>13, <1>14, <1>15, <1>16, <1>17, <1>18,
       <1>19, <1>20, <1>21, <1>22, <1>23, <1>24, <1>25, <1>26,
       <1>27, <1>28
       DEF Next, Manager, Worker

(* One exchange at a time: the holder of msgLock waits for the request that *)
(* is in reqChan, at the manager or answered in ansChan.                    *)
LEMMA ExchangeStep == IInv /\ [Next]_vars => ExchangeInv'
<1> SUFFICES ASSUME IInv, [Next]_vars PROVE ExchangeInv'
    OBVIOUS
<1> USE NoneAssumption
    DEF IInv, mvars, cvars, wvars, chvars, TypeOK, ManagerInv, ExchangeInv,
        Request, Answer
<1>1. CASE Recv
    BY <1>1 DEF Recv, Dispatch
<1>2. CASE Lookup
    BY <1>2 DEF Lookup
<1>3. CASE Touch
    BY <1>3 DEF Touch
<1>4. CASE Store
    BY <1>4 DEF Store, StoreItem, Spawn, Reply
<1>5. CASE Stop
    BY <1>5 DEF Stop
<1>6. CASE Send
    BY <1>6 DEF Send, Reply
<1>7. CASE Report
    BY <1>7 DEF Report, Reply
<1>8. ASSUME NEW p \in Callers, Acquire(p) PROVE ExchangeInv'
    BY <1>8 DEF Acquire
<1>9. ASSUME NEW p \in Callers, NEW r \in Request, SendRequest(p, r)
      PROVE ExchangeInv'
    BY <1>9 DEF SendRequest
<1>10. ASSUME NEW p \in Callers, TakeAnswer(p) PROVE ExchangeInv'
    BY <1>10 DEF TakeAnswer
<1>11. ASSUME NEW p \in Callers, Release(p) PROVE ExchangeInv'
    BY <1>11 DEF Release
<1>12. ASSUME NEW g \in Goroutines, Start(g) PROVE ExchangeInv'
    BY <1>12 DEF Start, Goto, shared
<1>13. ASSUME NEW g \in Goroutines, TouchStart(g) PROVE ExchangeInv'
    BY <1>13 DEF TouchStart, WriteBack, Goto
<1>14. ASSUME NEW g \in Goroutines, NEW ok \in BOOLEAN, Connect(g, ok)
      PROVE ExchangeInv'
    BY <1>14 DEF Connect, Goto, shared
<1>15. ASSUME NEW g \in Goroutines, NEW ok \in BOOLEAN, DeclareExchange(g, ok)
      PROVE ExchangeInv'
    BY <1>15 DEF DeclareExchange, BrokerCall, Goto, shared
<1>16. ASSUME NEW g \in Goroutines, NEW ok \in BOOLEAN, DeclareQueue(g, ok)
      PROVE ExchangeInv'
    BY <1>16 DEF DeclareQueue, BrokerCall, Goto, shared
<1>17. ASSUME NEW g \in Goroutines, NEW ok \in BOOLEAN, BindQueue(g, ok)
      PROVE ExchangeInv'
    BY <1>17 DEF BindQueue, BrokerCall, Goto, shared
<1>18. ASSUME NEW g \in Goroutines, NEW ok \in BOOLEAN, Consume(g, ok)
      PROVE ExchangeInv'
    BY <1>18 DEF Consume, BrokerCall, Goto, shared
<1>19. ASSUME NEW g \in Goroutines, LoopGet(g) PROVE ExchangeInv'
    BY <1>19 DEF LoopGet, Goto, shared
<1>20. ASSUME NEW g \in Goroutines, TouchLoop(g) PROVE ExchangeInv'
    BY <1>20 DEF TouchLoop, WriteBack, Goto
<1>21. ASSUME NEW g \in Goroutines, SelectExit(g) PROVE ExchangeInv'
    BY <1>21 DEF SelectExit, Goto, shared
<1>22. ASSUME NEW g \in Goroutines, ReplyExitOk(g) PROVE ExchangeInv'
    BY <1>22 DEF ReplyExitOk, Goto, shared
<1>23. ASSUME NEW g \in Goroutines, SelectDelivery(g) PROVE ExchangeInv'
    BY <1>23 DEF SelectDelivery, Goto, shared
<1>24. ASSUME NEW g \in Goroutines, Process(g) PROVE ExchangeInv'
    BY <1>24 DEF Process, Goto, shared
<1>25. ASSUME NEW g \in Goroutines, SelectClosed(g) PROVE ExchangeInv'
    BY <1>25 DEF SelectClosed, Goto, shared
<1>26. ASSUME NEW g \in Goroutines, Remove(g) PROVE ExchangeInv'
    BY <1>26 DEF Remove, Goto, shared
<1>27. ASSUME NEW g \in Goroutines, Close(g) PROVE ExchangeInv'
    BY <1>27 DEF Close, Goto, shared
<1>28. CASE UNCHANGED vars
    BY <1>28 DEF vars
<1>29. QED
    BY <1>1, <1>2, <1>3, <1>4, <1>5, <1>6, <1>7, <1>8, <1>9, <1>10,
       <1>11, <1>12, <1>13, <1>14, <1>15, <1>16, <1>17, <1>18,
       <1>19, <1>20, <1>21, <1>22, <1>23, <1>24, <1>25, <1>26,
       <1>27, <1>28
       DEF Next, Manager, Worker

(* The connection held by a worker follows its steps.                       *)
LEMMA ConnStep == IInv /\ [Next]_vars => ConnReturned'
<1> SUFFICES ASSUME IInv, [Next]_vars PROVE ConnReturned'
    OBVIOUS
<1> USE NoneAssumption
    DEF IInv, mvars, cvars, wvars, chvars, TypeOK, WorkerInv, ConnReturned,
        HoldsConn, WorkerSteps, Alive, Working, Setup, Loop, Ending
<1>1. CASE Recv
    BY <1>1 DEF Recv, Dispatch
<1>2. CASE Lookup
    BY <1>2 DEF Lookup
<1>3. CASE Touch
    BY <1>3 DEF Touch
<1>4. CASE Store
    BY <1>4 DEF Store, StoreItem, Spawn, Reply
<1>5. CASE Stop
    BY <1>5 DEF Stop
<1>6. CASE Send
    BY <1>6 DEF Send, Reply
<1>7. CASE Report
    BY <1>7 DEF Report, Reply
<1>8. ASSUME NEW p \in Callers, Acquire(p) PROVE ConnReturned'
    BY <1>8 DEF Acquire
<1>9. ASSUME NEW p \in Callers, NEW r \in Request, SendRequest(p, r)
      PROVE ConnReturned'
    BY <1>9 DEF SendRequest
<1>10. ASSUME NEW p \in Callers, TakeAnswer(p) PROVE ConnReturned'
    BY <1>10 DEF TakeAnswer
<1>11. ASSUME NEW p \in Callers, Release(p) PROVE ConnReturned'
    BY <1>11 DEF Release
<1>12. ASSUME NEW g \in Goroutines, Start(g) PROVE ConnReturned'
    BY <1>12 DEF Start, Goto, shared
<1>13. ASSUME NEW g \in Goroutines, TouchStart(g) PROVE ConnReturned'
    BY <1>13 DEF TouchStart, WriteBack, Goto
<1>14. ASSUME NEW g \in Goroutines, NEW ok \in BOOLEAN, Connect(g, ok)
      PROVE ConnReturned'
    BY <1>14 DEF Connect, Goto, shared
<1>15. ASSUME NEW g \in Goroutines, NEW ok \in BOOLEAN, DeclareExchange(g, ok)
      PROVE ConnReturned'
    BY <1>15 DEF DeclareExchange, BrokerCall, Goto, shared
<1>16. ASSUME NEW g \in Goroutines, NEW ok \in BOOLEAN, DeclareQueue(g, ok)
      PROVE ConnReturned'
    BY <1>16 DEF DeclareQueue, BrokerCall, Goto, shared
<1>17. ASSUME NEW g \in Goroutines, NEW ok \in BOOLEAN, BindQueue(g, ok)
      PROVE ConnReturned'
    BY <1>17 DEF BindQueue, BrokerCall, Goto, shared
<1>18. ASSUME NEW g \in Goroutines, NEW ok \in BOOLEAN, Consume(g, ok)
      PROVE ConnReturned'
    BY <1>18 DEF Consume, BrokerCall, Goto, shared
<1>19. ASSUME NEW g \in Goroutines, LoopGet(g) PROVE ConnReturned'
    BY <1>19 DEF LoopGet, Goto, shared
<1>20. ASSUME NEW g \in Goroutines, TouchLoop(g) PROVE ConnReturned'
    BY <1>20 DEF TouchLoop, WriteBack, Goto
<1>21. ASSUME NEW g \in Goroutines, SelectExit(g) PROVE ConnReturned'
    BY <1>21 DEF SelectExit, Goto, shared
<1>22. ASSUME NEW g \in Goroutines, ReplyExitOk(g) PROVE ConnReturned'
    BY <1>22 DEF ReplyExitOk, Goto, shared
<1>23. ASSUME NEW g \in Goroutines, SelectDelivery(g) PROVE ConnReturned'
    BY <1>23 DEF SelectDelivery, Goto, shared
<1>24. ASSUME NEW g \in Goroutines, Process(g) PROVE ConnReturned'
    BY <1>24 DEF Process, Goto, shared
<1>25. ASSUME NEW g \in Goroutines, SelectClosed(g) PROVE ConnReturned'
    BY <1>25 DEF SelectClosed, Goto, shared
<1>26. ASSUME NEW g \in Goroutines, Remove(g) PROVE ConnReturned'
    BY <1>26 DEF Remove, Goto, shared
<1>27. ASSUME NEW g \in Goroutines, Close(g) PROVE ConnReturned'
    BY <1>27 DEF Close, Goto, shared
<1>28. CASE UNCHANGED vars
    BY <1>28 DEF vars
<1>29. QED
    BY <1>1, <1>2, <1>3, <1>4, <1>5, <1>6, <1>7, <1>8, <1>9, <1>10,
       <1>11, <1>12, <1>13, <1>14, <1>15, <1>16, <1>17, <1>18,
       <1>19, <1>20, <1>21, <1>22, <1>23, <1>24, <1>25, <1>26,
       <1>27, <1>28
       DEF Next, Manager, Worker

(* A step makes a key refer to a new channel only when the manager stores  *)
(* a new item for it, and then to a channel nobody referred to.            *)
RefersOnlyFresh ==
    \A k \in Keys, c \in Chans :
      RefersTo(k, c)' => \/ RefersTo(k, c)
                        \/ /\ Store
                           /\ k = mreq.key
                           /\ c \notin Referenced
                           /\ registry'[k].ch = c

(* No step but Store makes a key refer to a channel it did not refer to.    *)
LEMMA RefersStep == IInv /\ [Next]_vars => RefersOnlyFresh
<1> SUFFICES ASSUME IInv, [Next]_vars PROVE RefersOnlyFresh
    OBVIOUS
<1> USE NoneAssumption
    DEF IInv, mvars, cvars, wvars, chvars, TypeOK, WorkerInv, ManagerInv,
        Request, Item, ManagerSteps, WorkerSteps, RefersTo, RefersOnlyFresh,
        Alive, Working, Setup, Loop, Ending
<1>1. CASE Recv
    BY <1>1 DEF Recv, Dispatch
<1>2. CASE Lookup
    BY <1>2 DEF Lookup
<1>3. CASE Touch
  <2>1. mitem \in Item \ {None} /\ mreq.key \in Keys
    BY <1>3 DEF Touch
  <2>2. [mitem EXCEPT !.active = TRUE] \in Item
    BY <2>1 DEF Item
  <2>3. QED
    BY <1>3, <2>1, <2>2 DEF Touch
<1>4. CASE Store
  <2> SUFFICES ASSUME NEW k \in Keys, NEW c \in Chans, RefersTo(k, c)'
               PROVE  \/ RefersTo(k, c)
                      \/ k = mreq.key /\ c \notin Referenced /\ registry'[k].ch = c
    BY <1>4
  <2>1. PICK c0 \in Chans \ Referenced : StoreItem(c0)
    BY <1>4 DEF Store
  <2>2. mreq.key \in Keys /\ mitem' = None /\ local' = local
    BY <1>4 DEF Store, Reply, Spawn
  <2>3. CASE registry'[k] # None /\ registry'[k].ch = c
    <3>1. CASE k = mreq.key
      BY <2>1, <2>2, <2>3, <3>1 DEF StoreItem
    <3>2. CASE k # mreq.key
      BY <2>1, <2>2, <2>3, <3>2 DEF StoreItem
    <3>3. QED
      BY <3>1, <3>2
  <2>4. ASSUME NEW g \in Goroutines, local'[g] # None, gkey'[g] = k, local'[g].ch = c
        PROVE  RefersTo(k, c)
    <3>1. gkey'[g] = gkey[g]
      BY <1>4, <2>2, <2>4 DEF Store, Spawn
    <3>2. QED
      BY <2>2, <2>4, <3>1
  <2>5. QED
    BY <2>2, <2>3, <2>4
<1>5. CASE Stop
    BY <1>5 DEF Stop
<1>6. CASE Send
    BY <1>6 DEF Send, Reply
<1>7. CASE Report
    BY <1>7 DEF Report, Reply
<1>8. ASSUME NEW p \in Callers, Acquire(p) PROVE RefersOnlyFresh
    BY <1>8 DEF Acquire
<1>9. ASSUME NEW p \in Callers, NEW r \in Request, SendRequest(p, r)
      PROVE RefersOnlyFresh
    BY <1>9 DEF SendRequest
<1>10. ASSUME NEW p \in Callers, TakeAnswer(p) PROVE RefersOnlyFresh
    BY <1>10 DEF TakeAnswer
<1>11. ASSUME NEW p \in Callers, Release(p) PROVE RefersOnlyFresh
    BY <1>11 DEF Release
<1>12. ASSUME NEW g \in Goroutines, Start(g) PROVE RefersOnlyFresh
    BY <1>12 DEF Start, Goto, shared
<1>13. ASSUME NEW g \in Goroutines, TouchStart(g) PROVE RefersOnlyFresh
  <2>1. local[g] \in Item \ {None} /\ gkey[g] \in Keys
    BY <1>13
       DEF TouchStart, WriteBack, TypeOK, WorkerInv, Alive, Working, Setup,
           Loop, Ending
  <2>2. [local[g] EXCEPT !.active = TRUE] \in Item
    BY <2>1 DEF Item
  <2>3. QED
    BY <1>13, <2>1, <2>2 DEF TouchStart, WriteBack, Goto
<1>14. ASSUME NEW g \in Goroutines, NEW ok \in BOOLEAN, Connect(g, ok)
      PROVE RefersOnlyFresh
    BY <1>14 DEF Connect, Goto, shared
<1>15. ASSUME NEW g \in Goroutines, NEW ok \in BOOLEAN, DeclareExchange(g, ok)
      PROVE RefersOnlyFresh
    BY <1>15 DEF DeclareExchange, BrokerCall, Goto, shared
<1>16. ASSUME NEW g \in Goroutines, NEW ok \in BOOLEAN, DeclareQueue(g, ok)
      PROVE RefersOnlyFresh
    BY <1>16 DEF DeclareQueue, BrokerCall, Goto, shared
<1>17. ASSUME NEW g \in Goroutines, NEW ok \in BOOLEAN, BindQueue(g, ok)
      PROVE RefersOnlyFresh
    BY <1>17 DEF BindQueue, BrokerCall, Goto, shared
<1>18. ASSUME NEW g \in Goroutines, NEW ok \in BOOLEAN, Consume(g, ok)
      PROVE RefersOnlyFresh
    BY <1>18 DEF Consume, BrokerCall, Goto, shared
<1>19. ASSUME NEW g \in Goroutines, LoopGet(g) PROVE RefersOnlyFresh
    BY <1>19 DEF LoopGet, Goto, shared
<1>20. ASSUME NEW g \in Goroutines, TouchLoop(g) PROVE RefersOnlyFresh
  <2>1. local[g] \in Item \ {None} /\ gkey[g] \in Keys
    BY <1>20
       DEF TouchLoop, WriteBack, TypeOK, WorkerInv, Alive, Working, Setup,
           Loop, Ending
  <2>2. [local[g] EXCEPT !.active = TRUE] \in Item
    BY <2>1 DEF Item
  <2>3. QED
    BY <1>20, <2>1, <2>2 DEF TouchLoop, WriteBack, Goto
<1>21. ASSUME NEW g \in Goroutines, SelectExit(g) PROVE RefersOnlyFresh
    BY <1>21 DEF SelectExit, Goto, shared
<1>22. ASSUME NEW g \in Goroutines, ReplyExitOk(g) PROVE RefersOnlyFresh
    BY <1>22 DEF ReplyExitOk, Goto, shared
<1>23. ASSUME NEW g \in Goroutines, SelectDelivery(g) PROVE RefersOnlyFresh
    BY <1>23 DEF SelectDelivery, Goto, shared
<1>24. ASSUME NEW g \in Goroutines, Process(g) PROVE RefersOnlyFresh
    BY <1>24 DEF Process, Goto, shared
<1>25. ASSUME NEW g \in Goroutines, SelectClosed(g) PROVE RefersOnlyFresh
    BY <1>25 DEF SelectClosed, Goto, shared
<1>26. ASSUME NEW g \in Goroutines, Remove(g) PROVE RefersOnlyFresh
    BY <1>26 DEF Remove, Goto, shared
<1>27. ASSUME NEW g \in Goroutines, Close(g) PROVE RefersOnlyFresh
    BY <1>27 DEF Close, Goto, shared
<1>28. CASE UNCHANGED vars
    BY <1>28 DEF vars
<1>29. QED
    BY <1>1, <1>2, <1>3, <1>4, <1>5, <1>6, <1>7, <1>8, <1>9, <1>10,
       <1>11, <1>12, <1>13, <1>14, <1>15, <1>16, <1>17, <1>18,
       <1>19, <1>20, <1>21, <1>22, <1>23, <1>24, <1>25, <1>26,
       <1>27, <1>28
       DEF Next, Manager, Worker

(* What a key refers to is referenced.                                      *)
LEMMA RefersReferenced ==
    ASSUME NEW k \in Keys, NEW c \in Chans, RefersTo(k, c)
    PROVE  c \in Referenced
BY DEF RefersTo, Referenced

(* Channels of two keys stay apart: a step gives a new channel to one key   *)
(* only.                                                                    *)
LEMMA ChannelStep == IInv /\ [Next]_vars => ChannelInv'
<1> SUFFICES ASSUME IInv, [Next]_vars,
                    NEW c \in Chans, NEW k \in Keys, NEW j \in Keys,
                    RefersTo(k, c)', RefersTo(j, c)'
             PROVE  k = j
    BY DEF ChannelInv
<1>1. \A i \in {k, j} : RefersTo(i, c) \/ (i = mreq.key /\ c \notin Referenced)
    BY RefersStep DEF RefersOnlyFresh
<1>2. CASE RefersTo(k, c) /\ RefersTo(j, c)
    BY <1>2 DEF IInv, ChannelInv
<1>3. CASE ~RefersTo(k, c) \/ ~RefersTo(j, c)
    BY <1>1, <1>3, RefersReferenced
<1>4. QED
    BY <1>2, <1>3

(* Apart from Store and ReplyExitOk, a step writes no "exit_ok" and brings  *)
(* no worker to life.                                                      *)
Quiet ==
    /\ exitOk' \subseteq exitOk
    /\ \A g \in Goroutines :
         pc'[g] \in Working \cup {"reply"} =>
           pc[g] \in Working \cup {"reply"} /\ gkey'[g] = gkey[g]

NewWorkerOrReplyOrQuiet ==
    Store \/ (\E g \in Goroutines : ReplyExitOk(g)) \/ Quiet

(* Apart from Store and ReplyExitOk, no step writes an exit_ok or brings a  *)
(* worker to life.                                                          *)
LEMMA QuietStep == IInv /\ [Next]_vars => NewWorkerOrReplyOrQuiet
<1> SUFFICES ASSUME IInv, [Next]_vars PROVE NewWorkerOrReplyOrQuiet
    OBVIOUS
<1> USE NoneAssumption
    DEF IInv, mvars, cvars, wvars, chvars, TypeOK, WorkerInv,
        NewWorkerOrReplyOrQuiet, Quiet, ManagerSteps, WorkerSteps, Alive,
        Working, Setup, Loop, Ending
<1>1. CASE Recv
    BY <1>1 DEF Recv, Dispatch
<1>2. CASE Lookup
    BY <1>2 DEF Lookup
<1>3. CASE Touch
    BY <1>3 DEF Touch
<1>4. CASE Store
    BY <1>4
<1>5. CASE Stop
    BY <1>5 DEF Stop
<1>6. CASE Send
    BY <1>6 DEF Send, Reply
<1>7. CASE Report
    BY <1>7 DEF Report, Reply
<1>8. ASSUME NEW p \in Callers, Acquire(p) PROVE NewWorkerOrReplyOrQuiet
    BY <1>8 DEF Acquire
<1>9. ASSUME NEW p \in Callers, NEW r \in Request, SendRequest(p, r)
      PROVE NewWorkerOrReplyOrQuiet
    BY <1>9 DEF SendRequest
<1>10. ASSUME NEW p \in Callers, TakeAnswer(p) PROVE NewWorkerOrReplyOrQuiet
    BY <1>10 DEF TakeAnswer
<1>11. ASSUME NEW p \in Callers, Release(p) PROVE NewWorkerOrReplyOrQuiet
    BY <1>11 DEF Release
<1>12. ASSUME NEW g \in Goroutines, Start(g) PROVE NewWorkerOrReplyOrQuiet
    BY <1>12 DEF Start, Goto, shared
<1>13. ASSUME NEW g \in Goroutines, TouchStart(g) PROVE NewWorkerOrReplyOrQuiet
    BY <1>13 DEF TouchStart, WriteBack, Goto
<1>14. ASSUME NEW g \in Goroutines, NEW ok \in BOOLEAN, Connect(g, ok)
      PROVE NewWorkerOrReplyOrQuiet
    BY <1>14 DEF Connect, Goto, shared
<1>15. ASSUME NEW g \in Goroutines, NEW ok \in BOOLEAN, DeclareExchange(g, ok)
      PROVE NewWorkerOrReplyOrQuiet
    BY <1>15 DEF DeclareExchange, BrokerCall, Goto, shared
<1>16. ASSUME NEW g \in Goroutines, NEW ok \in BOOLEAN, DeclareQueue(g, ok)
      PROVE NewWorkerOrReplyOrQuiet
    BY <1>16 DEF DeclareQueue, BrokerCall, Goto, shared
<1>17. ASSUME NEW g \in Goroutines, NEW ok \in BOOLEAN, BindQueue(g, ok)
      PROVE NewWorkerOrReplyOrQuiet
    BY <1>17 DEF BindQueue, BrokerCall, Goto, shared
<1>18. ASSUME NEW g \in Goroutines, NEW ok \in BOOLEAN, Consume(g, ok)
      PROVE NewWorkerOrReplyOrQuiet
    BY <1>18 DEF Consume, BrokerCall, Goto, shared
<1>19. ASSUME NEW g \in Goroutines, LoopGet(g) PROVE NewWorkerOrReplyOrQuiet
    BY <1>19 DEF LoopGet, Goto, shared
<1>20. ASSUME NEW g \in Goroutines, TouchLoop(g) PROVE NewWorkerOrReplyOrQuiet
    BY <1>20 DEF TouchLoop, WriteBack, Goto
<1>21. ASSUME NEW g \in Goroutines, SelectExit(g) PROVE NewWorkerOrReplyOrQuiet
    BY <1>21 DEF SelectExit, Goto, shared
<1>22. ASSUME NEW g \in Goroutines, ReplyExitOk(g) PROVE NewWorkerOrReplyOrQuiet
    BY <1>22
<1>23. ASSUME NEW g \in Goroutines, SelectDelivery(g) PROVE NewWorkerOrReplyOrQuiet
    BY <1>23 DEF SelectDelivery, Goto, shared
<1>24. ASSUME NEW g \in Goroutines, Process(g) PROVE NewWorkerOrReplyOrQuiet
    BY <1>24 DEF Process, Goto, shared
<1>25. ASSUME NEW g \in Goroutines, SelectClosed(g) PROVE NewWorkerOrReplyOrQuiet
    BY <1>25 DEF SelectClosed, Goto, shared
<1>26. ASSUME NEW g \in Goroutines, Remove(g) PROVE NewWorkerOrReplyOrQuiet
    BY <1>26 DEF Remove, Goto, shared
<1>27. ASSUME NEW g \in Goroutines, Close(g) PROVE NewWorkerOrReplyOrQuiet
    BY <1>27 DEF Close, Goto, shared
<1>28. CASE UNCHANGED vars
    BY <1>28 DEF vars
<1>29. QED
    BY <1>1, <1>2, <1>3, <1>4, <1>5, <1>6, <1>7, <1>8, <1>9, <1>10,
       <1>11, <1>12, <1>13, <1>14, <1>15, <1>16, <1>17, <1>18,
       <1>19, <1>20, <1>21, <1>22, <1>23, <1>24, <1>25, <1>26,
       <1>27, <1>28
       DEF Next, Manager, Worker

(* A live worker refers to no channel that holds exit_ok: a worker that     *)
(* wrote one is on its way out, and its successor gets a new channel.       *)
LEMMA ExitOkStep == IInv /\ [Next]_vars => ExitOkInv'
<1> SUFFICES ASSUME IInv, [Next]_vars,
                    NEW g \in Goroutines, NEW c \in Chans,
                    (pc[g] \in Working \cup {"reply"})', c \in exitOk',
                    RefersTo(gkey[g], c)'
             PROVE  FALSE
    BY DEF ExitOkInv
<1> DEFINE k == gkey'[g]
<1>1. k \in Keys
    BY WorkerStep DEF WorkerInv, Alive, Ending
<1>2. RefersTo(k, c) \/ (Store /\ k = mreq.key /\ registry'[k].ch = c)
    BY <1>1, RefersStep DEF RefersOnlyFresh
<1>3. CASE Store
    <2>1. PICK c0 \in Chans \ Referenced : StoreItem(c0)
      BY <1>3 DEF Store
    <2>2. c \in exitOk /\ c # c0
      BY <2>1 DEF StoreItem
    <2>3. RefersTo(k, c)
      <3>1. mreq.key \in Keys => registry'[mreq.key].ch = c0
        BY <2>1 DEF StoreItem, IInv, TypeOK
      <3>2. QED
        BY <1>1, <1>2, <2>2, <3>1
    <2>4. CASE pc[g] \in Working \cup {"reply"} /\ gkey'[g] = gkey[g]
      BY <2>2, <2>3, <2>4 DEF IInv, ExitOkInv
    <2>5. CASE mitem = None /\ pc[g] = "none" /\ k = mreq.key
      <3>1. registry[k] = None /\ \A h \in Goroutines : pc[h] \in Alive => gkey[h] # k
        BY <1>3, <2>5 DEF Store, IInv, ManagerInv
      <3>2. \A h \in Goroutines : local[h] # None => gkey[h] # k
        BY <3>1 DEF IInv, WorkerInv
      <3>3. QED
        BY <2>3, <2>5, <3>1, <3>2 DEF RefersTo
    <2>6. QED
      BY <1>3, <2>4, <2>5
         DEF Store, Spawn, IInv, TypeOK, wvars, Working, Setup, Loop
<1>4. CASE ~Store /\ \E h \in Goroutines : ReplyExitOk(h)
    <2>1. PICK h \in Goroutines : ReplyExitOk(h)
      BY <1>4
    <2>2. local[h].ch \in Chans /\ local[h] # None /\ gkey[h] \in Keys /\ pc[h] \in Alive
      BY <2>1 DEF ReplyExitOk, IInv, TypeOK, Item, WorkerInv, Alive, Ending
    <2>3. pc'[h] = "remove" /\ gkey' = gkey /\ exitOk' = exitOk \cup {local[h].ch}
      BY <2>1 DEF ReplyExitOk, Goto, IInv, TypeOK
    <2>4. g # h /\ pc[g] \in Working \cup {"reply"}
      BY <2>1, <2>3 DEF ReplyExitOk, Goto, IInv, TypeOK, Working, Setup, Loop
    <2>5. RefersTo(gkey[g], c) /\ gkey[g] \in Keys
      BY <1>1, <1>2, <1>4, <2>3
    <2>6. c = local[h].ch
      BY <2>3, <2>4, <2>5 DEF IInv, ExitOkInv
    <2>7. RefersTo(gkey[h], c)
      BY <2>2, <2>6 DEF RefersTo
    <2>8. gkey[g] = gkey[h]
      BY <2>2, <2>5, <2>7 DEF IInv, ChannelInv
    <2>9. QED
      BY <2>2, <2>4, <2>8 DEF IInv, OneWorkerPerKey, Alive, Ending
<1>5. CASE ~Store /\ ~\E h \in Goroutines : ReplyExitOk(h)
    BY <1>2, <1>5, QuietStep
       DEF NewWorkerOrReplyOrQuiet, Quiet, IInv, ExitOkInv
<1>6. QED
    BY <1>3, <1>4, <1>5

(* IInv holds initially...                                                  *)
LEMMA IInvInit == Init => IInv
BY NoneAssumption
  
      DEF Init, IInv, TypeOK, WorkerInv, OneWorkerPerKey, ManagerInv,
          ChannelInv, ExitOkInv,
       ExchangeInv, ConnReturned, HoldsConn, RefersTo, ManagerSteps, WorkerSteps,
       Alive, Working, Setup, Loop, Ending

(* ... is kept by every step...                                             *)
LEMMA IInvStep == IInv /\ [Next]_vars => IInv'
BY TypeStep, WorkerStep, UniqueStep, ManagerStep, ChannelStep, ExitOkStep,
   ExchangeStep, ConnStep DEF IInv

(* ... and so always holds.                                                 *)
LEMMA Inductive == Spec => []IInv
BY IInvInit, IInvStep, PTL DEF Spec

-----------------------------------------------------------------------------
(* The theorems                                                            *)

(* Every variable keeps its type.                                           *)
THEOREM TypeCorrect == Spec => []TypeOK
<1>1. IInv => TypeOK
    BY DEF IInv
<1>2. QED
    BY <1>1, Inductive, PTL

(* A consumer never has two workers (message.go:459-475, 478).              *)
THEOREM OneWorker == Spec => []OneWorkerPerKey
<1>1. IInv => OneWorkerPerKey
    BY DEF IInv
<1>2. QED
    BY <1>1, Inductive, PTL

(* The key of a worker that has not been told to exit stays in the map:     *)
(* neither not found branch (message.go:489, 564) is reached and no type    *)
(* assertion (495, 516, 570) panics.                                        *)
THEOREM LiveWorkerStaysRegistered == Spec => []LiveWorkerRegistered
<1>1. IInv => LiveWorkerRegistered
    BY DEF IInv, WorkerInv, LiveWorkerRegistered, Alive
<1>2. QED
    BY <1>1, Inductive, PTL

(* A worker that leaves finds room for its exit_ok (message.go:577).        *)
THEOREM ExitOkIsFree == Spec => []ExitOkNeverBlocks
<1>1. IInv => ExitOkNeverBlocks
    BY
       DEF IInv, ExitOkInv, WorkerInv, TypeOK, Item, ExitOkNeverBlocks,
           RefersTo, Alive, Ending
<1>2. QED
    BY <1>1, Inductive, PTL

(* A caller of notifyConsumerManager reads the answer to its own request    *)
(* (message.go:365-371).                                                    *)
THEOREM OwnAnswer == Spec => []AnswerMatchesRequest
<1>1. IInv => AnswerMatchesRequest
    BY DEF IInv, ExchangeInv, AnswerMatchesRequest
<1>2. QED
    BY <1>1, Inductive, PTL

(* A worker holds a pool connection only while it sets up or consumes.      *)
THEOREM ConnectionsReturned == Spec => []ConnReturned
<1>1. IInv => ConnReturned
    BY DEF IInv
<1>2. QED
    BY <1>1, Inductive, PTL

(* A stop sent for one consumer never reaches the worker of another one     *)
(* (message.go:574, 616).                                                   *)
THEOREM NoStopGoesAstray == Spec => []NoCrossTalk
<1>1. IInv => NoCrossTalk
    <2> SUFFICES ASSUME IInv PROVE NoCrossTalk
        OBVIOUS
    <2>1. ASSUME NEW k \in Keys, NEW j \in Keys,
                 registry[k] # None, registry[j] # None, registry[k].ch = registry[j].ch
          PROVE  k = j
        <3>1. registry[k].ch \in Chans
            BY <2>1 DEF IInv, TypeOK, Item
        <3>2. RefersTo(k, registry[k].ch) /\ RefersTo(j, registry[k].ch)
            BY <2>1 DEF RefersTo
        <3>3. QED
            BY <3>1, <3>2 DEF IInv, ChannelInv
    <2>2. ASSUME NEW g \in Goroutines, NEW k \in Keys, pc[g] \in Alive,
                 local[g] # None, registry[k] # None, registry[k].ch = local[g].ch
          PROVE  gkey[g] = k
        <3>1. registry[k].ch \in Chans /\ gkey[g] \in Keys
            BY <2>2 DEF IInv, TypeOK, Item, WorkerInv
        <3>2. RefersTo(k, registry[k].ch) /\ RefersTo(gkey[g], registry[k].ch)
            BY <2>2 DEF RefersTo
        <3>3. QED
            BY <3>1, <3>2 DEF IInv, ChannelInv
    <2>3. QED
        BY <2>1, <2>2 DEF NoCrossTalk
<1>2. QED
    BY <1>1, Inductive, PTL

-----------------------------------------------------------------------------
(* ConsumerManager implements ConsumerControl                              *)

(* Key k has a worker.                                                     *)
Running(k) == \E g \in Goroutines : pc[g] \in Alive /\ gkey[g] = k

(* A step leaves k alone, seen from ConsumerControl...                     *)
Same(k) == (Running(k)' <=> Running(k)) /\ (Pending(k)' <=> Pending(k))

(* ... or asks, loses, starts or ends as ConsumerControl may.              *)
Allowed(k) ==
    \/ Running(k)' <=> Running(k)
    \/ ~Running(k) /\ ~Pending(k) /\ Running(k)' /\ ~Pending(k)'
    \/ Running(k) /\ Pending(k) /\ ~Running(k)' /\ ~Pending(k)'

OneKeyMoves ==
    \/ \A k \in Keys : Same(k)
    \/ \E k \in Keys : Allowed(k) /\ \A j \in Keys \ {k} : Same(j)

(* A step that moves one key in an allowed way is a step of                 *)
(* ConsumerControl.                                                         *)
LEMMA OneKeyIsAbstract == OneKeyMoves => [Control!Next]_(Control!vars)
<1> DEFINE run == {k \in Keys : Workers(k) # {}}
           ask == {k \in Keys : Pending(k)}
<1> SUFFICES ASSUME OneKeyMoves PROVE [Control!Next]_(Control!vars)
    OBVIOUS
<1>1. \A k \in Keys : (k \in run <=> Running(k)) /\ (k \in run' <=> Running(k)')
    BY DEF Workers, Running
<1>2. \A k \in Keys : (k \in ask <=> Pending(k)) /\ (k \in ask' <=> Pending(k)')
    OBVIOUS
<1>3. run \subseteq Keys /\ run' \subseteq Keys /\ ask \subseteq Keys /\ ask' \subseteq Keys
    OBVIOUS
<1> HIDE DEF run, ask
<1>4. CASE \A k \in Keys : Same(k)
    <2>1. run' = run /\ ask' = ask
      BY <1>1, <1>2, <1>3, <1>4 DEF Same
    <2>2. QED
      BY <2>1 DEF Control!vars, run, ask
<1>5. ASSUME NEW k \in Keys, Allowed(k), \A j \in Keys \ {k} : Same(j)
      PROVE  [Control!Next]_(Control!vars)
    <2>1. \A j \in Keys \ {k} : (j \in run' <=> j \in run) /\ (j \in ask' <=> j \in ask)
      BY <1>1, <1>2, <1>5 DEF Same
    <2>2. CASE Running(k)' <=> Running(k)
      <3>1. run' = run
        BY <1>1, <1>3, <2>1, <2>2
      <3>2. ask' = ask \/ (k \notin ask /\ ask' = ask \cup {k})
                       \/ (k \in ask /\ ask' = ask \ {k})
        BY <1>3, <2>1
      <3>3. QED
        BY <3>1, <3>2
           DEF Control!Next, Control!Ask, Control!Lose, Control!vars, run,
               ask
    <2>3. CASE ~Running(k) /\ ~Pending(k) /\ Running(k)' /\ ~Pending(k)'
      <3>1. k \notin run /\ k \notin ask /\ run' = run \cup {k} /\ ask' = ask
        BY <1>1, <1>2, <1>3, <2>1, <2>3
      <3>2. QED
        BY <3>1 DEF Control!Next, Control!Start, run, ask
    <2>4. CASE Running(k) /\ Pending(k) /\ ~Running(k)' /\ ~Pending(k)'
      <3>1. k \in run /\ k \in ask /\ run' = run \ {k} /\ ask' = ask \ {k}
        BY <1>1, <1>2, <1>3, <2>1, <2>4
      <3>2. QED
        BY <3>1 DEF Control!Next, Control!Exit, run, ask
    <2>5. QED
      BY <1>5, <2>2, <2>3, <2>4 DEF Allowed
<1>6. QED
    BY <1>4, <1>5 DEF OneKeyMoves

(* Every step of the system moves at most one key, in a way ConsumerControl *)
(* allows.                                                                  *)
LEMMA OneKeyStep == IInv /\ [Next]_vars => OneKeyMoves
<1> SUFFICES ASSUME IInv, [Next]_vars PROVE OneKeyMoves
    OBVIOUS
<1> USE NoneAssumption
    DEF IInv, mvars, cvars, wvars, chvars, TypeOK, WorkerInv, ManagerInv,
        Request, Item, ManagerSteps, WorkerSteps, OneKeyMoves, Same, Running,
        Pending, Workers, Allowed, Alive, Working, Setup, Loop, Ending
<1>1. CASE Recv
    BY <1>1 DEF Recv, Dispatch
<1>2. CASE Lookup
    BY <1>2 DEF Lookup
<1>3. CASE Touch
    BY <1>3 DEF Touch
<1>4. CASE Store
  <2>0. PICK k \in Keys : k = mreq.key
    BY <1>4 DEF Store
  <2>1. PICK c \in Chans \ Referenced : StoreItem(c)
    BY <1>4 DEF Store
  <2>2. k = mreq.key /\ local' = local
    BY <1>4, <2>0 DEF Store, Spawn
  <2>3. \A j \in Keys : ~RefersTo(j, c)
    BY <2>1, RefersReferenced
  <2>4. registry'[k] # None => registry'[k].ch \notin exit'
    BY <2>1, <2>2 DEF StoreItem
  <2>5. \A j \in Keys \ {k} : registry'[j] = registry[j]
    BY <2>1, <2>2 DEF StoreItem
  <2>6. CASE mitem # None
    <3>1. wvars' = wvars
      BY <1>4, <2>6 DEF Store
    <3>2. \A j \in Keys : Running(j)' <=> Running(j)
      BY <3>1
    <3>3. ASSUME NEW j \in Keys \ {k} PROVE Pending(j)' <=> Pending(j)
      <4>1. ~RefersTo(j, c)
        BY <2>3
      <4>2. QED
        BY <2>1, <2>5, <3>1, <4>1 DEF StoreItem, RefersTo
    <3>4. QED
      BY <2>2, <3>2, <3>3
  <2>7. CASE mitem = None
    <3>1. PICK h \in Goroutines : Spawn(h)
      BY <1>4, <2>7 DEF Store
    <3>2. registry[k] = None /\ \A g \in Goroutines : pc[g] \in Alive => gkey[g] # k
      BY <1>4, <2>2, <2>7 DEF Store
    <3>3. ~Running(k) /\ ~Pending(k)
      BY <3>2
    <3>4. Running(k)'
      <4>1. pc'[h] = "start" /\ gkey'[h] = k
        BY <2>2, <3>1 DEF Spawn
      <4>2. QED
        BY <4>1
    <3>5. ~Pending(k)'
      <4>1. \A g \in Goroutines : pc'[g] \in Alive /\ gkey'[g] = k => g = h
        BY <2>2, <3>1, <3>2 DEF Spawn
      <4>2. pc'[h] = "start" /\ local'[h] = None
        BY <2>2, <3>1 DEF Spawn
      <4>3. \A g \in Goroutines : pc'[g] \in Alive /\ gkey'[g] = k =>
                                     pc'[g] \notin Ending /\ local'[g] = None
        BY <4>1, <4>2
      <4>4. QED
        BY <2>4, <4>3
    <3>6. ASSUME NEW j \in Keys \ {k} PROVE Same(j)
      <4>1. ~RefersTo(j, c)
        BY <2>3
      <4>2. \A g \in Goroutines : gkey'[g] = j /\ pc'[g] \in Alive
                                    <=> gkey[g] = j /\ pc[g] \in Alive
        BY <2>2, <3>1 DEF Spawn
      <4>3. \A g \in Goroutines : gkey[g] = j /\ pc[g] \in Alive => pc'[g] = pc[g]
        BY <3>1 DEF Spawn
      <4>4. QED
        BY <2>1, <2>2, <2>5, <4>1, <4>2, <4>3 DEF StoreItem, RefersTo
    <3>7. Allowed(k)
      BY <3>3, <3>4, <3>5
    <3> HIDE DEF Same, Allowed
    <3>8. QED
      BY <3>6, <3>7
  <2>8. QED
    BY <2>6, <2>7
<1>5. CASE Stop
    BY <1>5 DEF Stop
<1>6. CASE Send
  <2>1. CASE mitem = None
    BY <1>6, <2>1 DEF Send, Reply
  <2>2. CASE mitem # None
    <3> DEFINE k == mreq.key
               c == mitem.ch
    <3>1. k \in Keys /\ c \in Chans /\ RefersTo(k, c)
      BY <1>6, <2>2 DEF Send, RefersTo
    <3>2. \A j \in Keys \ {k} : ~RefersTo(j, c)
      BY <3>1 DEF ChannelInv
    <3>3. \A j \in Keys : Running(j)' <=> Running(j)
      BY <1>6 DEF Send
    <3>4. ASSUME NEW j \in Keys \ {k} PROVE Pending(j)' <=> Pending(j)
      <4>1. ~RefersTo(j, c)
        BY <3>2
      <4>2. QED
        BY <1>6, <2>2, <4>1 DEF Send, RefersTo
    <3>5. QED
      BY <3>1, <3>3, <3>4
  <2>3. QED
    BY <2>1, <2>2
<1>7. CASE Report
    BY <1>7 DEF Report, Reply
<1>8. ASSUME NEW p \in Callers, Acquire(p) PROVE OneKeyMoves
    BY <1>8 DEF Acquire
<1>9. ASSUME NEW p \in Callers, NEW r \in Request, SendRequest(p, r)
      PROVE OneKeyMoves
    BY <1>9 DEF SendRequest
<1>10. ASSUME NEW p \in Callers, TakeAnswer(p) PROVE OneKeyMoves
    BY <1>10 DEF TakeAnswer
<1>11. ASSUME NEW p \in Callers, Release(p) PROVE OneKeyMoves
    BY <1>11 DEF Release
<1>12. ASSUME NEW g \in Goroutines, Start(g) PROVE OneKeyMoves
    BY <1>12 DEF Start, Goto, shared
<1>13. ASSUME NEW g \in Goroutines, TouchStart(g) PROVE OneKeyMoves
    BY <1>13 DEF TouchStart, WriteBack, Goto
<1>14. ASSUME NEW g \in Goroutines, NEW ok \in BOOLEAN, Connect(g, ok)
      PROVE OneKeyMoves
    BY <1>14 DEF Connect, Goto, shared
<1>15. ASSUME NEW g \in Goroutines, NEW ok \in BOOLEAN, DeclareExchange(g, ok)
      PROVE OneKeyMoves
    BY <1>15, SMTT(30) DEF DeclareExchange, BrokerCall, Goto, shared
<1>16. ASSUME NEW g \in Goroutines, NEW ok \in BOOLEAN, DeclareQueue(g, ok)
      PROVE OneKeyMoves
    BY <1>16 DEF DeclareQueue, BrokerCall, Goto, shared
<1>17. ASSUME NEW g \in Goroutines, NEW ok \in BOOLEAN, BindQueue(g, ok)
      PROVE OneKeyMoves
    BY <1>17 DEF BindQueue, BrokerCall, Goto, shared
<1>18. ASSUME NEW g \in Goroutines, NEW ok \in BOOLEAN, Consume(g, ok)
      PROVE OneKeyMoves
    BY <1>18 DEF Consume, BrokerCall, Goto, shared
<1>19. ASSUME NEW g \in Goroutines, LoopGet(g) PROVE OneKeyMoves
    BY <1>19 DEF LoopGet, Goto, shared
<1>20. ASSUME NEW g \in Goroutines, TouchLoop(g) PROVE OneKeyMoves
    BY <1>20 DEF TouchLoop, WriteBack, Goto
<1>21. ASSUME NEW g \in Goroutines, SelectExit(g) PROVE OneKeyMoves
  <2> DEFINE k == gkey[g]
             c == local[g].ch
  <2>1. k \in Keys /\ c \in Chans /\ RefersTo(k, c)
    BY <1>21 DEF SelectExit, RefersTo
  <2>2. \A j \in Keys \ {k} : ~RefersTo(j, c)
    BY <2>1 DEF ChannelInv
  <2>3. \A j \in Keys : Running(j)' <=> Running(j)
    BY <1>21 DEF SelectExit, Goto
  <2>4. ASSUME NEW j \in Keys \ {k} PROVE Pending(j)' <=> Pending(j)
    <3>1. ~RefersTo(j, c)
      BY <2>2
    <3>2. QED
      BY <1>21, <3>1 DEF SelectExit, Goto, RefersTo
  <2>5. QED
    BY <2>1, <2>3, <2>4
<1>22. ASSUME NEW g \in Goroutines, ReplyExitOk(g) PROVE OneKeyMoves
    BY <1>22 DEF ReplyExitOk, Goto, shared
<1>23. ASSUME NEW g \in Goroutines, SelectDelivery(g) PROVE OneKeyMoves
    BY <1>23 DEF SelectDelivery, Goto, shared
<1>24. ASSUME NEW g \in Goroutines, Process(g) PROVE OneKeyMoves
    BY <1>24 DEF Process, Goto, shared
<1>25. ASSUME NEW g \in Goroutines, SelectClosed(g) PROVE OneKeyMoves
    BY <1>25 DEF SelectClosed, Goto, shared
<1>26. ASSUME NEW g \in Goroutines, Remove(g) PROVE OneKeyMoves
    BY <1>26 DEF Remove, Goto, shared
<1>27. ASSUME NEW g \in Goroutines, Close(g) PROVE OneKeyMoves
    BY <1>27 DEF Close, Goto, shared
<1>28. CASE UNCHANGED vars
    BY <1>28 DEF vars
<1> HIDE DEF OneKeyMoves
<1>29. QED
    BY <1>1, <1>2, <1>3, <1>4, <1>5, <1>6, <1>7, <1>8, <1>9, <1>10,
       <1>11, <1>12, <1>13, <1>14, <1>15, <1>16, <1>17, <1>18,
       <1>19, <1>20, <1>21, <1>22, <1>23, <1>24, <1>25, <1>26,
       <1>27, <1>28
       DEF Next, Manager, Worker

(* The component keeps its promise: at most one worker per key, which ends  *)
(* only because of a stop asked while it ran, whatever updates, stale       *)
(* writes, closed delivery channels and retries happen in between.          *)
THEOREM ControlImplemented == Spec => ImplementsControl
<1>1. Init => Control!Init
    BY
       DEF Init, Control!Init, Workers, Pending, Alive, Working, Setup,
           Loop, Ending
<1>2. IInv /\ [Next]_vars => [Control!Next]_(Control!vars)
    BY OneKeyStep, OneKeyIsAbstract
<1>3. QED
    BY <1>1, <1>2, Inductive, PTL DEF Spec, ImplementsControl, Control!Spec
=============================================================================
