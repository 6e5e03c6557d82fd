------------------------------- MODULE NetPool -------------------------------
(***************************************************************************)
(* The pool of wmq (src/pool.go), which holds AMQP connections ("pools")   *)
(* and AMQP channels ("channelPools") made by src/mq.go.                   *)
(*                                                                         *)
(* A pool is a Go channel of capacity MaxCap and a mutex.  Get takes the   *)
(* idle elements one by one until one is active, and makes a new one when  *)
(* there is none left; Put takes one back, or closes it when there is no   *)
(* room.  Both hold the mutex for all they do, calls to the broker         *)
(* included.  IsActive is two calls: the first tells (Connection.Channel,  *)
(* Channel.Tx), the result of the second is ignored (Close, TxCommit).     *)
(* A connection or channel may break between any two steps, and the whole  *)
(* process may be killed and started again.                                *)
(***************************************************************************)
EXTENDS Naturals, Sequences, Functions

CONSTANTS
    Clients,       \* goroutines that use the pool
    Conns,         \* what is pooled; a slot nobody refers to is made anew
    InitialCap,    \* poolConfig.InitialCap
    MaxCap,        \* poolConfig.MaxCap
    Nil,           \* nil
    NilPutters     \* the clients that Put what a failed Get returned: the
                   \* broker operations of mq.go, a *Channel that is nil but
                   \* passes the test of Put as an interface

ASSUME PoolAssumption ==
    /\ InitialCap \in Nat
    /\ MaxCap \in Nat \ {0}
    /\ InitialCap <= MaxCap
    /\ Nil \notin Conns
    /\ Nil \notin Clients

VARIABLES
    idle,          \* conns: the elements in the Go channel
    lock,          \* the client that holds the mutex, or Nil
    pc,            \* each client's step
    cur,           \* each client's conn, Nil when it has none
    open           \* the elements the broker and wmq both have open

poolVars == <<idle, lock, pc, cur, open>>

-----------------------------------------------------------------------------
GetSteps == {"poll", "check", "settle"}
PutSteps == {"recheck", "resettle", "push"}
Locked == GetSteps \cup PutSteps
PoolSteps == Locked \cup {"out", "held", "failed"}

(* What the program still refers to.                                       *)
Referenced == Range(idle) \cup Range(cur)

PoolTypeOK ==
    /\ idle \in Seq(Conns \cup {Nil})
    /\ lock \in Clients \cup {Nil}
    /\ pc \in [Clients -> PoolSteps]
    /\ cur \in [Clients -> Conns \cup {Nil}]
    /\ open \subseteq Conns

(* newNetPool: InitialCap elements made by the Factory; wmq ends when one  *)
(* of them fails.                                                          *)
NewPool(s) ==
    /\ s \in [1..InitialCap -> Conns]
    /\ \A i, j \in 1..InitialCap : s[i] = s[j] => i = j

PoolInit ==
    /\ NewPool(idle)
    /\ lock = Nil
    /\ pc = [p \in Clients |-> "out"]
    /\ cur = [p \in Clients |-> Nil]
    /\ open = Range(idle)

-----------------------------------------------------------------------------
Step(p, from, to) == pc[p] = from /\ pc' = [pc EXCEPT ![p] = to]

SetCur(p, c) == cur' = [cur EXCEPT ![p] = c]

(* Release closes what it is given, active or not; nil it leaves alone.    *)
Release(c) == open' = open \ {c}

Acquire(p) == lock = Nil /\ lock' = p

Unlock == lock' = Nil

(* Get                                                                     *)
GetLock(p) ==
    /\ Step(p, "out", "poll")
    /\ Acquire(p)
    /\ UNCHANGED <<idle, cur, open>>

PollKeeps(p) ==                                                    \* fault
    /\ idle # <<>>
    /\ Step(p, "poll", "check")
    /\ SetCur(p, Head(idle))
    /\ UNCHANGED <<idle, lock, open>>

PollTrusts(p) ==                                                   \* fault
    /\ idle # <<>>
    /\ Step(p, "poll", "held")
    /\ SetCur(p, Head(idle))
    /\ idle' = Tail(idle)
    /\ Unlock
    /\ UNCHANGED open

Poll(p) ==
    /\ idle # <<>>
    /\ Step(p, "poll", "check")
    /\ SetCur(p, Head(idle))
    /\ idle' = Tail(idle)
    /\ UNCHANGED <<lock, open>>

(* There is no idle element: the Factory makes one or fails.               *)
Make(p, c) ==
    /\ idle = <<>>
    /\ c \in Conns \ (Referenced \cup open)
    /\ Step(p, "poll", "held")
    /\ SetCur(p, c)
    /\ open' = open \cup {c}
    /\ Unlock
    /\ UNCHANGED idle

MakeFailsLocked(p) ==                                              \* fault
    /\ idle = <<>>
    /\ Step(p, "poll", "failed")
    /\ UNCHANGED <<idle, lock, cur, open>>

MakeFails(p) ==
    /\ idle = <<>>
    /\ Step(p, "poll", "failed")
    /\ Unlock
    /\ UNCHANGED <<idle, cur, open>>

(* IsActive, first call.  It may fail on an open element too (a connection *)
(* has a limited number of channels).                                      *)
Active(p, from, to) ==
    /\ cur[p] \in open
    /\ Step(p, from, to)
    /\ UNCHANGED <<idle, lock, cur, open>>

Check(p) == Active(p, "check", "settle")

CheckFailsRequeues(p) ==                                           \* fault
    /\ Step(p, "check", "poll")
    /\ Release(cur[p])
    /\ SetCur(p, Nil)
    /\ idle' = Append(idle, cur[p])
    /\ UNCHANGED lock

CheckFails(p) ==
    /\ Step(p, "check", "poll")
    /\ Release(cur[p])
    /\ SetCur(p, Nil)
    /\ UNCHANGED <<idle, lock>>

(* IsActive, second call, and the return from Get.                         *)
Settle(p) ==
    /\ Step(p, "settle", "held")
    /\ Unlock
    /\ UNCHANGED <<idle, cur, open>>

(* Put                                                                     *)
PutLock(p) ==
    /\ Step(p, "held", "recheck")
    /\ Acquire(p)
    /\ UNCHANGED <<idle, cur, open>>

PutNil(p) ==
    /\ p \in NilPutters
    /\ Step(p, "failed", "recheck")
    /\ Acquire(p)
    /\ UNCHANGED <<idle, cur, open>>

GiveUp(p) ==
    /\ p \notin NilPutters
    /\ Step(p, "failed", "out")
    /\ UNCHANGED <<idle, lock, cur, open>>

Recheck(p) == Active(p, "recheck", "resettle")

(* What is not active is released, and still goes into the pool.           *)
RecheckFails(p) ==
    /\ Step(p, "recheck", "push")
    /\ Release(cur[p])
    /\ UNCHANGED <<idle, lock, cur>>

Resettle(p) ==
    /\ Step(p, "resettle", "push")
    /\ UNCHANGED <<idle, lock, cur, open>>

PushDropsFull(p) ==                                                \* fault
    /\ Step(p, "push", "out")
    /\ SetCur(p, Nil)
    /\ Unlock
    /\ IF Len(idle) < MaxCap
       THEN idle' = Append(idle, cur[p])
       ELSE UNCHANGED idle
    /\ UNCHANGED open

Push(p) ==
    /\ Step(p, "push", "out")
    /\ SetCur(p, Nil)
    /\ Unlock
    /\ IF Len(idle) < MaxCap
       THEN idle' = Append(idle, cur[p]) /\ UNCHANGED open
       ELSE Release(cur[p]) /\ UNCHANGED idle

(* The environment: a connection or the broker closes some of them.        *)
Break(S) ==
    /\ S # {}
    /\ S \subseteq open
    /\ open' = open \ S
    /\ UNCHANGED <<idle, lock, pc, cur>>

(* wmq is killed, which closes all, and started again.                     *)
Restart ==
    /\ NewPool(idle')
    /\ lock' = Nil
    /\ pc' = [p \in Clients |-> "out"]
    /\ cur' = [p \in Clients |-> Nil]
    /\ open' = Range(idle')

Get(p) ==
    \/ GetLock(p) \/ Poll(p) \/ MakeFails(p)
    \/ \E c \in Conns : Make(p, c)
    \/ Check(p) \/ CheckFails(p) \/ Settle(p)

Put(p) ==
    \/ PutLock(p) \/ PutNil(p) \/ GiveUp(p)
    \/ Recheck(p) \/ RecheckFails(p) \/ Resettle(p) \/ Push(p)

PoolNext ==
    \/ \E p \in Clients : Get(p) \/ Put(p)
    \/ \E S \in SUBSET Conns : Break(S)
    \/ Restart

PoolSpec == PoolInit /\ [][PoolNext]_poolVars

-----------------------------------------------------------------------------
(* Safety                                                                  *)

(* A connection or channel that one client holds is neither in the pool    *)
(* nor held by another one, though a Put of a dead one first releases it   *)
(* and then pushes it (pool.go:74-80), and though a Get polls until it is  *)
(* satisfied: amqp channels must not be shared between goroutines.         *)
NeverShared ==
    /\ \A p, q \in Clients : cur[p] = cur[q] /\ cur[p] # Nil => p = q
    /\ \A p \in Clients : cur[p] # Nil => cur[p] \notin Range(idle)
    /\ \A i, j \in DOMAIN idle : idle[i] = idle[j] /\ idle[i] # Nil => i = j

(* What is open at the broker is in the pool or in somebody's hands, so    *)
(* that no path through Get and Put leaks it (pool.go:48-85).              *)
NoneLeaked == open \subseteq Referenced

(* The nil channels that failed operations put into the pool (mq.go:83,    *)
(* 87, 133 and the deferred Puts) never come out of it again: a client     *)
(* whose Get succeeded would dereference one.                              *)
NilNeverHandedOut == \A p \in Clients : pc[p] = "held" => cur[p] # Nil

(* The most steps a client may still take before the one that gives the    *)
(* mutex back.                                                             *)
StepsLeft(p) ==
    CASE pc[p] = "poll" -> 3 * Len(idle)
      [] pc[p] = "check" -> 3 * Len(idle) + 2
      [] pc[p] = "settle" -> 3 * Len(idle) + 1
      [] pc[p] = "recheck" -> 2
      [] pc[p] = "resettle" -> 1
      [] OTHER -> 0

(* A client that has taken the mutex makes at most 3 * MaxCap steps before *)
(* it gives it back, though the loop of Get has no bound in the code and   *)
(* what it finds in the pool may all be dead or nil: each round takes one  *)
(* element, and nobody else puts one back meanwhile (pool.go:47-66).       *)
MutexSoonFree ==
    [][\A p \in Clients :
         lock' = p =>
           IF lock = p
           THEN UNCHANGED <<idle, pc[p]>> \/ StepsLeft(p)' < StepsLeft(p)
           ELSE StepsLeft(p)' <= 3 * MaxCap]_poolVars
=============================================================================
