----------------------------- MODULE Publishing -----------------------------
(***************************************************************************)
(* How wmq publishes a message (src/api.go apiPublish, src/message.go      *)
(* publish): on an AMQP channel of the channel pool, which is NetPool with *)
(* Tx and TxCommit for the two calls of IsActive.  A channel that has been *)
(* through IsActive is in transaction mode, and what is published on it is *)
(* routed when Put commits it; a new one is not.  The answer to the        *)
(* publisher does not depend on the commit.                                *)
(*                                                                         *)
(* The other clients of the pool are the broker operations of mq.go, which *)
(* share its channels; what they do with one is no matter here.  The       *)
(* broker is external, and outlives wmq.                                   *)
(***************************************************************************)
EXTENDS NetPool

CONSTANTS
    Publishers,    \* the clients of the pool that are apiPublish handlers
    Msgs,          \* messages
    None           \* no message

ASSUME PublishingAssumption ==
    /\ Publishers \subseteq Clients \ NilPutters
    /\ None \notin Msgs

VARIABLES
    tx,            \* the channels in transaction mode
    sent,          \* what was published on each channel and is not routed
    msg,           \* the message each publisher was asked to publish
    result,        \* what channel.Publish returned to each publisher
    routed,        \* the messages the exchange has received and routed
    accepted,      \* history: the messages answered with 204
    broken         \* history: those whose channel broke before the commit

vars == <<poolVars, tx, sent, msg, result, routed, accepted, broken>>

-----------------------------------------------------------------------------
(* A message nobody has sent yet, or whose publisher was answered 500.     *)
New(m) == /\ m \notin routed \cup accepted \cup broken
          /\ \A p \in Publishers : msg[p] # m
          /\ \A c \in Conns : m \notin sent[c]

TypeOK ==
    /\ PoolTypeOK
    /\ tx \subseteq open
    /\ sent \in [Conns -> SUBSET Msgs]
    /\ msg \in [Publishers -> Msgs \cup {None}]
    /\ result \in [Publishers -> {"none", "ok", "error"}]
    /\ routed \cup accepted \cup broken \subseteq Msgs

Init ==
    /\ PoolInit
    /\ tx = {}
    /\ sent = [c \in Conns |-> {}]
    /\ msg = [p \in Publishers |-> None]
    /\ result = [p \in Publishers |-> "none"]
    /\ routed = {}
    /\ accepted = {}
    /\ broken = {}

-----------------------------------------------------------------------------
(* What happens to the published messages of a channel                     *)

Rest == UNCHANGED <<msg, result, routed, accepted>>

(* A channel that is no longer open has lost its transaction.              *)
ForgetNoTx ==                                                      \* fault
    /\ tx' = tx
    /\ sent' = [c \in Conns |-> IF c \in open' THEN sent[c] ELSE {}]
    /\ broken' = broken \cup UNION {sent[c] : c \in open \ open'}

Forget ==
    /\ tx' = tx \cap open'
    /\ sent' = [c \in Conns |-> IF c \in open' THEN sent[c] ELSE {}]
    /\ broken' = broken \cup UNION {sent[c] : c \in open \ open'}

(* The broker routes what was published on c.                              *)
Route(c) ==
    /\ routed' = routed \cup sent[c]
    /\ sent' = [sent EXCEPT ![c] = {}]

(* Outside transaction mode it does so by itself at some time, ...         *)
RouteDirect(c) ==
    /\ sent[c] # {}
    /\ c \notin tx
    /\ Route(c)
    /\ UNCHANGED <<poolVars, tx, msg, result, accepted, broken>>

(* ... and at the latest before it answers the next call, Channel.Tx.      *)
Select(p) ==
    /\ tx' = tx \cup {cur[p]}
    /\ IF cur[p] \in tx THEN UNCHANGED <<routed, sent>> ELSE Route(cur[p])
    /\ UNCHANGED <<msg, result, accepted, broken>>

(* Channel.TxCommit; on a channel that broke meanwhile it fails, unseen.   *)
CommitNothing(p) == UNCHANGED <<routed, sent>>                     \* fault

Commit(p) == IF cur[p] \in open THEN Route(cur[p]) ELSE UNCHANGED <<routed, sent>>

Committing(p) == Commit(p) /\ UNCHANGED <<tx, msg, result, accepted, broken>>

-----------------------------------------------------------------------------
(* apiPublish                                                              *)

Request(p, m) ==
    /\ pc[p] = "out"
    /\ msg[p] = None
    /\ New(m)
    /\ msg' = [msg EXCEPT ![p] = m]
    /\ UNCHANGED <<poolVars, tx, sent, result, routed, accepted, broken>>

(* channel.Publish writes to the connection.  An error says the channel    *)
(* was found closed; the write to a broken one may also succeed.           *)
Publish(p, ok) ==
    /\ pc[p] = "held"
    /\ msg[p] # None
    /\ result[p] = "none"
    /\ ~ok => cur[p] \notin open
    /\ result' = [result EXCEPT ![p] = IF ok THEN "ok" ELSE "error"]
    /\ sent' = IF cur[p] \in open THEN [sent EXCEPT ![cur[p]] = @ \cup {msg[p]}]
                                  ELSE sent
    /\ broken' = IF ok /\ cur[p] \notin open THEN broken \cup {msg[p]} ELSE broken
    /\ UNCHANGED <<poolVars, tx, msg, routed, accepted>>

(* publish returns after its Put: 204 when channel.Publish returned nil,   *)
(* whatever became of the commit, else 500.                                *)
AnswerIgnoresError(p) ==                                           \* fault
    /\ msg' = [msg EXCEPT ![p] = None]
    /\ result' = [result EXCEPT ![p] = "none"]
    /\ accepted' = accepted \cup {msg[p]}

Answer(p) ==
    /\ msg' = [msg EXCEPT ![p] = None]
    /\ result' = [result EXCEPT ![p] = "none"]
    /\ accepted' = IF result[p] = "ok" THEN accepted \cup {msg[p]} ELSE accepted

Returns(p) ==
    IF p \in Publishers THEN Answer(p) ELSE UNCHANGED <<msg, result, accepted>>

(* Every client goes through Get and Put; a publisher has a message to     *)
(* publish and gives the channel back when it has.  What the other clients *)
(* do with a channel, declare or delete something, is no matter here.      *)
PoolStep(p) ==
    \/ /\ p \in Publishers => msg[p] # None
       /\ GetLock(p)
       /\ Forget /\ Rest
    \/ /\ p \in Publishers => result[p] # "none"
       /\ PutLock(p)
       /\ Forget /\ Rest
    \/ /\ \/ Poll(p) \/ MakeFails(p) \/ CheckFails(p)
          \/ PutNil(p) \/ RecheckFails(p)
          \/ \E c \in Conns : Make(p, c)
       /\ Forget /\ Rest
    \/ (Check(p) \/ Recheck(p)) /\ Select(p)
    \/ (Settle(p) \/ Resettle(p)) /\ Committing(p)
    \/ /\ GiveUp(p) \/ Push(p)
       /\ Forget
       /\ Returns(p)
       /\ UNCHANGED routed

Breaks == (\E S \in SUBSET Conns : Break(S)) /\ Forget /\ Rest

-----------------------------------------------------------------------------
(* wmq is killed and started again; nobody is answered.                    *)
Crash ==
    /\ Restart
    /\ tx' = {}
    /\ sent' = [c \in Conns |-> {}]
    /\ broken' = broken \cup UNION {sent[c] : c \in Conns}
    /\ msg' = [p \in Publishers |-> None]
    /\ result' = [p \in Publishers |-> "none"]
    /\ UNCHANGED <<routed, accepted>>

Next ==
    \/ \E p \in Clients : PoolStep(p)
    \/ \E p \in Publishers :
         \/ \E m \in Msgs : Request(p, m)
         \/ \E ok \in BOOLEAN : Publish(p, ok)
    \/ \E c \in Conns : RouteDirect(c)
    \/ Breaks
    \/ Crash

Spec == Init /\ [][Next]_vars

(* Fairness: the Go scheduler runs every goroutine that can run, and its   *)
(* mutex starves nobody.                                                   *)
Fairness ==
    /\ \A p \in Clients : SF_vars(PoolStep(p))
    /\ \A p \in Publishers : WF_vars(\E ok \in BOOLEAN : Publish(p, ok))

FairSpec == Spec /\ Fairness

-----------------------------------------------------------------------------
(* Safety                                                                  *)

(* A message answered with 204 was routed, unless the channel it was       *)
(* published on broke before Put had committed it: the only way to lose    *)
(* one is the commit whose result IsActive ignores (mq.go:285).            *)
AcceptedRoutedUnlessBroken == accepted \ routed \subseteq broken

(* What is published and not yet routed is on a channel that its publisher *)
(* still holds: no message waits in the pool, in an idle channel's         *)
(* transaction, for the next user of that channel to commit it, because    *)
(* Put tests the channel and the test commits (pool.go:74).                *)
UncommittedOnlyInHands ==
    \A c \in Conns : \A m \in sent[c] :
      \E p \in Publishers : cur[p] = c /\ msg[p] = m

-----------------------------------------------------------------------------
(* Liveness                                                                *)

(* Every publisher is answered: the pool's mutex is always released and    *)
(* the loop of Get ends, though broken channels, and nil ones, keep coming *)
(* back into the pool, because none comes while the mutex is held.         *)
Answered == \A p \in Publishers : msg[p] # None ~> msg[p] = None
=============================================================================
