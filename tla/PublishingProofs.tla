-------------------------- MODULE PublishingProofs --------------------------
(***************************************************************************)
(* Proofs about Publishing, for any number of publishers, channels and     *)
(* messages.                                                               *)
(*                                                                         *)
(* Publishing takes only NetPool's steps with the pool, so that PoolInv is *)
(* an invariant of it too: a channel is in one hand at a time.  On top of  *)
(* that, what is published and not routed is on an open channel that its   *)
(* publisher holds and has not yet given back, and what channel.Publish    *)
(* took without an error is there, or routed, or was lost with a channel.  *)
(***************************************************************************)
EXTENDS Publishing, NetPoolProofs

(* The steps in which a publisher may have something unrouted.             *)
Holding == {"held", "recheck", "resettle"}

SentInv ==
    \A c \in Conns : \A m \in sent[c] :
      /\ c \in open
      /\ \E p \in Publishers : cur[p] = c /\ msg[p] = m /\ pc[p] \in Holding

ResultInv ==
    \A p \in Publishers :
      /\ msg[p] = None => pc[p] = "out"
      /\ result[p] # "none" => pc[p] \in Holding \cup {"push"} /\ msg[p] # None
      /\ result[p] = "ok" => \/ msg[p] \in routed \cup broken
                             \/ cur[p] \in Conns /\ msg[p] \in sent[cur[p]]

PubInv == PoolInv /\ TypeOK /\ SentInv /\ ResultInv /\ AcceptedRoutedUnlessBroken

-----------------------------------------------------------------------------
(* The pool of Publishing is NetPool                                       *)

(* Every step is a step of the pool or leaves it alone.                    *)
LEMMA StepsOfPool == [Next]_vars => [PoolNext]_poolVars
<1> SUFFICES ASSUME [Next]_vars PROVE [PoolNext]_poolVars
    OBVIOUS
<1>1. ASSUME NEW p \in Clients, PoolStep(p) PROVE PoolNext
    BY <1>1 DEF PoolStep, PoolNext, Get, Put
<1>2. ASSUME NEW p \in Publishers, NEW m \in Msgs, Request(p, m)
      PROVE  UNCHANGED poolVars
    BY <1>2 DEF Request
<1>3. ASSUME NEW p \in Publishers, NEW ok \in BOOLEAN, Publish(p, ok)
      PROVE  UNCHANGED poolVars
    BY <1>3 DEF Publish
<1>4. ASSUME NEW c \in Conns, RouteDirect(c) PROVE UNCHANGED poolVars
    BY <1>4 DEF RouteDirect
<1>5. CASE Breaks
    BY <1>5 DEF Breaks, PoolNext
<1>6. CASE Crash
    BY <1>6 DEF Crash, PoolNext
<1>7. CASE UNCHANGED vars
    BY <1>7 DEF vars
<1>8. QED
    BY <1>1, <1>2, <1>3, <1>4, <1>5, <1>6, <1>7 DEF Next

-----------------------------------------------------------------------------
(* Steps that lose what was published on a channel, and nothing else       *)

LEMMA ForgetStep ==
    ASSUME PubInv, PoolInv', Forget, Rest,
           NEW p \in Clients,
           \A q \in Clients \ {p} : pc'[q] = pc[q] /\ cur'[q] = cur[q],
           pc[p] \in Holding \cup {"push"} =>
             /\ cur'[p] = cur[p]
             /\ \/ pc'[p] \in Holding
                \/ pc'[p] = "push" /\ cur[p] \notin open',
           p \in Publishers /\ msg[p] = None => pc'[p] = "out"
    PROVE  PubInv'
<1> USE PublishingAssumption DEF PubInv, Forget, Rest
<1>0. UNION {sent[c] : c \in open \ open'} \subseteq Msgs
    BY DEF TypeOK, PoolInv, PoolTypeOK
<1>1. TypeOK'
    BY <1>0 DEF TypeOK, PoolInv
<1>2. \A c \in Conns : sent'[c] \subseteq sent[c] /\ (sent'[c] # {} => c \in open')
    BY DEF TypeOK
<1>3. \A c \in Conns : sent[c] \subseteq sent'[c] \cup broken'
    BY DEF TypeOK, SentInv
<1>4. SentInv'
    BY <1>2 DEF SentInv, Holding
<1>5. ResultInv'
    BY <1>3 DEF ResultInv, Holding
<1>6. AcceptedRoutedUnlessBroken'
    BY DEF AcceptedRoutedUnlessBroken
<1>7. QED
    BY <1>1, <1>4, <1>5, <1>6

-----------------------------------------------------------------------------
(* Steps that route what was published on a channel                        *)

LEMMA RouteStep ==
    ASSUME PubInv, PoolInv', UNCHANGED <<open, cur, msg, result, accepted, broken>>,
           tx' \subseteq open,
           NEW c \in Conns,
           Route(c),
           \A q \in Clients : pc'[q] # pc[q] =>
             /\ cur[q] = c
             /\ pc[q] \in Holding => pc'[q] \in Holding \cup {"push"}
             /\ pc[q] \notin Holding => pc[q] # "out" /\ pc[q] # "push"
    PROVE  PubInv'
<1> USE PublishingAssumption DEF PubInv, Route
<1>1. TypeOK'
    BY DEF TypeOK, PoolInv
<1>2. SentInv'
    BY DEF SentInv, TypeOK, Holding
<1>3. ResultInv'
    BY DEF ResultInv, TypeOK, Holding
<1>4. AcceptedRoutedUnlessBroken'
    BY DEF AcceptedRoutedUnlessBroken
<1>5. QED
    BY <1>1, <1>2, <1>3, <1>4

(* A client's test of its channel, whatever it routes.                     *)
LEMMA TestStep ==
    ASSUME PubInv, PoolInv', UNCHANGED <<open, cur, msg, result, accepted, broken>>,
           tx' \subseteq open,
           NEW p \in Clients,
           UNCHANGED <<routed, sent>>,
           \A q \in Clients \ {p} : pc'[q] = pc[q],
           pc[p] \in Holding =>
             \/ pc'[p] \in Holding
             \/ pc'[p] = "push" /\ cur[p] \notin open,
           pc[p] \notin {"out", "push"}
    PROVE  PubInv'
<1> USE PublishingAssumption DEF PubInv
<1>1. TypeOK'
    BY DEF TypeOK, PoolInv
<1>2. SentInv'
    BY DEF SentInv, TypeOK, Holding
<1>3. ResultInv'
    BY DEF ResultInv, TypeOK, Holding
<1>4. AcceptedRoutedUnlessBroken'
    BY DEF AcceptedRoutedUnlessBroken
<1>5. QED
    BY <1>1, <1>2, <1>3, <1>4

-----------------------------------------------------------------------------
(* The invariant                                                           *)

(* Init                                                                    *)
LEMMA InitPubInv == Init => PubInv
  BY InitInv, PublishingAssumption
  DEF PoolInv, Init, PubInv, TypeOK, SentInv, ResultInv, AcceptedRoutedUnlessBroken,
      PoolInit, Holding

(* Every step keeps it.                                                    *)
LEMMA NextPubInv == PubInv /\ [Next]_vars => PubInv'
<1> SUFFICES ASSUME PubInv, [Next]_vars PROVE PubInv'
    OBVIOUS
<1> USE PublishingAssumption, PoolAssumption
<1>a. PoolInv'
    BY NextInv, StepsOfPool DEF PubInv
<1>b. PoolTypeOK'
    BY <1>a DEF PoolInv
<1>c. /\ pc \in [Clients -> PoolSteps]
      /\ cur \in [Clients -> Conns \cup {Nil}]
      /\ open \subseteq Conns
      /\ Nil \notin open
    BY DEF PubInv, PoolInv, PoolTypeOK
<1>1. ASSUME NEW p \in Clients, p \in Publishers => msg[p] # None, GetLock(p),
             Forget, Rest
      PROVE  PubInv'
    BY <1>1, <1>a, <1>c, ForgetStep
    DEF GetLock, Step, Acquire, Holding, PubInv, ResultInv
<1>2. ASSUME NEW p \in Clients, PutLock(p), Forget, Rest PROVE PubInv'
  <2>1. pc[p] = "held" /\ pc' = [pc EXCEPT ![p] = "recheck"] /\ UNCHANGED cur
    BY <1>2 DEF PutLock, Step
  <2>2. p \in Publishers => msg[p] # None
    BY <2>1 DEF PubInv, ResultInv
  <2>3. /\ \A q \in Clients \ {p} : pc'[q] = pc[q] /\ cur'[q] = cur[q]
        /\ cur'[p] = cur[p]
        /\ pc'[p] \in Holding
    BY <1>c, <2>1 DEF Holding
  <2>4. QED
    BY <1>2, <1>a, <2>2, <2>3, ForgetStep
<1>3. ASSUME NEW p \in Clients, Poll(p), Forget, Rest PROVE PubInv'
    BY <1>3, <1>a, <1>c, ForgetStep
    DEF Poll, Step, SetCur, Holding, PubInv, ResultInv
<1>4. ASSUME NEW p \in Clients, MakeFails(p), Forget, Rest PROVE PubInv'
    BY <1>4, <1>a, <1>c, ForgetStep
    DEF MakeFails, Step, Unlock, Holding, PubInv, ResultInv
<1>5. ASSUME NEW p \in Clients, CheckFails(p), Forget, Rest PROVE PubInv'
    BY <1>5, <1>a, <1>c, ForgetStep
    DEF CheckFails, Step, SetCur, Release, Holding, PubInv, ResultInv
<1>6. ASSUME NEW p \in Clients, PutNil(p), Forget, Rest PROVE PubInv'
    BY <1>6, <1>a, <1>c, ForgetStep
    DEF PutNil, Step, Acquire, Holding, PubInv, ResultInv
<1>7. ASSUME NEW p \in Clients, RecheckFails(p), Forget, Rest PROVE PubInv'
    BY <1>7, <1>a, <1>c, ForgetStep
    DEF RecheckFails, Step, Release, Holding, PubInv, ResultInv
<1>8. ASSUME NEW p \in Clients, NEW c \in Conns, Make(p, c), Forget, Rest
      PROVE  PubInv'
    BY <1>8, <1>a, <1>c, ForgetStep
    DEF Make, Step, SetCur, Holding, PubInv, ResultInv
<1>9. ASSUME NEW p \in Clients, Check(p) \/ Recheck(p), Select(p) PROVE PubInv'
  <2>1. /\ cur[p] \in open
        /\ cur[p] \in Conns
        /\ pc[p] \in {"check", "recheck"}
        /\ pc' = [pc EXCEPT ![p] = IF pc[p] = "check" THEN "settle" ELSE "resettle"]
        /\ UNCHANGED <<open, cur, msg, result, accepted, broken>>
        /\ tx' \subseteq open
    BY <1>9, <1>c DEF Check, Recheck, Active, Step, Select, PubInv, TypeOK
  <2>2. CASE cur[p] \in tx
    <3>1. /\ UNCHANGED <<routed, sent>>
          /\ \A q \in Clients \ {p} : pc'[q] = pc[q]
          /\ pc[p] \in Holding => pc'[p] \in Holding
          /\ pc[p] \notin {"out", "push"}
      BY <1>9, <1>c, <2>1, <2>2 DEF Select, Holding
    <3>2. QED
      BY <1>a, <2>1, <3>1, TestStep
  <2>3. CASE cur[p] \notin tx
    BY <1>9, <1>a, <1>c, <2>1, <2>3, RouteStep DEF Select, Holding
  <2>4. QED
    BY <2>2, <2>3
<1>10. ASSUME NEW p \in Clients, Settle(p) \/ Resettle(p), Committing(p)
       PROVE  PubInv'
  <2>1. /\ pc[p] \in {"settle", "resettle"}
        /\ pc' = [pc EXCEPT ![p] = IF pc[p] = "settle" THEN "held" ELSE "push"]
        /\ UNCHANGED <<open, cur, msg, result, accepted, broken>>
        /\ tx' \subseteq open
    BY <1>10 DEF Settle, Resettle, Step, Committing, PubInv, TypeOK
  <2>2. CASE cur[p] \in open
    BY <1>10, <1>a, <1>c, <2>1, <2>2, RouteStep DEF Committing, Commit, Holding
  <2>3. CASE cur[p] \notin open
    BY <1>10, <1>a, <1>c, <2>1, <2>3, TestStep DEF Committing, Commit, Holding
  <2>4. QED
    BY <2>2, <2>3
<1>11. ASSUME NEW p \in Clients, GiveUp(p) \/ Push(p), Forget, Returns(p),
              UNCHANGED routed
       PROVE  PubInv'
  <2>1. /\ pc[p] \in {"failed", "push"}
        /\ pc' = [pc EXCEPT ![p] = "out"]
        /\ \A q \in Clients \ {p} : cur'[q] = cur[q]
    BY <1>11, <1>c DEF GiveUp, Push, Step, SetCur
  <2>2. \A c \in Conns : \A m \in sent[c] :
          \E q \in Publishers \ {p} : cur[q] = c /\ msg[q] = m /\ pc[q] \in Holding
    BY <2>1 DEF PubInv, SentInv, Holding
  <2>3. \A q \in Publishers \ {p} : msg'[q] = msg[q] /\ result'[q] = result[q]
    BY <1>11 DEF PubInv, TypeOK, Returns, Answer
  <2>4. TypeOK'
    <3>1. UNION {sent[c] : c \in open \ open'} \subseteq Msgs
      BY <1>c DEF PubInv, TypeOK
    <3>2. p \in Publishers /\ result[p] = "ok" => msg[p] \in Msgs
      BY DEF PubInv, TypeOK, ResultInv
    <3>3. /\ tx' \subseteq open'
          /\ sent' \in [Conns -> SUBSET Msgs]
          /\ broken' \subseteq Msgs
      BY <1>11, <3>1 DEF PubInv, TypeOK, Forget
    <3>4. /\ msg' \in [Publishers -> Msgs \cup {None}]
          /\ result' \in [Publishers -> {"none", "ok", "error"}]
          /\ accepted' \subseteq Msgs
      BY <1>11, <3>2 DEF PubInv, TypeOK, Returns, Answer
    <3>5. QED
      BY <1>11, <1>b, <3>3, <3>4 DEF PubInv, TypeOK
  <2>5. \A c \in Conns :
          /\ sent'[c] \subseteq sent[c] /\ (sent'[c] # {} => c \in open')
          /\ sent[c] \subseteq sent'[c] \cup broken'
    BY <1>11 DEF PubInv, TypeOK, SentInv, Forget
  <2>6. SentInv'
    BY <1>c, <2>1, <2>2, <2>3, <2>5 DEF SentInv, Holding
  <2>7. p \in Publishers => msg'[p] = None /\ result'[p] = "none"
    BY <1>11 DEF PubInv, TypeOK, Returns, Answer
  <2>8. broken \subseteq broken'
    BY <1>11 DEF Forget
  <2>9. ResultInv'
    BY <1>11, <1>c, <2>1, <2>3, <2>5, <2>7, <2>8
    DEF ResultInv, PubInv, Holding
  <2>10. p \in Publishers /\ result[p] = "ok" => msg[p] \in routed \cup broken
    <3>1. SUFFICES ASSUME p \in Publishers, result[p] = "ok",
                          cur[p] \in Conns, msg[p] \in sent[cur[p]]
                   PROVE  FALSE
      BY DEF PubInv, ResultInv
    <3>2. PICK q \in Publishers \ {p} : cur[q] = cur[p]
      BY <2>2, <3>1
    <3>3. QED
      BY <3>1, <3>2 DEF PubInv, PoolInv, NeverShared
  <2>11. AcceptedRoutedUnlessBroken'
    BY <1>11, <2>8, <2>10 DEF AcceptedRoutedUnlessBroken, PubInv, Returns, Answer
  <2>12. QED
    BY <1>a, <2>4, <2>6, <2>9, <2>11 DEF PubInv
<1>12. ASSUME NEW p \in Clients, PoolStep(p) PROVE PubInv'
    BY <1>1, <1>2, <1>3, <1>4, <1>5, <1>6, <1>7, <1>8, <1>9, <1>10, <1>11, <1>12
    DEF PoolStep
<1>13. ASSUME NEW p \in Publishers, NEW m \in Msgs, Request(p, m) PROVE PubInv'
  <2>1. TypeOK'
    BY <1>13, <1>b DEF Request, PubInv, TypeOK, poolVars
  <2>2. SentInv' /\ ResultInv' /\ AcceptedRoutedUnlessBroken'
    BY <1>13
    DEF Request, PubInv, TypeOK, SentInv, ResultInv, poolVars, Holding,
        AcceptedRoutedUnlessBroken
  <2>3. QED
    BY <1>a, <2>1, <2>2 DEF PubInv
<1>14. ASSUME NEW p \in Publishers, NEW ok \in BOOLEAN, Publish(p, ok)
       PROVE  PubInv'
  <2>1. TypeOK'
    BY <1>14, <1>c, <1>b DEF Publish, PubInv, TypeOK, poolVars
  <2>2. SentInv'
    BY <1>14, <1>c DEF Publish, PubInv, TypeOK, SentInv, poolVars, Holding
  <2>3. ResultInv'
    BY <1>14, <1>c DEF Publish, PubInv, TypeOK, ResultInv, poolVars, Holding
  <2>4. AcceptedRoutedUnlessBroken'
    BY <1>14 DEF Publish, PubInv, AcceptedRoutedUnlessBroken
  <2>5. QED
    BY <1>a, <2>1, <2>2, <2>3, <2>4 DEF PubInv
<1>15. ASSUME NEW c \in Conns, RouteDirect(c) PROVE PubInv'
    BY <1>15, <1>a, RouteStep DEF RouteDirect, poolVars, PubInv, TypeOK
<1>16. CASE Breaks
  <2>1. UNCHANGED <<pc, cur>> /\ Forget /\ Rest
    BY <1>16 DEF Breaks, Break
  <2>2. TypeOK'
    <3>1. UNION {sent[c] : c \in open \ open'} \subseteq Msgs
      BY <1>c DEF PubInv, TypeOK
    <3>2. QED
      BY <1>b, <2>1, <3>1 DEF Forget, Rest, PubInv, TypeOK
  <2>3. \A c \in Conns :
          /\ sent'[c] \subseteq sent[c] /\ (sent'[c] # {} => c \in open')
          /\ sent[c] \subseteq sent'[c] \cup broken'
    BY <2>1 DEF PubInv, TypeOK, SentInv, Forget
  <2>4. SentInv'
    BY <2>1, <2>3 DEF PubInv, SentInv, Rest
  <2>5. ResultInv'
    BY <2>1, <2>3 DEF PubInv, ResultInv, Rest, Forget
  <2>6. AcceptedRoutedUnlessBroken'
    BY <2>1 DEF PubInv, AcceptedRoutedUnlessBroken, Rest, Forget
  <2>7. QED
    BY <1>a, <2>2, <2>4, <2>5, <2>6 DEF PubInv
<1>17. CASE Crash
  <2>1. TypeOK'
    <3>1. UNION {sent[c] : c \in Conns} \subseteq Msgs
      BY DEF PubInv, TypeOK
    <3>2. QED
      BY <1>17, <1>b, <3>1 DEF Crash, PubInv, TypeOK
  <2>2. SentInv' /\ ResultInv' /\ AcceptedRoutedUnlessBroken'
    BY <1>17
    DEF Crash, Restart, PubInv, SentInv, ResultInv, AcceptedRoutedUnlessBroken
  <2>3. QED
    BY <1>a, <2>1, <2>2 DEF PubInv
<1>18. CASE UNCHANGED vars
    BY <1>18, <1>a, <1>b
    DEF vars, poolVars, PubInv, TypeOK, SentInv, ResultInv,
        AcceptedRoutedUnlessBroken
<1>19. QED
    BY <1>12, <1>13, <1>14, <1>15, <1>16, <1>17, <1>18 DEF Next

-----------------------------------------------------------------------------
(* Theorems                                                                *)

(* The invariant holds in every state.                                     *)
THEOREM PublishingInvariant == Spec => []PubInv
  BY InitPubInv, NextPubInv, PTL DEF Spec

(* The variables keep their types; only open channels have transactions.   *)
THEOREM PublishingTypes == Spec => []TypeOK
  BY PublishingInvariant, PTL DEF PubInv

(* Publishing uses the pool as NetPool says.                               *)
THEOREM PublishingUsesPool == Spec => PoolSpec
<1>1. Init => PoolInit
  BY DEF Init
<1>2. QED
  BY <1>1, StepsOfPool, PTL DEF Spec, PoolSpec

(* The publisher of a message answered with 204 can count on its having    *)
(* been routed, but for a channel that broke before its commit.            *)
THEOREM PublishingAccepts == Spec => []AcceptedRoutedUnlessBroken
  BY PublishingInvariant, PTL DEF PubInv

(* No message waits in the transaction of a channel in the pool.           *)
THEOREM PublishingCommits == Spec => []UncommittedOnlyInHands
<1>1. PubInv => UncommittedOnlyInHands
  BY DEF PubInv, SentInv, UncommittedOnlyInHands
<1>2. QED
  BY PublishingInvariant, <1>1, PTL

(* Publishers and broker operations never hold the pool's mutex for more   *)
(* than a bounded number of steps, in spite of what they publish and lose. *)
THEOREM PublishingMutexSoonFree == Spec => MutexSoonFree
  BY PublishingUsesPool, PoolMutexSoonFree
=============================================================================
