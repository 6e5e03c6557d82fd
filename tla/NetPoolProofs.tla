---------------------------- MODULE NetPoolProofs ----------------------------
(***************************************************************************)
(* Proofs about NetPool, for any number of clients, any set of connections *)
(* and any capacity.                                                       *)
(*                                                                         *)
(* What TLC checks becomes inductive with two facts.  The holder of the    *)
(* mutex is the one client inside Get or Put, so that nobody else moves    *)
(* the elements meanwhile; and a client has an element in hand only after  *)
(* its Get took one and until its Put gave it back.                        *)
(***************************************************************************)
EXTENDS NetPool, TLAPS

LockInv == \A p \in Clients : pc[p] \in Locked <=> lock = p

HandInv ==
    \A p \in Clients :
      /\ pc[p] \in {"out", "poll", "failed"} => cur[p] = Nil
      /\ pc[p] \in {"settle", "held", "resettle"} => cur[p] # Nil

PoolInv == PoolTypeOK /\ LockInv /\ HandInv /\ NeverShared /\ NoneLeaked

-----------------------------------------------------------------------------
(* Sequences                                                               *)

(* The first element of a sequence and the rest of it.                     *)
LEMMA HeadTail ==
    ASSUME NEW S, NEW s \in Seq(S), s # <<>>
    PROVE  /\ Head(s) \in S
           /\ Tail(s) \in Seq(S)
           /\ Head(s) = s[1]
           /\ 1 \in DOMAIN s
           /\ \A j \in DOMAIN Tail(s) : j + 1 \in DOMAIN s /\ Tail(s)[j] = s[j + 1]
           /\ \A j \in DOMAIN s \ {1} : j - 1 \in DOMAIN Tail(s) /\ Tail(s)[j - 1] = s[j]
           /\ \A j \in DOMAIN s : j \in Nat
  OBVIOUS

(* Appending adds one element.                                             *)
LEMMA Appended ==
    ASSUME NEW S, NEW s \in Seq(S), NEW x \in S
    PROVE  /\ Append(s, x) \in Seq(S)
           /\ DOMAIN Append(s, x) = DOMAIN s \cup {Len(s) + 1}
           /\ \A j \in DOMAIN s : Append(s, x)[j] = s[j]
           /\ Append(s, x)[Len(s) + 1] = x
           /\ Len(s) + 1 \notin DOMAIN s
  OBVIOUS

-----------------------------------------------------------------------------
(* The invariant                                                           *)

(* A new pool holds distinct elements, all of them open.                   *)
LEMMA NewPoolInv ==
    ASSUME NEW s, NewPool(s)
    PROVE  /\ s \in Seq(Conns)
           /\ Range(s) \subseteq Conns
           /\ \A i, j \in DOMAIN s : s[i] = s[j] => i = j
  BY PoolAssumption DEF NewPool, Range

(* Init                                                                    *)
LEMMA InitInv == PoolInit => PoolInv
<1> SUFFICES ASSUME PoolInit PROVE PoolInv
    OBVIOUS
<1>1. /\ idle \in Seq(Conns)
      /\ Range(idle) \subseteq Conns
      /\ \A i, j \in DOMAIN idle : idle[i] = idle[j] => i = j
    BY NewPoolInv DEF PoolInit
<1>2. PoolTypeOK
    BY <1>1 DEF PoolInit, PoolTypeOK, PoolSteps
<1>3. LockInv /\ HandInv
    BY PoolAssumption DEF PoolInit, LockInv, HandInv, Locked, GetSteps, PutSteps
<1>4. NeverShared /\ NoneLeaked
    BY <1>1 DEF PoolInit, NeverShared, NoneLeaked, Referenced
<1>5. QED
    BY <1>2, <1>3, <1>4 DEF PoolInv

(* The steps that move no element.                                         *)
LEMMA Unmoved ==
    ASSUME PoolInv, UNCHANGED <<idle, cur>>, open' \subseteq open
    PROVE  NeverShared' /\ NoneLeaked'
  BY DEF PoolInv, NeverShared, NoneLeaked, Referenced

(* Every step keeps it.                                                    *)
LEMMA NextInv == PoolInv /\ [PoolNext]_poolVars => PoolInv'
<1> SUFFICES ASSUME PoolInv, [PoolNext]_poolVars PROVE PoolInv'
    OBVIOUS
<1> USE PoolAssumption DEF PoolInv
<1>1. ASSUME NEW p \in Clients, GetLock(p) PROVE PoolInv'
  <2>1. PoolTypeOK' /\ LockInv' /\ HandInv'
    BY <1>1 DEF GetLock, Step, Acquire, LockInv, HandInv, Locked, GetSteps, PutSteps, PoolTypeOK, PoolSteps
  <2>2. NeverShared' /\ NoneLeaked'
    BY <1>1, Unmoved DEF GetLock, Step, Acquire
  <2>3. QED
    BY <2>1, <2>2
<1>2. ASSUME NEW p \in Clients, MakeFails(p) PROVE PoolInv'
  <2>1. PoolTypeOK' /\ LockInv' /\ HandInv'
    BY <1>2 DEF MakeFails, Step, Unlock, LockInv, HandInv, Locked, GetSteps, PutSteps, PoolTypeOK, PoolSteps
  <2>2. NeverShared' /\ NoneLeaked'
    BY <1>2, Unmoved DEF MakeFails, Step, Unlock
  <2>3. QED
    BY <2>1, <2>2
<1>3. ASSUME NEW p \in Clients, Check(p) PROVE PoolInv'
  <2>1. PoolTypeOK' /\ LockInv' /\ HandInv'
    BY <1>3 DEF Check, Step, Active, LockInv, HandInv, Locked, GetSteps, PutSteps, PoolTypeOK, PoolSteps
  <2>2. NeverShared' /\ NoneLeaked'
    BY <1>3, Unmoved DEF Check, Step, Active
  <2>3. QED
    BY <2>1, <2>2
<1>4. ASSUME NEW p \in Clients, Settle(p) PROVE PoolInv'
  <2>1. PoolTypeOK' /\ LockInv' /\ HandInv'
    BY <1>4 DEF Settle, Step, Unlock, LockInv, HandInv, Locked, GetSteps, PutSteps, PoolTypeOK, PoolSteps
  <2>2. NeverShared' /\ NoneLeaked'
    BY <1>4, Unmoved DEF Settle, Step, Unlock
  <2>3. QED
    BY <2>1, <2>2
<1>5. ASSUME NEW p \in Clients, PutLock(p) PROVE PoolInv'
  <2>1. PoolTypeOK' /\ LockInv' /\ HandInv'
    BY <1>5 DEF PutLock, Step, Acquire, LockInv, HandInv, Locked, GetSteps, PutSteps, PoolTypeOK, PoolSteps
  <2>2. NeverShared' /\ NoneLeaked'
    BY <1>5, Unmoved DEF PutLock, Step, Acquire
  <2>3. QED
    BY <2>1, <2>2
<1>6. ASSUME NEW p \in Clients, PutNil(p) PROVE PoolInv'
  <2>1. PoolTypeOK' /\ LockInv' /\ HandInv'
    BY <1>6 DEF PutNil, Step, Acquire, LockInv, HandInv, Locked, GetSteps, PutSteps, PoolTypeOK, PoolSteps
  <2>2. NeverShared' /\ NoneLeaked'
    BY <1>6, Unmoved DEF PutNil, Step, Acquire
  <2>3. QED
    BY <2>1, <2>2
<1>7. ASSUME NEW p \in Clients, GiveUp(p) PROVE PoolInv'
  <2>1. PoolTypeOK' /\ LockInv' /\ HandInv'
    BY <1>7 DEF GiveUp, Step, LockInv, HandInv, Locked, GetSteps, PutSteps, PoolTypeOK, PoolSteps
  <2>2. NeverShared' /\ NoneLeaked'
    BY <1>7, Unmoved DEF GiveUp, Step
  <2>3. QED
    BY <2>1, <2>2
<1>8. ASSUME NEW p \in Clients, Recheck(p) PROVE PoolInv'
  <2>1. PoolTypeOK' /\ LockInv' /\ HandInv'
    BY <1>8 DEF Recheck, Step, Active, LockInv, HandInv, Locked, GetSteps, PutSteps, PoolTypeOK, PoolSteps
  <2>2. NeverShared' /\ NoneLeaked'
    BY <1>8, Unmoved DEF Recheck, Step, Active
  <2>3. QED
    BY <2>1, <2>2
<1>9. ASSUME NEW p \in Clients, RecheckFails(p) PROVE PoolInv'
  <2>1. PoolTypeOK' /\ LockInv' /\ HandInv'
    BY <1>9 DEF RecheckFails, Step, Release, LockInv, HandInv, Locked, GetSteps, PutSteps, PoolTypeOK, PoolSteps
  <2>2. NeverShared' /\ NoneLeaked'
    BY <1>9, Unmoved DEF RecheckFails, Step, Release
  <2>3. QED
    BY <2>1, <2>2
<1>10. ASSUME NEW p \in Clients, Resettle(p) PROVE PoolInv'
  <2>1. PoolTypeOK' /\ LockInv' /\ HandInv'
    BY <1>10 DEF Resettle, Step, LockInv, HandInv, Locked, GetSteps, PutSteps, PoolTypeOK, PoolSteps
  <2>2. NeverShared' /\ NoneLeaked'
    BY <1>10, Unmoved DEF Resettle, Step
  <2>3. QED
    BY <2>1, <2>2
<1>11. ASSUME NEW p \in Clients, Poll(p) PROVE PoolInv'
  <2>1. /\ Head(idle) \in Conns \cup {Nil} /\ Head(idle) = idle[1] /\ 1 \in DOMAIN idle
        /\ Tail(idle) \in Seq(Conns \cup {Nil})
        /\ \A j \in DOMAIN Tail(idle) : j + 1 \in DOMAIN idle /\ Tail(idle)[j] = idle[j + 1]
        /\ \A j \in DOMAIN idle \ {1} :
             j - 1 \in DOMAIN Tail(idle) /\ Tail(idle)[j - 1] = idle[j]
        /\ \A j \in DOMAIN Tail(idle) : j \in Nat \ {0}
    BY <1>11, HeadTail DEF Poll, PoolTypeOK
  <2>2. /\ cur[p] = Nil
        /\ cur' = [cur EXCEPT ![p] = idle[1]]
        /\ idle' = Tail(idle)
        /\ UNCHANGED open
    BY <1>11, <2>1 DEF Poll, Step, SetCur, HandInv
  <2>3. PoolTypeOK' /\ LockInv' /\ HandInv'
    BY <1>11, <2>1 DEF Poll, Step, SetCur, LockInv, HandInv, Locked, GetSteps, PutSteps, PoolTypeOK, PoolSteps
  <2>4. NeverShared'
    <3>1. \A q \in Clients : cur[q] # Nil => cur[q] # idle[1]
      BY <2>1 DEF NeverShared, Range
    <3>2. \A q, r \in Clients : cur'[q] = cur'[r] /\ cur'[q] # Nil => q = r
      BY <2>2, <3>1 DEF NeverShared, PoolTypeOK
    <3>3. \A j \in DOMAIN Tail(idle) : Tail(idle)[j] # Nil => Tail(idle)[j] # idle[1]
      BY <2>1 DEF NeverShared
    <3>4. \A q \in Clients : cur'[q] # Nil => cur'[q] \notin Range(idle')
      BY <2>1, <2>2, <3>3 DEF NeverShared, Range, PoolTypeOK
    <3>5. \A j, k \in DOMAIN idle' : idle'[j] = idle'[k] /\ idle'[j] # Nil => j = k
      BY <2>1, <2>2 DEF NeverShared
    <3>6. QED
      BY <3>2, <3>4, <3>5 DEF NeverShared
  <2>5. NoneLeaked'
    <3>1. ASSUME NEW j \in DOMAIN idle, idle[j] # idle[1]
          PROVE  idle[j] \in Range(idle')
      <4>1. j \in DOMAIN idle \ {1}
        BY <3>1
      <4>2. j - 1 \in DOMAIN idle' /\ idle'[j - 1] = idle[j]
        BY <2>1, <2>2, <4>1
      <4>3. QED
        BY <4>2 DEF Range
    <3>2. \A c \in Range(idle) : c = idle[1] \/ c \in Range(idle')
      BY <3>1 DEF Range
    <3>3. Nil \notin open
      BY DEF PoolTypeOK
    <3>4. \A c \in Range(cur) : c = Nil \/ c \in Range(cur')
      BY <2>2 DEF Range, PoolTypeOK
    <3>5. idle[1] \in Range(cur')
      BY <2>2 DEF Range, PoolTypeOK
    <3>6. QED
      BY <2>2, <3>2, <3>3, <3>4, <3>5 DEF NoneLeaked, Referenced
  <2>6. QED
    BY <2>3, <2>4, <2>5
<1>12. ASSUME NEW p \in Clients, NEW c \in Conns, Make(p, c) PROVE PoolInv'
  <2>1. /\ cur[p] = Nil
        /\ cur' = [cur EXCEPT ![p] = c]
        /\ idle = <<>> /\ idle' = idle
        /\ open' = open \cup {c}
        /\ c \notin Range(cur)
    BY <1>12 DEF Make, Step, SetCur, HandInv, Referenced
  <2>2. PoolTypeOK' /\ LockInv' /\ HandInv'
    BY <1>12 DEF Make, Step, SetCur, Unlock, LockInv, HandInv, Locked, GetSteps, PutSteps, PoolTypeOK, PoolSteps
  <2>3. NeverShared'
    BY <2>1 DEF NeverShared, Range, PoolTypeOK
  <2>4. \A d \in Range(cur) : d = Nil \/ d \in Range(cur')
    BY <2>1 DEF Range, PoolTypeOK
  <2>5. c \in Range(cur')
    BY <2>1 DEF Range, PoolTypeOK
  <2>6. NoneLeaked'
    BY <2>1, <2>4, <2>5 DEF NoneLeaked, Referenced, PoolTypeOK
  <2>7. QED
    BY <2>2, <2>3, <2>6
<1>13. ASSUME NEW p \in Clients, CheckFails(p) PROVE PoolInv'
  <2>1. /\ cur' = [cur EXCEPT ![p] = Nil]
        /\ UNCHANGED idle
        /\ open' = open \ {cur[p]}
    BY <1>13 DEF CheckFails, Step, SetCur, Release
  <2>2. PoolTypeOK' /\ LockInv' /\ HandInv'
    BY <1>13 DEF CheckFails, Step, SetCur, Release, LockInv, HandInv, Locked, GetSteps, PutSteps, PoolTypeOK, PoolSteps
  <2>3. NeverShared'
    BY <2>1 DEF NeverShared, PoolTypeOK
  <2>4. \A d \in Range(cur) : d = cur[p] \/ d \in Range(cur')
    BY <2>1 DEF Range, PoolTypeOK
  <2>5. NoneLeaked'
    BY <2>1, <2>4 DEF NoneLeaked, Referenced
  <2>6. QED
    BY <2>2, <2>3, <2>5
<1>14. ASSUME NEW p \in Clients, Push(p) PROVE PoolInv'
  <2>1. cur' = [cur EXCEPT ![p] = Nil] /\ cur[p] \in Conns \cup {Nil}
    BY <1>14 DEF Push, SetCur, PoolTypeOK
  <2>2. LockInv' /\ HandInv'
    BY <1>14 DEF Push, Step, SetCur, Unlock, LockInv, HandInv, Locked, GetSteps, PutSteps, PoolTypeOK, PoolSteps
  <2>3. \A d \in Range(cur) : d = cur[p] \/ d \in Range(cur')
    BY <2>1 DEF Range, PoolTypeOK
  <2>4. CASE Len(idle) < MaxCap
    <3>1. idle' = Append(idle, cur[p]) /\ UNCHANGED open
      BY <1>14, <2>4 DEF Push
    <3>2. /\ idle' \in Seq(Conns \cup {Nil})
          /\ DOMAIN idle' = DOMAIN idle \cup {Len(idle) + 1}
          /\ \A j \in DOMAIN idle : idle'[j] = idle[j]
          /\ idle'[Len(idle) + 1] = cur[p]
          /\ Len(idle) + 1 \notin DOMAIN idle
      BY <2>1, <3>1, Appended DEF PoolTypeOK
    <3>3. PoolTypeOK'
      BY <1>14, <3>1, <3>2 DEF Push, Step, SetCur, Unlock, LockInv, HandInv, Locked, GetSteps, PutSteps, PoolTypeOK, PoolSteps
    <3>4. Range(idle') = Range(idle) \cup {cur[p]}
      BY <3>2 DEF Range
    <3>5. \A q, r \in Clients : cur'[q] = cur'[r] /\ cur'[q] # Nil => q = r
      BY <2>1 DEF NeverShared, PoolTypeOK
    <3>6. \A q \in Clients : cur'[q] # Nil => cur'[q] \notin Range(idle')
      BY <2>1, <3>4 DEF NeverShared, PoolTypeOK
    <3>7. cur[p] # Nil => \A j \in DOMAIN idle : idle[j] # cur[p]
      BY DEF NeverShared, Range
    <3>8. \A j, k \in DOMAIN idle' : idle'[j] = idle'[k] /\ idle'[j] # Nil => j = k
      BY <3>2, <3>7 DEF NeverShared
    <3>9. NeverShared'
      BY <3>5, <3>6, <3>8 DEF NeverShared
    <3>10. NoneLeaked'
      BY <2>3, <3>1, <3>4 DEF NoneLeaked, Referenced
    <3>11. QED
      BY <2>2, <3>3, <3>9, <3>10
  <2>5. CASE ~(Len(idle) < MaxCap)
    <3>1. UNCHANGED idle /\ open' = open \ {cur[p]}
      BY <1>14, <2>5 DEF Push, Release
    <3>2. PoolTypeOK'
      BY <1>14, <3>1 DEF Push, Step, SetCur, Unlock, LockInv, HandInv, Locked, GetSteps, PutSteps, PoolTypeOK, PoolSteps
    <3>3. NeverShared'
      BY <2>1, <3>1 DEF NeverShared, PoolTypeOK
    <3>4. NoneLeaked'
      BY <2>3, <3>1 DEF NoneLeaked, Referenced
    <3>5. QED
      BY <2>2, <3>2, <3>3, <3>4
  <2>6. QED
    BY <2>4, <2>5
<1>15. ASSUME NEW S \in SUBSET Conns, Break(S) PROVE PoolInv'
  <2>1. PoolTypeOK' /\ LockInv' /\ HandInv'
    BY <1>15 DEF Break, LockInv, HandInv, Locked, GetSteps, PutSteps, PoolTypeOK, PoolSteps
  <2>2. NeverShared' /\ NoneLeaked'
    BY <1>15, Unmoved DEF Break
  <2>3. QED
    BY <2>1, <2>2
<1>16. CASE Restart
  <2>1. /\ idle' \in Seq(Conns)
        /\ Range(idle') \subseteq Conns
        /\ \A j, k \in DOMAIN idle' : idle'[j] = idle'[k] => j = k
    BY <1>16, NewPoolInv DEF Restart
  <2>2. PoolTypeOK' /\ LockInv' /\ HandInv'
    BY <1>16, <2>1 DEF Restart, LockInv, HandInv, Locked, GetSteps, PutSteps, PoolTypeOK, PoolSteps
  <2>3. NeverShared' /\ NoneLeaked'
    BY <1>16, <2>1 DEF Restart, NeverShared, NoneLeaked, Referenced
  <2>4. QED
    BY <2>2, <2>3
<1>17. CASE UNCHANGED poolVars
  <2>1. PoolTypeOK' /\ LockInv' /\ HandInv'
    BY <1>17 DEF poolVars, LockInv, HandInv, Locked, GetSteps, PutSteps, PoolTypeOK, PoolSteps
  <2>2. NeverShared' /\ NoneLeaked'
    BY <1>17, Unmoved DEF poolVars
  <2>3. QED
    BY <2>1, <2>2
<1>18. QED
  BY <1>1, <1>2, <1>3, <1>4, <1>5, <1>6, <1>7, <1>8, <1>9, <1>10, <1>11,
     <1>12, <1>13, <1>14, <1>15, <1>16, <1>17 DEF PoolNext, Get, Put

-----------------------------------------------------------------------------
(* How long the mutex is held                                              *)

(* The pool keeps its bound.                                               *)
WithinCap == Len(idle) <= MaxCap

LEMMA NewPoolWithinCap ==
    ASSUME NEW s, NewPool(s)
    PROVE  Len(s) <= MaxCap
<1>1. s \in [1..InitialCap -> Conns] /\ InitialCap \in Nat
    BY PoolAssumption DEF NewPool
<1>2. Len(s) = InitialCap
    BY <1>1
<1>3. QED
    BY <1>2, PoolAssumption

LEMMA WithinCapStep == PoolInv /\ WithinCap /\ [PoolNext]_poolVars => WithinCap'
<1> SUFFICES ASSUME PoolInv, WithinCap, [PoolNext]_poolVars PROVE WithinCap'
    OBVIOUS
<1> USE PoolAssumption DEF WithinCap, PoolInv, PoolTypeOK
<1>1. CASE UNCHANGED idle
    BY <1>1
<1>2. ASSUME NEW p \in Clients, Poll(p) PROVE WithinCap'
  <2>1. Len(Tail(idle)) = Len(idle) - 1
    BY <1>2 DEF Poll
  <2>2. QED
    BY <1>2, <2>1 DEF Poll
<1>3. ASSUME NEW p \in Clients, Push(p) PROVE WithinCap'
  <2>1. CASE Len(idle) < MaxCap
    BY <1>3, <2>1 DEF Push
  <2>2. CASE ~(Len(idle) < MaxCap)
    BY <1>3, <2>2 DEF Push
  <2>3. QED
    BY <2>1, <2>2
<1>4. CASE Restart
    BY <1>4, NewPoolWithinCap DEF Restart
<1>5. QED
    BY <1>1, <1>2, <1>3, <1>4
    DEF PoolNext, Get, Put, GetLock, MakeFails, Make, Check, CheckFails, Settle, PutLock,
        PutNil, GiveUp, Recheck, RecheckFails, Resettle, Active, Break, poolVars

(* Each step of the mutex's holder brings it nearer to its end, and nobody *)
(* else's changes what is left.                                            *)
LEMMA HolderAdvances ==
    ASSUME PoolInv, PoolInv', WithinCap, [PoolNext]_poolVars, NEW p \in Clients, lock' = p
    PROVE  IF lock = p
           THEN UNCHANGED <<idle, pc[p]>> \/ StepsLeft(p)' < StepsLeft(p)
           ELSE StepsLeft(p)' <= 3 * MaxCap
<1> USE PoolAssumption DEF PoolInv, PoolTypeOK
<1>1. p # Nil /\ Len(idle) \in Nat /\ Len(idle) <= MaxCap
    BY DEF WithinCap
<1>2. CASE lock # p
  <2>1. lock = Nil /\ (GetLock(p) \/ PutLock(p) \/ PutNil(p))
    BY <1>1, <1>2
    DEF PoolNext, Get, Put, GetLock, Poll, MakeFails, Make, Check, CheckFails, Settle, PutLock,
        PutNil, GiveUp, Recheck, RecheckFails, Resettle, Push, Active, Break, Restart, poolVars,
        Acquire, Unlock
  <2>2. idle' = idle /\ pc'[p] \in {"poll", "recheck"}
    BY <2>1 DEF GetLock, PutLock, PutNil, Step
  <2>3. StepsLeft(p)' \in {3 * Len(idle), 2}
    BY <2>2 DEF StepsLeft
  <2>4. QED
    BY <1>1, <1>2, <2>3
<1>3. CASE lock = p
  <2>1. \A q \in Clients : pc[q] \in Locked <=> q = p
    BY <1>3 DEF LockInv
  <2>2. ASSUME NEW q \in Clients, q # p, Get(q) \/ Put(q) PROVE UNCHANGED <<idle, pc[p]>>
    BY <1>1, <1>3, <2>1, <2>2
    DEF Get, Put, GetLock, Poll, MakeFails, Make, Check, CheckFails, Settle, PutLock,
        PutNil, GiveUp, Recheck, RecheckFails, Resettle, Push, Active, Step, Acquire, Unlock,
        Locked, GetSteps, PutSteps
  <2>3. CASE Get(p)
    <3>1. CASE Poll(p)
      <4>1. pc[p] = "poll" /\ pc'[p] = "check" /\ Len(idle') = Len(idle) - 1 /\ Len(idle) >= 1
        BY <3>1 DEF Poll, Step
      <4>2. StepsLeft(p) = 3 * Len(idle) /\ StepsLeft(p)' = 3 * (Len(idle) - 1) + 2
        BY <4>1 DEF StepsLeft
      <4>3. QED
        BY <1>1, <1>3, <4>2
    <3>2. CASE Check(p) \/ CheckFails(p)
      <4>1. pc[p] = "check" /\ pc'[p] \in {"settle", "poll"} /\ idle' = idle
        BY <3>2 DEF Check, Active, CheckFails, Step
      <4>2. StepsLeft(p) = 3 * Len(idle) + 2 /\ StepsLeft(p)' \in {3 * Len(idle) + 1, 3 * Len(idle)}
        BY <4>1 DEF StepsLeft
      <4>3. QED
        BY <1>1, <1>3, <4>2
    <3>3. QED
      BY <1>1, <1>3, <2>3, <3>1, <3>2 DEF Get, GetLock, MakeFails, Make, Settle, Acquire, Unlock
  <2>4. CASE Put(p)
    <3>1. \/ pc[p] = "recheck" /\ pc'[p] \in {"resettle", "push"}
          \/ pc[p] = "resettle" /\ pc'[p] = "push"
      BY <1>1, <1>3, <2>1, <2>4
      DEF Put, PutLock, PutNil, GiveUp, Recheck, RecheckFails, Resettle, Push, Active, Step,
          Acquire, Unlock, Locked, GetSteps, PutSteps
    <3>2. \/ StepsLeft(p) = 2 /\ StepsLeft(p)' \in {0, 1}
          \/ StepsLeft(p) = 1 /\ StepsLeft(p)' = 0
      BY <3>1 DEF StepsLeft
    <3>3. QED
      BY <1>3, <3>2
  <2>5. ASSUME NEW S \in SUBSET Conns, Break(S) PROVE UNCHANGED <<idle, pc[p]>>
    BY <2>5 DEF Break
  <2>6. CASE Restart
    BY <1>1, <2>6 DEF Restart
  <2>7. CASE UNCHANGED poolVars
    BY <2>7 DEF poolVars
  <2>8. QED
    BY <1>3, <2>2, <2>3, <2>4, <2>5, <2>6, <2>7 DEF PoolNext
<1>4. QED
    BY <1>2, <1>3

-----------------------------------------------------------------------------
(* Theorems                                                                *)

(* The invariant holds in every state.                                     *)
THEOREM PoolInvariant == PoolSpec => []PoolInv
  BY InitInv, NextInv, PTL DEF PoolSpec

(* The variables keep their types.                                         *)
THEOREM PoolTypes == PoolSpec => []PoolTypeOK
  BY PoolInvariant, PTL DEF PoolInv

(* No connection or channel is ever in two hands, or in a hand and the     *)
(* pool, however many clients Get and Put and whatever breaks meanwhile.   *)
THEOREM PoolNeverShares == PoolSpec => []NeverShared
  BY PoolInvariant, PTL DEF PoolInv

(* Whatever is open at the broker is in the pool or in a client's hands.   *)
THEOREM PoolNeverLeaks == PoolSpec => []NoneLeaked
  BY PoolInvariant, PTL DEF PoolInv

(* A Get that succeeds never returns nil, though nil is put into the pool. *)
THEOREM PoolNeverNil == PoolSpec => []NilNeverHandedOut
<1>1. PoolInv => NilNeverHandedOut
  BY DEF PoolInv, HandInv, NilNeverHandedOut
<1>2. QED
  BY PoolInvariant, <1>1, PTL

(* The pool never holds more than it is configured to, though every client *)
(* may put its element back (pool.go:76).                                  *)
THEOREM PoolKeepsBound == PoolSpec => []WithinCap
<1>1. PoolInit => WithinCap
  BY NewPoolWithinCap DEF PoolInit, WithinCap
<1>2. QED
  BY <1>1, WithinCapStep, PoolInvariant, PTL DEF PoolSpec

(* Whoever takes the mutex gives it back after a bounded number of steps,  *)
(* however many dead and nil elements there are (pool.go:47-82).           *)
THEOREM PoolMutexSoonFree == PoolSpec => MutexSoonFree
<1>1. PoolInv /\ PoolInv' /\ WithinCap /\ [PoolNext]_poolVars =>
        [\A p \in Clients :
           lock' = p =>
             IF lock = p
             THEN UNCHANGED <<idle, pc[p]>> \/ StepsLeft(p)' < StepsLeft(p)
             ELSE StepsLeft(p)' <= 3 * MaxCap]_poolVars
  BY HolderAdvances
<1>2. QED
  BY <1>1, PoolInvariant, PoolKeepsBound, PTL DEF PoolSpec, MutexSoonFree
=============================================================================
