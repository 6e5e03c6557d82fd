-------------------------- MODULE WmqServiceProofs --------------------------
(***************************************************************************)
(* Proofs about WmqService, for any finite sets of names and of consumer   *)
(* IDs, any modes, and any number of requests and of faults.               *)
(*                                                                         *)
(* The argument is about what the holder of msgLock has still to do.  Its  *)
(* program fits the messages that there will be when it is over (Fit): it  *)
(* declares only what they list, with their mode, binds after each         *)
(* declaration what is to be bound, and deletes only what they do not      *)
(* need, or what it declares after.  What a message is to have at the      *)
(* broker is then there or still to be made (ForceInv), and a queue is     *)
(* listed, left behind or still to be deleted (QueueInv); when nothing is  *)
(* left to do, the one is there and the other gone.                        *)
(* The programs are built with FlattenSeq, whose recursive function is     *)
(* first shown to exist, by a least length up to which it did not.         *)
(***************************************************************************)
EXTENDS WmqService, FunctionTheorems, FiniteSetTheorems, SequenceTheorems,
        WellFoundedInduction, TLAPS

-----------------------------------------------------------------------------
(* Sequences                                                               *)

(* A set of numbers that is not empty has a least one.                     *)
LEMMA Least ==
    ASSUME NEW S \in SUBSET Nat, S # {}
    PROVE  \E m \in S : \A j \in S : m <= j
<1>1. PICK x \in S : \A y \in S : <<y, x>> \notin OpToRel(<, Nat)
    BY NatLessThanWellFounded, WFMin, Zenon
<1>2. \A y \in S : ~(y < x) /\ y \in Nat /\ x \in Nat
    BY <1>1 DEF OpToRel
<1>3. QED
    BY <1>2

(* What FlattenSeq's recursive function is.                                *)
Flattens(s, f) == f = [i \in 1..Len(s) |-> IF i = 1 THEN s[i] ELSE f[i - 1] \o s[i]]

(* The j-th sequence of s is in t, after its first o elements.             *)
Block(s, t, j, o) ==
    /\ o + Len(s[j]) <= Len(t)
    /\ \A i \in 1..Len(s[j]) : t[o + i] = s[j][i]

(* FlattenSeq of a sequence is the last value of its recursive function.   *)
LEMMA FlattenIs ==
    ASSUME NEW s, Len(s) # 0
    PROVE  FlattenSeq(s) = (CHOOSE f : Flattens(s, f))[Len(s)]
BY DEF FlattenSeq, Flattens

Prefix(T, s, n, g) ==
    /\ g \in [1..n -> Seq(T)]
    /\ \A i \in 1..n : g[i] = IF i = 1 THEN s[i] ELSE g[i - 1] \o s[i]

(* That function exists: a length up to which it did not would have a      *)
(* least one.                                                              *)
LEMMA FlattenExists ==
    ASSUME NEW T, NEW s \in Seq(Seq(T)), Len(s) # 0
    PROVE  \E f : Flattens(s, f)
<1> DEFINE bad == {n \in 1..Len(s) : ~\E g : Prefix(T, s, n, g)}
<1>1. Len(s) \in Nat /\ \A i \in 1..Len(s) : s[i] \in Seq(T)
    OBVIOUS
<1>2. bad = {}
  <2> SUFFICES ASSUME bad # {} PROVE FALSE
    OBVIOUS
  <2>1. bad \in SUBSET Nat
    OBVIOUS
  <2>2. PICK m \in bad : \A j \in bad : m <= j
    BY <2>1, Least
  <2>3. m \in Nat /\ m \in 1..Len(s) /\ ~\E g : Prefix(T, s, m, g)
    BY <2>2, <2>1
  <2>4. CASE m = 1
    <3> DEFINE h == [i \in 1..1 |-> s[i]]
    <3>1. h \in [1..1 -> Seq(T)] /\ \A i \in 1..1 : h[i] = s[i] /\ i = 1
      BY <1>1, <2>3, <2>4
    <3>2. Prefix(T, s, 1, h)
      BY <3>1 DEF Prefix
    <3>3. QED
      BY <3>2, <2>3, <2>4
  <2>5. CASE m # 1
    <3>1. m - 1 \in 1..Len(s) /\ m - 1 \in Nat /\ ~(m <= m - 1)
      BY <2>3, <2>5, <1>1
    <3>2. m - 1 \notin bad
      BY <2>2, <3>1
    <3>3. PICK g : Prefix(T, s, m - 1, g)
      BY <3>1, <3>2
    <3> HIDE DEF bad
    <3> DEFINE w == g[m - 1] \o s[m]
               h == [i \in 1..m |-> IF i = m THEN w ELSE g[i]]
    <3>4. g[m - 1] \in Seq(T) /\ s[m] \in Seq(T)
      BY <2>3, <3>1, <3>3, <1>1, <2>5 DEF Prefix
    <3>5. w \in Seq(T)
      BY <3>4, ConcatProperties
    <3> HIDE DEF w
    <3>6. g \in [1..(m - 1) -> Seq(T)]
      BY <3>3 DEF Prefix
    <3>7. h \in [1..m -> Seq(T)]
      BY <3>5, <3>6, <2>3
    <3>8. h[m] = w
      BY <2>3
    <3>9. \A i \in 1..(m - 1) : h[i] = g[i] /\ i \in 1..m
      BY <2>3
    <3> HIDE DEF h
    <3>10. ASSUME NEW i \in 1..m
           PROVE  h[i] = IF i = 1 THEN s[i] ELSE h[i - 1] \o s[i]
      <4>1. CASE i = m
        <5>1. m - 1 \in 1..(m - 1)
          BY <2>3, <2>5
        <5>2. h[m] = h[m - 1] \o s[m]
          BY <5>1, <3>8, <3>9 DEF w
        <5>3. QED
          BY <5>2, <4>1, <2>5
      <4>2. CASE i # m
        <5>1. i \in 1..(m - 1) /\ (i # 1 => i - 1 \in 1..(m - 1))
          BY <4>2, <2>3
        <5>2. QED
          BY <5>1, <3>9, <3>3 DEF Prefix
      <4>3. QED
        BY <4>1, <4>2
    <3>11. Prefix(T, s, m, h)
      BY <3>7, <3>10 DEF Prefix
    <3>12. QED
      BY <3>11, <2>3
  <2>6. QED
    BY <2>4, <2>5
<1>3. Len(s) \in 1..Len(s)
    BY <1>1
<1>4. PICK f : Prefix(T, s, Len(s), f)
    BY <1>2, <1>3
<1>5. Flattens(s, f)
    BY <1>4 DEF Flattens, Prefix
<1>6. QED
    BY <1>5

(* The sequences flattened are the blocks of the result, which has nothing *)
(* else.                                                                   *)
LEMMA FlattenBlocks ==
    ASSUME NEW T, NEW s \in Seq(Seq(T))
    PROVE  /\ FlattenSeq(s) \in Seq(T)
           /\ \A j \in 1..Len(s) : \E o \in Nat : Block(s, FlattenSeq(s), j, o)
           /\ \A x \in 1..Len(FlattenSeq(s)) :
                \E j \in 1..Len(s), o \in Nat :
                  Block(s, FlattenSeq(s), j, o) /\ o < x /\ x <= o + Len(s[j])
<1>1. CASE Len(s) = 0
  <2>1. FlattenSeq(s) = s /\ s = <<>>
    BY <1>1, EmptySeq DEF FlattenSeq
  <2>2. QED
    BY <2>1
<1>2. CASE Len(s) # 0
  <2> DEFINE f == CHOOSE g : Flattens(s, g)
             Fine(n) == /\ f[n] \in Seq(T)
                        /\ \A j \in 1..n : \E o \in Nat : Block(s, f[n], j, o)
                        /\ \A x \in 1..Len(f[n]) :
                             \E j \in 1..n, o \in Nat :
                               Block(s, f[n], j, o) /\ o < x /\ x <= o + Len(s[j])
             bad == {n \in 1..Len(s) : ~Fine(n)}
  <2>1. FlattenSeq(s) = f[Len(s)]
    BY <1>2, FlattenIs
  <2>2. Flattens(s, f)
    BY <1>2, FlattenExists
  <2>3. \A i \in 1..Len(s) : f[i] = IF i = 1 THEN s[i] ELSE f[i - 1] \o s[i]
    BY <2>2 DEF Flattens
  <2>4. Len(s) \in Nat /\ \A i \in 1..Len(s) : s[i] \in Seq(T) /\ Len(s[i]) \in Nat
    OBVIOUS
  <2> HIDE DEF f
  <2>5. bad = {}
    <3> SUFFICES ASSUME bad # {} PROVE FALSE
      OBVIOUS
    <3>1. PICK m \in bad : \A j \in bad : m <= j
      <4>1. bad \in SUBSET Nat
        OBVIOUS
      <4>2. QED
        BY <4>1, Least
    <3>2. m \in 1..Len(s)
      OBVIOUS
    <3>3. CASE m = 1
      <4>1. f[m] = s[1] /\ s[1] \in Seq(T) /\ 1 \in 1..1 /\ 1 \in 1..m
        BY <3>3, <3>2, <2>3, <2>4
      <4>2. Block(s, f[m], 1, 0)
        BY <4>1, <2>4 DEF Block
      <4>3. Fine(m)
        BY <4>1, <4>2, <3>3, <2>4
      <4>4. QED
        BY <4>3
    <3>4. CASE m # 1
      <4>1. m - 1 \in 1..Len(s) /\ m - 1 \notin bad
        <5> HIDE DEF bad
        <5>1. m - 1 \in 1..Len(s) /\ ~(m <= m - 1)
          BY <2>4, <3>2, <3>4
        <5>2. QED
          BY <3>1, <5>1
      <4>2. Fine(m - 1)
        BY <4>1
      <4> DEFINE u == f[m - 1]
                 n == Len(u)
      <4>3. f[m] = u \o s[m]
        BY <2>3, <3>4, <3>2
      <4>4. u \in Seq(T) /\ n \in Nat /\ s[m] \in Seq(T) /\ Len(s[m]) \in Nat
        BY <4>2, <2>4, <3>2
      <4>5. /\ f[m] \in Seq(T)
            /\ Len(f[m]) = n + Len(s[m])
            /\ \A i \in 1..n : f[m][i] = u[i]
            /\ \A i \in 1..Len(s[m]) : f[m][n + i] = s[m][i]
        <5> HIDE DEF u, bad, Fine
        <5>1. /\ u \o s[m] \in Seq(T)
              /\ Len(u \o s[m]) = Len(u) + Len(s[m])
              /\ \A i \in 1..Len(u) : (u \o s[m])[i] = u[i]
              /\ \A i \in 1..Len(s[m]) : (u \o s[m])[Len(u) + i] = s[m][i]
          BY <4>4
        <5>2. QED
          BY <5>1, <4>3
      <4> HIDE DEF u, n
      <4>6. Block(s, f[m], m, n)
        BY <4>4, <4>5 DEF Block
      <4>7. ASSUME NEW j \in 1..(m - 1), NEW o \in Nat, Block(s, u, j, o)
            PROVE  Block(s, f[m], j, o)
        <5>1. j \in 1..Len(s) /\ Len(s[j]) \in Nat
          BY <3>2, <2>4
        <5>2. o + Len(s[j]) <= n
          BY <4>7 DEF Block, n
        <5>3. \A i \in 1..Len(s[j]) : o + i \in 1..n /\ u[o + i] = s[j][i]
          BY <4>7, <5>1, <5>2, <4>4 DEF Block
        <5>4. o + Len(s[j]) <= Len(f[m])
          <6> DEFINE a == Len(s[j])
                     b == Len(s[m])
                     c == Len(f[m])
          <6>1. a \in Nat /\ b \in Nat /\ c = n + b /\ o + a <= n
            BY <4>4, <4>5, <5>1, <5>2
          <6> HIDE DEF a, b, c
          <6>2. o + a <= c
            BY <6>1, <4>4
          <6>3. QED
            BY <6>2 DEF a, c
        <5>5. \A i \in 1..Len(s[j]) : f[m][o + i] = s[j][i]
          BY <5>3, <4>5
        <5>6. QED
          BY <5>4, <5>5 DEF Block
      <4>8. ASSUME NEW j \in 1..m PROVE \E o \in Nat : Block(s, f[m], j, o)
        <5>1. CASE j = m
          BY <5>1, <4>6, <4>4
        <5>2. CASE j # m
          <6>1. j \in 1..(m - 1)
            BY <5>2, <3>2
          <6>2. PICK o \in Nat : Block(s, u, j, o)
            BY <6>1, <4>2 DEF u
          <6>3. QED
            BY <6>1, <6>2, <4>7
        <5>3. QED
          BY <5>1, <5>2
      <4>9. ASSUME NEW x \in 1..Len(f[m])
            PROVE  \E j \in 1..m, o \in Nat :
                     Block(s, f[m], j, o) /\ o < x /\ x <= o + Len(s[j])
        <5>1. CASE x > n
          BY <5>1, <4>4, <4>5, <4>6, <3>2
        <5>2. CASE ~(x > n)
          <6>1. x \in 1..n
            BY <5>2, <4>4, <4>5
          <6>2. PICK j \in 1..(m - 1), o \in Nat :
                  Block(s, u, j, o) /\ o < x /\ x <= o + Len(s[j])
            BY <6>1, <4>2 DEF u, n
          <6>3. Block(s, f[m], j, o) /\ j \in 1..m
            BY <6>2, <4>7, <3>2
          <6>4. QED
            BY <6>2, <6>3
        <5>3. QED
          BY <5>1, <5>2
      <4>10. Fine(m)
        BY <4>5, <4>8, <4>9
      <4>11. QED
        BY <4>10
    <3>5. QED
      BY <3>3, <3>4
  <2>6. Fine(Len(s))
    BY <2>4, <2>5, <1>2
  <2>7. QED
    BY <2>1, <2>6
<1>3. QED
    BY <1>1, <1>2

(* SetToSeq of a finite set has its elements, each at one place.           *)
LEMMA SetToSeqIs ==
    ASSUME NEW S, IsFiniteSet(S)
    PROVE  /\ Cardinality(S) \in Nat
           /\ \A j \in 1..Cardinality(S) : SetToSeq(S)[j] \in S
           /\ \A x \in S : \E j \in 1..Cardinality(S) : SetToSeq(S)[j] = x
<1> DEFINE n == Cardinality(S)
           f == SetToSeq(S)
<1>1. n \in Nat /\ ExistsBijection(1..n, S)
    BY FS_CardinalityType
<1>2. PICK g \in [1..n -> S] : IsInjective(g)
    BY <1>1 DEF ExistsBijection, Bijection, Injection
<1>3. f \in [1..n -> S] /\ IsInjective(f)
    BY <1>2 DEF SetToSeq
<1> HIDE DEF n, f
<1>4. f \in Injection(1..n, S)
    BY <1>3 DEF Injection
<1>5. IsFiniteSet(1..n) /\ Cardinality(1..n) = n
    BY <1>1, FS_Interval
<1>6. f \in Surjection(1..n, S)
    BY <1>4, <1>5, FS_Injection DEF n
<1>7. \A x \in S : \E j \in 1..n : f[j] = x
    BY <1>6 DEF Surjection
<1>8. QED
    BY <1>1, <1>3, <1>7 DEF n, f

-----------------------------------------------------------------------------
(* Messages                                                                *)

(* The only message of a list that has its name.                           *)
Sole(cf, e) == \E j \in DOMAIN cf : e = cf[j] /\ Named(cf, e.name) = {j}

(* The bindings that a message needs: queues and routing keys.             *)
Needs(e) == {<<<<e.name, i>>, e.consumers[i]>> : i \in DOMAIN e.consumers}

ItemSet == [mode : Modes, key : Routes]

(* What a message and its parts are.                                       *)
LEMMA MessageIs ==
    ASSUME NEW e \in Message
    PROVE  /\ e.name \in Names /\ e.mode \in Modes
           /\ DOMAIN e.consumers \subseteq Ids /\ IsFiniteSet(DOMAIN e.consumers)
           /\ OfMessage(e) \in Settings /\ OfMessage(e).mode = e.mode
           /\ \A i \in DOMAIN e.consumers :
                /\ <<e.name, i>> \in Keys /\ e.consumers[i] \in Routes
                /\ OfConsumer(e, i) \in ItemSet /\ OfConsumer(e, i).key = e.consumers[i]
                /\ OfConsumer(e, i).mode = e.mode
<1>1. e.name \in Names /\ e.mode \in Modes
    BY DEF Message
<1>2. PICK S \in SUBSET Ids : e.consumers \in [S -> Routes]
    BY DEF Message
<1>3. DOMAIN e.consumers = S /\ \A i \in S : e.consumers[i] \in Routes
    BY <1>2
<1>4. IsFiniteSet(S)
    BY ServiceAssumption, FS_Subset
<1>5. OfMessage(e) \in Settings /\ OfMessage(e).mode = e.mode
    BY <1>1 DEF OfMessage, Settings
<1>6. ASSUME NEW i \in S
      PROVE  /\ <<e.name, i>> \in Keys
             /\ OfConsumer(e, i) \in ItemSet /\ OfConsumer(e, i).key = e.consumers[i]
             /\ OfConsumer(e, i).mode = e.mode
    BY <1>1, <1>3 DEF Keys, OfConsumer, ItemSet
<1>7. QED
    BY <1>1, <1>3, <1>4, <1>5, <1>6

(* An item says how to declare and to bind.                                *)
LEMMA ItemIs ==
    /\ ItemSet \subseteq Settings /\ None \notin ItemSet
    /\ \A s \in Settings : s.mode \in Modes
    /\ \A s \in ItemSet : s.key \in Routes
BY NoneAssumption DEF ItemSet, Settings

(* The first message of a name, and what it lists.                         *)
LEMMA FirstIs ==
    ASSUME NEW cf \in Seq(Message), NEW n, Named(cf, n) # {}
    PROVE  LET j == Min(Named(cf, n)) IN
           /\ j \in 1..Len(cf) /\ cf[j] \in Message /\ cf[j].name = n /\ n \in Names
           /\ \A i \in DOMAIN cf[j].consumers : Lists(cf, <<n, i>>) /\ <<n, i>> \in Keys
<1>1. Len(cf) \in Nat /\ DOMAIN cf = 1..Len(cf) /\ \A j \in 1..Len(cf) : cf[j] \in Message
    BY LenProperties
<1>2. Named(cf, n) \in SUBSET Nat
    BY <1>1 DEF Named
<1>3. \E m \in Named(cf, n) : \A j \in Named(cf, n) : m <= j
    BY <1>2, Least
<1> DEFINE j == Min(Named(cf, n))
<1>4. j \in Named(cf, n)
    BY <1>3 DEF Min
<1> HIDE DEF j
<1>5. j \in 1..Len(cf) /\ cf[j] \in Message /\ cf[j].name = n
    BY <1>1, <1>4 DEF Named
<1>6. QED
    BY <1>4, <1>5, MessageIs DEF Lists, j

(* The message e in the place of the first that has its name.              *)
EditOf(cf, e, r) == r = [cf EXCEPT ![Min(Named(cf, e.name))] = e]

(* What it changes.                                                        *)
Edits(cf, e, r) ==
    /\ r \in Seq(Message) /\ r[Min(Named(cf, e.name))] = e
    /\ \A x : Sole(r, x) /\ x.name # e.name => Sole(cf, x)
    /\ \A x : Sole(r, x) /\ x.name = e.name => x.consumers = e.consumers
    /\ \A k : Lists(cf, k) =>
         \/ Lists(r, k)
         \/ /\ k[1] = e.name
            /\ k[2] \in DOMAIN cf[Min(Named(cf, e.name))].consumers \ DOMAIN e.consumers

LEMMA EditIs ==
    ASSUME NEW cf \in Seq(Message), NEW e \in Message, Named(cf, e.name) # {},
           NEW r, EditOf(cf, e, r)
    PROVE  Edits(cf, e, r)
<1> DEFINE n == e.name
           j == Min(Named(cf, n))
<1>1. j \in 1..Len(cf) /\ cf[j].name = n
    BY FirstIs
<1>2. r = [cf EXCEPT ![j] = e]
    BY DEF EditOf
<1> HIDE DEF j
<1>3. Len(cf) \in Nat /\ DOMAIN cf = 1..Len(cf)
    BY LenProperties
<1>4. /\ r \in Seq(Message) /\ Len(r) = Len(cf)
      /\ \A i \in 1..Len(cf) : r[i] = IF i = j THEN e ELSE cf[i]
    BY <1>1, <1>2, ExceptSeq
<1>5. DOMAIN r = DOMAIN cf
    BY <1>3, <1>4, LenProperties
<1>6. \A i \in DOMAIN cf : r[i].name = cf[i].name
    BY <1>1, <1>3, <1>4
<1>7. \A x : Named(r, x) = Named(cf, x)
    BY <1>5, <1>6 DEF Named
<1>8. ASSUME NEW x, Sole(r, x) PROVE x.name # n => Sole(cf, x)
  <2>1. PICK i \in DOMAIN r : x = r[i] /\ Named(r, x.name) = {i}
    BY <1>8 DEF Sole
  <2>2. x.name # n => x = cf[i]
    BY <1>1, <1>3, <1>4, <1>5, <2>1
  <2>3. QED
    BY <1>5, <1>7, <2>1, <2>2 DEF Sole
<1>9. ASSUME NEW x, Sole(r, x), x.name = n PROVE x.consumers = e.consumers
  <2>1. PICK i \in DOMAIN r : x = r[i] /\ Named(r, n) = {i}
    BY <1>9 DEF Sole
  <2>2. j \in Named(r, n)
    BY <1>1, <1>3, <1>7 DEF Named
  <2>3. QED
    BY <1>1, <1>4, <2>1, <2>2
<1>10. ASSUME NEW k, Lists(cf, k)
      PROVE  \/ Lists(r, k)
             \/ k[1] = n /\ k[2] \in DOMAIN cf[j].consumers \ DOMAIN e.consumers
  <2>1. PICK i \in Named(cf, k[1]) : k[2] \in DOMAIN cf[i].consumers
    BY <1>10 DEF Lists
  <2>2. CASE i = j
    <3>1. k[1] = n /\ j \in Named(r, n) /\ r[j] = e
      BY <1>1, <1>4, <1>7, <2>1, <2>2 DEF Named
    <3>2. QED
      BY <2>1, <2>2, <3>1 DEF Lists
  <2>3. CASE i # j
    <3>1. r[i] = cf[i] /\ i \in Named(r, k[1])
      BY <1>3, <1>4, <1>7, <2>1, <2>3 DEF Named
    <3>2. QED
      BY <2>1, <3>1 DEF Lists
  <2>4. QED
    BY <2>2, <2>3
<1>11. QED
    BY <1>1, <1>3, <1>4, <1>5, <1>7, <1>8, <1>9, <1>10 DEF Edits, j

(* A message after the others.                                             *)
LEMMA AppendIs ==
    ASSUME NEW cf \in Seq(Message), NEW e \in Message
    PROVE  LET r == Append(cf, e) IN
           /\ r \in Seq(Message)
           /\ \A x : Sole(r, x) /\ x.name # e.name => Sole(cf, x)
           /\ \A k : Lists(cf, k) => Lists(r, k)
<1> DEFINE r == Append(cf, e)
           l == Len(cf)
<1>1. /\ r \in Seq(Message) /\ Len(r) = l + 1 /\ l \in Nat
      /\ \A i \in 1..l : r[i] = cf[i]
      /\ r[l + 1] = e
    OBVIOUS
<1>2. DOMAIN r = 1..(l + 1) /\ DOMAIN cf = 1..l
    BY <1>1, LenProperties
<1> HIDE DEF r, l
<1>3. \A n : Named(cf, n) \subseteq Named(r, n)
    BY <1>1, <1>2 DEF Named
<1>4. \A n : n # e.name => Named(r, n) = Named(cf, n)
    BY <1>1, <1>2 DEF Named
<1>5. ASSUME NEW x, Sole(r, x), x.name # e.name PROVE Sole(cf, x)
  <2>1. PICK i \in DOMAIN r : x = r[i] /\ Named(r, x.name) = {i}
    BY <1>5 DEF Sole
  <2>2. i \in DOMAIN cf /\ x = cf[i]
    BY <1>1, <1>2, <1>5, <2>1
  <2>3. QED
    BY <1>4, <1>5, <2>1, <2>2 DEF Sole
<1>6. ASSUME NEW k, Lists(cf, k) PROVE Lists(r, k)
  <2>1. PICK i \in Named(cf, k[1]) : k[2] \in DOMAIN cf[i].consumers
    BY <1>6 DEF Lists
  <2>2. i \in Named(r, k[1]) /\ r[i] = cf[i]
    BY <1>1, <1>2, <1>3, <2>1 DEF Named
  <2>3. QED
    BY <2>1, <2>2 DEF Lists
<1>7. QED
    BY <1>1, <1>5, <1>6 DEF r

(* The others when the first of a name is removed.                         *)
LEMMA RemoveIs ==
    ASSUME NEW cf \in Seq(Message), NEW n, Named(cf, n) # {}
    PROVE  LET j == Min(Named(cf, n))
               r == RemoveAt(cf, j)
           IN  /\ r \in Seq(Message)
               /\ \A x : x.name # n => (Sole(r, x) <=> Sole(cf, x))
               /\ \A k : Lists(r, k) => Lists(cf, k)
               /\ \A k : Lists(cf, k) => Lists(r, k) \/ (k[1] = n /\ k[2] \in DOMAIN cf[j].consumers)
<1> DEFINE j == Min(Named(cf, n))
           l == Len(cf)
           u == SubSeq(cf, 1, j - 1)
           v == SubSeq(cf, j + 1, l)
           r == RemoveAt(cf, j)
<1>1. j \in 1..l /\ cf[j].name = n
    BY FirstIs
<1>2. l \in Nat /\ DOMAIN cf = 1..l /\ \A i \in 1..l : cf[i] \in Message
    BY LenProperties
<1>3. r = u \o v
    BY DEF RemoveAt
<1> HIDE DEF j, l, r
<1>4. /\ u \in Seq(Message) /\ Len(u) = j - 1
      /\ \A i \in 1..(j - 1) : u[i] = cf[i]
  <2>1. \A i \in 1..(j - 1) : cf[i] \in Message
    BY <1>1, <1>2
  <2>2. /\ u \in Seq(Message) /\ Len(u) = IF 1 <= j - 1 THEN (j - 1) - 1 + 1 ELSE 0
        /\ \A i \in 1..((j - 1) - 1 + 1) : u[i] = cf[1 + i - 1]
    BY <1>1, <1>2, <2>1, SubSeqProperties
  <2> HIDE DEF u
  <2>3. QED
    BY <1>1, <1>2, <2>2
<1>5. /\ v \in Seq(Message) /\ Len(v) = l - j
      /\ \A i \in 1..(l - j) : v[i] = cf[i + j]
  <2>1. \A i \in (j + 1)..l : cf[i] \in Message
    BY <1>1, <1>2
  <2>2. /\ v \in Seq(Message) /\ Len(v) = IF j + 1 <= l THEN l - (j + 1) + 1 ELSE 0
        /\ \A i \in 1..(l - (j + 1) + 1) : v[i] = cf[j + 1 + i - 1]
    BY <1>1, <1>2, <2>1, SubSeqProperties
  <2> HIDE DEF v
  <2>3. QED
    BY <1>1, <1>2, <2>2
<1> HIDE DEF u, v
<1>6. /\ r \in Seq(Message) /\ Len(r) = l - 1
      /\ \A i \in 1..(l - 1) : r[i] = IF i < j THEN cf[i] ELSE cf[i + 1]
  <2>1. /\ r \in Seq(Message) /\ Len(r) = (j - 1) + (l - j)
        /\ \A i \in 1..((j - 1) + (l - j)) : r[i] = IF i <= j - 1 THEN u[i] ELSE v[i - (j - 1)]
    BY <1>3, <1>4, <1>5, ConcatProperties
  <2>2. ASSUME NEW i \in 1..(l - 1) PROVE r[i] = IF i < j THEN cf[i] ELSE cf[i + 1]
    <3>1. CASE i < j
      BY <1>1, <1>2, <1>4, <2>1, <2>2, <3>1
    <3>2. CASE ~(i < j)
      <4>1. i - (j - 1) \in 1..(l - j) /\ i - (j - 1) + j = i + 1 /\ ~(i <= j - 1)
            /\ i \in 1..((j - 1) + (l - j))
        BY <1>1, <1>2, <2>2, <3>2
      <4>2. QED
        BY <1>5, <2>1, <3>2, <4>1
    <3>3. QED
      BY <3>1, <3>2
  <2>3. QED
    BY <1>1, <1>2, <2>1, <2>2
<1>7. DOMAIN r = 1..(l - 1)
    BY <1>1, <1>2, <1>6, LenProperties
(* Where an element of either is in the other.                             *)
<1> DEFINE up(i) == IF i < j THEN i ELSE i + 1
           down(i) == IF i < j THEN i ELSE i - 1
<1>8. \A i \in 1..(l - 1) : up(i) \in 1..l /\ up(i) # j /\ r[i] = cf[up(i)]
    BY <1>1, <1>2, <1>6
<1>9. \A i \in 1..l : i # j => down(i) \in 1..(l - 1) /\ up(down(i)) = i
    BY <1>1, <1>2
<1>10. \A i \in 1..(l - 1) : down(up(i)) = i
    BY <1>1, <1>2
<1> HIDE DEF up, down
<1>11. \A i \in 1..l : i # j => r[down(i)] = cf[i]
    BY <1>8, <1>9
<1>12. ASSUME NEW x, x.name # n, Sole(r, x) PROVE Sole(cf, x)
  <2>1. PICK i \in 1..(l - 1) : x = r[i] /\ Named(r, x.name) = {i}
    BY <1>7, <1>12 DEF Sole
  <2>2. ASSUME NEW m \in Named(cf, x.name) PROVE m = up(i)
    <3>1. m \in 1..l /\ cf[m].name = x.name /\ m # j
      BY <1>1, <1>2, <1>12 DEF Named
    <3>2. down(m) \in Named(r, x.name)
      BY <1>7, <1>9, <1>11, <3>1 DEF Named
    <3>3. QED
      BY <1>9, <2>1, <3>1, <3>2
  <2>3. up(i) \in 1..l /\ x = cf[up(i)]
    BY <1>8, <2>1
  <2>4. up(i) \in Named(cf, x.name)
    BY <1>2, <2>3 DEF Named
  <2>5. QED
    BY <1>2, <2>2, <2>3, <2>4 DEF Sole
<1>13. ASSUME NEW x, x.name # n, Sole(cf, x) PROVE Sole(r, x)
  <2>1. PICK i \in 1..l : x = cf[i] /\ Named(cf, x.name) = {i}
    BY <1>2, <1>13 DEF Sole
  <2>2. i # j
    BY <1>1, <1>13, <2>1
  <2>3. ASSUME NEW m \in Named(r, x.name) PROVE m = down(i)
    <3>1. m \in 1..(l - 1) /\ r[m].name = x.name
      BY <1>7 DEF Named
    <3>2. up(m) \in Named(cf, x.name)
      BY <1>2, <1>8, <3>1 DEF Named
    <3>3. QED
      BY <1>10, <2>1, <3>1, <3>2
  <2>4. down(i) \in 1..(l - 1) /\ x = r[down(i)]
    BY <1>9, <1>11, <2>1, <2>2
  <2>5. down(i) \in Named(r, x.name)
    BY <1>7, <2>4 DEF Named
  <2>6. QED
    BY <1>7, <2>3, <2>4, <2>5 DEF Sole
<1>14. ASSUME NEW k, Lists(r, k) PROVE Lists(cf, k)
  <2>1. PICK i \in 1..(l - 1) : r[i].name = k[1] /\ k[2] \in DOMAIN r[i].consumers
    BY <1>7, <1>14 DEF Lists, Named
  <2>2. up(i) \in 1..l /\ cf[up(i)] = r[i]
    BY <1>8
  <2>3. QED
    BY <1>2, <2>1, <2>2 DEF Lists, Named
<1>15. ASSUME NEW k, Lists(cf, k)
       PROVE  Lists(r, k) \/ (k[1] = n /\ k[2] \in DOMAIN cf[j].consumers)
  <2>1. PICK i \in 1..l : cf[i].name = k[1] /\ k[2] \in DOMAIN cf[i].consumers
    BY <1>2, <1>15 DEF Lists, Named
  <2>2. CASE i = j
    BY <1>1, <2>1, <2>2
  <2>3. CASE i # j
    BY <1>7, <1>9, <1>11, <2>1, <2>3 DEF Lists, Named
  <2>4. QED
    BY <2>2, <2>3
<1>16. QED
    BY <1>6, <1>12, <1>13, <1>14, <1>15 DEF j, r

-----------------------------------------------------------------------------
(* The programs                                                            *)

CallSet == [do : Verbs, on : Keys \cup Names, as : Settings]

OnNames == {"exchange", "deleteExchange", "remove"}

ApiCalls ==
    {c \in CallSet : /\ IF c.do \in OnNames THEN c.on \in Names ELSE c.on \in Keys
                     /\ c.do \in {"bind", "update"} => c.as \in ItemSet}

Has(p, v, x) == \E i \in 1..Len(p) : p[i].do = v /\ p[i].on = x

(* From its j-th call on p makes the binding b, after nothing but calls    *)
(* for the same message.                                                   *)
Follows(p, j, b) ==
    \E i \in 1..Len(p) :
      /\ j <= i /\ p[i].do = "bind" /\ p[i].on = b[1] /\ p[i].as.key = b[2]
      /\ \A l \in j..i : NameOf(p[l].on) = b[1][1]

Early(p, j) == \A i \in 1..j : p[i].do # "exchange"

(* The j-th call of p is one that an operation may make that leaves the    *)
(* messages R, and that has the objects of the names in D to put right.    *)
Proper(p, R, D, j) ==
    LET x == p[j].on IN
    /\ p[j].do = "queue" =>
         Lists(R, x) /\ \A e : Sole(R, e) => \A b \in Needs(e) : b[1] = x => Follows(p, j, b)
    /\ p[j].do = "exchange" =>
         \A e : Sole(R, e) /\ e.name = x =>
           p[j].as.mode = e.mode /\ \A b \in Needs(e) : Follows(p, j, b)
    /\ p[j].do = "deleteQueue" =>
         \/ \A e : Sole(R, e) => \A b \in Needs(e) : b[1] # x
         \/ x[1] \in D /\ Early(p, j)
    /\ p[j].do \in {"deleteExchange", "remove"} => x \in D /\ Early(p, j)
    /\ p[j].do = "remove" => \A i \in 1..Len(p) : p[i].do = "remove" => i = j

Fit(p, R, D) == p \in Seq(ApiCalls) /\ \A j \in 1..Len(p) : Proper(p, R, D, j)

(* statusConsumer's program, which binds nothing.                          *)
Counts(p, R) ==
    p \in Seq(ApiCalls) /\ Len(p) = 1 /\ p[1].do = "queue" /\ Lists(R, p[1].on)

InitVerbs == {"exchange", "queue", "bind", "update"}

(* What a call is made of.                                                 *)
LEMMA CallIs ==
    ASSUME NEW v \in Verbs, NEW x \in Keys \cup Names, NEW s \in Settings
    PROVE  /\ Call(v, x, s) \in CallSet
           /\ Call(v, x, s).do = v /\ Call(v, x, s).on = x /\ Call(v, x, s).as = s
BY DEF Call, CallSet

(* No key is a name.                                                       *)
LEMMA NameIs ==
    /\ \A k \in Keys : k \notin Names /\ NameOf(k) = k[1] /\ k[1] \in Names /\ k[2] \in Ids
                       /\ k = <<k[1], k[2]>>
    /\ \A n \in Names : NameOf(n) = n
BY ServiceAssumption DEF Keys, NameOf

(* What follows in a part of a program follows in the program.             *)
LEMMA FollowsLater ==
    ASSUME NEW p \in Seq(ApiCalls), NEW v \in Seq(ApiCalls), NEW o \in Nat,
           o + Len(v) <= Len(p), \A i \in 1..Len(v) : p[o + i] = v[i],
           NEW j \in 1..Len(v), NEW b, Follows(v, j, b)
    PROVE  Follows(p, o + j, b)
<1>1. Len(p) \in Nat /\ Len(v) \in Nat
    BY LenProperties
<1>2. PICK i \in 1..Len(v) :
        /\ j <= i /\ v[i].do = "bind" /\ v[i].on = b[1] /\ v[i].as.key = b[2]
        /\ \A l \in j..i : NameOf(v[l].on) = b[1][1]
    BY DEF Follows
<1>3. o + i \in 1..Len(p) /\ o + j <= o + i /\ p[o + i] = v[i]
    BY <1>1, <1>2
<1>4. ASSUME NEW l \in (o + j)..(o + i) PROVE NameOf(p[l].on) = b[1][1]
  <2>1. l - o \in j..i /\ l - o \in 1..Len(v) /\ o + (l - o) = l
    BY <1>1, <1>2
  <2>2. p[l] = v[l - o]
    BY <2>1
  <2>3. QED
    BY <1>2, <2>1, <2>2
<1>5. QED
    BY <1>2, <1>3, <1>4 DEF Follows

(* What initMessages does for one message: its exchange, and then the      *)
(* queue of each of its consumers, which it binds at once.                 *)
MessageCalls(e, q) ==
    /\ q \in Seq(ApiCalls) /\ Len(q) \in Nat /\ Len(q) >= 1
    /\ q[1].do = "exchange" /\ q[1].on = e.name /\ q[1].as.mode = e.mode
    /\ \A i \in 1..Len(q) : NameOf(q[i].on) = e.name
    /\ \A i \in 2..Len(q) :
         /\ q[i].do \in {"queue", "bind", "update"}
         /\ q[i].on \in {<<e.name, x>> : x \in DOMAIN e.consumers}
    /\ \A b \in Needs(e) : Follows(q, 1, b)
    /\ \A i \in 2..Len(q) : q[i].do = "queue" =>
         \A b \in Needs(e) : b[1] = q[i].on => Follows(q, i, b)

OfOne(e, i) ==
    <<Call("queue", <<e.name, i>>, OfConsumer(e, i)), Call("bind", <<e.name, i>>, OfConsumer(e, i)),
      Call("update", <<e.name, i>>, OfConsumer(e, i))>>

OneBlocks(e) ==
    [j \in 1..Cardinality(DOMAIN e.consumers) |-> OfOne(e, SetToSeq(DOMAIN e.consumers)[j])]

(* What it does for one consumer.                                          *)
LEMMA OfOneIs ==
    ASSUME NEW e \in Message, NEW i \in DOMAIN e.consumers
    PROVE  /\ OfOne(e, i) \in Seq(ApiCalls) /\ Len(OfOne(e, i)) = 3
           /\ \A l \in 1..3 : OfOne(e, i)[l].on = <<e.name, i>>
           /\ OfOne(e, i)[1].do = "queue" /\ OfOne(e, i)[2].do = "bind"
           /\ OfOne(e, i)[3].do = "update" /\ OfOne(e, i)[2].as.key = e.consumers[i]
<1> DEFINE k == <<e.name, i>>
           s == OfConsumer(e, i)
<1>1. k \in Keys /\ s \in ItemSet /\ s \in Settings /\ s.key = e.consumers[i]
    BY MessageIs, ItemIs
<1>2. OfOne(e, i) = <<Call("queue", k, s), Call("bind", k, s), Call("update", k, s)>>
    BY DEF OfOne
<1> HIDE DEF k, s
<1>3. \A v \in {"queue", "bind", "update"} :
        /\ Call(v, k, s) \in ApiCalls /\ Call(v, k, s).do = v
        /\ Call(v, k, s).on = k /\ Call(v, k, s).as = s
    BY <1>1, CallIs DEF ApiCalls, OnNames, Verbs
<1>4. QED
    BY <1>1, <1>2, <1>3 DEF k

(* InitMessage, with its parts named.                                      *)
LEMMA InitMessageIs ==
    ASSUME NEW e
    PROVE  InitMessage(e) =
             <<Call("exchange", e.name, OfMessage(e))>> \o FlattenSeq(OneBlocks(e))
BY DEF InitMessage, ForEach, OneBlocks, OfOne

(* What initMessages does for one message.                                 *)
LEMMA MessageCallsAre ==
    ASSUME NEW e \in Message
    PROVE  MessageCalls(e, InitMessage(e))
<1> DEFINE S == DOMAIN e.consumers
           c == Cardinality(S)
           s == OneBlocks(e)
           t == FlattenSeq(s)
           f == Call("exchange", e.name, OfMessage(e))
           q == InitMessage(e)
<1>1. /\ c \in Nat
      /\ \A j \in 1..c : SetToSeq(S)[j] \in S
      /\ \A i \in S : \E j \in 1..c : SetToSeq(S)[j] = i
  <2>1. IsFiniteSet(S)
    BY MessageIs
  <2>2. QED
    BY <2>1, SetToSeqIs
<1>2. s = [j \in 1..c |-> OfOne(e, SetToSeq(S)[j])]
    BY DEF OneBlocks
<1>3. f \in ApiCalls /\ f.do = "exchange" /\ f.on = e.name /\ f.as.mode = e.mode
    BY MessageIs, CallIs DEF ApiCalls, OnNames, Verbs
<1>4. q = <<f>> \o t
    BY InitMessageIs
<1>5. \A i \in S : <<e.name, i>> \in Keys /\ NameOf(<<e.name, i>>) = e.name
    BY MessageIs, NameIs
<1>6. e.name \in Names /\ NameOf(e.name) = e.name
    BY MessageIs, NameIs
<1> HIDE DEF S, c, s, t, f, q
<1>7. \A j \in 1..c : SetToSeq(S)[j] \in S /\ s[j] = OfOne(e, SetToSeq(S)[j]) /\ Len(s[j]) = 3
    BY <1>1, <1>2, OfOneIs DEF S
<1>8. s \in Seq(Seq(ApiCalls)) /\ Len(s) = c
  <2>1. \A j \in 1..c : OfOne(e, SetToSeq(S)[j]) \in Seq(ApiCalls)
    BY <1>1, OfOneIs DEF S
  <2>2. QED
    BY <1>1, <1>2, <2>1
<1>9. /\ t \in Seq(ApiCalls)
      /\ \A j \in 1..c : \E o \in Nat : Block(s, t, j, o)
      /\ \A x \in 1..Len(t) : \E j \in 1..c, o \in Nat : Block(s, t, j, o) /\ o < x /\ x <= o + 3
    BY <1>7, <1>8, FlattenBlocks DEF t
<1>10. /\ q \in Seq(ApiCalls) /\ Len(q) = 1 + Len(t) /\ Len(t) \in Nat
       /\ q[1] = f
       /\ \A i \in 1..Len(t) : q[1 + i] = t[i]
  <2>1. <<f>> \in Seq(ApiCalls) /\ Len(<<f>>) = 1 /\ <<f>>[1] = f
    BY <1>3
  <2>2. QED
    BY <2>1, <1>4, <1>9, ConcatProperties
(* The l-th call for the consumer i is at 1 + o + l.                       *)
<1>11. ASSUME NEW j \in 1..c, NEW o \in Nat, Block(s, t, j, o)
       PROVE  LET i == SetToSeq(S)[j] IN
              /\ i \in S /\ 1 + o + 3 <= Len(q)
              /\ \A l \in 1..3 : q[1 + o + l] = OfOne(e, i)[l] /\ q[1 + o + l].on = <<e.name, i>>
              /\ q[1 + o + 1].do = "queue" /\ q[1 + o + 2].do = "bind"
              /\ q[1 + o + 3].do = "update" /\ q[1 + o + 2].as.key = e.consumers[i]
  <2> DEFINE i == SetToSeq(S)[j]
  <2>1. i \in S /\ s[j] = OfOne(e, i) /\ Len(s[j]) = 3
    BY <1>7
  <2> HIDE DEF i
  <2>2. o + 3 <= Len(t) /\ \A l \in 1..3 : t[o + l] = OfOne(e, i)[l]
    BY <1>11, <2>1 DEF Block
  <2>3. \A l \in 1..3 : o + l \in 1..Len(t) /\ 1 + (o + l) = 1 + o + l
    BY <1>10, <2>2
  <2>4. \A l \in 1..3 : q[1 + o + l] = OfOne(e, i)[l]
    BY <1>10, <2>2, <2>3
  <2>5. 1 + o + 3 <= Len(q)
    BY <1>10, <2>2
  <2>6. /\ \A l \in 1..3 : OfOne(e, i)[l].on = <<e.name, i>>
        /\ OfOne(e, i)[1].do = "queue" /\ OfOne(e, i)[2].do = "bind"
        /\ OfOne(e, i)[3].do = "update" /\ OfOne(e, i)[2].as.key = e.consumers[i]
    BY <2>1, OfOneIs DEF S
  <2>7. 1 \in 1..3 /\ 2 \in 1..3 /\ 3 \in 1..3
    OBVIOUS
  <2>8. QED
    BY <2>1, <2>4, <2>5, <2>6, <2>7 DEF i
<1>12. ASSUME NEW x \in 2..Len(q)
       PROVE  \E j \in 1..c, o \in Nat, l \in 1..3 : Block(s, t, j, o) /\ x = 1 + o + l
  <2>1. x - 1 \in 1..Len(t)
    BY <1>10
  <2>2. PICK j \in 1..c, o \in Nat : Block(s, t, j, o) /\ o < x - 1 /\ x - 1 <= o + 3
    BY <1>9, <2>1
  <2>3. x - 1 - o \in 1..3 /\ x = 1 + o + (x - 1 - o)
    BY <2>2
  <2>4. QED
    BY <2>2, <2>3
<1>13. ASSUME NEW x \in 2..Len(q)
       PROVE  /\ q[x].do \in {"queue", "bind", "update"}
              /\ q[x].on \in {<<e.name, i>> : i \in S}
  <2>1. PICK j \in 1..c, o \in Nat, l \in 1..3 : Block(s, t, j, o) /\ x = 1 + o + l
    BY <1>12
  <2>2. l = 1 \/ l = 2 \/ l = 3
    OBVIOUS
  <2>3. SetToSeq(S)[j] \in S /\ q[x].on = <<e.name, SetToSeq(S)[j]>>
    BY <1>11, <2>1
  <2>4. q[x].do \in {"queue", "bind", "update"}
    BY <1>11, <2>1, <2>2
  <2>5. QED
    BY <2>3, <2>4
<1>14. ASSUME NEW x \in 1..Len(q) PROVE NameOf(q[x].on) = e.name
  <2>1. CASE x = 1
    BY <1>3, <1>6, <1>10, <2>1
  <2>2. CASE x # 1
    <3>1. x \in 2..Len(q)
      BY <2>2
    <3>2. QED
      BY <1>5, <1>13, <3>1
  <2>3. QED
    BY <2>1, <2>2
<1>15. ASSUME NEW j \in 1..c, NEW o \in Nat, Block(s, t, j, o), NEW x \in 1..(1 + o + 1)
       PROVE  LET i == SetToSeq(S)[j] IN Follows(q, x, <<<<e.name, i>>, e.consumers[i]>>)
  <2> DEFINE i == SetToSeq(S)[j]
             b == <<<<e.name, i>>, e.consumers[i]>>
  <2>1. b[1] = <<e.name, i>> /\ b[2] = e.consumers[i] /\ b[1][1] = e.name
    OBVIOUS
  <2>2. 1 + o + 2 \in 1..Len(q) /\ x <= 1 + o + 2
    BY <1>10, <1>11, <1>15
  <2>3. \A l \in x..(1 + o + 2) : l \in 1..Len(q)
    BY <2>2
  <2>4. q[1 + o + 2].do = "bind" /\ q[1 + o + 2].on = <<e.name, i>>
        /\ q[1 + o + 2].as.key = e.consumers[i]
    BY <1>11, <1>15
  <2> HIDE DEF b, i
  <2>5. Follows(q, x, b)
    BY <1>14, <2>1, <2>2, <2>3, <2>4 DEF Follows
  <2>6. QED
    BY <2>5 DEF b, i
<1>16. ASSUME NEW b \in Needs(e) PROVE Follows(q, 1, b)
  <2>1. PICK i \in S : b = <<<<e.name, i>>, e.consumers[i]>>
    BY DEF Needs, S
  <2>2. PICK j \in 1..c : SetToSeq(S)[j] = i
    BY <1>1
  <2>3. PICK o \in Nat : Block(s, t, j, o)
    BY <1>9
  <2>4. 1 \in 1..(1 + o + 1)
    OBVIOUS
  <2>5. QED
    BY <1>15, <2>1, <2>2, <2>3, <2>4
<1>17. ASSUME NEW x \in 2..Len(q), q[x].do = "queue", NEW b \in Needs(e), b[1] = q[x].on
       PROVE  Follows(q, x, b)
  <2>1. PICK j \in 1..c, o \in Nat, l \in 1..3 : Block(s, t, j, o) /\ x = 1 + o + l
    BY <1>12
  <2>2. l = 1
    <3>1. l = 1 \/ l = 2 \/ l = 3
      OBVIOUS
    <3>2. QED
      BY <1>11, <1>17, <2>1, <3>1
  <2>3. PICK i \in S : b = <<<<e.name, i>>, e.consumers[i]>>
    BY DEF Needs, S
  <2>4. q[x].on = <<e.name, SetToSeq(S)[j]>>
    BY <1>11, <2>1
  <2>5. i = SetToSeq(S)[j] /\ x \in 1..(1 + o + 1)
    BY <1>17, <2>1, <2>2, <2>3, <2>4
  <2>6. QED
    BY <1>15, <2>1, <2>3, <2>5
<1>18. QED
    BY <1>3, <1>10, <1>13, <1>14, <1>16, <1>17 DEF MessageCalls, q, S

(* InitMessages makes for each message the calls for it; it fits, whatever *)
(* else is to put right, and declares the exchange of every message.       *)
LEMMA InitFits ==
    ASSUME NEW cf \in Seq(Message)
    PROVE  LET p == InitMessages(cf) IN
           /\ \A D : Fit(p, cf, D)
           /\ \A e : Sole(cf, e) => Has(p, "exchange", e.name)
           /\ \A i \in 1..Len(p) : p[i].do \in InitVerbs
<1> DEFINE s == [j \in DOMAIN cf |-> InitMessage(cf[j])]
           p == InitMessages(cf)
<1>1. Len(cf) \in Nat /\ DOMAIN cf = 1..Len(cf) /\ \A j \in 1..Len(cf) : cf[j] \in Message
    BY LenProperties
<1>2. \A j \in 1..Len(cf) : MessageCalls(cf[j], InitMessage(cf[j]))
    BY <1>1, MessageCallsAre
<1>3. p = FlattenSeq(s)
    BY DEF InitMessages
<1>4. s = [j \in 1..Len(cf) |-> InitMessage(cf[j])]
    BY <1>1
<1> HIDE DEF s, p
<1>5. s \in Seq(Seq(ApiCalls)) /\ Len(s) = Len(cf)
      /\ \A j \in 1..Len(cf) : s[j] = InitMessage(cf[j])
  <2>1. \A j \in 1..Len(cf) : InitMessage(cf[j]) \in Seq(ApiCalls)
    BY <1>2 DEF MessageCalls
  <2>2. QED
    BY <1>1, <1>4, <2>1
<1>6. \A j \in 1..Len(cf) : MessageCalls(cf[j], s[j])
    BY <1>2, <1>5
<1>7. /\ p \in Seq(ApiCalls) /\ Len(p) \in Nat
      /\ \A j \in 1..Len(cf) : \E o \in Nat : Block(s, p, j, o)
      /\ \A x \in 1..Len(p) :
           \E j \in 1..Len(cf), o \in Nat : Block(s, p, j, o) /\ o < x /\ x <= o + Len(s[j])
    BY <1>3, <1>5, FlattenBlocks
(* What a block says of the program.                                       *)
<1>8. ASSUME NEW j \in 1..Len(cf), NEW o \in Nat, Block(s, p, j, o), NEW i \in 1..Len(s[j])
      PROVE  /\ o + i \in 1..Len(p) /\ p[o + i] = s[j][i]
             /\ \A b : Follows(s[j], i, b) => Follows(p, o + i, b)
  <2>1. s[j] \in Seq(ApiCalls) /\ Len(s[j]) \in Nat
    BY <1>6 DEF MessageCalls
  <2>2. o + Len(s[j]) <= Len(p) /\ \A l \in 1..Len(s[j]) : p[o + l] = s[j][l]
    BY <1>8 DEF Block
  <2>3. o + i \in 1..Len(p)
    BY <1>7, <1>8, <2>1, <2>2
  <2>4. \A b : Follows(s[j], i, b) => Follows(p, o + i, b)
    BY <1>7, <1>8, <2>1, <2>2, FollowsLater
  <2>5. QED
    BY <1>8, <2>2, <2>3, <2>4
<1>9. ASSUME NEW x \in 1..Len(p)
      PROVE  \E j \in 1..Len(cf), o \in Nat :
               Block(s, p, j, o) /\ \E i \in 1..Len(s[j]) : x = o + i
  <2>1. PICK j \in 1..Len(cf), o \in Nat : Block(s, p, j, o) /\ o < x /\ x <= o + Len(s[j])
    BY <1>7
  <2>2. Len(s[j]) \in Nat
    BY <1>6 DEF MessageCalls
  <2>3. x - o \in 1..Len(s[j]) /\ x = o + (x - o)
    BY <2>1, <2>2, <1>7
  <2>4. QED
    BY <2>1, <2>3
<1>10. ASSUME NEW x \in 1..Len(p)
       PROVE  /\ p[x].do \in InitVerbs
              /\ p[x].do = "queue" =>
                   /\ Lists(cf, p[x].on)
                   /\ \A e : Sole(cf, e) =>
                        \A b \in Needs(e) : b[1] = p[x].on => Follows(p, x, b)
              /\ p[x].do = "exchange" =>
                   \A e : Sole(cf, e) /\ e.name = p[x].on =>
                     p[x].as.mode = e.mode /\ \A b \in Needs(e) : Follows(p, x, b)
  <2>0. PICK j \in 1..Len(cf), o \in Nat :
          Block(s, p, j, o) /\ \E l \in 1..Len(s[j]) : x = o + l
    BY <1>9
  <2>1. PICK i \in 1..Len(s[j]) : x = o + i
    BY <2>0
  <2> DEFINE q == s[j]
             d == cf[j]
  <2>2. p[x] = q[i] /\ \A b : Follows(q, i, b) => Follows(p, x, b)
    BY <1>8, <2>0, <2>1
  <2>3. MessageCalls(d, q) /\ d \in Message
    BY <1>1, <1>6
  <2>4. ASSUME NEW e, Sole(cf, e), e.name = d.name PROVE e = d
    <3>1. j \in Named(cf, e.name)
      BY <1>1, <2>4 DEF Named
    <3>2. QED
      BY <2>4, <3>1 DEF Sole
  <2>5. d.name \in Names /\ \A y \in DOMAIN d.consumers : <<d.name, y>> \in Keys /\ Lists(cf, <<d.name, y>>)
    BY <1>1, <2>3, MessageIs DEF Lists, Named
  <2> HIDE DEF q, d
  <2>6. CASE i = 1
    <3>1. /\ q[i].do = "exchange" /\ q[i].on = d.name /\ q[i].as.mode = d.mode
          /\ \A b \in Needs(d) : Follows(q, i, b)
      BY <2>3, <2>6 DEF MessageCalls
    <3>2. QED
      BY <2>2, <2>4, <3>1 DEF InitVerbs
  <2>7. CASE i # 1
    <3>1. i \in 2..Len(q)
      <4>1. i \in 1..Len(q) /\ Len(q) \in Nat
        BY <2>3 DEF MessageCalls, q
      <4>2. QED
        BY <2>7, <4>1
    <3>2. /\ q[i].do \in {"queue", "bind", "update"}
          /\ q[i].on \in {<<d.name, y>> : y \in DOMAIN d.consumers}
          /\ q[i].do = "queue" => \A b \in Needs(d) : b[1] = q[i].on => Follows(q, i, b)
      BY <2>3, <3>1 DEF MessageCalls
    <3>3. Lists(cf, q[i].on) /\ q[i].on[1] = d.name
      BY <2>5, <3>2
    <3>4. ASSUME NEW e, Sole(cf, e), NEW b \in Needs(e), b[1] = q[i].on PROVE e = d
      <4>1. b[1][1] = e.name
        BY <3>4 DEF Needs
      <4>2. QED
        BY <2>4, <3>3, <3>4, <4>1
    <3>5. QED
      BY <2>2, <3>2, <3>3, <3>4 DEF InitVerbs
  <2>8. QED
    BY <2>6, <2>7
<1>11. ASSUME NEW D, NEW x \in 1..Len(p) PROVE Proper(p, cf, D, x)
    BY <1>10 DEF Proper, InitVerbs
<1>12. ASSUME NEW e, Sole(cf, e) PROVE Has(p, "exchange", e.name)
  <2>1. PICK j \in 1..Len(cf) : e = cf[j]
    BY <1>1, <1>12 DEF Sole
  <2>2. PICK o \in Nat : Block(s, p, j, o)
    BY <1>7
  <2>3. 1 \in 1..Len(s[j]) /\ s[j][1].do = "exchange" /\ s[j][1].on = e.name
    BY <1>6, <2>1 DEF MessageCalls
  <2>4. o + 1 \in 1..Len(p) /\ p[o + 1] = s[j][1]
    BY <1>8, <2>2, <2>3
  <2>5. QED
    BY <2>3, <2>4 DEF Has
<1>13. QED
    BY <1>7, <1>10, <1>11, <1>12 DEF Fit, p

StopCalls == {c \in ApiCalls : c.do = "stop"}

StopBlocks(e) ==
    [j \in 1..Cardinality(DOMAIN e.consumers) |->
       <<Call("stop", <<e.name, SetToSeq(DOMAIN e.consumers)[j]>>, OfMessage(e))>>]

(* Sequences of stops are sequences of calls, with nothing but stops.      *)
LEMMA StopCallsAre ==
    ASSUME NEW u \in Seq(StopCalls)
    PROVE  u \in Seq(ApiCalls) /\ \A i \in 1..Len(u) : u[i].do = "stop"
<1>1. StopCalls \subseteq ApiCalls
    BY DEF StopCalls
<1>2. \A i \in 1..Len(u) : u[i] \in StopCalls
    BY ElementOfSeq
<1>3. QED
    BY <1>1, <1>2, SeqMonotonic DEF StopCalls

(* stopAllConsumer stops workers and does nothing else.                    *)
LEMMA StopsAre ==
    ASSUME NEW e \in Message
    PROVE  Stops(e) \in Seq(StopCalls)
<1> DEFINE S == DOMAIN e.consumers
           c == Cardinality(S)
           s == StopBlocks(e)
           call(i) == Call("stop", <<e.name, i>>, OfMessage(e))
<1>1. Stops(e) = FlattenSeq(s)
    BY DEF Stops, ForEach, StopBlocks
<1>2. c \in Nat /\ \A j \in 1..c : SetToSeq(S)[j] \in S
    BY MessageIs, SetToSeqIs
<1>3. \A i \in S : call(i) \in StopCalls
  <2>1. \A i \in S : <<e.name, i>> \in Keys /\ OfMessage(e) \in Settings
    BY MessageIs
  <2>2. QED
    BY <2>1, CallIs DEF ApiCalls, StopCalls, OnNames, Verbs
<1>4. s = [j \in 1..c |-> <<call(SetToSeq(S)[j])>>]
    BY DEF StopBlocks
<1> HIDE DEF S, c, s, call
<1>5. \A j \in 1..c : <<call(SetToSeq(S)[j])>> \in Seq(StopCalls)
    BY <1>2, <1>3
<1>6. s \in Seq(Seq(StopCalls))
  <2> DEFINE T == Seq(StopCalls)
  <2>1. \A j \in 1..c : <<call(SetToSeq(S)[j])>> \in T
    BY <1>5
  <2> HIDE DEF T
  <2>2. s \in Seq(T)
    BY <1>2, <1>4, <2>1
  <2>3. QED
    BY <2>2 DEF T
<1>7. QED
    BY <1>1, <1>6, FlattenBlocks

(* The stops of all messages.                                              *)
LEMMA AllStopsAre ==
    ASSUME NEW cf \in Seq(Message)
    PROVE  FlattenSeq([j \in DOMAIN cf |-> Stops(cf[j])]) \in Seq(StopCalls)
<1> DEFINE s == [j \in DOMAIN cf |-> Stops(cf[j])]
<1>1. Len(cf) \in Nat /\ DOMAIN cf = 1..Len(cf) /\ \A j \in 1..Len(cf) : Stops(cf[j]) \in Seq(StopCalls)
    BY LenProperties, StopsAre
<1>2. s \in Seq(Seq(StopCalls))
    BY <1>1
<1>3. QED
    BY <1>2, FlattenBlocks

(* A program may have stops before it.                                     *)
LEMMA StopsFirst ==
    ASSUME NEW R, NEW D, NEW u \in Seq(StopCalls), NEW v, Fit(v, R, D),
           \A x : ~Has(v, "remove", x)
    PROVE  /\ Fit(u \o v, R, D)
           /\ \A x, w : w # "stop" => (Has(u \o v, w, x) <=> Has(v, w, x))
<1> DEFINE p == u \o v
           o == Len(u)
<1>1. u \in Seq(ApiCalls) /\ v \in Seq(ApiCalls) /\ o \in Nat /\ Len(v) \in Nat
      /\ \A i \in 1..o : u[i].do = "stop"
    BY StopCallsAre DEF Fit
<1>2. /\ p \in Seq(ApiCalls) /\ Len(p) = o + Len(v)
      /\ \A i \in 1..(o + Len(v)) : p[i] = IF i <= o THEN u[i] ELSE v[i - o]
    BY <1>1, ConcatProperties
<1>3. \A i \in 1..o : p[i].do = "stop"
    BY <1>1, <1>2
<1>4. o + Len(v) <= Len(p) /\ \A i \in 1..Len(v) : o + i \in 1..Len(p) /\ p[o + i] = v[i]
    BY <1>1, <1>2
<1> HIDE DEF p, o
<1>5. \A i \in 1..Len(p) : i \in 1..o \/ (i - o \in 1..Len(v) /\ p[i] = v[i - o] /\ o + (i - o) = i)
    BY <1>1, <1>2
<1>6. \A x, w : w # "stop" => (Has(p, w, x) <=> Has(v, w, x))
  <2> TAKE x, w
  <2> HAVE w # "stop"
  <2>1. ASSUME Has(p, w, x) PROVE Has(v, w, x)
    <3>1. PICK i \in 1..Len(p) : p[i].do = w /\ p[i].on = x
      BY <2>1 DEF Has
    <3>2. i - o \in 1..Len(v) /\ p[i] = v[i - o]
      BY <1>3, <1>5, <3>1
    <3>3. QED
      BY <3>1, <3>2 DEF Has
  <2>2. ASSUME Has(v, w, x) PROVE Has(p, w, x)
    BY <1>4, <2>2 DEF Has
  <2>3. QED
    BY <2>1, <2>2
<1>7. ASSUME NEW j \in 1..Len(p) PROVE Proper(p, R, D, j)
  <2>1. CASE j \in 1..o
    BY <2>1, <1>3 DEF Proper
  <2>2. CASE j \notin 1..o
    <3>1. j - o \in 1..Len(v) /\ p[j] = v[j - o] /\ o + (j - o) = j
      BY <2>2, <1>5
    <3>2. Proper(v, R, D, j - o) /\ v[j - o].do # "remove"
      BY <3>1 DEF Fit, Has
    <3>3. \A b : Follows(v, j - o, b) => Follows(p, j, b)
      BY <1>1, <1>2, <1>4, <3>1, FollowsLater
    <3>4. Early(v, j - o) => Early(p, j)
      <4>1. \A i \in 1..j : i \in 1..o \/ (i - o \in 1..(j - o) /\ p[i] = v[i - o])
        <5>1. j \in 1..Len(p) /\ Len(p) \in Nat
          BY <1>1, <1>2
        <5>2. \A i \in 1..j : i \in 1..Len(p) /\ (i - o \in 1..Len(v) => i - o \in 1..(j - o))
          BY <1>1, <5>1, <3>1
        <5>3. QED
          BY <1>5, <5>2
      <4>2. QED
        BY <1>3, <4>1 DEF Early
    <3>5. QED
      BY <3>1, <3>2, <3>3, <3>4 DEF Proper
  <2>3. QED
    BY <2>1, <2>2
<1>8. QED
    BY <1>2, <1>6, <1>7 DEF Fit, p

(* A program may have the deletion of a queue that no message needs after  *)
(* it.                                                                     *)
LEMMA DeleteLast ==
    ASSUME NEW R, NEW D, NEW u, Fit(u, R, D), \A x : ~Has(u, "remove", x),
           NEW c \in ApiCalls, c.do = "deleteQueue",
           \A e : Sole(R, e) => \A b \in Needs(e) : b[1] # c.on
    PROVE  /\ Fit(u \o <<c>>, R, D)
           /\ \A x, w : Has(u, w, x) => Has(u \o <<c>>, w, x)
           /\ \A x, w : w # "deleteQueue" => (Has(u \o <<c>>, w, x) => Has(u, w, x))
           /\ Has(u \o <<c>>, "deleteQueue", c.on)
<1> DEFINE p == u \o <<c>>
           l == Len(u)
<1>1. u \in Seq(ApiCalls) /\ l \in Nat /\ <<c>> \in Seq(ApiCalls) /\ Len(<<c>>) = 1 /\ <<c>>[1] = c
    BY DEF Fit
<1>2. /\ p \in Seq(ApiCalls) /\ Len(p) = l + 1
      /\ p[l + 1] = c
      /\ \A i \in 1..l : i \in 1..Len(p) /\ p[i] = u[i]
    BY <1>1, ConcatProperties
<1> HIDE DEF p, l
<1>3. \A i \in 1..Len(p) : i \in 1..l \/ i = l + 1
    BY <1>1, <1>2
<1>4. \A x, w : Has(u, w, x) => Has(p, w, x)
    BY <1>2 DEF Has, l
<1>5. \A x, w : w # "deleteQueue" => (Has(p, w, x) => Has(u, w, x))
    BY <1>2, <1>3 DEF Has, l
<1>6. Has(p, "deleteQueue", c.on)
  <2>1. l + 1 \in 1..Len(p)
    BY <1>1, <1>2
  <2>2. QED
    BY <2>1, <1>2 DEF Has
<1>7. \A j \in 1..l : \A b : Follows(u, j, b) => Follows(p, j, b)
  <2>1. 0 + Len(u) <= Len(p) /\ \A i \in 1..Len(u) : p[0 + i] = u[i]
    BY <1>1, <1>2 DEF l
  <2>2. \A j \in 1..Len(u) : \A b : Follows(u, j, b) => Follows(p, 0 + j, b)
    BY <1>1, <1>2, <2>1, FollowsLater
  <2>3. \A j \in 1..l : 0 + j = j
    BY <1>1
  <2>4. QED
    BY <2>2, <2>3 DEF l
<1>8. \A j \in 1..l : Early(u, j) => Early(p, j)
  <2>1. \A j \in 1..l : \A i \in 1..j : i \in 1..l
    BY <1>1
  <2>2. QED
    BY <2>1, <1>2 DEF Early
<1>9. ASSUME NEW j \in 1..Len(p) PROVE Proper(p, R, D, j)
  <2>1. CASE j \in 1..l
    <3>1. Proper(u, R, D, j) /\ p[j] = u[j] /\ u[j].do # "remove"
      BY <2>1, <1>2 DEF Fit, Has, l
    <3>2. QED
      BY <2>1, <3>1, <1>7, <1>8 DEF Proper
  <2>2. CASE j = l + 1
    BY <2>2, <1>2 DEF Proper
  <2>3. QED
    BY <2>1, <2>2, <1>3
<1>10. QED
    BY <1>2, <1>4, <1>5, <1>6, <1>9 DEF Fit, p

DeleteBlocks(e) ==
    [j \in 1..Cardinality(DOMAIN e.consumers) |->
       <<Call("stop", <<e.name, SetToSeq(DOMAIN e.consumers)[j]>>, OfMessage(e)),
         Call("deleteQueue", <<e.name, SetToSeq(DOMAIN e.consumers)[j]>>, OfMessage(e))>>]

Deletes(e) == {c \in ApiCalls : c.do = "stop" \/ (c.do = "deleteQueue" /\ c.on[1] = e.name)}

(* The stops and the deletions of the queues of a message's consumers.     *)
LEMMA DeleteBlocksAre ==
    ASSUME NEW e \in Message
    PROVE  LET u == FlattenSeq(DeleteBlocks(e)) IN
           /\ u \in Seq(Deletes(e))
           /\ \A i \in DOMAIN e.consumers : Has(u, "deleteQueue", <<e.name, i>>)
<1> DEFINE S == DOMAIN e.consumers
           c == Cardinality(S)
           s == DeleteBlocks(e)
           u == FlattenSeq(s)
           T == Deletes(e)
           first(i) == Call("stop", <<e.name, i>>, OfMessage(e))
           second(i) == Call("deleteQueue", <<e.name, i>>, OfMessage(e))
<1>1. /\ c \in Nat /\ \A j \in 1..c : SetToSeq(S)[j] \in S
      /\ \A i \in S : \E j \in 1..c : SetToSeq(S)[j] = i
    BY MessageIs, SetToSeqIs
<1>2. \A i \in S : /\ first(i) \in T /\ second(i) \in T
                   /\ second(i).do = "deleteQueue" /\ second(i).on = <<e.name, i>>
  <2>1. \A i \in S : <<e.name, i>> \in Keys /\ OfMessage(e) \in Settings
    BY MessageIs
  <2>2. QED
    BY <2>1, CallIs DEF ApiCalls, Deletes, OnNames, Verbs
<1>3. s = [j \in 1..c |-> <<first(SetToSeq(S)[j]), second(SetToSeq(S)[j])>>]
    BY DEF DeleteBlocks
<1> HIDE DEF S, c, s, T, first, second, u
<1>4. \A j \in 1..c : <<first(SetToSeq(S)[j]), second(SetToSeq(S)[j])>> \in Seq(T)
    BY <1>1, <1>2
<1>5. s \in Seq(Seq(T)) /\ Len(s) = c
    BY <1>1, <1>3, <1>4
<1>6. u \in Seq(T) /\ \A j \in 1..c : \E o \in Nat : Block(s, u, j, o)
    BY <1>5, FlattenBlocks DEF u
<1>7. ASSUME NEW i \in S PROVE Has(u, "deleteQueue", <<e.name, i>>)
  <2>1. PICK j \in 1..c : SetToSeq(S)[j] = i
    BY <1>1
  <2>2. PICK o \in Nat : Block(s, u, j, o)
    BY <1>6
  <2>3. s[j] = <<first(i), second(i)>>
    BY <1>3, <2>1
  <2>4. Len(s[j]) = 2 /\ s[j][2] = second(i)
    BY <2>3
  <2>5. o + 2 <= Len(u) /\ u[o + 2] = second(i) /\ Len(u) \in Nat
    BY <1>6, <2>2, <2>4 DEF Block
  <2>6. QED
    BY <1>2, <2>5 DEF Has
<1>8. QED
    BY <1>6, <1>7 DEF u, s, S, T

(* deleteMessage deletes the queues and the exchange, removes the message  *)
(* and declares the objects of the others again.                           *)
LEMMA DeletionFits ==
    ASSUME conf \in Seq(Message), NEW n, Listed(n), NEW D, n \in D
    PROVE  LET R == RemoveAt(conf, First(n))
               p == Deletion(n)
           IN  /\ Fit(p, R, D)
               /\ \A x : Has(p, "remove", x) <=> x = n
               /\ \A e : Sole(R, e) => Has(p, "exchange", e.name)
               /\ \A k \in Keys : Lists(conf, k) => Lists(R, k) \/ Has(p, "deleteQueue", k)
<1> DEFINE e == conf[First(n)]
           u == FlattenSeq(DeleteBlocks(e))
           de == Call("deleteExchange", n, OfMessage(e))
           rm == Call("remove", n, OfMessage(e))
           R == RemoveAt(conf, First(n))
           v == InitMessages(R)
           p == Deletion(n)
           o == Len(u) + 2
<1>1. e \in Message /\ e.name = n /\ n \in Names
    BY FirstIs DEF Listed, First
<1>2. /\ R \in Seq(Message)
      /\ \A k : Lists(conf, k) => Lists(R, k) \/ (k[1] = n /\ k[2] \in DOMAIN e.consumers)
    BY RemoveIs DEF Listed, First
<1>3. /\ de \in ApiCalls /\ de.do = "deleteExchange" /\ de.on = n
      /\ rm \in ApiCalls /\ rm.do = "remove" /\ rm.on = n
  <2>1. OfMessage(e) \in Settings
    BY <1>1, MessageIs
  <2>2. QED
    BY <1>1, <2>1, CallIs DEF ApiCalls, OnNames, Verbs
<1>4. p = (u \o <<de, rm>>) \o v
    BY <1>1 DEF Deletion, ForEach, DeleteBlocks
<1>5. /\ u \in Seq(Deletes(e))
      /\ \A i \in DOMAIN e.consumers : Has(u, "deleteQueue", <<n, i>>)
    BY <1>1, DeleteBlocksAre
<1>6. /\ u \in Seq(ApiCalls) /\ Len(u) \in Nat
      /\ \A i \in 1..Len(u) : u[i].do = "stop" \/ (u[i].do = "deleteQueue" /\ u[i].on[1] = n)
  <2>1. Deletes(e) \subseteq ApiCalls
    BY DEF Deletes
  <2>2. \A i \in 1..Len(u) : u[i] \in Deletes(e)
    BY <1>5, ElementOfSeq
  <2>3. u \in Seq(ApiCalls) /\ Len(u) \in Nat
    BY <1>5, <2>1, SeqMonotonic, LenProperties
  <2>4. QED
    BY <1>1, <2>2, <2>3 DEF Deletes
<1>7. /\ Fit(v, R, D) /\ v \in Seq(ApiCalls) /\ Len(v) \in Nat
      /\ \A x : Sole(R, x) => Has(v, "exchange", x.name)
      /\ \A i \in 1..Len(v) : v[i].do \in InitVerbs
    BY <1>2, InitFits DEF Fit
<1> HIDE DEF e, u, de, rm, R, v, p
<1>8. /\ p \in Seq(ApiCalls) /\ Len(p) = o + Len(v) /\ o \in Nat
      /\ \A i \in 1..Len(u) : p[i] = u[i]
      /\ p[o - 1] = de /\ p[o] = rm
      /\ \A i \in 1..Len(v) : p[o + i] = v[i]
  <2> DEFINE w == u \o <<de, rm>>
  <2>1. /\ <<de, rm>> \in Seq(ApiCalls) /\ Len(<<de, rm>>) = 2
        /\ <<de, rm>>[1] = de /\ <<de, rm>>[2] = rm
    BY <1>3
  <2>2. /\ w \in Seq(ApiCalls) /\ Len(w) = Len(u) + 2
        /\ \A i \in 1..(Len(u) + 2) : w[i] = IF i <= Len(u) THEN u[i] ELSE <<de, rm>>[i - Len(u)]
    BY <1>6, <2>1, ConcatProperties
  <2> HIDE DEF w
  <2>3. w[Len(u) + 1] = de /\ w[Len(u) + 2] = rm /\ \A i \in 1..Len(u) : w[i] = u[i]
    BY <1>6, <2>1, <2>2
  <2>4. /\ p \in Seq(ApiCalls) /\ Len(p) = Len(w) + Len(v)
        /\ \A i \in 1..(Len(w) + Len(v)) : p[i] = IF i <= Len(w) THEN w[i] ELSE v[i - Len(w)]
    BY <1>4, <1>7, <2>2, ConcatProperties DEF w
  <2>5. /\ o \in Nat /\ Len(w) = o /\ o - 1 = Len(u) + 1 /\ o = Len(u) + 2
    BY <1>6, <2>2
  <2>6. \A i \in 1..Len(u) : i \in 1..(Len(w) + Len(v)) /\ i <= Len(w)
    BY <1>6, <1>7, <2>5
  <2>7. \A i \in 1..Len(u) : p[i] = u[i]
    BY <2>3, <2>4, <2>6
  <2>8. p[o - 1] = de /\ p[o] = rm
    <3>1. {o - 1, o} \subseteq 1..(Len(w) + Len(v)) /\ o - 1 <= Len(w) /\ o <= Len(w)
      BY <1>6, <1>7, <2>5
    <3>2. w[o - 1] = de /\ w[o] = rm
      BY <2>3, <2>5
    <3>3. QED
      BY <2>4, <3>1, <3>2
  <2>9. \A i \in 1..Len(v) : p[o + i] = v[i]
    <3>1. \A i \in 1..Len(v) : /\ o + i \in 1..(Len(w) + Len(v))
                               /\ ~(o + i <= Len(w)) /\ (o + i) - Len(w) = i
      BY <1>7, <2>5
    <3>2. QED
      BY <2>4, <3>1
  <2>10. QED
    BY <2>4, <2>5, <2>7, <2>8, <2>9
<1>9. Len(u) = o - 2 /\ o - 2 \in Nat
    BY <1>6
<1> HIDE DEF o
<1>10. ASSUME NEW i \in 1..Len(p)
       PROVE  \/ i \in 1..(o - 2)
              \/ i = o - 1 \/ i = o
              \/ i - o \in 1..Len(v) /\ p[i] = v[i - o] /\ o + (i - o) = i
  <2>1. \/ i \in 1..(o - 2) \/ i = o - 1 \/ i = o
        \/ i - o \in 1..Len(v) /\ o + (i - o) = i
    BY <1>7, <1>8, <1>9
  <2>2. i - o \in 1..Len(v) => p[o + (i - o)] = v[i - o]
    BY <1>8
  <2>3. QED
    BY <2>1, <2>2
<1>11. ASSUME NEW i \in 1..Len(p), p[i].do = "remove" PROVE i = o /\ p[i].on = n
  <2>1. i \notin 1..(o - 2)
    BY <1>6, <1>8, <1>9, <1>11
  <2>2. i # o - 1
    BY <1>3, <1>8, <1>11
  <2>3. ~(i - o \in 1..Len(v) /\ p[i] = v[i - o])
    BY <1>7, <1>11 DEF InitVerbs
  <2>4. QED
    BY <1>3, <1>8, <1>10, <2>1, <2>2, <2>3
<1>12. o \in 1..Len(p) /\ o - 1 \in 1..Len(p) /\ \A i \in 1..Len(v) : o + i \in 1..Len(p)
    BY <1>7, <1>8, <1>9
<1>13. \A j \in 1..o : Early(p, j)
  <2>1. \A i \in 1..o : p[i].do # "exchange"
    <3>1. \A i \in 1..o : i \in 1..Len(u) \/ i = o - 1 \/ i = o
      BY <1>8, <1>9
    <3>2. \A i \in 1..Len(u) : p[i].do # "exchange"
      BY <1>6, <1>8
    <3>3. p[o - 1].do # "exchange" /\ p[o].do # "exchange"
      BY <1>3, <1>8
    <3>4. QED
      BY <3>1, <3>2, <3>3
  <2>2. \A j \in 1..o : \A i \in 1..j : i \in 1..o
    BY <1>8
  <2>3. QED
    BY <2>1, <2>2 DEF Early
<1>14. ASSUME NEW j \in 1..Len(p) PROVE Proper(p, R, D, j)
  <2>1. CASE j \in 1..(o - 2)
    <3>1. p[j].do = "stop" \/ (p[j].do = "deleteQueue" /\ p[j].on[1] = n)
      BY <2>1, <1>6, <1>8, <1>9
    <3>2. Early(p, j)
      BY <2>1, <1>8, <1>9, <1>13
    <3>3. QED
      BY <3>1, <3>2 DEF Proper
  <2>2. CASE j = o - 1 \/ j = o
    <3>1. p[j].do \in {"deleteExchange", "remove"} /\ p[j].on = n
      BY <2>2, <1>3, <1>8
    <3>2. Early(p, j)
      BY <2>2, <1>8, <1>9, <1>13
    <3>3. p[j].do = "remove" => j = o
      BY <1>11
    <3>4. QED
      BY <3>1, <3>2, <3>3, <1>11 DEF Proper
  <2>3. CASE j - o \in 1..Len(v) /\ p[j] = v[j - o] /\ o + (j - o) = j
    <3>1. Proper(v, R, D, j - o) /\ v[j - o].do \in InitVerbs
      BY <2>3, <1>7 DEF Fit
    <3>2. \A b : Follows(v, j - o, b) => Follows(p, j, b)
      <4>1. o + Len(v) <= Len(p)
        BY <1>7, <1>8
      <4>2. QED
        BY <2>3, <1>7, <1>8, <4>1, FollowsLater
    <3>3. QED
      BY <2>3, <3>1, <3>2 DEF Proper, InitVerbs
  <2>4. QED
    BY <1>10, <2>1, <2>2, <2>3
<1>15. \A x : Has(p, "remove", x) <=> x = n
    BY <1>3, <1>8, <1>11, <1>12 DEF Has
<1>16. \A x : Sole(R, x) => Has(p, "exchange", x.name)
    BY <1>7, <1>8, <1>12 DEF Has
<1>17. ASSUME NEW k \in Keys, Lists(conf, k) PROVE Lists(R, k) \/ Has(p, "deleteQueue", k)
  <2>1. CASE Lists(R, k)
    BY <2>1
  <2>2. CASE k[1] = n /\ k[2] \in DOMAIN e.consumers
    <3>1. k = <<n, k[2]>>
      BY <2>2, NameIs
    <3>2. Has(u, "deleteQueue", k)
      BY <1>5, <2>2, <3>1
    <3>3. PICK i \in 1..Len(u) : u[i].do = "deleteQueue" /\ u[i].on = k
      BY <3>2 DEF Has
    <3>4. i \in 1..Len(p) /\ p[i] = u[i]
      BY <1>7, <1>8, <1>9, <3>3
    <3>5. QED
      BY <3>3, <3>4 DEF Has
  <2>3. QED
    BY <1>2, <1>17, <2>1, <2>2
<1>18. QED
    BY <1>8, <1>14, <1>15, <1>16, <1>17 DEF Fit, p, R

-----------------------------------------------------------------------------
(* The invariant                                                           *)

Types ==
    /\ conf \in Seq(Message)
    /\ used \subseteq Ids
    /\ vacant \subseteq Names
    /\ look \in (Keys \X Modes) \cup {None}
    /\ phase \in {"boot", "serve", "down"}
    /\ prog \in [Actors -> Seq(CallSet)]
    /\ try \in [Actors -> 0..3]
    /\ wpc \in [Keys -> {"none", "start", "setup", "loop", "remove"}]
    /\ item \in [Keys -> ItemSet \cup {None}]
    /\ asked \subseteq Registered
    /\ exchange \in [Names -> Modes \cup {None}]
    /\ queues \subseteq Keys
    /\ bound \subseteq queues \X Routes
    /\ subscribed \subseteq queues \cap Running
    /\ doubt \subseteq Names
    /\ spoiled \subseteq Names
    /\ left \subseteq Keys

WorkerCalls(k) ==
    {c \in CallSet : /\ c.do \in {"exchange", "queue", "bind", "consume"}
                     /\ c.on = IF c.do = "exchange" THEN k[1] ELSE k
                     /\ c.as \in ItemSet}

(* A worker's key is registered; it has calls to do in its set-up only, on *)
(* objects of its own, and consumes last.                                  *)
Working(k) ==
    /\ wpc[k] # "none" => item[k] # None
    /\ prog[k] \in Seq(WorkerCalls(k))
    /\ prog[k] # <<>> => wpc[k] = "setup"
    /\ \A j \in 1..Len(prog[k]) : prog[k][j].do = "consume" => j = Len(prog[k])

WorkerInv == \A k \in Keys : Working(k)

(* A key that the manager found absent still is when it stores.            *)
ManagerInv ==
    /\ Idle => try[Api] = 0
    /\ At(Api, "update") /\ try[Api] = 2 => item[On(Api)] = None

(* What is left to do of an operation is what it may do that leaves the    *)
(* messages which remain.                                                  *)
Suits(p, R, D) == Fit(p, R, D) \/ Counts(p, R)

FitInv ==
    /\ Suits(prog[Api], Remaining, doubt)
    /\ \A n : Has(prog[Api], "remove", n) => Listed(n)

(* What a message e is to have at a broker with the exchanges X and the    *)
(* bindings B is there, or made at once; that of a name in D is to be made.*)
Given(p, X, B, D, e) ==
    IF e.name \in D
    THEN Has(p, "exchange", e.name)
    ELSE X[e.name] = e.mode /\ \A b \in Needs(e) : b \in B \/ Follows(p, 1, b)

ForceInv ==
    phase # "down" =>
      \A e : Sole(Remaining, e) /\ e.name \notin spoiled =>
        Given(prog[Api], exchange, bound, doubt, e)

(* A queue that no message lists is left behind or still to be deleted.    *)
QueueInv ==
    \A k \in queues :
      Lists(Remaining, k) \/ k \in left \/ Has(prog[Api], "deleteQueue", k)

ServiceInv == Types /\ WorkerInv /\ ManagerInv /\ FitInv /\ ForceInv /\ QueueInv

(* The actors are the API and the workers; no key is a name.               *)
LEMMA Actor ==
    /\ Api \in Actors
    /\ \A k \in Keys : k \in Actors /\ k # Api /\ k[1] \in Names /\ k[2] \in Ids /\ k \notin Names
    /\ \A a \in Actors : a # Api => a \in Keys
BY ServiceAssumption DEF Actors, Keys

(* The rest of a sequence.                                                 *)
LEMMA TailOf ==
    ASSUME NEW S, NEW p \in Seq(S), p # <<>>
    PROVE  /\ Len(p) \in Nat /\ 1 \in 1..Len(p) /\ Head(p) = p[1] /\ Head(p) \in S
           /\ Tail(p) \in Seq(S) /\ Len(Tail(p)) = Len(p) - 1
           /\ \A i \in 1..Len(Tail(p)) : i + 1 \in 1..Len(p) /\ Tail(p)[i] = p[i + 1]
<1>1. Len(p) \in Nat /\ Len(p) >= 1
    BY EmptySeq
<1>2. /\ Head(p) = p[1] /\ Head(p) \in S
      /\ Tail(p) \in Seq(S) /\ Len(Tail(p)) = Len(p) - 1
      /\ \A i \in 1..Len(Tail(p)) : Tail(p)[i] = p[i + 1]
    BY <1>1, HeadTailProperties
<1>3. QED
    BY <1>1, <1>2

(* What a program has when its first call is done.                         *)
LEMMA RestOf ==
    ASSUME NEW p \in Seq(ApiCalls), p # <<>>
    PROVE  /\ Head(p) = p[1] /\ Head(p) \in ApiCalls /\ Has(p, Head(p).do, Head(p).on)
           /\ Tail(p) \in Seq(ApiCalls)
           /\ \A v, x : Has(Tail(p), v, x) => Has(p, v, x)
           /\ \A v, x : Has(p, v, x) => Has(Tail(p), v, x) \/ (Head(p).do = v /\ Head(p).on = x)
           /\ \A b : Follows(p, 1, b) =>
                /\ NameOf(Head(p).on) = b[1][1]
                /\ \/ Head(p).do = "bind" /\ Head(p).on = b[1] /\ Head(p).as.key = b[2]
                   \/ Follows(Tail(p), 1, b)
           /\ \A j \in 1..Len(Tail(p)) : \A b : Follows(p, j + 1, b) => Follows(Tail(p), j, b)
<1> DEFINE t == Tail(p)
<1>1. /\ Len(p) \in Nat /\ 1 \in 1..Len(p) /\ Head(p) = p[1] /\ Head(p) \in ApiCalls
      /\ t \in Seq(ApiCalls) /\ Len(t) = Len(p) - 1
      /\ \A i \in 1..Len(t) : i + 1 \in 1..Len(p) /\ t[i] = p[i + 1]
    BY TailOf
<1> HIDE DEF t
<1>2. \A i \in 1..Len(p) : i = 1 \/ (i - 1 \in 1..Len(t) /\ t[i - 1] = p[i] /\ (i - 1) + 1 = i)
    BY <1>1
<1>3. \A v, x : Has(t, v, x) => Has(p, v, x)
    BY <1>1 DEF Has
<1>4. \A v, x : Has(p, v, x) => Has(t, v, x) \/ (Head(p).do = v /\ Head(p).on = x)
    BY <1>1, <1>2 DEF Has
<1>5. ASSUME NEW j \in Nat, NEW b, NEW i \in 1..Len(p),
             j <= i, p[i].do = "bind", p[i].on = b[1], p[i].as.key = b[2],
             \A l \in j..i : NameOf(p[l].on) = b[1][1], i # 1
      PROVE  \A m \in Nat : m >= 1 /\ m + 1 >= j /\ m + 1 <= i => Follows(t, m, b)
  <2> TAKE m \in Nat
  <2> HAVE m >= 1 /\ m + 1 >= j /\ m + 1 <= i
  <2>1. i - 1 \in 1..Len(t) /\ t[i - 1] = p[i] /\ m <= i - 1
    BY <1>1, <1>2, <1>5
  <2>2. \A l \in m..(i - 1) : l + 1 \in j..i /\ l \in 1..Len(t) /\ t[l] = p[l + 1]
    BY <1>1, <1>5, <2>1
  <2>3. QED
    BY <1>5, <2>1, <2>2 DEF Follows
<1>6. ASSUME NEW b, Follows(p, 1, b)
      PROVE  /\ NameOf(Head(p).on) = b[1][1]
             /\ \/ Head(p).do = "bind" /\ Head(p).on = b[1] /\ Head(p).as.key = b[2]
                \/ Follows(t, 1, b)
  <2>1. PICK i \in 1..Len(p) :
          /\ 1 <= i /\ p[i].do = "bind" /\ p[i].on = b[1] /\ p[i].as.key = b[2]
          /\ \A l \in 1..i : NameOf(p[l].on) = b[1][1]
    BY <1>6 DEF Follows
  <2>2. NameOf(Head(p).on) = b[1][1]
    BY <1>1, <2>1
  <2>3. CASE i = 1
    BY <1>1, <2>1, <2>2, <2>3
  <2>4. CASE i # 1
    <3>1. 1 \in Nat /\ 1 >= 1 /\ 1 + 1 >= 1 /\ 1 + 1 <= i
      BY <1>1, <2>4
    <3>2. \A m \in Nat : m >= 1 /\ m + 1 >= 1 /\ m + 1 <= i => Follows(t, m, b)
      BY <1>5, <2>1, <2>4, <3>1
    <3>3. Follows(t, 1, b)
      BY <3>1, <3>2
    <3>4. QED
      BY <2>2, <3>3
  <2>5. QED
    BY <2>3, <2>4
<1>7. ASSUME NEW j \in 1..Len(t), NEW b, Follows(p, j + 1, b) PROVE Follows(t, j, b)
  <2>1. PICK i \in 1..Len(p) :
          /\ j + 1 <= i /\ p[i].do = "bind" /\ p[i].on = b[1] /\ p[i].as.key = b[2]
          /\ \A l \in (j + 1)..i : NameOf(p[l].on) = b[1][1]
    BY <1>7 DEF Follows
  <2>2. j \in Nat /\ j + 1 \in Nat /\ j >= 1 /\ j + 1 >= j + 1 /\ i # 1
    BY <1>1, <2>1
  <2>3. QED
    BY <1>5, <2>1, <2>2
<1>8. QED
    BY <1>1, <1>3, <1>4, <1>6, <1>7 DEF Has, t

(* What is left when the first call is done still suits; a declaration of  *)
(* an exchange puts its message right.                                     *)
LEMMA TailSuits ==
    ASSUME NEW p, NEW R, NEW D, NEW E, Suits(p, R, D), p # <<>>,
           E = D \/ Head(p).do = "exchange"
    PROVE  /\ p \in Seq(ApiCalls)
           /\ Suits(Tail(p), R, E)
<1>1. CASE Counts(p, R)
  <2>1. p \in Seq(ApiCalls) /\ Len(p) = 1
    BY <1>1 DEF Counts
  <2>2. Tail(p) \in Seq(ApiCalls) /\ Len(Tail(p)) = Len(p) - 1
    BY <2>1, TailOf
  <2>3. 1..Len(Tail(p)) = {}
    <3>1. Len(Tail(p)) = 0
      BY <2>1, <2>2
    <3>2. 1..0 = {}
      OBVIOUS
    <3>3. QED
      BY <3>1, <3>2, Zenon
  <2>4. Fit(Tail(p), R, E)
    BY <2>2, <2>3 DEF Fit
  <2>5. QED
    BY <2>1, <2>4 DEF Suits
<1>2. CASE Fit(p, R, D)
  <2> DEFINE t == Tail(p)
  <2>1. p \in Seq(ApiCalls)
    BY <1>2 DEF Fit
  <2>2. /\ Len(p) \in Nat /\ 1 \in 1..Len(p) /\ Head(p) = p[1]
        /\ t \in Seq(ApiCalls) /\ Len(t) = Len(p) - 1
        /\ \A i \in 1..Len(t) : i + 1 \in 1..Len(p) /\ t[i] = p[i + 1]
    BY <2>1, TailOf
  <2>3. \A j \in 1..Len(t) : \A b : Follows(p, j + 1, b) => Follows(t, j, b)
    BY <2>1, RestOf
  <2> HIDE DEF t
  <2>4. \A j \in 1..Len(t) : Early(p, j + 1) => Early(t, j) /\ E = D
    <3> TAKE j \in 1..Len(t)
    <3> HAVE Early(p, j + 1)
    <3>1. 1 \in 1..(j + 1) /\ \A i \in 1..j : i + 1 \in 1..(j + 1) /\ i \in 1..Len(t)
      BY <2>2
    <3>2. p[1].do # "exchange" /\ \A i \in 1..j : t[i].do # "exchange"
      BY <2>2, <3>1 DEF Early
    <3>3. QED
      BY <2>2, <3>2 DEF Early
  <2>5. ASSUME NEW j \in 1..Len(t) PROVE Proper(t, R, E, j)
    <3>1. /\ j + 1 \in 1..Len(p) /\ t[j] = p[j + 1]
          /\ Proper(p, R, D, j + 1)
      BY <1>2, <2>2 DEF Fit
    <3>2. t[j].do = "remove" => \A i \in 1..Len(t) : t[i].do = "remove" => i = j
      <4>1. \A i \in 1..Len(t) : i + 1 = j + 1 => i = j
        BY <2>2
      <4>2. QED
        BY <2>2, <3>1, <4>1 DEF Proper
    <3>3. QED
      BY <2>3, <2>4, <3>1, <3>2 DEF Proper
  <2>6. QED
    BY <2>1, <2>2, <2>5 DEF Suits, Fit, t
<1>3. QED
    BY <1>1, <1>2 DEF Suits

(* An actor with nothing to do.                                            *)
LEMMA NoProgram ==
    /\ \A v, x : ~Has(<<>>, v, x)
    /\ \A b : ~Follows(<<>>, 1, b)
    /\ \A R, D : Suits(<<>>, R, D)
BY DEF Has, Follows, Fit, Suits

(* What is pending is in the program.                                      *)
LEMMA PendingHas ==
    ASSUME prog[Api] \in Seq(ApiCalls)
    PROVE  \A v, x : x \in Pending(v) <=> Has(prog[Api], v, x)
<1>1. DOMAIN prog[Api] = 1..Len(prog[Api])
    BY LenProperties
<1>2. QED
    BY <1>1 DEF Pending, Has

(* An operation removes one message at most.                               *)
LEMMA RemovesOne ==
    ASSUME NEW p, NEW R, NEW D, Suits(p, R, D), NEW n, Has(p, "remove", n)
    PROVE  /\ \A x : Has(p, "remove", x) <=> x = n
           /\ n \in D /\ Fit(p, R, D)
<1>1. PICK i \in 1..Len(p) : p[i].do = "remove" /\ p[i].on = n
    BY DEF Has
<1>2. ~Counts(p, R)
  <2>1. SUFFICES ASSUME Counts(p, R) PROVE FALSE
    OBVIOUS
  <2>2. Len(p) = 1 /\ p[1].do = "queue"
    BY <2>1 DEF Counts
  <2>3. i = 1
    BY <2>2
  <2>4. QED
    BY <1>1, <2>2, <2>3
<1>3. Fit(p, R, D)
    BY <1>2 DEF Suits
<1>4. Proper(p, R, D, i)
    BY <1>3 DEF Fit
<1>5. QED
    BY <1>1, <1>3, <1>4 DEF Proper, Has

(* The messages that remain.                                               *)
LEMMA RemainingIs ==
    ASSUME prog[Api] \in Seq(ApiCalls)
    PROVE  /\ (\A x : ~Has(prog[Api], "remove", x)) => Remaining = conf
           /\ \A n : (\A x : Has(prog[Api], "remove", x) <=> x = n)
                => Remaining = RemoveAt(conf, First(n))
<1>1. \A x : x \in Pending("remove") <=> Has(prog[Api], "remove", x)
    BY PendingHas
<1>2. (\A x : ~Has(prog[Api], "remove", x)) => Pending("remove") = {}
    BY <1>1
<1>3. ASSUME NEW n, \A x : Has(prog[Api], "remove", x) <=> x = n
      PROVE  Remaining = RemoveAt(conf, First(n))
  <2>1. Pending("remove") # {} /\ (CHOOSE x \in Pending("remove") : TRUE) = n
    BY <1>1, <1>3
  <2>2. Remaining = RemoveAt(conf, First(CHOOSE x \in Pending("remove") : TRUE))
    BY <2>1 DEF Remaining
  <2>3. QED
    BY <2>1, <2>2
<1>4. QED
    BY <1>2, <1>3 DEF Remaining

(* They are messages; a message left out is named in the operation, and    *)
(* has its objects to put right.                                           *)
LEMMA RemainingOf ==
    ASSUME conf \in Seq(Message), FitInv
    PROVE  /\ Remaining \in Seq(Message)
           /\ \A k : Lists(Remaining, k) => Lists(conf, k)
           /\ \A e : e.name \notin doubt => (Sole(Remaining, e) <=> Sole(conf, e))
           /\ (\A x : ~Has(prog[Api], "remove", x)) => Remaining = conf
           /\ prog[Api] \in Seq(ApiCalls)
<1>1. prog[Api] \in Seq(ApiCalls) /\ Suits(prog[Api], Remaining, doubt)
    BY DEF FitInv, Suits, Fit, Counts
<1>2. CASE \A x : ~Has(prog[Api], "remove", x)
  <2>1. Remaining = conf
    BY <1>1, <1>2, RemainingIs
  <2>2. QED
    BY <1>1, <2>1
<1>3. CASE \E n : Has(prog[Api], "remove", n)
  <2>1. PICK n : Has(prog[Api], "remove", n)
    BY <1>3
  <2>2. (\A x : Has(prog[Api], "remove", x) <=> x = n) /\ n \in doubt /\ Named(conf, n) # {}
    BY <1>1, <2>1, RemovesOne DEF FitInv, Listed
  <2>3. Remaining = RemoveAt(conf, Min(Named(conf, n)))
    BY <1>1, <2>2, RemainingIs DEF First
  <2>4. QED
    BY <1>1, <1>3, <2>2, <2>3, RemoveIs
<1>4. QED
    BY <1>2, <1>3

(* They are the same when the messages are, and what is to remove.         *)
LEMMA RemainingSame ==
    ASSUME prog[Api] \in Seq(ApiCalls), prog'[Api] \in Seq(ApiCalls), conf' = conf,
           \A x : Has(prog'[Api], "remove", x) <=> Has(prog[Api], "remove", x)
    PROVE  Remaining' = Remaining
<1>1. \A x : x \in Pending("remove") <=> Has(prog[Api], "remove", x)
    BY PendingHas
<1>2. DOMAIN prog'[Api] = 1..Len(prog'[Api])
    BY LenProperties
<1>3. \A x : x \in Pending("remove")' <=> Has(prog'[Api], "remove", x)
    BY <1>2 DEF Pending, Has
<1>4. Pending("remove")' = Pending("remove")
    BY <1>1, <1>3
<1>5. QED
    BY <1>4 DEF Remaining, First, Named

(* The messages that remain after a step.                                  *)
LEMMA RemainingNext ==
    ASSUME prog'[Api] \in Seq(ApiCalls)
    PROVE  /\ (\A x : ~Has(prog'[Api], "remove", x)) => Remaining' = conf'
           /\ \A n : (\A x : Has(prog'[Api], "remove", x) <=> x = n)
                => Remaining' = RemoveAt(conf', Min(Named(conf', n)))
<1>1. DOMAIN prog'[Api] = 1..Len(prog'[Api])
    BY LenProperties
<1>2. \A x : x \in Pending("remove")' <=> Has(prog'[Api], "remove", x)
    BY <1>1 DEF Pending, Has
<1>3. ASSUME NEW n, \A x : Has(prog'[Api], "remove", x) <=> x = n
      PROVE  Remaining' = RemoveAt(conf', Min(Named(conf', n)))
  <2>1. Pending("remove")' # {} /\ (CHOOSE x \in Pending("remove")' : TRUE) = n
    BY <1>2, <1>3
  <2>2. Remaining' = RemoveAt(conf', First(CHOOSE x \in Pending("remove") : TRUE)')
    BY <2>1 DEF Remaining
  <2>3. First(CHOOSE x \in Pending("remove") : TRUE)'
          = Min(Named(conf', CHOOSE x \in Pending("remove")' : TRUE))
    BY DEF First, Named
  <2>4. QED
    BY <2>1, <2>2, <2>3
<1>4. (\A x : ~Has(prog'[Api], "remove", x)) => Remaining' = conf'
    BY <1>2 DEF Remaining
<1>5. QED
    BY <1>3, <1>4

(* The message that a name is the sole one of.                             *)
LEMMA SoleIs ==
    ASSUME NEW cf \in Seq(Message), NEW e, Sole(cf, e)
    PROVE  e \in Message /\ e.name \in Names /\ e.mode \in Modes /\ e.mode # None
<1>1. DOMAIN cf = 1..Len(cf) /\ \A j \in 1..Len(cf) : cf[j] \in Message
    BY LenProperties, ElementOfSeq
<1>2. e \in Message
    BY <1>1 DEF Sole
<1>3. QED
    BY <1>2, MessageIs, ServiceAssumption

(* The program of a process that starts.                                   *)
LEMMA InitProgram ==
    ASSUME conf \in Seq(Message)
    PROVE  LET p == InitMessages(conf) IN
           /\ p \in Seq(ApiCalls) /\ p \in Seq(CallSet)
           /\ \A D : Suits(p, conf, D)
           /\ \A e : Sole(conf, e) => Has(p, "exchange", e.name)
           /\ \A v, x : v \notin InitVerbs => ~Has(p, v, x)
<1> DEFINE p == InitMessages(conf)
<1>1. /\ \A D : Fit(p, conf, D)
      /\ \A e : Sole(conf, e) => Has(p, "exchange", e.name)
      /\ \A i \in 1..Len(p) : p[i].do \in InitVerbs
    BY InitFits
<1> HIDE DEF p
<1>2. p \in Seq(ApiCalls)
    BY <1>1 DEF Fit
<1>3. ApiCalls \subseteq CallSet
    BY DEF ApiCalls
<1>4. p \in Seq(CallSet)
    BY <1>2, <1>3, SeqMonotonic
<1>5. \A v, x : v \notin InitVerbs => ~Has(p, v, x)
    BY <1>1 DEF Has
<1>6. QED
    BY <1>1, <1>2, <1>4, <1>5 DEF Suits, p

(* The invariant holds when wmq is started.                                *)
LEMMA InitService == Init => ServiceInv
<1> SUFFICES ASSUME Init PROVE ServiceInv
    OBVIOUS
<1>1. /\ conf \in Seq(Message) /\ phase = "boot" /\ spoiled = {} /\ doubt = Names
      /\ left = queues
    BY DEF Init
<1> DEFINE p == InitMessages(conf)
<1>2. /\ p \in Seq(ApiCalls) /\ p \in Seq(CallSet)
      /\ \A D : Suits(p, conf, D)
      /\ \A e : Sole(conf, e) => Has(p, "exchange", e.name)
      /\ \A x : ~Has(p, "remove", x)
  <2>1. "remove" \notin InitVerbs
    BY DEF InitVerbs
  <2>2. QED
    BY <1>1, <2>1, InitProgram
<1>3. /\ prog = [a \in Actors |-> IF a = Api THEN p ELSE <<>>]
      /\ try = [a \in Actors |-> 0]
    BY DEF Init
<1> HIDE DEF p
<1>4. <<>> \in Seq(CallSet)
    OBVIOUS
<1>5. /\ prog \in [Actors -> Seq(CallSet)]
      /\ prog[Api] = p
      /\ \A k \in Keys : prog[k] = <<>>
    BY <1>2, <1>3, <1>4, Actor
<1>6. Remaining = conf
    BY <1>2, <1>5, RemainingIs
<1>7. Types
  <2>1. /\ used \subseteq Ids /\ vacant \subseteq Names /\ look = None
        /\ wpc = [k \in Keys |-> "none"] /\ item = [k \in Keys |-> None] /\ asked = {}
        /\ exchange \in [Names -> Modes \cup {None}] /\ queues \subseteq Keys
        /\ subscribed = {}
    BY DEF Init, Unlisted
  <2>2. bound \subseteq queues \X Routes
    BY DEF Init
  <2>3. try \in [Actors -> 0..3]
    BY <1>3
  <2>4. /\ wpc \in [Keys -> {"none", "start", "setup", "loop", "remove"}]
        /\ item \in [Keys -> ItemSet \cup {None}]
    BY <2>1
  <2>5. asked \subseteq Registered /\ subscribed \subseteq queues \cap Running
    BY <2>1
  <2>6. QED
    BY <1>1, <1>5, <2>1, <2>2, <2>3, <2>4, <2>5 DEF Types
<1>8. WorkerInv
  <2> SUFFICES ASSUME NEW k \in Keys PROVE Working(k)
    BY DEF WorkerInv
  <2>1. prog[k] = <<>> /\ wpc[k] = "none"
    BY <1>5 DEF Init
  <2>2. 1..Len(<<>>) = {} /\ <<>> \in Seq(WorkerCalls(k))
    OBVIOUS
  <2>3. QED
    BY <2>1, <2>2 DEF Working
<1>9. ManagerInv
    BY <1>3, Actor DEF ManagerInv
<1>10. FitInv
    BY <1>2, <1>5, <1>6 DEF FitInv
<1>11. ForceInv
  <2> SUFFICES ASSUME NEW e, Sole(conf, e)
               PROVE  Given(prog[Api], exchange, bound, doubt, e)
    BY <1>6 DEF ForceInv
  <2>1. e.name \in doubt
    BY <1>1, SoleIs
  <2>2. QED
    BY <1>2, <1>5, <2>1 DEF Given
<1>12. QueueInv
    BY <1>1 DEF QueueInv
<1>13. QED
    BY <1>7, <1>8, <1>9, <1>10, <1>11, <1>12 DEF ServiceInv

-----------------------------------------------------------------------------
(* Steps: the frames                                                       *)

(* The call at the head of the operation's program is done.                *)
LEMMA ApiDone ==
    ASSUME ServiceInv, prog[Api] # <<>>, Done(Api)
    PROVE  /\ prog' \in [Actors -> Seq(CallSet)] /\ try' \in [Actors -> 0..3]
           /\ prog'[Api] = Tail(prog[Api]) /\ try'[Api] = 0
           /\ \A k \in Keys : prog'[k] = prog[k]
           /\ prog[Api] \in Seq(ApiCalls) /\ prog'[Api] \in Seq(ApiCalls)
           /\ Head(prog[Api]) \in ApiCalls /\ Head(prog[Api]) = prog[Api][1]
           /\ Proper(prog[Api], Remaining, doubt, 1) \/ Counts(prog[Api], Remaining)
<1>1. /\ Suits(prog[Api], Remaining, doubt)
      /\ prog \in [Actors -> Seq(CallSet)] /\ try \in [Actors -> 0..3]
    BY DEF ServiceInv, FitInv, Types
<1>2. Tail(prog[Api]) \in Seq(CallSet)
    BY <1>1, Actor, TailOf
<1>3. prog' = [prog EXCEPT ![Api] = Tail(prog[Api])] /\ try' = [try EXCEPT ![Api] = 0]
    BY DEF Done, Try
<1>4. prog'[Api] = Tail(prog[Api]) /\ try'[Api] = 0 /\ \A k \in Keys : prog'[k] = prog[k]
    BY <1>1, <1>3, Actor
<1>5. prog' \in [Actors -> Seq(CallSet)] /\ try' \in [Actors -> 0..3]
  <2>1. 0 \in 0..3
    OBVIOUS
  <2>2. try' \in [Actors -> 0..3]
    BY <1>1, <1>3, <2>1, Zenon
  <2>3. prog' \in [Actors -> Seq(CallSet)]
    BY <1>1, <1>2, <1>3, Zenon
  <2>4. QED
    BY <2>2, <2>3
<1>6. prog[Api] \in Seq(ApiCalls)
    BY <1>1, TailSuits
<1>7. Proper(prog[Api], Remaining, doubt, 1) \/ Counts(prog[Api], Remaining)
  <2>1. 1 \in 1..Len(prog[Api])
    BY <1>6, TailOf
  <2>2. QED
    BY <1>1, <2>1 DEF Suits, Fit
<1>8. QED
    BY <1>4, <1>5, <1>6, <1>7, RestOf

(* So is the one at the head of a worker's.                                *)
LEMMA WorkerDone ==
    ASSUME ServiceInv, NEW k \in Keys, prog[k] # <<>>, Done(k)
    PROVE  /\ prog' \in [Actors -> Seq(CallSet)] /\ try' \in [Actors -> 0..3]
           /\ prog'[Api] = prog[Api] /\ try'[Api] = try[Api]
           /\ \A j \in Keys \ {k} : prog'[j] = prog[j]
           /\ prog'[k] \in Seq(WorkerCalls(k))
           /\ \A j \in 1..Len(prog'[k]) : prog'[k][j].do = "consume" => j = Len(prog'[k])
           /\ Head(prog[k]) \in WorkerCalls(k)
           /\ Head(prog[k]).do = "consume" => prog'[k] = <<>>
<1>1. prog \in [Actors -> Seq(CallSet)] /\ try \in [Actors -> 0..3] /\ Working(k)
    BY DEF ServiceInv, Types, WorkerInv
<1>2. k \in Actors /\ k # Api
    BY Actor
<1>3. prog' = [prog EXCEPT ![k] = Tail(prog[k])] /\ try' = [try EXCEPT ![k] = 0]
    BY DEF Done, Try
<1> DEFINE p == prog[k]
           t == Tail(prog[k])
<1>4. p \in Seq(WorkerCalls(k)) /\ p \in Seq(CallSet) /\ p # <<>>
    BY <1>1, <1>2 DEF Working
<1>5. t \in Seq(CallSet)
    BY <1>4, TailOf
<1>6. prog'[k] = t
    BY <1>1, <1>2, <1>3
<1>7. \A j \in 1..Len(p) : p[j].do = "consume" => j = Len(p)
    BY <1>1 DEF Working
<1> HIDE DEF p, t
<1>8. /\ Len(p) \in Nat /\ 1 \in 1..Len(p) /\ Head(p) = p[1] /\ Head(p) \in WorkerCalls(k)
      /\ t \in Seq(WorkerCalls(k)) /\ Len(t) = Len(p) - 1
      /\ \A i \in 1..Len(t) : i + 1 \in 1..Len(p) /\ t[i] = p[i + 1]
    BY <1>4, TailOf DEF p, t
<1>9. \A j \in 1..Len(t) : t[j].do = "consume" => j = Len(t)
  <2> TAKE j \in 1..Len(t)
  <2>1. t[j].do = "consume" => j + 1 = Len(p)
    BY <1>7, <1>8
  <2>2. QED
    BY <2>1, <1>8
<1>10. Head(p).do = "consume" => t = <<>>
    BY <1>7, <1>8, EmptySeq
<1>11. prog' \in [Actors -> Seq(CallSet)] /\ try' \in [Actors -> 0..3]
  <2>1. 0 \in 0..3
    OBVIOUS
  <2>2. try' \in [Actors -> 0..3]
    BY <1>1, <1>3, <2>1, Zenon
  <2>3. Tail(prog[k]) \in Seq(CallSet)
    BY <1>5 DEF t
  <2>4. prog' \in [Actors -> Seq(CallSet)]
    BY <1>1, <1>3, <2>3, Zenon
  <2>5. QED
    BY <2>2, <2>4
<1>12. \A a \in Actors \ {k} : prog'[a] = prog[a] /\ try'[a] = try[a]
    BY <1>1, <1>3
<1>13. /\ prog'[Api] = prog[Api] /\ try'[Api] = try[Api]
       /\ \A j \in Keys \ {k} : prog'[j] = prog[j]
    BY <1>2, <1>12, Actor
<1>14. /\ \A j \in 1..Len(prog'[k]) : prog'[k][j].do = "consume" => j = Len(prog'[k])
       /\ Head(prog[k]).do = "consume" => prog'[k] = <<>>
    BY <1>6, <1>9, <1>10 DEF p
<1>15. prog'[k] \in Seq(WorkerCalls(k)) /\ Head(prog[k]) \in WorkerCalls(k)
    BY <1>6, <1>8 DEF p
<1>16. QED
    BY <1>11, <1>13, <1>14, <1>15

(* A step that leaves the operation's program and the messages alone keeps *)
(* their invariants when it takes from the broker nothing of an unspoiled  *)
(* message that is not made at once, and leaves there no queue for nobody  *)
(* that it does not count.                                                 *)
Undisturbed(e) ==
    /\ exchange[e.name] = e.mode => exchange'[e.name] = e.mode
    /\ \A b \in Needs(e) : b \in bound => b \in bound' \/ Follows(prog[Api], 1, b)

QueuesKept ==
    /\ \A k \in queues' : k \in queues \/ Lists(Remaining, k) \/ k \in left'
    /\ left \cap queues' \subseteq left'

(* Then what is in force, or still to be made, is so after the step.       *)
LEMMA ForceKept ==
    ASSUME ServiceInv, prog'[Api] = prog[Api], UNCHANGED <<conf, phase, doubt>>,
           spoiled \subseteq spoiled', QueuesKept,
           \A e : Sole(Remaining, e) /\ e.name \notin spoiled' \cup doubt => Undisturbed(e)
    PROVE  FitInv' /\ ForceInv' /\ QueueInv'
<1>1. conf \in Seq(Message) /\ FitInv /\ ForceInv /\ QueueInv
    BY DEF ServiceInv, Types
<1>2. prog[Api] \in Seq(ApiCalls)
    BY <1>1, RemainingOf
<1>3. Remaining' = Remaining
    BY <1>2, RemainingSame
<1>4. FitInv'
    BY <1>1, <1>3 DEF FitInv, Listed, Named
<1>5. ASSUME phase' # "down", NEW e, Sole(Remaining, e), e.name \notin spoiled'
      PROVE  Given(prog'[Api], exchange', bound', doubt', e)
  <2>1. Given(prog[Api], exchange, bound, doubt, e)
    BY <1>1, <1>5 DEF ForceInv
  <2>2. CASE e.name \in doubt
    BY <2>1, <2>2 DEF Given
  <2>3. CASE e.name \notin doubt
    <3>1. Undisturbed(e)
      BY <1>5, <2>3
    <3>2. QED
      BY <2>1, <2>3, <3>1 DEF Given, Undisturbed
  <2>4. QED
    BY <2>2, <2>3
<1>6. ForceInv'
    BY <1>3, <1>5 DEF ForceInv
<1>7. QueueInv'
  <2> SUFFICES ASSUME NEW k \in queues'
               PROVE  Lists(Remaining, k) \/ k \in left' \/ Has(prog[Api], "deleteQueue", k)
    BY <1>3 DEF QueueInv
  <2>1. QED
    BY <1>1 DEF QueueInv, QueuesKept
<1>8. QED
    BY <1>4, <1>6, <1>7

(* So are the manager's facts, when no key is registered that was not.     *)
LEMMA Aside ==
    ASSUME ServiceInv, prog'[Api] = prog[Api], try'[Api] = try[Api],
           UNCHANGED <<conf, phase, doubt>>, spoiled \subseteq spoiled', QueuesKept,
           \A k \in Keys : item[k] = None => item'[k] = None,
           \A e : Sole(Remaining, e) /\ e.name \notin spoiled' \cup doubt => Undisturbed(e)
    PROVE  ManagerInv' /\ FitInv' /\ ForceInv' /\ QueueInv'
<1>1. FitInv' /\ ForceInv' /\ QueueInv'
    BY ForceKept
<1>2. ManagerInv /\ conf \in Seq(Message) /\ FitInv
    BY DEF ServiceInv, Types
<1>3. prog[Api] # <<>> => Head(prog[Api]) \in ApiCalls
    BY <1>2, RemainingOf, RestOf
<1>4. Idle' <=> Idle
    BY DEF Idle
<1>5. At(Api, "update")' => At(Api, "update") /\ On(Api)' = On(Api) /\ On(Api) \in Keys
    BY <1>3 DEF At, On, ApiCalls, OnNames
<1>6. ManagerInv'
    BY <1>2, <1>4, <1>5 DEF ManagerInv
<1>7. QED
    BY <1>1, <1>6

(* The operation's next call does its part.                                *)
Forced(e) ==
    /\ IF At(Api, "exchange") /\ On(Api) = e.name
       THEN exchange'[e.name] = e.mode
       ELSE exchange[e.name] = e.mode => exchange'[e.name] = e.mode
    /\ \A b \in Needs(e) :
         /\ b \in bound => b \in bound' \/ Follows(prog'[Api], 1, b)
         /\ At(Api, "bind") /\ On(Api) = b[1] /\ Head(prog[Api]).as.key = b[2] => b \in bound'

(* It puts right no message but that whose exchange it declares.           *)
PutsRight ==
    /\ doubt' \subseteq doubt
    /\ IF At(Api, "exchange")
       THEN /\ doubt \ doubt' \subseteq {On(Api)} /\ spoiled \ spoiled' \subseteq {On(Api)}
            /\ On(Api) \notin doubt' \/ On(Api) \in spoiled'
       ELSE doubt \subseteq doubt' /\ spoiled \subseteq spoiled'

(* Then what it has made is in force, and the rest is still to be made.    *)
LEMMA ForceDone ==
    ASSUME ServiceInv, prog[Api] # <<>>, Done(Api), UNCHANGED <<conf, phase>>,
           ~At(Api, "remove"), PutsRight, QueuesKept,
           At(Api, "deleteQueue") => On(Api) \notin queues',
           \A e : Sole(Remaining, e) /\ e.name \notin spoiled' \cup doubt' => Forced(e)
    PROVE  ManagerInv' /\ FitInv' /\ ForceInv' /\ QueueInv'
<1> DEFINE p == prog[Api]
           h == Head(prog[Api])
<1>1. /\ prog'[Api] = Tail(p) /\ try'[Api] = 0
      /\ p \in Seq(ApiCalls) /\ prog'[Api] \in Seq(ApiCalls) /\ h = p[1]
      /\ Proper(p, Remaining, doubt, 1) \/ Counts(p, Remaining)
    BY ApiDone
<1>2. conf \in Seq(Message) /\ FitInv /\ ForceInv /\ QueueInv
    BY DEF ServiceInv, Types
<1>3. /\ \A v, x : Has(Tail(p), v, x) => Has(p, v, x)
      /\ \A v, x : Has(p, v, x) => Has(Tail(p), v, x) \/ (At(Api, v) /\ On(Api) = x)
      /\ \A b : Follows(p, 1, b) =>
           \/ At(Api, "bind") /\ On(Api) = b[1] /\ h.as.key = b[2]
           \/ Follows(Tail(p), 1, b)
    BY <1>1, RestOf DEF At, On
<1>4. \A x : Has(Tail(p), "remove", x) <=> Has(p, "remove", x)
    BY <1>3
<1>5. Remaining' = Remaining
    BY <1>1, <1>4, RemainingSame
<1>6. ManagerInv'
    BY <1>1 DEF ManagerInv
<1>7. doubt' = doubt \/ h.do = "exchange"
    BY DEF PutsRight, At
<1>8. FitInv'
  <2>1. Suits(p, Remaining, doubt)
    BY <1>2 DEF FitInv
  <2>2. Suits(Tail(p), Remaining, doubt')
    BY <1>7, <2>1, TailSuits
  <2>3. \A n : Has(p, "remove", n) => Listed(n)
    BY <1>2 DEF FitInv
  <2>4. \A n : Listed(n)' = Listed(n)
    BY DEF Listed, Named
  <2>5. QED
    BY <1>1, <1>4, <1>5, <2>2, <2>3, <2>4 DEF FitInv
<1>9. ASSUME phase' # "down", NEW e, Sole(Remaining, e), e.name \notin spoiled'
      PROVE  Given(Tail(p), exchange', bound', doubt', e)
  <2>1. e.name \in spoiled => At(Api, "exchange") /\ On(Api) = e.name
    BY <1>9 DEF PutsRight
  <2>2. e.name \notin spoiled => Given(p, exchange, bound, doubt, e)
    BY <1>2, <1>9 DEF ForceInv
  <2>3. CASE e.name \in doubt'
    <3>1. e.name \in doubt /\ ~(At(Api, "exchange") /\ On(Api) = e.name)
      BY <1>9, <2>3 DEF PutsRight
    <3>2. Has(Tail(p), "exchange", e.name)
      BY <1>3, <2>1, <2>2, <3>1 DEF Given
    <3>3. QED
      BY <2>3, <3>2 DEF Given
  <2>4. CASE e.name \notin doubt' /\ At(Api, "exchange") /\ On(Api) = e.name
    <3>1. Forced(e)
      BY <1>9, <2>4
    <3>2. \A b \in Needs(e) : Follows(p, 1, b)
      BY <1>1, <1>9, <2>4 DEF Proper, Counts, At, On
    <3>3. \A b \in Needs(e) : Follows(Tail(p), 1, b)
      BY <1>3, <2>4, <3>2 DEF At
    <3>4. QED
      BY <2>4, <3>1, <3>3 DEF Given, Forced
  <2>5. CASE e.name \notin doubt' /\ ~(At(Api, "exchange") /\ On(Api) = e.name)
    <3>1. Forced(e)
      BY <1>9, <2>5
    <3>2. e.name \notin spoiled /\ e.name \notin doubt
      BY <2>1, <2>5 DEF PutsRight
    <3>3. exchange[e.name] = e.mode /\ \A b \in Needs(e) : b \in bound \/ Follows(p, 1, b)
      BY <2>2, <3>2 DEF Given
    <3>4. exchange'[e.name] = e.mode
      BY <2>5, <3>1, <3>3 DEF Forced
    <3>5. ASSUME NEW b \in Needs(e) PROVE b \in bound' \/ Follows(Tail(p), 1, b)
      BY <1>1, <1>3, <3>1, <3>3 DEF Forced
    <3>6. QED
      BY <2>5, <3>4, <3>5 DEF Given
  <2>6. QED
    BY <2>3, <2>4, <2>5
<1>10. ForceInv'
    BY <1>1, <1>5, <1>9 DEF ForceInv
<1>11. QueueInv'
  <2> SUFFICES ASSUME NEW k \in queues'
               PROVE  Lists(Remaining, k) \/ k \in left' \/ Has(Tail(p), "deleteQueue", k)
    BY <1>1, <1>5 DEF QueueInv
  <2>1. k \in queues \/ Lists(Remaining, k) \/ k \in left'
    BY DEF QueuesKept
  <2>2. k \in queues => Lists(Remaining, k) \/ k \in left' \/ Has(p, "deleteQueue", k)
    BY <1>2 DEF QueueInv, QueuesKept
  <2>3. Has(p, "deleteQueue", k) => Has(Tail(p), "deleteQueue", k)
    BY <1>3
  <2>4. QED
    BY <2>1, <2>2, <2>3
<1>12. QED
    BY <1>6, <1>8, <1>10, <1>11

(* A step that moves no worker and takes no item from one.                 *)
LEMMA WorkersKept ==
    ASSUME ServiceInv, \A k \in Keys : prog'[k] = prog[k] /\ wpc'[k] = wpc[k],
           \A k \in Keys : item'[k] = None => wpc[k] = "none" \/ item[k] = None
    PROVE  WorkerInv'
BY DEF ServiceInv, WorkerInv, Working

(* A worker's step in its set-up.                                          *)
LEMMA WorkerMoves ==
    ASSUME ServiceInv, NEW k \in Keys, prog[k] # <<>>, Done(k), UNCHANGED item,
           \A j \in Keys \ {k} : wpc'[j] = wpc[j],
           wpc'[k] = IF At(k, "consume") THEN "loop" ELSE wpc[k]
    PROVE  WorkerInv'
<1> SUFFICES ASSUME NEW j \in Keys PROVE Working(j)'
    BY DEF WorkerInv
<1>1. Working(j) /\ Working(k)
    BY DEF ServiceInv, WorkerInv
<1>2. CASE j # k
    BY <1>1, <1>2, WorkerDone DEF Working
<1>3. CASE j = k
  <2>1. /\ prog'[k] \in Seq(WorkerCalls(k))
        /\ \A i \in 1..Len(prog'[k]) : prog'[k][i].do = "consume" => i = Len(prog'[k])
        /\ Head(prog[k]).do = "consume" => prog'[k] = <<>>
    BY WorkerDone
  <2>2. wpc[k] = "setup" /\ item[k] # None
    BY <1>1 DEF Working
  <2>3. prog'[k] # <<>> => wpc'[k] = "setup"
    BY <2>1, <2>2 DEF At
  <2>4. QED
    BY <1>3, <2>1, <2>2, <2>3 DEF Working
<1>4. QED
    BY <1>2, <1>3

-----------------------------------------------------------------------------
(* Steps: the calls                                                        *)

(* What an actor's next call is about.                                     *)
LEMMA CallOf ==
    ASSUME ServiceInv, NEW a \in Actors, prog[a] # <<>>
    PROVE  /\ NameOf(On(a)) \in Names
           /\ On(a) \in Names => NameOf(On(a)) = On(a)
           /\ On(a) \in Keys => NameOf(On(a)) = On(a)[1]
           /\ Head(prog[a]).as.mode \in Modes
           /\ At(a, "exchange") => On(a) \in Names
           /\ At(a, "queue") \/ At(a, "bind") \/ At(a, "consume") => On(a) \in Keys
           /\ At(a, "bind") => Head(prog[a]).as.key \in Routes
           /\ a \in Keys => On(a) = IF At(a, "exchange") THEN a[1] ELSE a
<1> DEFINE h == Head(prog[a])
<1>1. /\ h \in CallSet
      /\ h.do = "exchange" => h.on \in Names
      /\ h.do \in {"queue", "bind", "consume"} => h.on \in Keys
      /\ h.do = "bind" => h.as \in ItemSet
      /\ a \in Keys => h.on = IF h.do = "exchange" THEN a[1] ELSE a
  <2>1. CASE a = Api
    <3>1. h \in ApiCalls
      <4>1. prog[Api] \in Seq(ApiCalls)
        BY RemainingOf DEF ServiceInv, Types
      <4>2. QED
        BY <2>1, <4>1, RestOf
    <3>2. a \notin Keys
      BY <2>1, Actor
    <3>3. QED
      BY <3>1, <3>2 DEF ApiCalls, OnNames
  <2>2. CASE a # Api
    <3>1. a \in Keys /\ a[1] \in Names
      BY <2>2, Actor
    <3>2. prog[a] \in Seq(WorkerCalls(a))
      BY <3>1 DEF ServiceInv, WorkerInv, Working
    <3>3. h \in WorkerCalls(a)
      BY <3>2, TailOf
    <3>4. QED
      BY <3>1, <3>3 DEF WorkerCalls
  <2>3. QED
    BY <2>1, <2>2
<1>2. h.on \in Keys \cup Names /\ h.as \in Settings
    BY <1>1 DEF CallSet
<1>3. NameOf(h.on) \in Names /\ (h.on \in Names => NameOf(h.on) = h.on)
      /\ (h.on \in Keys => NameOf(h.on) = h.on[1])
    BY <1>2, NameIs
<1>4. h.as.mode \in Modes /\ (h.as \in ItemSet => h.as.key \in Routes)
    BY <1>2, ItemIs
<1>5. QED
    BY <1>1, <1>3, <1>4 DEF At, On

(* What the types say of a step that touches only programs and the broker. *)
LEMMA TypesKept ==
    ASSUME ServiceInv, UNCHANGED <<confVars, workers>>,
           prog' \in [Actors -> Seq(CallSet)], try' \in [Actors -> 0..3],
           exchange' \in [Names -> Modes \cup {None}], queues' \subseteq Keys,
           bound' \subseteq queues' \X Routes, subscribed' \subseteq queues' \cap Running,
           doubt' \subseteq Names, spoiled' \subseteq Names, left' \subseteq Keys
    PROVE  Types'
<1>1. Types /\ Registered' = Registered /\ Running' = Running
    BY DEF ServiceInv, workers, Registered, Running
<1>2. UNCHANGED <<conf, used, vacant, look, phase, wpc, item, asked>>
    BY DEF confVars, workers
<1>3. QED
    BY <1>1, <1>2 DEF Types

(* An exchange or a queue is declared: by the operation with the mode      *)
(* listed; by a worker only what was not there, or what agrees.            *)
LEMMA DeclareStep == ASSUME ServiceInv, NEW a \in Actors, Declare(a) PROVE ServiceInv'
<1>1. /\ prog[a] # <<>> /\ Done(a)
      /\ UNCHANGED <<confVars, workers, bound, subscribed, faults>>
      /\ At(a, "exchange") \/ At(a, "queue")
    BY DEF Declare, Declaring, At
<1>2. /\ At(a, "exchange") => On(a) \in Names /\ NameOf(On(a)) = On(a)
      /\ At(a, "queue") => On(a) \in Keys
      /\ Head(prog[a]).as.mode \in Modes
  <2>1. prog[a] # <<>>
    BY <1>1
  <2>2. Head(prog[a]).as.mode \in Modes
    BY <2>1, CallOf
  <2>3. At(a, "exchange") => On(a) \in Names /\ NameOf(On(a)) = On(a)
    BY <2>1, CallOf
  <2>4. At(a, "queue") => On(a) \in Keys
    BY <2>1, CallOf
  <2>5. QED
    BY <2>2, <2>3, <2>4
<1>3. CASE At(a, "exchange")
  <2>1. /\ exchange' = [exchange EXCEPT ![On(a)] = Head(prog[a]).as.mode]
        /\ ExchangeAgrees(a) /\ UNCHANGED <<queues, left>>
        /\ IF a = Api THEN doubt' = doubt \ {On(a)} /\ spoiled' = spoiled \ {On(a)}
           ELSE UNCHANGED <<doubt, spoiled>>
        /\ ~At(a, "queue")
    BY <1>3 DEF Declare, At, force
  <2>2. /\ exchange' \in [Names -> Modes \cup {None}]
        /\ \A n \in Names : exchange'[n] = IF n = On(a) THEN Head(prog[a]).as.mode ELSE exchange[n]
    BY <1>2, <1>3, <2>1 DEF ServiceInv, Types
  <2>3. /\ doubt' \subseteq Names /\ spoiled' \subseteq Names /\ left' \subseteq Keys
        /\ queues' \subseteq Keys /\ bound' \subseteq queues' \X Routes
        /\ subscribed' \subseteq queues' \cap Running
    BY <1>1, <2>1 DEF ServiceInv, Types
  <2>4. QueuesKept
    BY <2>1 DEF QueuesKept
  <2>5. CASE a = Api
    <3>1. /\ prog' \in [Actors -> Seq(CallSet)] /\ try' \in [Actors -> 0..3]
          /\ \A k \in Keys : prog'[k] = prog[k]
          /\ Head(prog[Api]) = prog[Api][1]
          /\ Proper(prog[Api], Remaining, doubt, 1) \/ Counts(prog[Api], Remaining)
      BY <1>1, <2>5, ApiDone
    <3>2. Types'
      BY <1>1, <2>2, <2>3, <3>1, TypesKept
    <3>3. WorkerInv'
      BY <1>1, <3>1, WorkersKept DEF workers
    <3>4. PutsRight /\ ~At(Api, "remove") /\ ~At(Api, "bind") /\ ~At(Api, "deleteQueue")
      BY <1>3, <2>1, <2>5 DEF PutsRight, At
    <3>5. ASSUME NEW e, Sole(Remaining, e) PROVE Forced(e)
      <4>1. e.name \in Names
        BY <3>5, SoleIs, RemainingOf DEF ServiceInv, Types
      <4>2. On(Api) = e.name => Head(prog[Api]).as.mode = e.mode
        BY <1>3, <2>5, <3>1, <3>5 DEF Proper, Counts, At, On
      <4>3. QED
        BY <1>1, <1>3, <2>2, <2>5, <3>4, <4>1, <4>2 DEF Forced
    <3>6. ManagerInv' /\ FitInv' /\ ForceInv' /\ QueueInv'
      BY <1>1, <2>4, <2>5, <3>4, <3>5, ForceDone DEF confVars
    <3>7. QED
      BY <3>2, <3>3, <3>6 DEF ServiceInv
  <2>6. CASE a # Api
    <3>1. a \in Keys
      BY <2>6, Actor
    <3>2. /\ prog' \in [Actors -> Seq(CallSet)] /\ try' \in [Actors -> 0..3]
          /\ prog'[Api] = prog[Api] /\ try'[Api] = try[Api]
      BY <1>1, <3>1, WorkerDone
    <3>3. Types'
      BY <1>1, <2>2, <2>3, <3>2, TypesKept
    <3>4. ~At(a, "consume") /\ UNCHANGED <<item, wpc>>
      BY <1>1, <1>3 DEF At, workers
    <3>5. WorkerInv'
      BY <1>1, <3>1, <3>4, WorkerMoves
    <3>6. ASSUME NEW e, Sole(Remaining, e) PROVE Undisturbed(e)
      <4>1. e.name \in Names /\ e.mode # None
        BY <3>6, SoleIs, RemainingOf DEF ServiceInv, Types
      <4>2. exchange[e.name] = e.mode => exchange'[e.name] = e.mode
        BY <2>1, <2>2, <4>1 DEF ExchangeAgrees
      <4>3. QED
        BY <1>1, <4>2 DEF Undisturbed
    <3>7. ManagerInv' /\ FitInv' /\ ForceInv' /\ QueueInv'
      BY <1>1, <2>1, <2>4, <2>6, <3>2, <3>4, <3>6, Aside DEF confVars
    <3>8. QED
      BY <3>3, <3>5, <3>7 DEF ServiceInv
  <2>7. QED
    BY <2>5, <2>6
<1>4. CASE At(a, "queue")
  <2>1. /\ queues' = queues \cup {On(a)} /\ UNCHANGED <<exchange, doubt, spoiled>>
        /\ left' = IF a # Api /\ ~Lists(Remaining, On(a)) THEN left \cup {On(a)} ELSE left
        /\ ~At(a, "exchange")
    BY <1>4 DEF Declare, At, force
  <2>2. /\ doubt' \subseteq Names /\ spoiled' \subseteq Names /\ left' \subseteq Keys
        /\ exchange' \in [Names -> Modes \cup {None}]
        /\ queues' \subseteq Keys /\ bound' \subseteq queues' \X Routes
        /\ subscribed' \subseteq queues' \cap Running
    BY <1>1, <1>2, <1>4, <2>1 DEF ServiceInv, Types
  <2>3. CASE a = Api
    <3>1. /\ prog' \in [Actors -> Seq(CallSet)] /\ try' \in [Actors -> 0..3]
          /\ \A k \in Keys : prog'[k] = prog[k]
          /\ Head(prog[Api]) = prog[Api][1]
          /\ Proper(prog[Api], Remaining, doubt, 1) \/ Counts(prog[Api], Remaining)
      BY <1>1, <2>3, ApiDone
    <3>2. Types'
      BY <1>1, <2>2, <3>1, TypesKept
    <3>3. WorkerInv'
      BY <1>1, <3>1, WorkersKept DEF workers
    <3>4. PutsRight /\ ~At(Api, "remove") /\ ~At(Api, "bind") /\ ~At(Api, "deleteQueue")
      BY <1>4, <2>1, <2>3 DEF PutsRight, At
    <3>5. \A e : Forced(e)
      BY <1>1, <2>1, <2>3, <3>4 DEF Forced
    <3>6. Lists(Remaining, On(Api))
      BY <1>4, <2>3, <3>1 DEF Proper, Counts, At, On
    <3>7. QueuesKept
      BY <2>1, <2>3, <3>6 DEF QueuesKept
    <3>8. ManagerInv' /\ FitInv' /\ ForceInv' /\ QueueInv'
      BY <1>1, <2>3, <3>4, <3>5, <3>7, ForceDone DEF confVars
    <3>9. QED
      BY <3>2, <3>3, <3>8 DEF ServiceInv
  <2>4. CASE a # Api
    <3>1. a \in Keys
      BY <2>4, Actor
    <3>2. /\ prog' \in [Actors -> Seq(CallSet)] /\ try' \in [Actors -> 0..3]
          /\ prog'[Api] = prog[Api] /\ try'[Api] = try[Api]
      BY <1>1, <3>1, WorkerDone
    <3>3. Types'
      BY <1>1, <2>2, <3>2, TypesKept
    <3>4. ~At(a, "consume") /\ UNCHANGED <<item, wpc>>
      BY <1>1, <1>4 DEF At, workers
    <3>5. WorkerInv'
      BY <1>1, <3>1, <3>4, WorkerMoves
    <3>6. \A e : Undisturbed(e)
      BY <1>1, <2>1 DEF Undisturbed
    <3>7. QueuesKept
      BY <2>1, <2>4 DEF QueuesKept
    <3>8. ManagerInv' /\ FitInv' /\ ForceInv' /\ QueueInv'
      BY <1>1, <2>1, <3>2, <3>4, <3>6, <3>7, Aside DEF confVars
    <3>9. QED
      BY <3>3, <3>5, <3>8 DEF ServiceInv
  <2>5. QED
    BY <2>3, <2>4
<1>5. QED
    BY <1>1, <1>3, <1>4

(* A declaration that is tried once more, or whose delete is.              *)
LEMMA AgainStep ==
    ASSUME ServiceInv, NEW a \in Actors, NEW t \in 0..3, Again(a, t),
           At(a, "exchange") \/ At(a, "queue"),
           UNCHANGED <<confVars, workers, broker, force, left>>
    PROVE  ServiceInv'
<1>1. prog' = prog /\ try' = [try EXCEPT ![a] = t]
    BY DEF Again, Try
<1>2. /\ prog' \in [Actors -> Seq(CallSet)]
      /\ try' \in [Actors -> 0..3] /\ \A b \in Actors \ {a} : try'[b] = try[b]
    BY <1>1 DEF ServiceInv, Types
<1>3. UNCHANGED <<conf, phase, item, wpc, exchange, queues, bound, subscribed, doubt, spoiled, left>>
    BY DEF confVars, workers, broker, force
<1>4. Types'
    BY <1>2, <1>3, TypesKept DEF ServiceInv, Types
<1>5. WorkerInv'
    BY <1>1, <1>3, WorkersKept
<1>6. FitInv' /\ ForceInv' /\ QueueInv'
    BY <1>1, <1>3, ForceKept DEF Undisturbed, QueuesKept
<1>7. ManagerInv'
  <2>1. CASE a = Api
    BY <1>1, <2>1 DEF ManagerInv, At, Idle
  <2>2. CASE a # Api
    <3>1. try'[Api] = try[Api]
      BY <1>2, <2>2, Actor
    <3>2. ManagerInv
      BY DEF ServiceInv
    <3>3. QED
      BY <1>1, <1>3, <3>1, <3>2 DEF ManagerInv, At, On, Idle
  <2>3. QED
    BY <2>1, <2>2
<1>8. QED
    BY <1>4, <1>5, <1>6, <1>7 DEF ServiceInv

(* A declaration fails, and the object is deleted next.                    *)
LEMMA DeclareRefusedStep ==
    ASSUME ServiceInv, NEW a \in Actors, DeclareRefused(a) PROVE ServiceInv'
<1>1. try[a] + 1 \in 0..3
    BY DEF DeclareRefused, Declaring
<1>2. QED
    BY <1>1, AgainStep DEF DeclareRefused, history

(* It may fail for the broker's reasons, ...                               *)
LEMMA DeclareFaultStep ==
    ASSUME ServiceInv, NEW a \in Actors, DeclareFault(a) PROVE ServiceInv'
<1>1. try[a] + 1 \in 0..3
    BY DEF DeclareFault, Declaring
<1>2. At(a, "exchange") \/ At(a, "queue")
    BY DEF DeclareFault, Declaring
<1>3. QED
    BY <1>1, <1>2, AgainStep DEF DeclareFault

(* ... and so may the delete.                                              *)
LEMMA ClearFaultStep ==
    ASSUME ServiceInv, NEW a \in Actors, ClearFault(a) PROVE ServiceInv'
<1>1. At(a, "exchange") \/ At(a, "queue")
    BY DEF ClearFault, Clearing
<1>2. 2 \in 0..3
    OBVIOUS
<1>3. QED
    BY <1>1, <1>2, AgainStep DEF ClearFault

(* What a delete leaves.                                                   *)
LEMMA Dropped ==
    ASSUME ServiceInv, NEW x,
           \/ x \in Names /\ DropExchange(x)
           \/ x \in Keys /\ DropQueue(x)
    PROVE  /\ exchange' \in [Names -> Modes \cup {None}] /\ queues' \subseteq Keys
           /\ bound' \subseteq queues' \X Routes /\ subscribed' \subseteq queues' \cap subscribed
           /\ left' \subseteq Keys /\ QueuesKept
           /\ \A n \in Names \ {NameOf(x)} : exchange'[n] = exchange[n]
           /\ \A b \in bound : b[1][1] # NameOf(x) => b \in bound'
           /\ x \in Keys => /\ exchange' = exchange /\ x \notin queues'
                            /\ \A b \in bound : b[1] # x => b \in bound'
<1>1. CASE x \in Names /\ DropExchange(x)
  <2>1. NameOf(x) = x /\ x \notin Keys
    BY <1>1, Actor DEF NameOf
  <2>2. QED
    BY <1>1, <2>1 DEF DropExchange, ServiceInv, Types, QueuesKept
<1>2. CASE x \in Keys /\ DropQueue(x)
  <2>1. NameOf(x) = x[1]
    BY <1>2, Actor DEF NameOf
  <2>2. bound' \subseteq queues' \X Routes
    BY <1>2 DEF DropQueue, ServiceInv, Types
  <2>3. QED
    BY <1>2, <2>1, <2>2 DEF DropQueue, ServiceInv, Types, QueuesKept
<1>3. QED
    BY <1>1, <1>2

(* The delete after a failure: a message whose objects it takes is         *)
(* spoiled, unless the operation binds the queue again.                    *)
LEMMA ClearStep == ASSUME ServiceInv, NEW a \in Actors, Clear(a) PROVE ServiceInv'
<1> DEFINE x == On(a)
<1>1. /\ At(a, "exchange") \/ At(a, "queue")
      /\ IF At(a, "exchange") THEN DropExchange(x) ELSE DropQueue(x)
      /\ UNCHANGED <<confVars, workers, doubt, faults>>
      /\ prog[a] # <<>>
    BY DEF Clear, Clearing, At
<1>2. prog[a] # <<>>
    BY <1>1
<1>3. /\ At(a, "exchange") => x \in Names
      /\ At(a, "queue") => x \in Keys
      /\ NameOf(x) \in Names
    BY <1>2, CallOf
<1>4. \/ x \in Names /\ DropExchange(x)
      \/ x \in Keys /\ DropQueue(x)
    BY <1>1, <1>3
<1>5. /\ exchange' \in [Names -> Modes \cup {None}] /\ queues' \subseteq Keys
      /\ bound' \subseteq queues' \X Routes /\ subscribed' \subseteq queues' \cap subscribed
      /\ left' \subseteq Keys /\ QueuesKept
      /\ \A n \in Names \ {NameOf(x)} : exchange'[n] = exchange[n]
      /\ \A b \in bound : b[1][1] # NameOf(x) => b \in bound'
      /\ x \in Keys => exchange' = exchange /\ \A b \in bound : b[1] # x => b \in bound'
    BY <1>4, Dropped
<1>6. /\ spoiled \subseteq spoiled' /\ spoiled' \subseteq Names
      /\ NameOf(x) \in spoiled' \/ Rebinds(a)
    BY <1>3 DEF Clear, ServiceInv, Types
<1>7. doubt' \subseteq Names /\ subscribed' \subseteq queues' \cap Running
    BY <1>1, <1>5 DEF ServiceInv, Types
<1> HIDE DEF x
<1>8. ASSUME NEW e, Sole(Remaining, e), e.name # NameOf(x)
      PROVE  exchange'[e.name] = exchange[e.name] /\ \A b \in Needs(e) : b \in bound => b \in bound'
  <2>1. e.name \in Names
    BY <1>8, SoleIs, RemainingOf DEF ServiceInv, Types
  <2>2. QED
    BY <1>5, <1>8, <2>1 DEF Needs
<1>9. CASE Again(a, 2)
  <2>1. prog' = prog /\ try' = [try EXCEPT ![a] = 2] /\ 2 \in 0..3
    BY <1>9 DEF Again, Try
  <2>2. /\ prog' \in [Actors -> Seq(CallSet)]
        /\ try' \in [Actors -> 0..3] /\ \A b \in Actors \ {a} : try'[b] = try[b]
    BY <2>1 DEF ServiceInv, Types
  <2>3. Types'
    BY <1>1, <1>5, <1>6, <1>7, <2>2, TypesKept
  <2>4. WorkerInv'
    BY <1>1, <2>1, WorkersKept DEF workers
  <2>5. ASSUME NEW e, Sole(Remaining, e), e.name \notin spoiled' PROVE Undisturbed(e)
    <3>1. CASE e.name # NameOf(x)
      BY <1>8, <2>5, <3>1 DEF Undisturbed
    <3>2. CASE e.name = NameOf(x)
      <4>1. a = Api /\ At(Api, "queue") /\ Len(prog[Api]) > 1 /\ x \in Keys
        BY <1>3, <1>6, <2>5, <3>2 DEF Rebinds
      <4>2. Fit(prog[Api], Remaining, doubt)
        <5>1. Suits(prog[Api], Remaining, doubt)
          BY DEF ServiceInv, FitInv
        <5>2. ~(Len(prog[Api]) = 1)
          <6>1. ~(1 > 1)
            OBVIOUS
          <6>2. QED
            BY <4>1, <6>1, Zenon
        <5>3. QED
          BY <5>1, <5>2 DEF Suits, Counts
      <4>3. 1 \in 1..Len(prog[Api]) /\ Head(prog[Api]) = prog[Api][1]
        BY <1>2, <4>1, <4>2, TailOf DEF Fit
      <4>4. \A b \in Needs(e) : b[1] = x => Follows(prog[Api], 1, b)
        BY <2>5, <4>1, <4>2, <4>3 DEF Fit, Proper, At, On, x
      <4>5. QED
        BY <1>5, <4>1, <4>4 DEF Undisturbed
    <3>3. QED
      BY <3>1, <3>2
  <2>6. FitInv' /\ ForceInv' /\ QueueInv'
    BY <1>1, <1>5, <1>6, <2>1, <2>5, ForceKept DEF confVars
  <2>7. ManagerInv'
    <3>1. CASE a = Api
      BY <1>1, <2>1, <3>1 DEF ManagerInv, At, Idle
    <3>2. CASE a # Api
      <4>1. try'[Api] = try[Api]
        BY <2>2, <3>2, Actor
      <4>2. ManagerInv /\ item' = item
        BY <1>1 DEF ServiceInv, workers
      <4>3. QED
        BY <2>1, <4>1, <4>2 DEF ManagerInv, At, On, Idle
    <3>3. QED
      BY <3>1, <3>2
  <2>8. QED
    BY <2>3, <2>4, <2>6, <2>7 DEF ServiceInv
<1>10. CASE Done(a) /\ try[a] # 1
  <2>1. NameOf(x) \in spoiled'
    BY <1>6, <1>10 DEF Rebinds
  <2>2. \A e : Sole(Remaining, e) /\ e.name \notin spoiled' => e.name # NameOf(x)
    BY <2>1
  <2>3. CASE a = Api
    <3>1. /\ prog' \in [Actors -> Seq(CallSet)] /\ try' \in [Actors -> 0..3]
          /\ \A k \in Keys : prog'[k] = prog[k]
      BY <1>2, <1>10, <2>3, ApiDone
    <3>2. Types'
      BY <1>1, <1>5, <1>6, <1>7, <3>1, TypesKept
    <3>3. WorkerInv'
      BY <1>1, <3>1, WorkersKept DEF workers
    <3>4. ~At(Api, "remove") /\ ~At(Api, "bind") /\ ~At(Api, "deleteQueue")
      BY <1>1, <2>3 DEF At
    <3>5. PutsRight
      <4>1. At(Api, "exchange") => On(Api) \in spoiled'
        BY <1>3, <2>1, <2>3, CallOf DEF x, NameOf
      <4>2. QED
        BY <1>1, <1>6, <4>1 DEF PutsRight
    <3>6. ASSUME NEW e, Sole(Remaining, e), e.name \notin spoiled' PROVE Forced(e)
      <4>1. e.name # NameOf(x)
        BY <2>2, <3>6
      <4>2. ~(At(Api, "exchange") /\ On(Api) = e.name)
        BY <1>3, <2>3, <4>1 DEF x, NameOf
      <4>3. QED
        BY <1>8, <3>4, <3>6, <4>1, <4>2 DEF Forced
    <3>7. ManagerInv' /\ FitInv' /\ ForceInv' /\ QueueInv'
      BY <1>1, <1>5, <1>10, <2>3, <3>4, <3>5, <3>6, ForceDone DEF confVars
    <3>8. QED
      BY <3>2, <3>3, <3>7 DEF ServiceInv
  <2>4. CASE a # Api
    <3>1. a \in Keys
      BY <2>4, Actor
    <3>2. /\ prog' \in [Actors -> Seq(CallSet)] /\ try' \in [Actors -> 0..3]
          /\ prog'[Api] = prog[Api] /\ try'[Api] = try[Api]
      BY <1>2, <1>10, <3>1, WorkerDone
    <3>3. Types'
      BY <1>1, <1>5, <1>6, <1>7, <3>2, TypesKept
    <3>4. ~At(a, "consume") /\ UNCHANGED <<item, wpc>>
      BY <1>1 DEF At, workers
    <3>5. WorkerInv'
      BY <1>2, <1>10, <3>1, <3>4, WorkerMoves
    <3>6. \A e : Sole(Remaining, e) /\ e.name \notin spoiled' => Undisturbed(e)
      BY <1>8, <2>2 DEF Undisturbed
    <3>7. ManagerInv' /\ FitInv' /\ ForceInv' /\ QueueInv'
      BY <1>1, <1>5, <1>6, <3>2, <3>4, <3>6, Aside DEF confVars
    <3>8. QED
      BY <3>3, <3>5, <3>7 DEF ServiceInv
  <2>5. QED
    BY <2>3, <2>4
<1>11. QED
    BY <1>9, <1>10 DEF Clear

(* A queue is bound.                                                       *)
LEMMA BindStep == ASSUME ServiceInv, NEW a \in Actors, Bind(a) PROVE ServiceInv'
<1> DEFINE r == Head(prog[a]).as.key
<1>1. /\ prog[a] # <<>> /\ Done(a) /\ At(a, "bind")
      /\ UNCHANGED <<confVars, workers, exchange, queues, subscribed, doubt, spoiled, left>>
      /\ bound' = bound \cup {<<On(a), r>>} /\ On(a) \in queues
    BY DEF Bind, At, Bindable, history, force
<1>2. r \in Routes
  <2>1. prog[a] # <<>> /\ At(a, "bind")
    BY <1>1
  <2>2. QED
    BY <2>1, CallOf
<1>3. /\ exchange' \in [Names -> Modes \cup {None}] /\ queues' \subseteq Keys
      /\ bound' \subseteq queues' \X Routes /\ subscribed' \subseteq queues' \cap Running
      /\ doubt' \subseteq Names /\ spoiled' \subseteq Names /\ left' \subseteq Keys
    BY <1>1, <1>2 DEF ServiceInv, Types
<1>4. QueuesKept
    BY <1>1 DEF QueuesKept
<1>5. CASE a = Api
  <2>1. /\ prog' \in [Actors -> Seq(CallSet)] /\ try' \in [Actors -> 0..3]
        /\ \A k \in Keys : prog'[k] = prog[k]
    BY <1>1, <1>5, ApiDone
  <2>2. Types'
    BY <1>1, <1>3, <2>1, TypesKept
  <2>3. WorkerInv'
    BY <1>1, <2>1, WorkersKept DEF workers
  <2>4. ~At(Api, "remove") /\ ~At(Api, "exchange") /\ ~At(Api, "deleteQueue") /\ PutsRight
    BY <1>1, <1>5 DEF At, PutsRight
  <2>5. ASSUME NEW e PROVE Forced(e)
    <3>1. \A b \in Needs(e) : b = <<b[1], b[2]>>
      BY DEF Needs
    <3>2. \A b \in Needs(e) : On(Api) = b[1] /\ Head(prog[Api]).as.key = b[2] => b \in bound'
      BY <1>1, <1>5, <3>1
    <3>3. QED
      BY <1>1, <2>4, <3>2 DEF Forced
  <2>6. ManagerInv' /\ FitInv' /\ ForceInv' /\ QueueInv'
    BY <1>1, <1>4, <1>5, <2>4, <2>5, ForceDone DEF confVars
  <2>7. QED
    BY <2>2, <2>3, <2>6 DEF ServiceInv
<1>6. CASE a # Api
  <2>1. a \in Keys
    BY <1>6, Actor
  <2>2. /\ prog' \in [Actors -> Seq(CallSet)] /\ try' \in [Actors -> 0..3]
        /\ prog'[Api] = prog[Api] /\ try'[Api] = try[Api]
    BY <1>1, <2>1, WorkerDone
  <2>3. Types'
    BY <1>1, <1>3, <2>2, TypesKept
  <2>4. ~At(a, "consume") /\ UNCHANGED <<item, wpc>>
    BY <1>1 DEF At, workers
  <2>5. WorkerInv'
    BY <1>1, <2>1, <2>4, WorkerMoves
  <2>6. \A e : Undisturbed(e)
    BY <1>1 DEF Undisturbed
  <2>7. ManagerInv' /\ FitInv' /\ ForceInv' /\ QueueInv'
    BY <1>1, <1>4, <2>2, <2>4, <2>6, Aside DEF confVars
  <2>8. QED
    BY <2>3, <2>5, <2>7 DEF ServiceInv
<1>7. QED
    BY <1>5, <1>6

(* When nothing is left to do the messages that remain are the messages.   *)
LEMMA NothingRemains ==
    (prog[Api] = <<>> => Remaining = conf) /\ (prog'[Api] = <<>> => Remaining' = conf')
<1>1. DOMAIN <<>> = {}
    OBVIOUS
<1>2. prog[Api] = <<>> => Pending("remove") = {}
    BY <1>1 DEF Pending
<1>3. prog'[Api] = <<>> => Pending("remove")' = {}
    BY <1>1 DEF Pending
<1>4. QED
    BY <1>2, <1>3 DEF Remaining

(* A call of the operation has failed, and it is over.                     *)
LEMMA FailsOver ==
    ASSUME ServiceInv, prog[Api] # <<>>, prog'[Api] = <<>>, UNCHANGED <<conf, exchange, queues, bound>>,
           phase' = phase \/ phase' = "down", phase # "down" \/ phase' = "down",
           spoiled' = spoiled \cup doubt \cup {NameOf(On(Api))}, doubt' = {},
           left' = left \cup Pending("deleteQueue")
    PROVE  /\ FitInv' /\ ForceInv' /\ QueueInv'
           /\ spoiled' \subseteq Names /\ left' \subseteq Keys
<1> DEFINE p == prog[Api]
<1>1. conf \in Seq(Message) /\ FitInv /\ ForceInv /\ QueueInv
    BY DEF ServiceInv, Types
<1>2. /\ \A k : Lists(Remaining, k) => Lists(conf, k)
      /\ \A e : e.name \notin doubt => (Sole(Remaining, e) <=> Sole(conf, e))
      /\ p \in Seq(ApiCalls)
    BY <1>1, RemainingOf
<1>3. Remaining' = conf
    BY NothingRemains
<1>4. FitInv'
  <2>1. Suits(<<>>, Remaining', doubt') /\ \A n : ~Has(<<>>, "remove", n)
    BY NoProgram
  <2>2. QED
    BY <2>1 DEF FitInv
<1>5. ASSUME phase # "down", NEW e, Sole(conf, e), e.name \notin spoiled'
      PROVE  Given(<<>>, exchange', bound', doubt', e)
  <2>1. Sole(Remaining, e) /\ e.name \notin spoiled /\ e.name \notin doubt
    BY <1>2, <1>5
  <2>2. Given(p, exchange, bound, doubt, e)
    BY <1>1, <1>5, <2>1 DEF ForceInv
  <2>3. exchange[e.name] = e.mode /\ \A b \in Needs(e) : b \in bound \/ Follows(p, 1, b)
    BY <2>1, <2>2 DEF Given
  <2>4. ASSUME NEW b \in Needs(e), Follows(p, 1, b) PROVE FALSE
    <3>1. NameOf(On(Api)) = b[1][1]
      BY <1>2, <2>4, RestOf DEF On
    <3>2. b[1][1] = e.name
      BY DEF Needs
    <3>3. QED
      BY <1>5, <3>1, <3>2
  <2>5. QED
    BY <2>3, <2>4 DEF Given
<1>6. ForceInv'
    BY <1>3, <1>5 DEF ForceInv
<1>7. \A k : Has(p, "deleteQueue", k) <=> k \in Pending("deleteQueue")
    BY <1>2, PendingHas
<1>8. QueueInv'
  <2> SUFFICES ASSUME NEW k \in queues PROVE Lists(conf, k) \/ k \in left'
    BY <1>3 DEF QueueInv
  <2>1. Lists(Remaining, k) \/ k \in left \/ Has(p, "deleteQueue", k)
    BY <1>1 DEF QueueInv
  <2>2. QED
    BY <1>2, <1>7, <2>1
<1>9. left' \subseteq Keys
  <2>1. \A k : Has(p, "deleteQueue", k) => k \in Keys
    BY <1>2, ElementOfSeq DEF Has, ApiCalls, OnNames
  <2>2. QED
    BY <1>7, <2>1 DEF ServiceInv, Types
<1>10. spoiled' \subseteq Names
  <2>1. NameOf(On(Api)) \in Names
    BY Actor, CallOf
  <2>2. QED
    BY <2>1 DEF ServiceInv, Types
<1>11. QED
    BY <1>4, <1>6, <1>8, <1>9, <1>10

(* A call has failed: of an operation's message, and of those it had to    *)
(* put right, nothing is promised any more; a worker is back at its start. *)
LEMMA FailsStep ==
    ASSUME ServiceInv, NEW a \in Actors, prog[a] # <<>>, Fails(a)
    PROVE  ServiceInv'
<1>1. UNCHANGED <<conf, used, vacant, look, requests, exchange, queues, bound>>
    BY DEF Fails
<1>2. /\ prog \in [Actors -> Seq(CallSet)] /\ try \in [Actors -> 0..3]
      /\ <<>> \in Seq(CallSet) /\ 0 \in 0..3
    BY DEF ServiceInv, Types
<1>3. a = Api => /\ spoiled' = spoiled \cup doubt \cup {NameOf(On(Api))} /\ doubt' = {}
                 /\ left' = left \cup Pending("deleteQueue")
    BY DEF Fails
<1>4. CASE a = Api /\ phase = "boot"
  <2>1. /\ prog' = [b \in Actors |-> <<>>] /\ try' = [b \in Actors |-> 0]
        /\ wpc' = [k \in Keys |-> "none"] /\ item' = [k \in Keys |-> None]
        /\ asked' = {} /\ phase' = "down" /\ subscribed' = {}
    BY <1>4 DEF Fails
  <2>2. prog'[Api] = <<>> /\ try'[Api] = 0
    BY <2>1, Actor
  <2>3. /\ FitInv' /\ ForceInv' /\ QueueInv'
        /\ spoiled' \subseteq Names /\ left' \subseteq Keys /\ doubt' \subseteq Names
    BY <1>1, <1>3, <1>4, <2>1, <2>2, FailsOver
  <2>4. Types'
    <3>1. /\ prog' \in [Actors -> Seq(CallSet)] /\ try' \in [Actors -> 0..3]
          /\ wpc' \in [Keys -> {"none", "start", "setup", "loop", "remove"}]
          /\ item' \in [Keys -> ItemSet \cup {None}]
      BY <1>2, <2>1
    <3>2. asked' \subseteq Registered' /\ subscribed' \subseteq queues' \cap Running'
      BY <2>1
    <3>3. QED
      BY <1>1, <2>1, <2>3, <3>1, <3>2 DEF ServiceInv, Types
  <2>5. WorkerInv'
    <3> SUFFICES ASSUME NEW k \in Keys PROVE Working(k)'
      BY DEF WorkerInv
    <3>1. prog'[k] = <<>> /\ wpc'[k] = "none"
      BY <2>1, Actor
    <3>2. 1..Len(<<>>) = {} /\ <<>> \in Seq(WorkerCalls(k))
      OBVIOUS
    <3>3. QED
      BY <3>1, <3>2 DEF Working
  <2>6. ManagerInv'
    BY <2>2 DEF ManagerInv
  <2>7. QED
    BY <2>3, <2>4, <2>5, <2>6 DEF ServiceInv
<1>5. CASE ~(a = Api /\ phase = "boot")
  <2>1. /\ prog' = [prog EXCEPT ![a] = <<>>] /\ try' = [try EXCEPT ![a] = 0]
        /\ wpc' = IF a = Api THEN wpc ELSE [wpc EXCEPT ![a] = "start"]
        /\ UNCHANGED <<item, asked, phase, subscribed>>
    BY <1>5 DEF Fails, Try
  <2>2. /\ prog' \in [Actors -> Seq(CallSet)] /\ try' \in [Actors -> 0..3]
        /\ prog'[a] = <<>> /\ try'[a] = 0
        /\ \A b \in Actors \ {a} : prog'[b] = prog[b] /\ try'[b] = try[b]
    <3>1. prog' \in [Actors -> Seq(CallSet)]
      BY <1>2, <2>1, Zenon
    <3>2. try' \in [Actors -> 0..3]
      BY <1>2, <2>1, Zenon
    <3>3. QED
      BY <1>2, <2>1, <3>1, <3>2
  <2>3. CASE a = Api
    <3>1. /\ FitInv' /\ ForceInv' /\ QueueInv'
          /\ spoiled' \subseteq Names /\ left' \subseteq Keys /\ doubt' \subseteq Names
      BY <1>1, <1>3, <2>1, <2>2, <2>3, FailsOver
    <3>2. Types'
      <4>1. wpc' = wpc
        BY <2>1, <2>3
      <4>2. QED
        BY <1>1, <2>1, <2>2, <3>1, <4>1 DEF ServiceInv, Types, Registered, Running
    <3>3. WorkerInv'
      BY <2>1, <2>2, <2>3, Actor, WorkersKept
    <3>4. ManagerInv'
      BY <2>2, <2>3 DEF ManagerInv
    <3>5. QED
      BY <3>1, <3>2, <3>3, <3>4 DEF ServiceInv
  <2>4. CASE a # Api
    <3>1. a \in Keys /\ prog'[Api] = prog[Api] /\ try'[Api] = try[Api]
      BY <2>2, <2>4, Actor
    <3>2. wpc[a] = "setup" /\ item[a] # None
      BY <3>1 DEF ServiceInv, WorkerInv, Working
    <3>3. wpc' = [wpc EXCEPT ![a] = "start"]
      BY <2>1, <2>4
    <3>4. wpc' \in [Keys -> {"none", "start", "setup", "loop", "remove"}]
          /\ \A k \in Keys : wpc'[k] = IF k = a THEN "start" ELSE wpc[k]
      BY <3>1, <3>3 DEF ServiceInv, Types
    <3>5. UNCHANGED <<doubt, spoiled, left>>
      BY <2>4 DEF Fails, force
    <3>6. Types'
      <4>1. Running' = Running /\ Registered' = Registered
        BY <2>1, <3>1, <3>2, <3>4 DEF Running, Registered
      <4>2. QED
        BY <1>1, <2>1, <2>2, <3>4, <3>5, <4>1 DEF ServiceInv, Types
    <3>7. WorkerInv'
      <4> SUFFICES ASSUME NEW k \in Keys PROVE Working(k)'
        BY DEF WorkerInv
      <4>1. Working(k)
        BY DEF ServiceInv, WorkerInv
      <4>2. CASE k = a
        <5>1. prog'[k] = <<>> /\ wpc'[k] = "start" /\ item'[k] # None
          BY <2>1, <2>2, <3>2, <3>4, <4>2
        <5>2. 1..Len(<<>>) = {} /\ <<>> \in Seq(WorkerCalls(k))
          OBVIOUS
        <5>3. QED
          BY <5>1, <5>2 DEF Working
      <4>3. CASE k # a
        <5>1. prog'[k] = prog[k] /\ wpc'[k] = wpc[k] /\ item'[k] = item[k]
          BY <2>1, <2>2, <3>4, <4>3, Actor
        <5>2. QED
          BY <4>1, <5>1 DEF Working
      <4>4. QED
        BY <4>2, <4>3
    <3>8. (\A e : Undisturbed(e)) /\ QueuesKept
      BY <1>1, <3>5 DEF Undisturbed, QueuesKept
    <3>9. ManagerInv' /\ FitInv' /\ ForceInv' /\ QueueInv'
      BY <1>1, <2>1, <3>1, <3>5, <3>8, Aside
    <3>10. QED
      BY <3>6, <3>7, <3>9 DEF ServiceInv
  <2>5. QED
    BY <2>3, <2>4
<1>6. QED
    BY <1>4, <1>5

(* The three ways to fail.                                                 *)
LEMMA FaultFailsStep == ASSUME ServiceInv, NEW a \in Actors, FaultFails(a) PROVE ServiceInv'
BY FailsStep DEF FaultFails, At

(* A queue or an exchange to bind is not there.                            *)
LEMMA BindRefusedStep == ASSUME ServiceInv, NEW a \in Actors, BindRefused(a) PROVE ServiceInv'
BY FailsStep DEF BindRefused, At

(* A queue to consume is not there.                                        *)
LEMMA ConsumeRefusedStep == ASSUME ServiceInv, NEW k \in Keys, ConsumeRefused(k) PROVE ServiceInv'
BY FailsStep, Actor DEF ConsumeRefused, At

(* A queue is deleted that no message needs, or whose message has its      *)
(* objects to put right.                                                   *)
LEMMA DeleteQueueStep == ASSUME ServiceInv, DeleteQueue PROVE ServiceInv'
<1>1. /\ prog[Api] # <<>> /\ Done(Api) /\ At(Api, "deleteQueue") /\ DropQueue(On(Api))
      /\ UNCHANGED <<confVars, workers, doubt, spoiled>>
    BY DEF DeleteQueue, At, force
<1>2. /\ Head(prog[Api]) \in ApiCalls /\ Head(prog[Api]) = prog[Api][1]
      /\ Proper(prog[Api], Remaining, doubt, 1) \/ Counts(prog[Api], Remaining)
      /\ prog' \in [Actors -> Seq(CallSet)] /\ try' \in [Actors -> 0..3]
      /\ \A k \in Keys : prog'[k] = prog[k]
    BY <1>1, ApiDone
<1>3. On(Api) \in Keys /\ NameOf(On(Api)) = On(Api)[1]
    BY <1>1, <1>2, NameIs DEF At, On, ApiCalls, OnNames
<1>4. /\ exchange' \in [Names -> Modes \cup {None}] /\ queues' \subseteq Keys
      /\ bound' \subseteq queues' \X Routes /\ subscribed' \subseteq queues' \cap subscribed
      /\ left' \subseteq Keys /\ QueuesKept
      /\ \A b \in bound : b[1][1] # On(Api)[1] => b \in bound'
      /\ exchange' = exchange /\ On(Api) \notin queues'
      /\ \A b \in bound : b[1] # On(Api) => b \in bound'
    BY <1>1, <1>3, Dropped
<1>5. Types'
  <2>1. subscribed' \subseteq queues' \cap Running /\ doubt' \subseteq Names /\ spoiled' \subseteq Names
    BY <1>1, <1>4 DEF ServiceInv, Types
  <2>2. QED
    BY <1>1, <1>2, <1>4, <2>1, TypesKept
<1>6. WorkerInv'
    BY <1>1, <1>2, WorkersKept DEF workers
<1>7. ~At(Api, "remove") /\ ~At(Api, "exchange") /\ ~At(Api, "bind") /\ PutsRight
    BY <1>1 DEF At, PutsRight
<1>8. ASSUME NEW e, Sole(Remaining, e), e.name \notin doubt' PROVE Forced(e)
  <2>1. \/ \A b \in Needs(e) : b[1] # On(Api)
        \/ On(Api)[1] \in doubt
    BY <1>1, <1>2, <1>8 DEF Proper, Counts, At, On
  <2>2. \A b \in Needs(e) : b[1][1] = e.name
    BY DEF Needs
  <2>3. \A b \in Needs(e) : b \in bound => b \in bound'
    BY <1>1, <1>4, <1>8, <2>1, <2>2
  <2>4. QED
    BY <1>4, <1>7, <2>3 DEF Forced
<1>9. ManagerInv' /\ FitInv' /\ ForceInv' /\ QueueInv'
    BY <1>1, <1>4, <1>7, <1>8, ForceDone DEF confVars
<1>10. QED
    BY <1>5, <1>6, <1>9 DEF ServiceInv

(* An exchange is deleted whose message has its objects to put right.      *)
LEMMA DeleteExchangeStep == ASSUME ServiceInv, DeleteExchange PROVE ServiceInv'
<1>1. /\ prog[Api] # <<>> /\ Done(Api) /\ At(Api, "deleteExchange") /\ DropExchange(On(Api))
      /\ UNCHANGED <<confVars, workers, doubt, spoiled>>
    BY DEF DeleteExchange, At, force
<1>2. /\ Head(prog[Api]) \in ApiCalls /\ Head(prog[Api]) = prog[Api][1]
      /\ Proper(prog[Api], Remaining, doubt, 1) \/ Counts(prog[Api], Remaining)
      /\ prog' \in [Actors -> Seq(CallSet)] /\ try' \in [Actors -> 0..3]
      /\ \A k \in Keys : prog'[k] = prog[k]
    BY <1>1, ApiDone
<1>3. On(Api) \in Names /\ NameOf(On(Api)) = On(Api)
    BY <1>1, <1>2, NameIs DEF At, On, ApiCalls, OnNames
<1>4. /\ exchange' \in [Names -> Modes \cup {None}] /\ queues' \subseteq Keys
      /\ bound' \subseteq queues' \X Routes /\ subscribed' \subseteq queues' \cap subscribed
      /\ left' \subseteq Keys /\ QueuesKept
      /\ \A n \in Names \ {On(Api)} : exchange'[n] = exchange[n]
      /\ \A b \in bound : b[1][1] # On(Api) => b \in bound'
    BY <1>1, <1>3, Dropped
<1>5. Types'
  <2>1. subscribed' \subseteq queues' \cap Running /\ doubt' \subseteq Names /\ spoiled' \subseteq Names
    BY <1>1, <1>4 DEF ServiceInv, Types
  <2>2. QED
    BY <1>1, <1>2, <1>4, <2>1, TypesKept
<1>6. WorkerInv'
    BY <1>1, <1>2, WorkersKept DEF workers
<1>7. /\ ~At(Api, "remove") /\ ~At(Api, "exchange") /\ ~At(Api, "bind") /\ ~At(Api, "deleteQueue")
      /\ PutsRight
    BY <1>1 DEF At, PutsRight
<1>8. ASSUME NEW e, Sole(Remaining, e), e.name \notin doubt' PROVE Forced(e)
  <2>1. On(Api) \in doubt
    BY <1>1, <1>2 DEF Proper, Counts, At, On
  <2>2. e.name \in Names \ {On(Api)}
    BY <1>1, <1>8, <2>1, SoleIs, RemainingOf DEF ServiceInv, Types
  <2>3. \A b \in Needs(e) : b[1][1] = e.name
    BY DEF Needs
  <2>4. \A b \in Needs(e) : b \in bound => b \in bound'
    BY <1>4, <2>2, <2>3
  <2>5. QED
    BY <1>4, <1>7, <2>2, <2>4 DEF Forced
<1>9. ManagerInv' /\ FitInv' /\ ForceInv' /\ QueueInv'
    BY <1>1, <1>4, <1>7, <1>8, ForceDone DEF confVars
<1>10. QED
    BY <1>5, <1>6, <1>9 DEF ServiceInv

(* The message is no longer listed, as it was to be.                       *)
LEMMA UnlistStep == ASSUME ServiceInv, Unlist PROVE ServiceInv'
<1> DEFINE n == On(Api)
           p == prog[Api]
           t == Tail(p)
<1>1. /\ p # <<>> /\ Done(Api) /\ At(Api, "remove")
      /\ conf' = RemoveAt(conf, First(n)) /\ vacant' = vacant \cup Unlisted(conf')
      /\ UNCHANGED <<used, look, phase, requests, workers, exchange, queues, bound, subscribed,
                     doubt, spoiled, left>>
    BY DEF Unlist, At, broker, history, force
<1>2. /\ Head(p) = p[1] /\ p \in Seq(ApiCalls) /\ prog'[Api] \in Seq(ApiCalls)
      /\ prog' \in [Actors -> Seq(CallSet)] /\ try' \in [Actors -> 0..3]
      /\ \A k \in Keys : prog'[k] = prog[k]
      /\ prog'[Api] = t /\ try'[Api] = 0
    BY <1>1, ApiDone
<1>3. conf \in Seq(Message) /\ FitInv /\ ForceInv /\ QueueInv
    BY DEF ServiceInv, Types
<1>4. /\ \A v, x : Has(t, v, x) => Has(p, v, x)
      /\ \A v, x : Has(p, v, x) => Has(t, v, x) \/ (v = "remove" /\ x = n)
      /\ \A b : Follows(p, 1, b) => Follows(t, 1, b)
      /\ Has(p, "remove", n)
    BY <1>1, <1>2, RestOf DEF At, On
<1>5. Fit(p, Remaining, doubt) /\ \A x : Has(p, "remove", x) <=> x = n
    BY <1>3, <1>4, RemovesOne DEF FitInv
<1>6. Remaining = conf'
    BY <1>1, <1>2, <1>5, RemainingIs
<1>7. \A x : ~Has(t, "remove", x)
  <2>1. 1 \in 1..Len(p) /\ \A i \in 1..Len(t) : i + 1 \in 1..Len(p) /\ t[i] = p[i + 1] /\ i + 1 # 1
    BY <1>1, <1>2, TailOf
  <2>2. Proper(p, Remaining, doubt, 1) /\ p[1].do = "remove"
    BY <1>1, <1>2, <1>5, <2>1 DEF Fit, At
  <2>3. QED
    BY <2>1, <2>2 DEF Proper, Has
<1>8. Remaining' = conf'
    BY <1>2, <1>7, RemainingNext
<1>9. Types'
  <2>1. conf' \in Seq(Message)
    BY <1>3, <1>6, RemainingOf
  <2>2. vacant' \subseteq Names
    BY <1>1 DEF Unlisted, ServiceInv, Types
  <2>3. UNCHANGED <<wpc, item, asked>>
    BY <1>1 DEF workers
  <2>4. QED
    BY <1>1, <1>2, <2>1, <2>2, <2>3 DEF ServiceInv, Types, Registered, Running
<1>10. WorkerInv'
    BY <1>1, <1>2, WorkersKept DEF workers
<1>11. Suits(t, Remaining, doubt)
    BY <1>1, <1>5, TailSuits DEF Suits
<1> HIDE DEF t, n, p
<1>12. ManagerInv' /\ FitInv'
    BY <1>1, <1>2, <1>6, <1>7, <1>8, <1>11 DEF ManagerInv, FitInv
<1>13. ASSUME phase # "down", NEW e, Sole(Remaining, e), e.name \notin spoiled
       PROVE  Given(t, exchange, bound, doubt, e)
  <2>1. Given(p, exchange, bound, doubt, e)
    BY <1>3, <1>13 DEF ForceInv, p
  <2>2. QED
    BY <1>4, <2>1 DEF Given
<1>14. ForceInv'
    BY <1>1, <1>2, <1>6, <1>8, <1>13 DEF ForceInv
<1>15. QueueInv'
  <2> SUFFICES ASSUME NEW k \in queues
               PROVE  Lists(Remaining, k) \/ k \in left \/ Has(t, "deleteQueue", k)
    BY <1>1, <1>2, <1>6, <1>8 DEF QueueInv
  <2>1. Lists(Remaining, k) \/ k \in left \/ Has(p, "deleteQueue", k)
    BY <1>3 DEF QueueInv, p
  <2>2. QED
    BY <1>4, <2>1
<1>16. QED
    BY <1>9, <1>10, <1>12, <1>14, <1>15 DEF ServiceInv

-----------------------------------------------------------------------------
(* Steps: the manager and the workers                                      *)

(* The manager looks a key up.                                             *)
LEMMA LookupStep == ASSUME ServiceInv, Lookup PROVE ServiceInv'
<1> DEFINE t == IF On(Api) \in Registered THEN 1 ELSE 2
<1>1. /\ At(Api, "update") /\ prog' = prog /\ try' = [try EXCEPT ![Api] = t]
      /\ UNCHANGED <<confVars, workers, exchange, queues, bound, subscribed, doubt, spoiled, left>>
    BY DEF Lookup, Again, Try, broker, history, force
<1>2. t \in 0..3 /\ (t = 2 => On(Api) \notin Registered)
    OBVIOUS
<1> HIDE DEF t
<1>3. /\ try' \in [Actors -> 0..3] /\ try'[Api] = t
      /\ prog' \in [Actors -> Seq(CallSet)]
    BY <1>1, <1>2, Actor DEF ServiceInv, Types
<1>4. Types'
    BY <1>1, <1>3, TypesKept DEF ServiceInv, Types
<1>5. WorkerInv'
    BY <1>1, WorkersKept DEF workers
<1>6. FitInv' /\ ForceInv' /\ QueueInv'
    BY <1>1, ForceKept DEF confVars, Undisturbed, QueuesKept
<1>7. ManagerInv'
  <2>1. On(Api) \in Keys
    <3>1. prog[Api] \in Seq(ApiCalls)
      BY RemainingOf DEF ServiceInv, Types
    <3>2. Head(prog[Api]) \in ApiCalls
      BY <1>1, <3>1, RestOf DEF At
    <3>3. QED
      BY <1>1, <3>2 DEF At, On, ApiCalls, OnNames
  <2>2. t = 2 => item[On(Api)] = None
    BY <1>2, <2>1 DEF Registered
  <2>3. prog[Api] # <<>> /\ item' = item
    BY <1>1 DEF At, workers
  <2>4. QED
    BY <1>1, <1>3, <2>2, <2>3 DEF ManagerInv, At, On, Idle
<1>8. QED
    BY <1>4, <1>5, <1>6, <1>7 DEF ServiceInv

(* The manager never starts a second worker.                               *)
LEMMA StoreFacts ==
    ASSUME ServiceInv, NEW undone \in BOOLEAN, Store(undone)
    PROVE  LET k == On(Api) IN
           /\ prog[Api] # <<>> /\ k \in Keys /\ Head(prog[Api]).as \in ItemSet
           /\ try[Api] = 2 => k \notin Registered /\ k \notin Running /\ k \notin asked /\ ~undone
<1>1. /\ At(Api, "update") /\ (undone => wpc[On(Api)] \in {"start", "loop"})
    BY DEF Store
<1>2. Head(prog[Api]) \in ApiCalls
  <2>1. prog[Api] \in Seq(ApiCalls)
    BY RemainingOf DEF ServiceInv, Types
  <2>2. QED
    BY <1>1, <2>1, RestOf DEF At
<1>3. On(Api) \in Keys /\ Head(prog[Api]).as \in ItemSet
    BY <1>1, <1>2 DEF At, On, ApiCalls, OnNames
<1>4. try[Api] = 2 => item[On(Api)] = None
    BY <1>1 DEF ServiceInv, ManagerInv
<1>5. try[Api] = 2 => On(Api) \notin Registered /\ On(Api) \notin Running /\ On(Api) \notin asked
    BY <1>3, <1>4 DEF Registered, Running, ServiceInv, Types, WorkerInv, Working
<1>6. QED
    BY <1>1, <1>3, <1>5 DEF At, Running

(* A call that touches neither the broker nor the history.                 *)
LEMMA ForceAside ==
    ASSUME ServiceInv, prog[Api] # <<>>, Done(Api), At(Api, "update") \/ At(Api, "stop"),
           UNCHANGED <<conf, phase, exchange, queues, bound, doubt, spoiled, left>>
    PROVE  ManagerInv' /\ FitInv' /\ ForceInv' /\ QueueInv'
<1>1. /\ ~At(Api, "remove") /\ ~At(Api, "exchange") /\ ~At(Api, "bind") /\ ~At(Api, "deleteQueue")
      /\ PutsRight /\ QueuesKept
    BY DEF At, PutsRight, QueuesKept
<1>2. \A e : Forced(e)
    BY <1>1 DEF Forced
<1>3. QED
    BY <1>1, <1>2, ForceDone

(* The manager stores an item and may start a worker.                      *)
LEMMA StoreStep == ASSUME ServiceInv, NEW undone \in BOOLEAN, Store(undone) PROVE ServiceInv'
<1> DEFINE k == On(Api)
           m == Head(prog[Api]).as
<1>1. /\ At(Api, "update")
      /\ item' = IF undone THEN item ELSE [item EXCEPT ![k] = m]
      /\ wpc' = IF try[Api] = 2 THEN [wpc EXCEPT ![k] = "start"] ELSE wpc
      /\ asked' = IF undone THEN asked ELSE asked \ {k}
      /\ Done(Api)
      /\ UNCHANGED <<conf, used, vacant, look, phase, requests, exchange, queues, bound, subscribed,
                     doubt, spoiled, left>>
    BY DEF Store, confVars, broker, history, force
<1>2. /\ prog[Api] # <<>> /\ k \in Keys /\ m \in ItemSet /\ m # None
      /\ try[Api] = 2 => k \notin Registered /\ k \notin Running /\ k \notin asked /\ ~undone
    BY StoreFacts, ItemIs
<1>3. /\ prog' \in [Actors -> Seq(CallSet)] /\ try' \in [Actors -> 0..3]
      /\ \A j \in Keys : prog'[j] = prog[j]
    BY <1>1, <1>2, ApiDone
<1> HIDE DEF k, m
<1>4. /\ item \in [Keys -> ItemSet \cup {None}]
      /\ wpc \in [Keys -> {"none", "start", "setup", "loop", "remove"}]
      /\ \A j \in Keys : Working(j)
    BY DEF ServiceInv, Types, WorkerInv
<1>5. /\ item' \in [Keys -> ItemSet \cup {None}]
      /\ \A j \in Keys : item'[j] = IF j = k /\ ~undone THEN m ELSE item[j]
    BY <1>1, <1>2, <1>4
<1>6. /\ wpc' \in [Keys -> {"none", "start", "setup", "loop", "remove"}]
      /\ \A j \in Keys : wpc'[j] = IF j = k /\ try[Api] = 2 THEN "start" ELSE wpc[j]
    BY <1>1, <1>2, <1>4
<1>7. Registered \subseteq Registered' /\ Running \subseteq Running'
    BY <1>2, <1>5, <1>6 DEF Registered, Running
<1>8. Types'
    BY <1>1, <1>3, <1>5, <1>6, <1>7 DEF ServiceInv, Types
<1>9. WorkerInv'
  <2> SUFFICES ASSUME NEW j \in Keys PROVE Working(j)'
    BY DEF WorkerInv
  <2>1. Working(j) /\ prog'[j] = prog[j]
    BY <1>3, <1>4
  <2>2. CASE j = k /\ try[Api] = 2
    <3>1. wpc[j] = "none" /\ item'[j] = m /\ wpc'[j] = "start"
      BY <1>2, <1>5, <1>6, <2>2 DEF Running
    <3>2. prog[j] = <<>>
      BY <2>1, <3>1 DEF Working
    <3>3. QED
      BY <1>2, <2>1, <3>1, <3>2 DEF Working
  <2>3. CASE ~(j = k /\ try[Api] = 2)
    BY <1>2, <1>5, <1>6, <2>1, <2>3 DEF Working
  <2>4. QED
    BY <2>2, <2>3
<1>10. ManagerInv' /\ FitInv' /\ ForceInv' /\ QueueInv'
    BY <1>1, <1>2, ForceAside
<1>11. QED
    BY <1>8, <1>9, <1>10 DEF ServiceInv

(* The manager asks a worker to stop.                                      *)
LEMMA StopStep == ASSUME ServiceInv, Stop PROVE ServiceInv'
<1>1. /\ At(Api, "stop") /\ prog[Api] # <<>> /\ Done(Api)
      /\ asked' = IF On(Api) \in Registered THEN asked \cup {On(Api)} ELSE asked
      /\ UNCHANGED <<conf, used, vacant, look, phase, requests, wpc, item, exchange, queues, bound,
                     subscribed, doubt, spoiled, left>>
    BY DEF Stop, At, confVars, broker, history, force
<1>2. /\ prog' \in [Actors -> Seq(CallSet)] /\ try' \in [Actors -> 0..3]
      /\ \A k \in Keys : prog'[k] = prog[k]
    BY <1>1, ApiDone
<1>3. Types'
    BY <1>1, <1>2 DEF ServiceInv, Types, Registered, Running
<1>4. WorkerInv'
    BY <1>1, <1>2, WorkersKept
<1>5. ManagerInv' /\ FitInv' /\ ForceInv' /\ QueueInv'
    BY <1>1, ForceAside
<1>6. QED
    BY <1>3, <1>4, <1>5 DEF ServiceInv

(* A worker reads its item and has its set-up to do.                       *)
LEMMA SetupIs ==
    ASSUME NEW k \in Keys, NEW s \in ItemSet
    PROVE  /\ Setup(k, s) \in Seq(CallSet) /\ Setup(k, s) \in Seq(WorkerCalls(k))
           /\ \A j \in 1..Len(Setup(k, s)) : Setup(k, s)[j].do = "consume" => j = Len(Setup(k, s))
<1>1. k \in Keys \cup Names /\ k[1] \in Keys \cup Names /\ s \in Settings
    BY Actor, ItemIs
<1> DEFINE e == Call("exchange", k[1], s)
           q == Call("queue", k, s)
           b == Call("bind", k, s)
           c == Call("consume", k, s)
<1>2. /\ e \in CallSet /\ e.do = "exchange" /\ e.on = k[1] /\ e.as = s
      /\ q \in CallSet /\ q.do = "queue" /\ q.on = k /\ q.as = s
      /\ b \in CallSet /\ b.do = "bind" /\ b.on = k /\ b.as = s
      /\ c \in CallSet /\ c.do = "consume" /\ c.on = k /\ c.as = s
    BY <1>1, CallIs DEF Verbs
<1>3. Setup(k, s) = <<e, q, b, c>>
    BY DEF Setup
<1> HIDE DEF e, q, b, c
<1>4. e \in WorkerCalls(k) /\ q \in WorkerCalls(k) /\ b \in WorkerCalls(k) /\ c \in WorkerCalls(k)
    BY <1>2 DEF WorkerCalls
<1>5. QED
    BY <1>2, <1>3, <1>4

(* The worker has its set-up to do, on its own objects.                    *)
LEMMA StartStep == ASSUME ServiceInv, NEW k \in Keys, Start(k) PROVE ServiceInv'
<1>1. /\ wpc[k] = "start" /\ wpc' = [wpc EXCEPT ![k] = "setup"]
      /\ prog' = [prog EXCEPT ![k] = Setup(k, item[k])]
      /\ UNCHANGED <<conf, used, vacant, look, phase, requests, try, item, asked, exchange, queues,
                     bound, subscribed, doubt, spoiled, left>>
    BY DEF Start, Goto, confVars, broker, history, force
<1>2. item[k] \in ItemSet /\ item[k] # None
    BY <1>1, ItemIs DEF ServiceInv, Types, WorkerInv, Working
<1>3. /\ Setup(k, item[k]) \in Seq(CallSet) /\ Setup(k, item[k]) \in Seq(WorkerCalls(k))
      /\ \A j \in 1..Len(Setup(k, item[k])) :
           Setup(k, item[k])[j].do = "consume" => j = Len(Setup(k, item[k]))
    BY <1>2, SetupIs
<1>4. /\ prog \in [Actors -> Seq(CallSet)]
      /\ wpc \in [Keys -> {"none", "start", "setup", "loop", "remove"}]
    BY DEF ServiceInv, Types
<1>5. /\ prog' \in [Actors -> Seq(CallSet)] /\ prog'[k] = Setup(k, item[k])
      /\ \A a \in Actors \ {k} : prog'[a] = prog[a]
  <2>1. prog' \in [Actors -> Seq(CallSet)]
    BY <1>1, <1>3, <1>4, Zenon
  <2>2. QED
    BY <1>1, <1>4, <2>1, Actor
<1>6. /\ wpc' \in [Keys -> {"none", "start", "setup", "loop", "remove"}] /\ wpc'[k] = "setup"
      /\ \A j \in Keys \ {k} : wpc'[j] = wpc[j]
    BY <1>1, <1>4
<1>7. Running' = Running /\ Registered' = Registered
    BY <1>1, <1>6 DEF Running, Registered
<1>8. Types'
    BY <1>1, <1>5, <1>6, <1>7 DEF ServiceInv, Types
<1>9. WorkerInv'
  <2> SUFFICES ASSUME NEW j \in Keys PROVE Working(j)'
    BY DEF WorkerInv
  <2>1. Working(j) /\ item' = item
    BY <1>1 DEF ServiceInv, WorkerInv
  <2>2. CASE j = k
    BY <1>2, <1>3, <1>5, <1>6, <2>1, <2>2 DEF Working
  <2>3. CASE j # k
    BY <1>5, <1>6, <2>1, <2>3, Actor DEF Working
  <2>4. QED
    BY <2>2, <2>3
<1>10. (\A e : Undisturbed(e)) /\ QueuesKept
    BY <1>1 DEF Undisturbed, QueuesKept
<1>11. ManagerInv' /\ FitInv' /\ ForceInv' /\ QueueInv'
    BY <1>1, <1>5, <1>10, Actor, Aside
<1>12. QED
    BY <1>8, <1>9, <1>11 DEF ServiceInv

(* The last call of the set-up.                                            *)
LEMMA ConsumeStep == ASSUME ServiceInv, NEW k \in Keys, Consume(k) PROVE ServiceInv'
<1>1. /\ At(k, "consume") /\ prog[k] # <<>> /\ Done(k) /\ k \in queues
      /\ wpc[k] = "setup" /\ wpc' = [wpc EXCEPT ![k] = "loop"]
      /\ subscribed' = subscribed \cup {k}
      /\ UNCHANGED <<conf, used, vacant, look, phase, requests, item, asked, exchange, queues,
                     bound, doubt, spoiled, left>>
    BY DEF Consume, At, Goto, confVars, history, force
<1>2. /\ prog' \in [Actors -> Seq(CallSet)] /\ try' \in [Actors -> 0..3]
      /\ prog'[Api] = prog[Api] /\ try'[Api] = try[Api]
    BY <1>1, WorkerDone
<1>3. /\ wpc' \in [Keys -> {"none", "start", "setup", "loop", "remove"}] /\ wpc'[k] = "loop"
      /\ \A j \in Keys \ {k} : wpc'[j] = wpc[j]
    BY <1>1 DEF ServiceInv, Types
<1>4. Running' = Running /\ k \in Running /\ Registered' = Registered
    BY <1>1, <1>3 DEF Running, Registered
<1>5. Types'
    BY <1>1, <1>2, <1>3, <1>4 DEF ServiceInv, Types
<1>6. WorkerInv'
    BY <1>1, <1>3, WorkerMoves
<1>7. (\A e : Undisturbed(e)) /\ QueuesKept
    BY <1>1 DEF Undisturbed, QueuesKept
<1>8. ManagerInv' /\ FitInv' /\ ForceInv' /\ QueueInv'
    BY <1>1, <1>2, <1>7, Aside
<1>9. QED
    BY <1>5, <1>6, <1>8 DEF ServiceInv

(* A worker's channel breaks.                                              *)
LEMMA UnsubscribeStep == ASSUME ServiceInv, NEW k \in Keys, Unsubscribe(k) PROVE ServiceInv'
<1>1. /\ subscribed' \subseteq subscribed
      /\ UNCHANGED <<conf, used, vacant, look, phase, requests, prog, try, wpc, item, asked,
                     exchange, queues, bound, doubt, spoiled, left>>
    BY DEF Unsubscribe, confVars, workers, force
<1>2. Types'
    BY <1>1 DEF ServiceInv, Types, Registered, Running
<1>3. WorkerInv'
    BY <1>1, WorkersKept
<1>4. (\A e : Undisturbed(e)) /\ QueuesKept
    BY <1>1 DEF Undisturbed, QueuesKept
<1>5. ManagerInv' /\ FitInv' /\ ForceInv' /\ QueueInv'
    BY <1>1, <1>4, Aside
<1>6. QED
    BY <1>2, <1>3, <1>5 DEF ServiceInv

(* A worker in its loop goes on, obeys a stop, or is at its end.           *)
LEMMA LoopStep ==
    ASSUME ServiceInv, NEW k \in Keys,
           \/ SelectClosed(k) \/ SelectExit(k) \/ Ends(k)
    PROVE  ServiceInv'
<1>1. /\ wpc[k] \in {"loop", "remove"} /\ wpc' = [wpc EXCEPT ![k] = wpc'[k]]
      /\ wpc'[k] \in {"start", "remove", "none"}
      /\ UNCHANGED <<conf, used, vacant, look, phase, requests, prog, try, exchange, queues, bound,
                     doubt, spoiled, left>>
  <2>1. wpc \in [Keys -> {"none", "start", "setup", "loop", "remove"}]
    BY DEF ServiceInv, Types
  <2>2. QED
    BY <2>1 DEF SelectClosed, SelectExit, Ends, Goto, broker, confVars, history, force
<1>2. /\ wpc'[k] = "none" => /\ item' = [item EXCEPT ![k] = None]
                             /\ asked' = asked \ {k}
                             /\ subscribed' = subscribed \ {k}
      /\ wpc'[k] # "none" => item' = item /\ asked' \subseteq asked /\ subscribed' = subscribed
  <2>1. wpc \in [Keys -> {"none", "start", "setup", "loop", "remove"}]
    BY DEF ServiceInv, Types
  <2>2. QED
    BY <2>1 DEF SelectClosed, SelectExit, Ends, Goto, broker
<1>3. /\ wpc' \in [Keys -> {"none", "start", "setup", "loop", "remove"}]
      /\ \A j \in Keys \ {k} : wpc'[j] = wpc[j]
    BY <1>1 DEF ServiceInv, Types
<1>4. /\ item' \in [Keys -> ItemSet \cup {None}]
      /\ \A j \in Keys \ {k} : item'[j] = item[j]
      /\ \A j \in Keys : item[j] = None => item'[j] = None
    BY <1>2 DEF ServiceInv, Types
<1>5. prog[k] = <<>>
    BY <1>1 DEF ServiceInv, WorkerInv, Working
<1>6. Types'
  <2>1. asked' \subseteq Registered'
    BY <1>2, <1>4 DEF Registered, ServiceInv, Types
  <2>2. subscribed' \subseteq queues' \cap Running'
    BY <1>1, <1>2, <1>3 DEF Running, ServiceInv, Types
  <2>3. QED
    BY <1>1, <1>3, <1>4, <2>1, <2>2 DEF ServiceInv, Types
<1>7. WorkerInv'
  <2> SUFFICES ASSUME NEW j \in Keys PROVE Working(j)'
    BY DEF WorkerInv
  <2>1. Working(j) /\ prog'[j] = prog[j]
    BY <1>1 DEF ServiceInv, WorkerInv
  <2>2. CASE j = k
    <3>1. wpc'[k] # "none" => item'[k] # None
      BY <1>1, <1>2, <2>1, <2>2 DEF Working
    <3>2. QED
      BY <1>5, <2>1, <2>2, <3>1 DEF Working
  <2>3. CASE j # k
    BY <1>3, <1>4, <2>1, <2>3 DEF Working
  <2>4. QED
    BY <2>2, <2>3
<1>8. (\A e : Undisturbed(e)) /\ QueuesKept
    BY <1>1 DEF Undisturbed, QueuesKept
<1>9. ManagerInv' /\ FitInv' /\ ForceInv' /\ QueueInv'
    BY <1>1, <1>4, <1>8, Aside
<1>10. QED
    BY <1>6, <1>7, <1>9 DEF ServiceInv

-----------------------------------------------------------------------------
(* Steps: main and the operations                                          *)

(* The boot is over.                                                       *)
LEMMA BootedStep == ASSUME ServiceInv, Booted PROVE ServiceInv'
<1>1. /\ phase = "boot" /\ phase' = "serve"
      /\ UNCHANGED <<conf, used, vacant, look, requests, prog, try, workers, broker, history>>
    BY DEF Booted
<1>2. UNCHANGED <<wpc, item, asked, exchange, queues, bound, subscribed, doubt, spoiled, left>>
    BY <1>1 DEF workers, broker, history, force
<1>3. prog[Api] \in Seq(ApiCalls)
    BY RemainingOf DEF ServiceInv, Types
<1>4. Remaining' = Remaining
    BY <1>1, <1>3, RemainingSame
<1>5. Types'
    BY <1>1, <1>2 DEF ServiceInv, Types, Registered, Running
<1>6. WorkerInv'
    BY <1>1, <1>2 DEF ServiceInv, WorkerInv, Working
<1>7. ManagerInv'
    BY <1>1, <1>2 DEF ServiceInv, ManagerInv, Idle, At, On
<1>8. FitInv'
    BY <1>1, <1>2, <1>4 DEF ServiceInv, FitInv, Listed, Named
<1>9. ForceInv'
    BY <1>1, <1>2, <1>4 DEF ServiceInv, ForceInv
<1>10. QueueInv'
    BY <1>1, <1>2, <1>4 DEF ServiceInv, QueueInv
<1>11. QED
    BY <1>5, <1>6, <1>7, <1>8, <1>9, <1>10 DEF ServiceInv

(* An operation begins, or main's loading of the messages.  Of a message   *)
(* that it is not to put right, nothing has changed but its list.          *)
LEMMA BeginsStep ==
    ASSUME ServiceInv, Idle, NEW p, NEW R, Remaining' = R,
           conf' \in Seq(Message), prog' = [prog EXCEPT ![Api] = p],
           Suits(p, R, doubt'), \A n : Has(p, "remove", n) => Named(conf', n) # {},
           used' \subseteq Ids, vacant' \subseteq Names, look' \in (Keys \X Modes) \cup {None},
           phase' \in {"boot", "serve"}, UNCHANGED <<try, workers, broker, left>>,
           doubt' \subseteq Names, spoiled' \subseteq Names,
           \A e : Sole(R, e) /\ e.name \notin spoiled' =>
             IF e.name \in doubt' THEN Has(p, "exchange", e.name)
             ELSE phase # "down" /\ Sole(conf, e) /\ e.name \notin spoiled,
           \A k \in Keys : Lists(conf, k) => Lists(R, k) \/ Has(p, "deleteQueue", k)
    PROVE  ServiceInv'
<1>1. UNCHANGED <<wpc, item, asked, exchange, queues, bound, subscribed, left, try>>
    BY DEF workers, broker
<1>2. p \in Seq(CallSet)
  <2>1. p \in Seq(ApiCalls)
    BY DEF Suits, Fit, Counts
  <2>2. ApiCalls \subseteq CallSet
    BY DEF ApiCalls
  <2>3. QED
    BY <2>1, <2>2, SeqMonotonic
<1>3. /\ prog' \in [Actors -> Seq(CallSet)] /\ prog'[Api] = p
      /\ \A k \in Keys : prog'[k] = prog[k]
  <2>1. prog \in [Actors -> Seq(CallSet)]
    BY DEF ServiceInv, Types
  <2>2. prog' \in [Actors -> Seq(CallSet)]
    BY <1>2, <2>1, Zenon
  <2>3. QED
    BY <2>1, <2>2, Actor
<1>4. Remaining = conf /\ prog[Api] = <<>>
    BY NothingRemains DEF Idle
<1>5. Types'
    BY <1>1, <1>3 DEF ServiceInv, Types, Registered, Running
<1>6. WorkerInv'
    BY <1>1, <1>3, WorkersKept
<1>7. ManagerInv'
    BY <1>1 DEF ServiceInv, ManagerInv
<1>8. FitInv'
  <2>1. \A n : Listed(n)' <=> Named(conf', n) # {}
    BY DEF Listed, Named
  <2>2. QED
    BY <1>3, <2>1 DEF FitInv
<1>9. ForceInv'
  <2> SUFFICES ASSUME NEW e, Sole(R, e), e.name \notin spoiled'
               PROVE  Given(p, exchange, bound, doubt', e)
    BY <1>1, <1>3 DEF ForceInv
  <2>1. CASE e.name \in doubt'
    BY <2>1 DEF Given
  <2>2. CASE e.name \notin doubt'
    <3>1. phase # "down" /\ Sole(conf, e) /\ e.name \notin spoiled
      BY <2>2
    <3>2. Given(<<>>, exchange, bound, doubt, e)
      BY <1>4, <3>1 DEF ServiceInv, ForceInv
    <3>3. exchange[e.name] = e.mode /\ \A b \in Needs(e) : b \in bound
      BY <3>2, NoProgram DEF Given
    <3>4. QED
      BY <2>2, <3>3 DEF Given
  <2>3. QED
    BY <2>1, <2>2
<1>10. QueueInv'
  <2> SUFFICES ASSUME NEW k \in queues
               PROVE  Lists(R, k) \/ k \in left \/ Has(p, "deleteQueue", k)
    BY <1>1, <1>3 DEF QueueInv
  <2>1. Lists(conf, k) \/ k \in left
    BY <1>4, NoProgram DEF ServiceInv, QueueInv
  <2>2. k \in Keys
    BY DEF ServiceInv, Types
  <2>3. QED
    BY <2>1, <2>2
<1>11. QED
    BY <1>5, <1>6, <1>7, <1>8, <1>9, <1>10 DEF ServiceInv

(* A process that is down has nothing to do.                               *)
Down == phase = "down" => Idle

(* Only a failure of main's takes the process down, with all its calls.    *)
LEMMA DownStep ==
    ASSUME ServiceInv, Down, [Next]_vars
    PROVE  Down'
<1> SUFFICES ASSUME phase' = "down" PROVE Idle'
    BY DEF Down
<1>1. prog \in [Actors -> Seq(CallSet)]
    BY DEF ServiceInv, Types
<1>2. ASSUME NEW k \in Keys, NEW p, prog' = [prog EXCEPT ![k] = p], phase' = phase
      PROVE  Idle'
    BY <1>1, <1>2, Actor DEF Down, Idle
<1>3. ASSUME NEW a \in Actors, Fails(a)
      PROVE  Idle'
  <2>1. CASE phase = "down"
    <3>1. prog' = [prog EXCEPT ![a] = <<>>]
      BY <1>3, <2>1 DEF Fails
    <3>2. QED
      BY <3>1, <2>1, <1>1, Actor DEF Down, Idle
  <2>2. CASE phase # "down"
    BY <1>3, <2>2, Actor DEF Fails, Idle
  <2>3. QED
    BY <2>1, <2>2
<1>4. ASSUME NEW a \in Actors, NEW v, At(a, v), phase' = phase,
             (prog' = prog) \/ Done(a)
      PROVE  Idle'
  <2>1. CASE a = Api
    BY <1>4, <2>1 DEF At, Down, Idle
  <2>2. CASE a # Api
    BY <1>1, <1>4, <2>2, Actor DEF Done, Down, Idle
  <2>3. QED
    BY <2>1, <2>2
<1>5. ASSUME NEW a \in Actors, Calls(a) \/ DeclareFault(a) \/ ClearFault(a)
      PROVE  Idle'
  <2>1. CASE Declare(a)
    BY <2>1, <1>4 DEF Declare, Declaring, confVars
  <2>2. CASE DeclareRefused(a)
    BY <2>2, <1>4 DEF DeclareRefused, Declaring, Again, confVars
  <2>3. CASE Clear(a)
    BY <2>3, <1>4 DEF Clear, Clearing, Again, confVars
  <2>4. CASE Bind(a)
    BY <2>4, <1>4 DEF Bind, confVars
  <2>5. CASE BindRefused(a)
    BY <2>5, <1>3 DEF BindRefused
  <2>6. CASE DeclareFault(a)
    BY <2>6, <1>4 DEF DeclareFault, Declaring, Again, confVars
  <2>7. CASE ClearFault(a)
    BY <2>7, <1>4 DEF ClearFault, Clearing, Again, confVars
  <2>8. QED
    BY <1>5, <2>1, <2>2, <2>3, <2>4, <2>5, <2>6, <2>7 DEF Calls
<1>6. CASE Operations
  <2>1. phase = "serve" /\ phase' = phase
    BY <1>6 DEF Operations, AddMessage, UpdateMessage, DeleteMessage, AddConsumer, LookUp,
                DeleteConsumer, StatusConsumer, UpdateConsumer, Restart, Reload, Begin
  <2>2. QED
    BY <2>1
<1>7. CASE ApiStep
  <2>1. Api \in Actors
    BY Actor
  <2>2. CASE Calls(Api)
    BY <2>1, <2>2, <1>5
  <2>3. CASE DeleteQueue \/ DeleteExchange \/ Unlist \/ Lookup \/ Stop
    BY <2>1, <2>3, <1>4 DEF DeleteQueue, DeleteExchange, Unlist, Lookup, Stop, Again, confVars
  <2>4. CASE \E undone \in BOOLEAN : Store(undone)
    BY <2>1, <2>4, <1>4 DEF Store, confVars
  <2>5. CASE Booted
    BY <2>5 DEF Booted
  <2>6. QED
    BY <1>7, <2>2, <2>3, <2>4, <2>5 DEF ApiStep
<1>8. CASE Boot
    BY <1>8 DEF Boot
<1>9. ASSUME NEW k \in Keys, WorkerStep(k) \/ SelectExit(k) \/ Unsubscribe(k)
      PROVE  Idle'
  <2>1. k \in Actors
    BY Actor
  <2>2. CASE Calls(k)
    BY <2>1, <2>2, <1>5
  <2>3. CASE Start(k)
    BY <2>3, <1>2 DEF Start, confVars
  <2>4. CASE Consume(k)
    BY <2>1, <2>4, <1>4 DEF Consume, confVars
  <2>5. CASE ConsumeRefused(k)
    BY <2>1, <2>5, <1>3 DEF ConsumeRefused
  <2>6. CASE SelectClosed(k) \/ SelectExit(k) \/ Ends(k) \/ Unsubscribe(k)
    BY <2>6 DEF SelectClosed, SelectExit, Ends, Unsubscribe, confVars, Down, Idle
  <2>7. QED
    BY <1>9, <2>2, <2>3, <2>4, <2>5, <2>6 DEF WorkerStep
<1>10. CASE Faults
  <2>1. CASE \E a \in Actors : DeclareFault(a) \/ ClearFault(a)
    BY <2>1, <1>5
  <2>2. CASE \E a \in Actors : FaultFails(a)
    BY <2>2, <1>3 DEF FaultFails
  <2>3. CASE \E k \in Keys : Unsubscribe(k)
    BY <2>3, <1>9
  <2>4. QED
    BY <1>10, <2>1, <2>2, <2>3 DEF Faults
<1>11. CASE UNCHANGED vars
    BY <1>11 DEF vars, confVars, Down, Idle
<1>12. QED
    BY <1>6, <1>7, <1>8, <1>9, <1>10, <1>11 DEF Next

(* The messages that p leaves of those in cf.                              *)
Leaves(cf, p, R) ==
    \/ R = cf /\ \A x : ~Has(p, "remove", x)
    \/ \E n : /\ Named(cf, n) # {} /\ R = RemoveAt(cf, Min(Named(cf, n)))
              /\ \A x : Has(p, "remove", x) <=> x = n

(* They are those that remain.                                             *)
LEMMA LeavesIs ==
    ASSUME prog \in [Actors -> Seq(CallSet)], NEW p \in Seq(ApiCalls), NEW R,
           prog' = [prog EXCEPT ![Api] = p], Leaves(conf', p, R)
    PROVE  /\ Remaining' = R
           /\ \A n : Has(p, "remove", n) => Named(conf', n) # {}
<1>1. prog'[Api] = p
    BY Actor
<1>2. CASE R = conf' /\ \A x : ~Has(p, "remove", x)
    BY <1>1, <1>2, RemainingNext
<1>3. CASE \E n : /\ Named(conf', n) # {} /\ R = RemoveAt(conf', Min(Named(conf', n)))
                  /\ \A x : Has(p, "remove", x) <=> x = n
  <2>1. PICK n : /\ Named(conf', n) # {} /\ R = RemoveAt(conf', Min(Named(conf', n)))
                 /\ \A x : Has(p, "remove", x) <=> x = n
    BY <1>3
  <2>2. Remaining' = RemoveAt(conf', Min(Named(conf', n)))
    BY <1>1, <2>1, RemainingNext
  <2>3. QED
    BY <2>1, <2>2
<1>4. QED
    BY <1>2, <1>3 DEF Leaves

(* The process is started again.                                           *)
LEMMA BootStep == ASSUME ServiceInv, Down, Boot PROVE ServiceInv'
<1>1. /\ phase = "down" /\ phase' = "boot"
      /\ prog' = [prog EXCEPT ![Api] = InitMessages(conf)]
      /\ vacant' = Unlisted(conf) /\ doubt' = Names /\ spoiled' = {}
      /\ UNCHANGED <<conf, used, look, try, workers, broker, left>>
    BY DEF Boot
<1>2. /\ conf \in Seq(Message) /\ used \subseteq Ids /\ look \in (Keys \X Modes) \cup {None} /\ Idle
      /\ prog \in [Actors -> Seq(CallSet)]
    BY <1>1 DEF ServiceInv, Types, Down
<1> DEFINE p == InitMessages(conf)
<1>3. /\ p \in Seq(ApiCalls) /\ Suits(p, conf, doubt')
      /\ \A e : Sole(conf, e) => Has(p, "exchange", e.name)
      /\ \A x : ~Has(p, "remove", x)
  <2>1. "remove" \notin InitVerbs
    BY DEF InitVerbs
  <2>2. QED
    BY <1>2, <2>1, InitProgram
<1>4. prog' = [prog EXCEPT ![Api] = p]
    BY <1>1
<1> HIDE DEF p
<1>5. Remaining' = conf /\ \A n : Has(p, "remove", n) => Named(conf', n) # {}
    BY <1>1, <1>2, <1>3, <1>4, LeavesIs DEF Leaves
<1>6. \A e : Sole(conf, e) => e.name \in doubt'
    BY <1>1, <1>2, SoleIs
<1>7. vacant' \subseteq Names
    BY <1>1 DEF Unlisted
<1>8. QED
    BY <1>1, <1>2, <1>3, <1>4, <1>5, <1>6, <1>7, BeginsStep

(* An operation begins that makes everything again, and has to put right   *)
(* what was spoiled and the messages named in S.                           *)
LEMMA WholeStep ==
    ASSUME ServiceInv, NEW cf \in Seq(Message), NEW p, NEW S \in SUBSET Names, NEW R,
           Begin(cf, p), Whole(S), used' \subseteq Ids, look' = look,
           Fit(p, R, spoiled \cup S), Leaves(cf, p, R),
           \A e : Sole(R, e) => Has(p, "exchange", e.name),
           \A e : Sole(R, e) /\ e.name \notin S => Sole(conf, e),
           \A k \in Keys : Lists(conf, k) => Lists(R, k) \/ Has(p, "deleteQueue", k)
    PROVE  ServiceInv'
<1>1. /\ Idle /\ phase = "serve" /\ conf' = cf /\ prog' = [prog EXCEPT ![Api] = p]
      /\ UNCHANGED <<vacant, phase, try, workers, broker, left>>
      /\ doubt' = spoiled \cup S /\ spoiled' = {}
    BY DEF Begin, Whole
<1>2. /\ look' \in (Keys \X Modes) \cup {None} /\ vacant' \subseteq Names
      /\ doubt' \subseteq Names /\ prog \in [Actors -> Seq(CallSet)]
    BY <1>1 DEF ServiceInv, Types
<1>3. p \in Seq(ApiCalls) /\ Suits(p, R, doubt')
    BY <1>1 DEF Fit, Suits
<1>4. Remaining' = R /\ \A n : Has(p, "remove", n) => Named(conf', n) # {}
    BY <1>1, <1>2, <1>3, LeavesIs
<1>5. QED
    BY <1>1, <1>2, <1>3, <1>4, BeginsStep

(* An operation begins that has nothing to put right, and leaves what it   *)
(* changes for the messages named in S as it is.                           *)
LEMMA PartStep ==
    ASSUME ServiceInv, NEW cf \in Seq(Message), NEW p, NEW S \in SUBSET Names,
           Begin(cf, p), Part(S), used' \subseteq Ids,
           look' \in (Keys \X Modes) \cup {None},
           Suits(p, cf, {}), \A x : ~Has(p, "remove", x),
           \A e : Sole(cf, e) /\ e.name \notin S => Sole(conf, e),
           \A k \in Keys : Lists(conf, k) => Lists(cf, k)
    PROVE  ServiceInv'
<1>1. /\ Idle /\ phase = "serve" /\ conf' = cf /\ prog' = [prog EXCEPT ![Api] = p]
      /\ UNCHANGED <<vacant, phase, try, workers, broker, left>>
      /\ doubt' = {} /\ spoiled' = spoiled \cup S
    BY DEF Begin, Part
<1>2. /\ vacant' \subseteq Names /\ spoiled' \subseteq Names
      /\ prog \in [Actors -> Seq(CallSet)]
    BY <1>1 DEF ServiceInv, Types
<1>3. p \in Seq(ApiCalls) /\ Suits(p, cf, doubt')
    BY <1>1 DEF Fit, Counts, Suits
<1>4. Leaves(conf', p, cf)
    BY <1>1 DEF Leaves
<1>5. Remaining' = cf
    BY <1>1, <1>2, <1>3, <1>4, LeavesIs
<1>6. QED
    BY <1>1, <1>2, <1>3, <1>5, BeginsStep

(* All of initMessages leaves the messages it is for, and declares each.   *)
LEMMA InitAll ==
    ASSUME NEW cf \in Seq(Message)
    PROVE  LET p == InitMessages(cf) IN
           /\ \A D : Fit(p, cf, D)
           /\ \A e : Sole(cf, e) => Has(p, "exchange", e.name)
           /\ \A v, x : v \notin InitVerbs => ~Has(p, v, x)
           /\ \A x : ~Has(p, "remove", x)
           /\ Leaves(cf, p, cf)
<1> DEFINE p == InitMessages(cf)
<1>1. /\ \A D : Fit(p, cf, D)
      /\ \A e : Sole(cf, e) => Has(p, "exchange", e.name)
      /\ \A i \in 1..Len(p) : p[i].do \in InitVerbs
    BY InitFits
<1> HIDE DEF p
<1>2. \A v, x : v \notin InitVerbs => ~Has(p, v, x)
    BY <1>1 DEF Has
<1>3. "remove" \notin InitVerbs
    BY DEF InitVerbs
<1>4. \A x : ~Has(p, "remove", x)
    BY <1>2, <1>3
<1>5. QED
    BY <1>1, <1>2, <1>4 DEF Leaves, p

(* A message with other consumers, or with another mode.                   *)
LEMMA EditedIs ==
    ASSUME NEW e \in Message
    PROVE  /\ \A S \in SUBSET Ids : \A f \in [S -> Routes] :
                LET x == [e EXCEPT !.consumers = f] IN
                x \in Message /\ x.name = e.name /\ x.consumers = f
           /\ \A m \in Modes :
                LET x == [e EXCEPT !.mode = m] IN
                x \in Message /\ x.name = e.name /\ x.consumers = e.consumers
BY DEF Message

(* addMessage                                                              *)
LEMMA AddMessageStep ==
    ASSUME ServiceInv, NEW n \in Names, NEW m \in Modes, AddMessage(n, m)
    PROVE  ServiceInv'
<1> DEFINE e == [name |-> n, mode |-> m, consumers |-> <<>>]
           cf == Append(conf, e)
           p == InitMessages(cf)
<1>1. Begin(cf, p) /\ Whole({n}) /\ UNCHANGED <<used, look>>
    BY DEF AddMessage
<1>2. conf \in Seq(Message) /\ used \subseteq Ids
    BY DEF ServiceInv, Types
<1>3. e \in Message /\ e.name = n
  <2>1. 1..0 = {}
    OBVIOUS
  <2>2. <<>> \in Seq(Routes) /\ Len(<<>>) = 0
    BY EmptySeq
  <2>3. <<>> \in [1..0 -> Routes]
    BY <2>2, LenProperties
  <2>4. <<>> \in UNION {[S -> Routes] : S \in SUBSET Ids}
    BY <2>1, <2>3
  <2>5. QED
    BY <2>4 DEF Message
<1> HIDE DEF e
<1>4. /\ cf \in Seq(Message)
      /\ \A x : Sole(cf, x) /\ x.name # n => Sole(conf, x)
      /\ \A k : Lists(conf, k) => Lists(cf, k)
    BY <1>2, <1>3, AppendIs
<1> HIDE DEF cf
<1>5. /\ \A D : Fit(p, cf, D)
      /\ \A x : Sole(cf, x) => Has(p, "exchange", x.name)
      /\ Leaves(cf, p, cf)
    BY <1>4, InitAll
<1> HIDE DEF p
<1>6. \A x : Sole(cf, x) /\ x.name \notin {n} => Sole(conf, x)
    BY <1>4
<1>7. QED
    BY <1>1, <1>2, <1>4, <1>5, <1>6, WholeStep

(* addConsumer                                                             *)
LEMMA AddConsumerStep ==
    ASSUME ServiceInv, NEW n \in Names, NEW i \in Ids, NEW r \in Routes, AddConsumer(n, i, r)
    PROVE  ServiceInv'
<1> DEFINE j == First(n)
           old == conf[j].consumers
           f == With(old, i, r)
           e == [conf[j] EXCEPT !.consumers = f]
           cf == [conf EXCEPT ![j] = e]
           p == InitMessages(cf)
<1>1. /\ Begin(cf, p) /\ Whole({n}) /\ used' = used \cup {i} /\ look' = look
      /\ Named(conf, n) # {}
    BY DEF AddConsumer, Listed
<1>2. conf \in Seq(Message) /\ used' \subseteq Ids
    BY <1>1 DEF ServiceInv, Types
<1>3. j = Min(Named(conf, n))
    BY DEF First
<1>4. conf[j] \in Message /\ conf[j].name = n
    BY <1>1, <1>2, <1>3, FirstIs
<1>5. PICK S \in SUBSET Ids : old \in [S -> Routes]
    BY <1>4 DEF Message
<1>6. f \in [S \cup {i} -> Routes]
    BY <1>5 DEF With
<1> HIDE DEF j, old, f
<1>7. e \in Message /\ e.name = n /\ e.consumers = f
  <2>1. S \cup {i} \in SUBSET Ids
    OBVIOUS
  <2>2. QED
    BY <1>4, <1>6, <2>1, EditedIs
<1>8. DOMAIN old \ DOMAIN e.consumers = {}
    BY <1>5, <1>6, <1>7
<1>9. cf = [conf EXCEPT ![j] = e]
    OBVIOUS
<1> HIDE DEF e, cf
<1>10. /\ cf \in Seq(Message)
       /\ \A x : Sole(cf, x) /\ x.name \notin {n} => Sole(conf, x)
       /\ \A k : Lists(conf, k) => Lists(cf, k)
  <2>1. EditOf(conf, e, cf)
    BY <1>3, <1>7, <1>9 DEF EditOf
  <2>2. Edits(conf, e, cf)
    BY <1>1, <1>2, <1>7, <2>1, EditIs
  <2>3. j = Min(Named(conf, e.name))
    BY <1>3, <1>7
  <2>4. cf \in Seq(Message) /\ \A x : Sole(cf, x) /\ x.name # n => Sole(conf, x)
    BY <1>7, <2>2 DEF Edits
  <2>5. \A k : Lists(conf, k) => Lists(cf, k) \/ k[2] \in DOMAIN old \ DOMAIN e.consumers
    BY <2>2, <2>3 DEF Edits, old
  <2>6. \A k : Lists(conf, k) => Lists(cf, k)
    BY <1>8, <2>5
  <2>7. QED
    BY <2>4, <2>6
<1>11. /\ \A D : Fit(p, cf, D)
       /\ \A x : Sole(cf, x) => Has(p, "exchange", x.name)
       /\ Leaves(cf, p, cf)
    BY <1>10, InitAll
<1> HIDE DEF p
<1>12. QED
    BY <1>1, <1>2, <1>10, <1>11, WholeStep

(* updateMessage                                                           *)
LEMMA UpdateStep ==
    ASSUME ServiceInv, NEW n \in Names, NEW m \in Modes, UpdateMessage(n, m)
    PROVE  ServiceInv'
<1> DEFINE j == First(n)
           e == [conf[j] EXCEPT !.mode = m]
           cf == [conf EXCEPT ![j] = e]
           u == Stops(cf[j])
           v == InitMessages(cf)
           p == u \o v
<1>1. /\ Begin(cf, p) /\ Whole({n}) /\ UNCHANGED <<used, look>> /\ Named(conf, n) # {}
    BY DEF UpdateMessage, Listed
<1>2. conf \in Seq(Message) /\ used' \subseteq Ids
    BY <1>1 DEF ServiceInv, Types
<1>3. j = Min(Named(conf, n))
    BY DEF First
<1>4. conf[j] \in Message /\ conf[j].name = n
    BY <1>1, <1>2, <1>3, FirstIs
<1> HIDE DEF j
<1>5. e \in Message /\ e.name = n /\ e.consumers = conf[j].consumers
    BY <1>4, EditedIs
<1>6. cf = [conf EXCEPT ![j] = e]
    OBVIOUS
<1> HIDE DEF e, cf
<1>7. /\ cf \in Seq(Message) /\ cf[j] = e
      /\ \A x : Sole(cf, x) /\ x.name \notin {n} => Sole(conf, x)
      /\ \A k : Lists(conf, k) => Lists(cf, k)
  <2>1. EditOf(conf, e, cf)
    BY <1>3, <1>5, <1>6 DEF EditOf
  <2>2. Edits(conf, e, cf)
    BY <1>1, <1>2, <1>5, <2>1, EditIs
  <2>3. j = Min(Named(conf, e.name))
    BY <1>3, <1>5
  <2>4. /\ cf \in Seq(Message) /\ cf[j] = e
        /\ \A x : Sole(cf, x) /\ x.name # n => Sole(conf, x)
    BY <1>5, <2>2, <2>3 DEF Edits
  <2>5. \A k : Lists(conf, k) => Lists(cf, k) \/ k[2] \in DOMAIN conf[j].consumers \ DOMAIN e.consumers
    BY <2>2, <2>3 DEF Edits
  <2>6. \A k : Lists(conf, k) => Lists(cf, k)
    BY <1>5, <2>5
  <2>7. QED
    BY <2>4, <2>6
<1>8. u \in Seq(StopCalls)
    BY <1>5, <1>7, StopsAre
<1>9. /\ \A D : Fit(v, cf, D)
      /\ \A x : Sole(cf, x) => Has(v, "exchange", x.name)
      /\ \A x : ~Has(v, "remove", x)
    BY <1>7, InitAll
<1> HIDE DEF u, v
<1>10. /\ Fit(p, cf, spoiled \cup {n})
      /\ \A x, w : w # "stop" => (Has(p, w, x) <=> Has(v, w, x))
    BY <1>8, <1>9, StopsFirst
<1> HIDE DEF p
<1>11. /\ \A x : Sole(cf, x) => Has(p, "exchange", x.name)
       /\ Leaves(cf, p, cf)
    BY <1>9, <1>10 DEF Leaves
<1>12. QED
    BY <1>1, <1>2, <1>7, <1>10, <1>11, WholeStep

(* deleteMessage                                                           *)
LEMMA DeleteStep ==
    ASSUME ServiceInv, NEW n \in Names, DeleteMessage(n)
    PROVE  ServiceInv'
<1> DEFINE p == Deletion(n)
           R == RemoveAt(conf, First(n))
<1>1. /\ Begin(conf, p) /\ Whole({n}) /\ UNCHANGED <<used, look>> /\ Listed(n)
    BY DEF DeleteMessage
<1>2. conf \in Seq(Message) /\ used' \subseteq Ids /\ Named(conf, n) # {}
    BY <1>1 DEF ServiceInv, Types, Listed
<1>3. R = RemoveAt(conf, Min(Named(conf, n)))
    BY DEF First
<1>4. n \in spoiled \cup {n}
    OBVIOUS
<1>5. /\ Fit(p, R, spoiled \cup {n})
      /\ \A x : Has(p, "remove", x) <=> x = n
      /\ \A e : Sole(R, e) => Has(p, "exchange", e.name)
      /\ \A k \in Keys : Lists(conf, k) => Lists(R, k) \/ Has(p, "deleteQueue", k)
    BY <1>1, <1>2, <1>4, DeletionFits
<1> HIDE DEF p, R
<1>6. \A e : Sole(R, e) /\ e.name \notin {n} => Sole(conf, e)
    BY <1>2, <1>3, RemoveIs
<1>7. Leaves(conf, p, R)
    BY <1>2, <1>3, <1>5 DEF Leaves
<1>8. QED
    BY <1>1, <1>2, <1>5, <1>6, <1>7, WholeStep

(* deleteConsumer                                                          *)
LEMMA DeleteConsumerStep ==
    ASSUME ServiceInv, NEW k \in Keys, DeleteConsumer(k)
    PROVE  ServiceInv'
<1> DEFINE n == k[1]
           j == First(n)
           old == conf[j].consumers
           f == Without(old, k[2])
           e == [conf[j] EXCEPT !.consumers = f]
           cf == [conf EXCEPT ![j] = e]
           s == OfConsumer(conf[j], k[2])
           u == <<Call("stop", k, s)>>
           v == InitMessages(cf)
           c == Call("deleteQueue", k, s)
           w == u \o v
           p == w \o <<c>>
<1>1. /\ Begin(cf, p) /\ Whole({n}) /\ UNCHANGED <<used, look>>
      /\ Named(conf, n) # {} /\ k[2] \in DOMAIN old
    BY DEF DeleteConsumer, Configured, Listed
<1>2. conf \in Seq(Message) /\ used' \subseteq Ids
    BY <1>1 DEF ServiceInv, Types
<1>3. j = Min(Named(conf, n)) /\ n \in Names /\ k = <<n, k[2]>>
    BY NameIs DEF First
<1>4. conf[j] \in Message /\ conf[j].name = n
    BY <1>1, <1>2, <1>3, FirstIs
<1>5. s \in Settings
  <2>1. s \in ItemSet
    BY <1>1, <1>4, MessageIs
  <2>2. QED
    BY <2>1, ItemIs
<1>6. PICK S \in SUBSET Ids : old \in [S -> Routes]
    BY <1>4 DEF Message
<1>7. f \in [S \ {k[2]} -> Routes]
    BY <1>6 DEF Without
<1> HIDE DEF j, old, f, s
<1>8. e \in Message /\ e.name = n /\ e.consumers = f
  <2>1. S \ {k[2]} \in SUBSET Ids
    OBVIOUS
  <2>2. QED
    BY <1>4, <1>7, <2>1, EditedIs
<1>9. DOMAIN e.consumers = DOMAIN old \ {k[2]} /\ DOMAIN old \ DOMAIN e.consumers = {k[2]}
    BY <1>1, <1>6, <1>7, <1>8
<1>10. EditOf(conf, e, cf)
    BY <1>3, <1>8 DEF EditOf
<1> HIDE DEF e, cf
<1>11. Edits(conf, e, cf)
    BY <1>1, <1>2, <1>8, <1>10, EditIs
<1>12. /\ cf \in Seq(Message)
       /\ \A x : Sole(cf, x) /\ x.name \notin {n} => Sole(conf, x)
       /\ \A x : Sole(cf, x) /\ x.name = n => DOMAIN x.consumers = DOMAIN old \ {k[2]}
       /\ \A q : Lists(conf, q) => Lists(cf, q) \/ (q[1] = n /\ q[2] = k[2])
  <2>1. /\ \A x : Sole(cf, x) /\ x.name = n => x.consumers = e.consumers
        /\ \A q : Lists(conf, q) =>
             Lists(cf, q) \/ (q[1] = n /\ q[2] \in DOMAIN old \ DOMAIN e.consumers)
    BY <1>3, <1>8, <1>11 DEF Edits, old
  <2>2. cf \in Seq(Message) /\ \A x : Sole(cf, x) /\ x.name # n => Sole(conf, x)
    BY <1>8, <1>11 DEF Edits
  <2>3. QED
    BY <1>9, <2>1, <2>2
<1>13. ASSUME NEW x, Sole(cf, x), NEW b \in Needs(x) PROVE b[1] # k
  <2>1. PICK i \in DOMAIN x.consumers : b[1] = <<x.name, i>>
    BY DEF Needs
  <2>2. ASSUME b[1] = k PROVE FALSE
    <3>1. x.name = n /\ i = k[2]
      BY <1>3, <2>1, <2>2
    <3>2. QED
      BY <1>12, <1>13, <2>1, <3>1
  <2>3. QED
    BY <2>2
<1>14. /\ \A D : Fit(v, cf, D)
       /\ \A x : Sole(cf, x) => Has(v, "exchange", x.name)
       /\ \A x : ~Has(v, "remove", x)
    BY <1>12, InitAll
<1>15. u \in Seq(StopCalls) /\ c \in ApiCalls /\ c.do = "deleteQueue" /\ c.on = k
    BY <1>5, CallIs DEF ApiCalls, StopCalls, OnNames, Verbs
<1> HIDE DEF u, v, c
<1>16. /\ Fit(w, cf, spoiled \cup {n})
       /\ \A x, z : z # "stop" => (Has(w, z, x) <=> Has(v, z, x))
    BY <1>14, <1>15, StopsFirst
<1> HIDE DEF w
<1>17. /\ \A x : ~Has(w, "remove", x)
       /\ \A x : Sole(cf, x) => Has(w, "exchange", x.name)
    BY <1>14, <1>16
<1>18. /\ Fit(p, cf, spoiled \cup {n})
       /\ \A x, z : Has(w, z, x) => Has(p, z, x)
       /\ \A x, z : z # "deleteQueue" => (Has(p, z, x) => Has(w, z, x))
       /\ Has(p, "deleteQueue", k)
    BY <1>13, <1>15, <1>16, <1>17, DeleteLast
<1> HIDE DEF p
<1>19. /\ \A x : Sole(cf, x) => Has(p, "exchange", x.name)
       /\ Leaves(cf, p, cf)
    BY <1>17, <1>18 DEF Leaves
<1>20. \A q \in Keys : Lists(conf, q) => Lists(cf, q) \/ Has(p, "deleteQueue", q)
  <2>1. \A q \in Keys : q[1] = n /\ q[2] = k[2] => q = k
    BY NameIs
  <2>2. QED
    BY <1>12, <1>18, <2>1
<1>21. QED
    BY <1>1, <1>2, <1>3, <1>12, <1>18, <1>19, <1>20, WholeStep

(* statusConsumer                                                          *)
LEMMA StatusStep ==
    ASSUME ServiceInv, NEW k \in Keys, StatusConsumer(k)
    PROVE  ServiceInv'
<1> DEFINE s == OfConsumer(conf[First(k[1])], k[2])
           c == Call("queue", k, s)
<1>1. /\ Begin(conf, <<c>>) /\ Part({}) /\ UNCHANGED <<used, look>>
      /\ Named(conf, k[1]) # {} /\ k[2] \in DOMAIN conf[First(k[1])].consumers
    BY DEF StatusConsumer, Configured, Listed
<1>2. conf \in Seq(Message) /\ used' \subseteq Ids /\ look' \in (Keys \X Modes) \cup {None}
    BY <1>1 DEF ServiceInv, Types
<1>3. conf[First(k[1])] \in Message /\ Lists(conf, <<k[1], k[2]>>) /\ k = <<k[1], k[2]>>
    BY <1>1, <1>2, FirstIs, NameIs DEF First
<1>4. s \in Settings
  <2>1. s \in ItemSet
    BY <1>1, <1>3, MessageIs
  <2>2. QED
    BY <2>1, ItemIs
<1> HIDE DEF s
<1>5. c \in ApiCalls /\ c.do = "queue" /\ c.on = k
    BY <1>4, CallIs DEF ApiCalls, OnNames, Verbs
<1> HIDE DEF c
<1>6. <<c>> \in Seq(ApiCalls) /\ Len(<<c>>) = 1 /\ <<c>>[1] = c
    BY <1>5
<1>7. Suits(<<c>>, conf, {})
    BY <1>3, <1>5, <1>6 DEF Suits, Counts
<1>8. \A x : ~Has(<<c>>, "remove", x)
    BY <1>5, <1>6 DEF Has
<1>9. {} \in SUBSET Names
    OBVIOUS
<1>10. QED
    BY <1>1, <1>2, <1>7, <1>8, <1>9, PartStep

(* updateConsumer                                                          *)
LEMMA UpdateConsumerStep ==
    ASSUME ServiceInv, NEW r \in Routes, UpdateConsumer(r)
    PROVE  ServiceInv'
<1>1. conf \in Seq(Message) /\ used' \subseteq Ids /\ look \in Keys \X Modes
      /\ look' \in (Keys \X Modes) \cup {None}
    BY DEF ServiceInv, Types, UpdateConsumer
<1> DEFINE k == look[1]
           n == k[1]
           j == First(n)
<1>2. k \in Keys /\ look[2] \in Modes /\ n \in Names /\ k[2] \in Ids
    BY <1>1, NameIs
<1>3. CASE ~Configured(k)
  <2>1. Begin(conf, <<>>) /\ Part({})
    BY <1>3 DEF UpdateConsumer
  <2>2. Suits(<<>>, conf, {}) /\ (\A x : ~Has(<<>>, "remove", x)) /\ {} \in SUBSET Names
    BY NoProgram
  <2>3. QED
    BY <1>1, <2>1, <2>2, PartStep
<1>4. CASE Configured(k)
  <2> DEFINE old == conf[j].consumers
             f == With(old, k[2], r)
             e == [conf[j] EXCEPT !.consumers = f]
             cf == [conf EXCEPT ![j] = e]
             c == Call("update", k, [mode |-> look[2], key |-> r])
             T == IF old[k[2]] = r THEN {} ELSE {n}
  <2>1. Begin(cf, <<c>>) /\ Part(T) /\ Named(conf, n) # {} /\ k[2] \in DOMAIN old
    BY <1>4 DEF UpdateConsumer, Configured, Listed
  <2>2. j = Min(Named(conf, n))
    BY DEF First
  <2>3. conf[j] \in Message /\ conf[j].name = n
    BY <1>1, <2>1, <2>2, FirstIs
  <2>4. PICK S \in SUBSET Ids : old \in [S -> Routes]
    BY <2>3 DEF Message
  <2>5. f \in [S -> Routes] /\ (old[k[2]] = r => f = old)
    BY <2>1, <2>4 DEF With
  <2> HIDE DEF j, old, f
  <2>6. e \in Message /\ e.name = n /\ e.consumers = f
    BY <2>3, <2>5, EditedIs
  <2>7. old[k[2]] = r => cf = conf
    <3>1. old[k[2]] = r => e = conf[j]
      BY <2>3, <2>5 DEF Message, old
    <3>2. j \in 1..Len(conf) /\ DOMAIN conf = 1..Len(conf)
      BY <1>1, <2>1, <2>2, FirstIs, LenProperties
    <3> HIDE DEF e
    <3>3. QED
      BY <1>1, <3>1, <3>2
  <2>8. DOMAIN old \ DOMAIN e.consumers = {}
    BY <2>4, <2>5, <2>6
  <2>9. EditOf(conf, e, cf)
    BY <2>2, <2>6 DEF EditOf
  <2>10. c \in ApiCalls /\ c.do = "update"
    <3> DEFINE x == [mode |-> look[2], key |-> r]
    <3>1. x \in ItemSet
      BY <1>2 DEF ItemSet
    <3>2. x \in Settings
      BY <3>1, ItemIs
    <3> HIDE DEF x
    <3>3. QED
      BY <1>2, <3>1, <3>2, CallIs DEF ApiCalls, OnNames, Verbs, x
  <2> HIDE DEF e, cf, c, n, k
  <2>11. Edits(conf, e, cf)
    BY <1>1, <2>1, <2>6, <2>9, EditIs
  <2>12. /\ cf \in Seq(Message)
         /\ \A x : Sole(cf, x) /\ x.name # n => Sole(conf, x)
         /\ \A q : Lists(conf, q) => Lists(cf, q)
    <3>1. cf \in Seq(Message) /\ \A x : Sole(cf, x) /\ x.name # n => Sole(conf, x)
      BY <2>6, <2>11 DEF Edits
    <3>2. \A q : Lists(conf, q) => Lists(cf, q) \/ q[2] \in DOMAIN old \ DOMAIN e.consumers
      BY <2>2, <2>6, <2>11 DEF Edits, old
    <3>3. QED
      BY <2>8, <3>1, <3>2
  <2>13. \A x : Sole(cf, x) /\ x.name \notin T => Sole(conf, x)
    BY <2>7, <2>12
  <2>14. <<c>> \in Seq(ApiCalls) /\ Len(<<c>>) = 1 /\ <<c>>[1] = c
    BY <2>10
  <2>15. (\A x : ~Has(<<c>>, "remove", x)) /\ Suits(<<c>>, cf, {})
    BY <2>10, <2>14 DEF Has, Suits, Fit, Proper
  <2>16. T \in SUBSET Names
    BY <1>2
  <2> HIDE DEF T
  <2>17. QED
    BY <1>1, <2>1, <2>12, <2>13, <2>15, <2>16, PartStep
<1>5. QED
    BY <1>3, <1>4

(* restart and reload.                                                     *)
LEMMA AgainAllStep == ASSUME ServiceInv, Restart \/ Reload PROVE ServiceInv'
<1> DEFINE u == FlattenSeq([j \in DOMAIN conf |-> Stops(conf[j])])
           v == InitMessages(conf)
           w == u \o v
<1>1. conf \in Seq(Message) /\ used \subseteq Ids
    BY DEF ServiceInv, Types
<1>2. Whole({}) /\ UNCHANGED <<used, look>> /\ (Begin(conf, w) \/ Begin(conf, v))
    BY DEF Restart, Reload
<1>3. u \in Seq(StopCalls)
    BY <1>1, AllStopsAre
<1>4. /\ \A D : Fit(v, conf, D)
      /\ \A x : Sole(conf, x) => Has(v, "exchange", x.name)
      /\ \A x : ~Has(v, "remove", x)
      /\ Leaves(conf, v, conf)
    BY <1>1, InitAll
<1> HIDE DEF u, v
<1>5. /\ Fit(w, conf, spoiled \cup {})
      /\ \A x, z : z # "stop" => (Has(w, z, x) <=> Has(v, z, x))
    BY <1>3, <1>4, StopsFirst
<1> HIDE DEF w
<1>6. /\ \A x : Sole(conf, x) => Has(w, "exchange", x.name)
      /\ Leaves(conf, w, conf)
    BY <1>4, <1>5 DEF Leaves
<1>7. {} \in SUBSET Names /\ used' \subseteq Ids /\ Fit(v, conf, spoiled \cup {})
    BY <1>1, <1>2, <1>4
<1>8. CASE Begin(conf, w)
    BY <1>1, <1>2, <1>5, <1>6, <1>7, <1>8, WholeStep
<1>9. CASE Begin(conf, v)
    BY <1>1, <1>2, <1>4, <1>7, <1>9, WholeStep
<1>10. QED
    BY <1>2, <1>8, <1>9

(* apiConsumerUpdate's look-up.                                            *)
LEMMA LookUpStep == ASSUME ServiceInv, NEW k \in Keys, LookUp(k) PROVE ServiceInv'
<1>1. /\ Configured(k) /\ look' = <<k, conf[First(k[1])].mode>>
      /\ UNCHANGED <<conf, used, vacant, phase, requests, prog, try, workers, broker, history>>
    BY DEF LookUp
<1>2. UNCHANGED <<wpc, item, asked, exchange, queues, bound, subscribed, doubt, spoiled, left>>
    BY <1>1 DEF workers, broker, history, force
<1>3. look' \in Keys \X Modes
  <2>1. conf \in Seq(Message) /\ Named(conf, k[1]) # {}
    BY <1>1 DEF Configured, Listed, ServiceInv, Types
  <2>2. conf[First(k[1])] \in Message
    BY <2>1, FirstIs DEF First
  <2>3. conf[First(k[1])].mode \in Modes
    BY <2>2, MessageIs
  <2>4. QED
    BY <1>1, <2>3
<1>4. Types'
    BY <1>1, <1>2, <1>3 DEF ServiceInv, Types, Registered, Running
<1>5. WorkerInv'
    BY <1>1, <1>2, WorkersKept
<1>6. (\A e : Undisturbed(e)) /\ QueuesKept
    BY <1>2 DEF Undisturbed, QueuesKept
<1>7. ManagerInv' /\ FitInv' /\ ForceInv' /\ QueueInv'
    BY <1>1, <1>2, <1>6, Aside
<1>8. QED
    BY <1>4, <1>5, <1>7 DEF ServiceInv

(* Nothing happens.                                                        *)
LEMMA StutterStep == ASSUME ServiceInv, UNCHANGED vars PROVE ServiceInv'
<1>1. /\ UNCHANGED <<conf, used, vacant, look, phase, prog, try>>
      /\ UNCHANGED <<wpc, item, asked, exchange, queues, bound, subscribed, doubt, spoiled, left>>
    BY DEF vars, confVars, workers, broker, history, force
<1>2. Types'
    BY <1>1 DEF ServiceInv, Types, Registered, Running
<1>3. WorkerInv'
    BY <1>1, WorkersKept
<1>4. (\A e : Undisturbed(e)) /\ QueuesKept
    BY <1>1 DEF Undisturbed, QueuesKept
<1>5. ManagerInv' /\ FitInv' /\ ForceInv' /\ QueueInv'
    BY <1>1, <1>4, Aside
<1>6. QED
    BY <1>2, <1>3, <1>5 DEF ServiceInv

-----------------------------------------------------------------------------
(* The invariant is one of every step                                      *)

(* Every step keeps the invariant.                                         *)
LEMMA ServiceStep ==
    ASSUME ServiceInv, Down, [Next]_vars
    PROVE  ServiceInv'
<1>1. ASSUME NEW a \in Actors, Calls(a) PROVE ServiceInv'
    BY <1>1, DeclareStep, DeclareRefusedStep, ClearStep, BindStep, BindRefusedStep DEF Calls
<1>2. CASE Operations
    BY <1>2, AddMessageStep, AddConsumerStep, UpdateStep, DeleteStep, LookUpStep,
       DeleteConsumerStep, StatusStep, UpdateConsumerStep, AgainAllStep
       DEF Operations
<1>3. CASE ApiStep
    BY <1>1, <1>3, Actor, DeleteQueueStep, DeleteExchangeStep, UnlistStep, LookupStep, StopStep,
       StoreStep, BootedStep
       DEF ApiStep
<1>4. ASSUME NEW k \in Keys, WorkerStep(k) \/ SelectExit(k) PROVE ServiceInv'
    BY <1>1, <1>4, Actor, StartStep, ConsumeStep, ConsumeRefusedStep, LoopStep DEF WorkerStep
<1>5. CASE Faults
    BY <1>5, DeclareFaultStep, ClearFaultStep, FaultFailsStep, UnsubscribeStep DEF Faults
<1>6. QED
    BY <1>2, <1>3, <1>4, <1>5, BootStep, StutterStep DEF Next

(* Whatever the operations, the workers and the broker's failures do in    *)
(* between, what the operation that holds msgLock has still to call fits   *)
(* the messages that it will leave; what a message needs at the broker,    *)
(* routing keys included, is there or still to be made; and a queue that   *)
(* nobody needs is left behind or still to be deleted: the programs of     *)
(* message.go:165-298 and 378-436 beside the workers' set-up (514-561).    *)
THEOREM ServiceInvariant == Spec => [](ServiceInv /\ Down)
<1>1. Init => ServiceInv /\ Down
    BY InitService DEF Init, Down
<1>2. ServiceInv /\ Down /\ [Next]_vars => (ServiceInv /\ Down)'
    BY ServiceStep, DownStep
<1>3. QED
    BY <1>1, <1>2, PTL DEF Spec

(* Type correctness of the service: among it, that the broker's bindings   *)
(* and subscriptions are of queues it has, subscriptions of workers that   *)
(* run, and pending stops of keys that are registered (message.go:457-619).*)
THEOREM ServiceTypeOK == Spec => []TypeOK
<1>1. ServiceInv => TypeOK
  <2> SUFFICES ASSUME ServiceInv PROVE TypeOK
    OBVIOUS
  <2>1. Types
    BY DEF ServiceInv
  <2>2. \A a \in Actors : \A j \in DOMAIN prog[a] : prog[a][j] \in CallSet
    BY <2>1 DEF Types
  <2>3. item \in [Keys -> Settings \cup {None}]
    BY <2>1, ItemIs DEF Types
  <2>4. QED
    BY <2>1, <2>2, <2>3 DEF Types, TypeOK, CallSet
<1>2. QED
    BY <1>1, ServiceInvariant, PTL

(* Between two operations the broker has what the configuration says of    *)
(* every message that is alone with its name, its bindings by its          *)
(* consumers' routing keys included, unless a retry has deleted one of its *)
(* objects, an operation about it or at it has failed, or updateConsumer   *)
(* has changed one of its routing keys since (message.go:378-410, 260,     *)
(* mq.go:48-163).                                                          *)
THEOREM ServiceInForce == Spec => []InForce
<1>1. ServiceInv => InForce
  <2> SUFFICES ASSUME ServiceInv, phase = "serve", Idle, NEW j \in DOMAIN conf,
                      Named(conf, conf[j].name) = {j}, conf[j].name \notin spoiled
               PROVE  /\ exchange[conf[j].name] = conf[j].mode
                      /\ \A i \in DOMAIN conf[j].consumers :
                           <<<<conf[j].name, i>>, conf[j].consumers[i]>> \in bound
    BY DEF InForce
  <2> DEFINE e == conf[j]
  <2>1. prog[Api] = <<>> /\ Remaining = conf
    BY NothingRemains DEF Idle
  <2>2. Sole(conf, e)
    BY DEF Sole
  <2>3. Given(<<>>, exchange, bound, doubt, e)
    BY <2>1, <2>2 DEF ServiceInv, ForceInv
  <2>4. exchange[e.name] = e.mode /\ \A b \in Needs(e) : b \in bound
    BY <2>3, NoProgram DEF Given
  <2>5. QED
    BY <2>4 DEF Needs
<1>2. QED
    BY <1>1, ServiceInvariant, PTL

(* Between two operations every queue is that of a consumer in the         *)
(* messages, or one that an earlier run, a worker told to stop or an       *)
(* operation that failed before deleting it has left behind: no operation  *)
(* that succeeds leaves a queue of nobody's (message.go:197-233, 267-298). *)
THEOREM ServiceQueueWanted == Spec => []QueueWanted
<1>1. ServiceInv => QueueWanted
  <2> SUFFICES ASSUME ServiceInv, phase = "serve", Idle, NEW k \in queues
               PROVE  Lists(conf, k) \/ k \in left
    BY DEF QueueWanted
  <2>1. prog[Api] = <<>> /\ Remaining = conf
    BY NothingRemains DEF Idle
  <2>2. QED
    BY <2>1, NoProgram DEF ServiceInv, QueueInv
<1>2. QED
    BY <1>1, ServiceInvariant, PTL

(* Every step is one of ConsumerControl's, or changes nothing it speaks    *)
(* of, or is the end of the process.                                       *)
LEMMA ControlStep ==
    ASSUME ServiceInv, [Next]_vars
    PROVE  [phase' = "down" \/ Control!Next]_<<Obeying, asked>>
<1> DEFINE Goal == phase' = "down" \/ Control!Next \/ UNCHANGED <<Obeying, asked>>
<1>1. /\ wpc \in [Keys -> {"none", "start", "setup", "loop", "remove"}]
      /\ asked \subseteq Registered /\ Registered \subseteq Keys
    BY DEF ServiceInv, Types, Registered
<1>2. (wpc' = wpc /\ asked' = asked) => Goal
    BY DEF Obeying
<1>3. ASSUME NEW k \in Keys, NEW x \in {"start", "setup", "loop"},
             wpc[k] \in {"start", "setup", "loop"}, wpc' = [wpc EXCEPT ![k] = x], asked' = asked
      PROVE  Goal
  <2>1. Obeying' = Obeying
    BY <1>1, <1>3 DEF Obeying
  <2>2. QED
    BY <2>1, <1>3
<1>4. ASSUME NEW k \in Keys, Obeying' = Obeying, asked' = asked \ {k} PROVE Goal
  <2>1. CASE k \in asked
    BY <1>4, <2>1 DEF Control!Next, Control!Lose
  <2>2. CASE k \notin asked
    <3>1. asked' = asked
      BY <1>4, <2>2
    <3>2. QED
      BY <1>4, <3>1
  <2>3. QED
    BY <2>1, <2>2
<1>5. ASSUME NEW a \in Actors, prog[a] # <<>>, Fails(a) PROVE Goal
  <2>1. CASE a = Api
    BY <1>2, <1>5, <2>1 DEF Fails
  <2>2. CASE a # Api
    <3>1. a \in Keys /\ wpc[a] = "setup"
      BY <1>5, <2>2, Actor DEF ServiceInv, WorkerInv, Working
    <3>2. wpc' = [wpc EXCEPT ![a] = "start"] /\ asked' = asked
      BY <1>5, <2>2 DEF Fails
    <3>3. QED
      BY <1>3, <3>1, <3>2
  <2>3. QED
    BY <2>1, <2>2
<1>6. ASSUME NEW a \in Actors, Calls(a) PROVE Goal
  <2>1. CASE Declare(a) \/ DeclareRefused(a) \/ Clear(a) \/ Bind(a)
    <3>1. UNCHANGED workers
      BY <2>1 DEF Declare, DeclareRefused, Clear, Bind
    <3>2. QED
      BY <1>2, <3>1 DEF workers
  <2>2. CASE BindRefused(a)
    BY <1>5, <2>2 DEF BindRefused, At
  <2>3. QED
    BY <1>6, <2>1, <2>2 DEF Calls
<1>7. CASE Operations
  <2>1. ASSUME NEW cf, NEW q, Begin(cf, q) PROVE UNCHANGED workers
    BY <2>1 DEF Begin
  <2>2. UNCHANGED workers
    BY <1>7, <2>1 DEF Operations, AddMessage, UpdateMessage, DeleteMessage, AddConsumer, LookUp,
       DeleteConsumer, StatusConsumer, UpdateConsumer, Restart, Reload
  <2>3. QED
    BY <1>2, <2>2 DEF workers
<1>8. CASE ApiStep
  <2>1. CASE DeleteQueue \/ DeleteExchange \/ Unlist \/ Lookup \/ Booted
    BY <1>2, <2>1 DEF DeleteQueue, DeleteExchange, Unlist, Lookup, Booted, workers
  <2>2. CASE Stop
    <3>1. Head(prog[Api]) \in ApiCalls
      BY <2>2, RemainingOf, RestOf DEF Stop, At, ServiceInv, Types
    <3>2. On(Api) \in Keys /\ On(Api) \notin asked /\ wpc' = wpc
          /\ asked' = IF On(Api) \in Registered THEN asked \cup {On(Api)} ELSE asked
      BY <2>2, <3>1 DEF Stop, StopBlocked, At, On, ApiCalls, OnNames
    <3>3. Obeying' = Obeying
      BY <3>2 DEF Obeying
    <3>4. QED
      BY <3>2, <3>3 DEF Control!Next, Control!Ask
  <2>3. ASSUME NEW undone \in BOOLEAN, Store(undone) PROVE Goal
    <3> DEFINE k == On(Api)
    <3>1. /\ k \in Keys
          /\ try[Api] = 2 => k \notin Running /\ k \notin asked /\ ~undone
      BY <2>3, StoreFacts
    <3>2. /\ wpc' = IF try[Api] = 2 THEN [wpc EXCEPT ![k] = "start"] ELSE wpc
          /\ asked' = IF undone THEN asked ELSE asked \ {k}
      BY <2>3 DEF Store
    <3> HIDE DEF k
    <3>3. CASE try[Api] = 2
      <4>1. k \notin Obeying /\ k \notin asked /\ asked' = asked
        BY <3>1, <3>2, <3>3 DEF Obeying, Running
      <4>2. Obeying' = Obeying \cup {k}
        BY <1>1, <3>1, <3>2, <3>3 DEF Obeying
      <4>3. QED
        BY <3>1, <4>1, <4>2 DEF Control!Next, Control!Start
    <3>4. CASE try[Api] # 2
      <4>1. Obeying' = Obeying
        BY <3>2, <3>4 DEF Obeying
      <4>2. QED
        BY <1>4, <3>1, <3>2, <4>1
    <3>5. QED
      BY <3>3, <3>4
  <2>4. QED
    BY <1>6, <1>8, <2>1, <2>2, <2>3, Actor DEF ApiStep
<1>9. CASE Boot
    BY <1>2, <1>9 DEF Boot, workers
<1>10. ASSUME NEW k \in Keys, WorkerStep(k) \/ SelectExit(k) PROVE Goal
  <2>1. CASE Start(k) \/ Consume(k) \/ SelectClosed(k)
    <3>1. /\ wpc[k] \in {"start", "setup", "loop"} /\ asked' = asked
          /\ \E x \in {"start", "setup", "loop"} : wpc' = [wpc EXCEPT ![k] = x]
      BY <2>1 DEF Start, Consume, SelectClosed, Goto
    <3>2. QED
      BY <1>3, <3>1
  <2>2. CASE ConsumeRefused(k)
    BY <1>5, <2>2, Actor DEF ConsumeRefused, At
  <2>3. CASE SelectExit(k)
    <3>1. /\ wpc[k] = "loop" /\ wpc' = [wpc EXCEPT ![k] = "remove"]
          /\ k \in asked /\ asked' = asked \ {k}
      BY <2>3 DEF SelectExit, Goto
    <3>2. k \in Obeying /\ Obeying' = Obeying \ {k}
      BY <1>1, <3>1 DEF Obeying
    <3>3. QED
      BY <3>1, <3>2 DEF Control!Next, Control!Exit
  <2>4. CASE Ends(k)
    <3>1. wpc[k] = "remove" /\ wpc' = [wpc EXCEPT ![k] = "none"] /\ asked' = asked \ {k}
      BY <2>4 DEF Ends, Goto
    <3>2. Obeying' = Obeying
      BY <1>1, <3>1 DEF Obeying
    <3>3. QED
      BY <1>4, <3>1, <3>2
  <2>5. QED
    BY <1>6, <1>10, <2>1, <2>2, <2>3, <2>4, Actor DEF WorkerStep
<1>11. CASE Faults
    BY <1>2, <1>5, <1>11
       DEF Faults, DeclareFault, ClearFault, FaultFails, At, Unsubscribe, workers
<1>12. CASE UNCHANGED vars
    BY <1>2, <1>12 DEF vars, workers
<1>13. QED
    BY <1>7, <1>8, <1>9, <1>10, <1>11, <1>12 DEF Next

(* What the operations and the workers do to each other through the        *)
(* manager is what ConsumerControl allows: at most one worker of a key,    *)
(* none that ends without having been asked to, none that inherits a stop  *)
(* (message.go:457-486, 573-619).                                          *)
THEOREM ServiceControlled == Spec => Controlled
<1>1. ServiceInv /\ [Next]_vars => [phase' = "down" \/ Control!Next]_<<Obeying, asked>>
    BY ControlStep
<1>2. QED
    BY <1>1, ServiceInvariant, PTL DEF Spec, Controlled

-----------------------------------------------------------------------------
(* How long an operation takes                                             *)

(* A step of a program brings the operation on, if it is the operation's.  *)
LEMMA Advance ==
    ASSUME ServiceInv, ~Idle, NEW a \in Actors,
           \/ Done(a)
           \/ \E t \in 0..3 : try[a] < t /\ Again(a, t)
           \/ Fails(a)
    PROVE  UNCHANGED <<prog[Api], try[Api]>> \/ CallsLeft' < CallsLeft
<1>1. /\ prog \in [Actors -> Seq(CallSet)] /\ prog[Api] # <<>>
      /\ try \in [Actors -> 0..3] /\ try[Api] \in 0..3 /\ Api \in Actors
    BY Actor DEF ServiceInv, Types, Idle
<1>2. Len(prog[Api]) \in Nat /\ Len(prog[Api]) >= 1 /\ Len(Tail(prog[Api])) = Len(prog[Api]) - 1
    BY <1>1, TailOf
<1>3. CASE Done(a)
  <2>1. CASE a # Api
    BY <1>1, <1>3, <2>1 DEF Done, Try
  <2>2. CASE a = Api
    <3>1. prog'[Api] = Tail(prog[Api]) /\ try'[Api] = 0
      BY <1>1, <1>3, <2>2 DEF Done, Try
    <3>2. CallsLeft = 4 * Len(prog[Api]) - try[Api] /\ CallsLeft' = 4 * (Len(prog[Api]) - 1) - 0
      BY <1>2, <3>1 DEF CallsLeft
    <3> HIDE DEF CallsLeft
    <3>3. QED
      BY <1>1, <1>2, <3>2
  <2>3. QED
    BY <2>1, <2>2
<1>4. ASSUME NEW t \in 0..3, try[a] < t, Again(a, t)
      PROVE  UNCHANGED <<prog[Api], try[Api]>> \/ CallsLeft' < CallsLeft
  <2>1. CASE a # Api
    BY <1>1, <1>4, <2>1 DEF Again, Try
  <2>2. CASE a = Api
    <3>1. prog'[Api] = prog[Api] /\ try'[Api] = t
      BY <1>1, <1>4, <2>2 DEF Again, Try
    <3>2. QED
      BY <1>1, <1>2, <1>4, <2>2, <3>1 DEF CallsLeft
  <2>3. QED
    BY <2>1, <2>2
<1>5. CASE Fails(a)
  <2>1. CASE a # Api
    BY <1>1, <1>5, <2>1 DEF Fails, Try
  <2>2. CASE a = Api
    <3>1. prog'[Api] = <<>> /\ try'[Api] = 0 /\ Len(<<>>) = 0
      BY <1>1, <1>5, <2>2 DEF Fails, Try
    <3>2. QED
      BY <1>1, <1>2, <3>1 DEF CallsLeft
  <2>3. QED
    BY <2>1, <2>2
<1>6. QED
    BY <1>3, <1>4, <1>5

LEMMA OperationStep ==
    ASSUME ServiceInv, Down, [Next]_vars, ~Idle
    PROVE  UNCHANGED <<prog[Api], try[Api]>> \/ CallsLeft' < CallsLeft
<1> DEFINE Goal == UNCHANGED <<prog[Api], try[Api]>> \/ CallsLeft' < CallsLeft
<1>1. try \in [Actors -> 0..3] /\ prog \in [Actors -> Seq(CallSet)]
    BY DEF ServiceInv, Types
<1>2. ASSUME UNCHANGED <<prog, try>> PROVE Goal
    BY <1>2
<1>3. ASSUME NEW a \in Actors, Calls(a) PROVE Goal
  <2>1. CASE Declare(a) \/ Bind(a) \/ BindRefused(a)
    BY <2>1, Advance DEF Declare, Bind, BindRefused
  <2>2. CASE DeclareRefused(a)
    <3>1. try[a] \in {0, 2} /\ Again(a, try[a] + 1)
      BY <2>2 DEF DeclareRefused, Declaring
    <3>2. QED
      BY <3>1, Advance
  <2>3. CASE Clear(a)
    <3>1. (try[a] = 1 /\ Again(a, 2)) \/ Done(a)
      BY <2>3 DEF Clear
    <3>2. QED
      BY <3>1, Advance
  <2>4. QED
    BY <1>3, <2>1, <2>2, <2>3 DEF Calls
<1>4. CASE Operations
    BY <1>2, <1>4
    DEF Operations, AddMessage, UpdateMessage, DeleteMessage, AddConsumer, LookUp,
        DeleteConsumer, StatusConsumer, UpdateConsumer, Restart, Reload, Begin
<1>5. CASE ApiStep
  <2>1. CASE Lookup
    <3>1. \E t \in {1, 2} : try[Api] < t /\ Again(Api, t)
      BY <2>1 DEF Lookup
    <3>2. QED
      BY <3>1, Advance, Actor
  <2>2. CASE DeleteQueue \/ DeleteExchange \/ Unlist \/ Stop \/ \E undone \in BOOLEAN : Store(undone)
    BY <2>2, Advance, Actor DEF DeleteQueue, DeleteExchange, Unlist, Stop, Store
  <2>3. CASE Booted
    BY <1>2, <2>3 DEF Booted
  <2>4. QED
    BY <1>3, <1>5, <2>1, <2>2, <2>3, Actor DEF ApiStep
<1>6. CASE Boot
    BY <1>6 DEF Boot, Down, Idle
<1>7. ASSUME NEW k \in Keys, WorkerStep(k) \/ SelectExit(k) PROVE Goal
  <2>1. CASE Start(k)
    <3>1. prog'[Api] = prog[Api] /\ try' = try
      BY <1>1, <2>1, Actor DEF Start
    <3>2. QED
      BY <3>1
  <2>2. CASE Consume(k) \/ ConsumeRefused(k)
    BY <2>2, Advance, Actor DEF Consume, ConsumeRefused
  <2>3. CASE SelectClosed(k) \/ SelectExit(k) \/ Ends(k)
    BY <1>2, <2>3 DEF SelectClosed, SelectExit, Ends
  <2>4. QED
    BY <1>3, <1>7, <2>1, <2>2, <2>3, Actor DEF WorkerStep
<1>8. ASSUME NEW a \in Actors, DeclareFault(a) \/ ClearFault(a) \/ FaultFails(a) PROVE Goal
  <2>1. CASE FaultFails(a)
    BY <2>1, Advance DEF FaultFails
  <2>2. CASE DeclareFault(a)
    <3>1. try[a] \in {0, 2} /\ Again(a, try[a] + 1)
      BY <2>2 DEF DeclareFault, Declaring
    <3>2. QED
      BY <3>1, Advance
  <2>3. CASE ClearFault(a)
    BY <2>3, Advance DEF ClearFault
  <2>4. QED
    BY <1>8, <2>1, <2>2, <2>3
<1>9. ASSUME NEW k \in Keys, Unsubscribe(k) PROVE Goal
    BY <1>2, <1>9 DEF Unsubscribe
<1>10. CASE UNCHANGED vars
    BY <1>2, <1>10 DEF vars
<1>11. QED
    BY <1>3, <1>4, <1>5, <1>6, <1>7, <1>8, <1>9, <1>10 DEF Next, Faults

(* An operation holds msgLock for a number of steps that is known when it  *)
(* takes it, whatever workers, manager and broker do (mq.go:48-139,        *)
(* message.go:378-436); only a stop that cannot be sent may hold it up.    *)
THEOREM ServiceOperationsAdvance == Spec => OperationsAdvance
<1>1. ServiceInv /\ Down /\ [Next]_vars =>
        [~Idle => UNCHANGED <<prog[Api], try[Api]>> \/ CallsLeft' < CallsLeft]_vars
    BY OperationStep
<1>2. QED
    BY <1>1, ServiceInvariant, PTL DEF Spec, OperationsAdvance

=============================================================================
