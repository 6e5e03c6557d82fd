------------------------ MODULE MessageChangeProofs ------------------------
(***************************************************************************)
(* Proofs of what a change of MessageStore does, for any number of         *)
(* handlers, messages and requests: it is in the file when acknowledged,   *)
(* and touches the message it names only.                                  *)
(*                                                                         *)
(* A change that overlaps no other owns the slice: publishes only look up, *)
(* so that what it reads between the two critical sections, marshals and   *)
(* writes is the list it has changed.                                      *)
(*                                                                         *)
(* The messages of one name are picked from the list by a recursive        *)
(* function, which is first shown to exist, by a least number of elements  *)
(* for which it did not; appending, rewriting or removing a message of     *)
(* another name leaves what it picks alone.                                *)
(***************************************************************************)
EXTENDS MessageStoreProofs

-----------------------------------------------------------------------------
(* What is acknowledged is stored                                          *)

(* A publish looks up and replies, and nothing else.                       *)
PublishInv ==
    \A g \in Handlers : op[g].kind = "publish" => pc[g] \in {"idle", "ptr", "len", "scan"}

(* While a change is alone, the slice it passes to writeMessagesToFile is  *)
(* the list.                                                               *)
Alone(h) ==
    /\ \A g \in Handlers \ {h} : ~Changes(g)
    /\ pc[h] \in {"wlen", "wlock", "marshal", "write"} => arr[h] = Shared
    /\ pc[h] \in {"wlock", "marshal"} => size[h] = len
    /\ pc[h] = "write" => out[h] = Content

AloneInv == alone \subseteq Handlers /\ \A h \in alone : Alone(h)

LEMMA PublishStep == StoreInv /\ PublishInv /\ [Next]_vars => PublishInv'
<1> SUFFICES ASSUME StoreInv, PublishInv, [Next]_vars PROVE PublishInv'
    OBVIOUS
<1>1. ASSUME NEW h \in Handlers, op' = op, pc[h] \notin {"idle", "ptr", "len", "scan"},
             \A g \in Handlers \ {h} : pc'[g] = pc[g]
      PROVE  PublishInv'
    BY <1>1 DEF PublishInv
<1>2. ASSUME NEW h \in Handlers, Reply(h) PROVE PublishInv'
    BY <1>2 DEF PublishInv, StoreInv, Types, Reply, Goto, Nothing
<1>3. ASSUME NEW h \in Handlers, Handler(h) PROVE PublishInv'
  <2>1. ASSUME NEW o \in Op, Begin(h, o) PROVE PublishInv'
    BY <2>1 DEF PublishInv, StoreInv, Types, Begin, Goto
  <2>2. CASE StartLookup(h) \/ ReadLen(h, "len", "scan") \/ ScanOn(h)
    BY <2>2 DEF PublishInv, StoreInv, Types, StartLookup, ReadPtr, ReadLen, ScanOn, Goto
  <2>3. CASE ScanHit(h) \/ ScanMiss(h)
    <3>1. /\ op[h].kind \in {"add", "update", "consumer", "delete", "publish"}
          /\ pass[h] \in {1, 2}
      BY DEF StoreInv, Types, Op, Nothing
    <3>2. \/ Reply(h)
          \/ Leave(h, "ptr", 2)
          \/ op[h].kind # "publish"
             /\ \E to \in {"lock", "index"}, n \in {1, 2} : Leave(h, to, n)
      BY <2>3, <3>1 DEF ScanHit, ScanMiss
    <3>3. QED
      BY <1>2, <3>2 DEF PublishInv, StoreInv, Types, Leave, Goto
  <2>4. ASSUME NEW known \in BOOLEAN, Index(h, known) PROVE PublishInv'
    BY <1>1, <1>2, <2>4 DEF Index, Goto, StoreInv, Types
  <2>5. CASE \/ Acquire(h, "lock", "change") \/ Acquire(h, "wlock", "marshal")
             \/ ReadPtr(h, "wptr", "wlen") \/ ReadLen(h, "wlen", "wlock")
    BY <1>1, <2>5 DEF Acquire, ReadPtr, ReadLen, Goto, StoreInv, Types
  <2>6. CASE \/ Grow(h)
             \/ SetElement(h, "change", "setlen") \/ SetElement(h, "setelem", "unlock")
             \/ SetLength(h, "setlen", "unlock") \/ SetLength(h, "change", "setelem")
             \/ Shift(h)
    BY <1>1, <2>6 DEF Grow, SetElement, SetLength, Shift, Goto, StoreInv, Types
  <2>7. ASSUME NEW known \in BOOLEAN, NEW bad \in BOOLEAN, Update(h, known, bad)
        PROVE  PublishInv'
    BY <1>1, <2>7 DEF Update, Goto, StoreInv, Types
  <2>8. ASSUME NEW bad \in BOOLEAN, Delete(h, bad) PROVE PublishInv'
    BY <1>1, <2>8 DEF Delete, Goto, StoreInv, Types
  <2>9. CASE Unlock(h)
    BY <1>1, <1>2, <2>9 DEF Unlock, Goto, StoreInv, Types
  <2>10. ASSUME NEW good \in BOOLEAN, Marshal(h, good) \/ Write(h, good)
         PROVE  PublishInv'
    BY <1>1, <1>2, <2>10 DEF Marshal, Write, Goto, StoreInv, Types
  <2>11. QED
    BY <1>3, <2>1, <2>2, <2>3, <2>4, <2>5, <2>6, <2>7, <2>8, <2>9, <2>10 DEF Handler
<1>4. CASE Restart
    BY <1>4 DEF Restart, PublishInv
<1>5. CASE UNCHANGED vars
    BY <1>5 DEF vars, PublishInv
<1>6. QED
    BY <1>3, <1>4, <1>5 DEF Next

(* A handler that changes nothing disturbs no change.                      *)
Aside(g) ==
    /\ UNCHANGED <<slice, file>>
    /\ \A h \in Handlers \ {g} :
         /\ pc'[h] = pc[h] /\ op'[h] = op[h]
         /\ arr'[h] = arr[h] /\ size'[h] = size[h] /\ out'[h] = out[h]
    /\ alone' \subseteq alone \cup {g}
    /\ (\E h \in alone' : h # g) => ~Changes(g)'

LEMMA BystanderStep ==
    ASSUME StoreInv, PublishInv, NEW g \in Handlers, ~Changes(g), Handler(g)
    PROVE  Aside(g)
<1>1. pc[g] \in {"idle", "ptr", "len", "scan"}
    BY DEF PublishInv, Changes
<1>2. ASSUME Reply(g), UNCHANGED <<slice, file>> PROVE Aside(g)
    BY <1>2 DEF Reply, Goto, StoreInv, Types, Changes, Aside
<1>3. ASSUME NEW o \in Op, Begin(g, o) PROVE Aside(g)
  <2>1. /\ UNCHANGED <<slice, file>>
        /\ \A h \in Handlers \ {g} :
             /\ pc'[h] = pc[h] /\ op'[h] = op[h]
             /\ arr'[h] = arr[h] /\ size'[h] = size[h] /\ out'[h] = out[h]
        /\ op'[g] = o
    BY <1>3 DEF Begin, Goto, locals, StoreInv, Types
  <2>2. CASE o.kind = "publish"
    BY <1>3, <2>1, <2>2 DEF Begin, Changes, Aside
  <2>3. CASE o.kind # "publish"
    BY <1>3, <2>1, <2>3 DEF Begin, Aside
  <2>4. QED
    BY <2>2, <2>3
<1>4. CASE StartLookup(g) \/ ReadLen(g, "len", "scan") \/ ScanOn(g)
    BY <1>4
       DEF StartLookup, ReadPtr, ReadLen, ScanOn, Goto, StoreInv, Types, Changes, Aside
<1>5. CASE ScanHit(g) \/ ScanMiss(g)
  <2>1. op[g].kind = "publish" /\ pass[g] \in {1, 2} /\ UNCHANGED <<slice, file>>
    BY <1>5 DEF Changes, ScanHit, ScanMiss, StoreInv, Types
  <2>2. Reply(g) \/ Leave(g, "ptr", 2)
    BY <1>5, <2>1 DEF ScanHit, ScanMiss
  <2>3. CASE Leave(g, "ptr", 2)
    BY <2>1, <2>3 DEF Leave, Goto, StoreInv, Types, Changes, Aside
  <2>4. QED
    BY <1>2, <2>1, <2>2, <2>3
<1>6. QED
    BY <1>1, <1>3, <1>4, <1>5
       DEF Handler, Index, Acquire, Grow, SetElement, SetLength, Update, Delete, Shift,
           Unlock, ReadPtr, ReadLen, Marshal, Write

(* A step of a handler that changes something.                             *)
LEMMA ChangerMoves ==
    ASSUME StoreInv, NEW g \in Handlers, Changes(g), Handler(g)
    PROVE  /\ \A k \in Handlers \ {g} : pc'[k] = pc[k] /\ op'[k] = op[k]
           /\ alone' \subseteq alone
<1> DEFINE moves == /\ \A k \in Handlers \ {g} : pc'[k] = pc[k] /\ op'[k] = op[k]
                    /\ alone' \subseteq alone
<1> SUFFICES moves
    OBVIOUS
<1>1. CASE Reply(g)
    BY <1>1 DEF Reply, Goto, StoreInv, Types
<1>2. ASSUME NEW to, NEW n, Leave(g, to, n) PROVE moves
    BY <1>2 DEF Leave, Goto, StoreInv, Types
<1>3. CASE ScanHit(g) \/ ScanMiss(g)
  <2>1. /\ op[g].kind \in {"add", "update", "consumer", "delete", "publish"}
        /\ pass[g] \in {1, 2}
    BY DEF StoreInv, Types, Op, Nothing
  <2>2. Reply(g) \/ \E to, n : Leave(g, to, n)
    BY <1>3, <2>1 DEF ScanHit, ScanMiss
  <2>3. QED
    BY <1>1, <1>2, <2>2
<1>4. CASE \/ StartLookup(g) \/ ReadLen(g, "len", "scan") \/ ScanOn(g)
           \/ Acquire(g, "lock", "change") \/ Acquire(g, "wlock", "marshal")
           \/ ReadPtr(g, "wptr", "wlen") \/ ReadLen(g, "wlen", "wlock")
    BY <1>4 DEF StartLookup, ReadPtr, ReadLen, ScanOn, Acquire, Goto, StoreInv, Types
<1>5. CASE \/ Grow(g) \/ Shift(g)
           \/ SetElement(g, "change", "setlen") \/ SetElement(g, "setelem", "unlock")
           \/ SetLength(g, "setlen", "unlock") \/ SetLength(g, "change", "setelem")
    BY <1>5 DEF Grow, SetElement, SetLength, Shift, Goto, StoreInv, Types
<1>6. ASSUME NEW known \in BOOLEAN, NEW bad \in BOOLEAN,
             Index(g, known) \/ Update(g, known, bad) \/ Delete(g, bad)
      PROVE  moves
    BY <1>1, <1>6 DEF Index, Update, Delete, Goto, StoreInv, Types
<1>7. ASSUME NEW good \in BOOLEAN, Unlock(g) \/ Marshal(g, good) \/ Write(g, good)
      PROVE  moves
    BY <1>1, <1>7 DEF Unlock, Marshal, Write, Goto, StoreInv, Types
<1>8. \A o \in Op : ~Begin(g, o)
    BY DEF Changes, Begin
<1>9. QED
    BY <1>3, <1>4, <1>5, <1>6, <1>7, <1>8 DEF Handler

LEMMA ChangerWrites ==
    ASSUME StoreInv, NEW g \in Handlers, Handler(g)
    PROVE  \/ pc'[g] \notin {"wlen", "wlock", "marshal", "write"}
           \/ ReadPtr(g, "wptr", "wlen")
           \/ ReadLen(g, "wlen", "wlock")
           \/ Acquire(g, "wlock", "marshal")
           \/ pc'[g] = "write" /\ \E opened \in BOOLEAN : Marshal(g, opened)
<1> DEFINE elsewhere == pc'[g] \notin {"wlen", "wlock", "marshal", "write"}
<1>1. ASSUME Reply(g) PROVE elsewhere
    BY <1>1 DEF Reply, Goto, StoreInv, Types
<1>2. ASSUME ScanHit(g) \/ ScanMiss(g) PROVE elsewhere
  <2>1. /\ op[g].kind \in {"add", "update", "consumer", "delete", "publish"}
        /\ pass[g] \in {1, 2}
    BY DEF StoreInv, Types, Op, Nothing
  <2>2. \/ Reply(g)
        \/ \E to \in {"lock", "ptr", "index"}, n \in {1, 2} : Leave(g, to, n)
    BY <1>2, <2>1 DEF ScanHit, ScanMiss
  <2>3. QED
    BY <1>1, <2>2 DEF Leave, Goto, StoreInv, Types
<1>3. ASSUME \/ StartLookup(g) \/ ReadLen(g, "len", "scan") \/ ScanOn(g)
             \/ Acquire(g, "lock", "change") \/ \E o \in Op : Begin(g, o)
      PROVE  elsewhere
    BY <1>3
       DEF StartLookup, ReadPtr, ReadLen, ScanOn, Acquire, Begin, Goto, StoreInv, Types
<1>4. ASSUME \/ Grow(g) \/ Shift(g)
             \/ SetElement(g, "change", "setlen") \/ SetElement(g, "setelem", "unlock")
             \/ SetLength(g, "setlen", "unlock") \/ SetLength(g, "change", "setelem")
      PROVE  elsewhere
    BY <1>4 DEF Grow, SetElement, SetLength, Shift, Goto, StoreInv, Types
<1>5. ASSUME NEW known \in BOOLEAN, NEW bad \in BOOLEAN,
             Index(g, known) \/ Update(g, known, bad) \/ Delete(g, bad)
      PROVE  elsewhere
    BY <1>1, <1>5 DEF Index, Update, Delete, Goto, StoreInv, Types
<1>6. ASSUME NEW good \in BOOLEAN, Unlock(g) \/ Write(g, good) PROVE elsewhere
    BY <1>1, <1>6 DEF Unlock, Write, Goto, StoreInv, Types
<1>7. ASSUME NEW good \in BOOLEAN, Marshal(g, good) PROVE elsewhere \/ pc'[g] = "write"
    BY <1>1, <1>7 DEF Marshal, Goto, StoreInv, Types
<1>8. QED
    BY <1>2, <1>3, <1>4, <1>5, <1>6, <1>7 DEF Handler

LEMMA AloneStep ==
    StoreInv /\ PublishInv /\ AloneInv /\ [Next]_vars =>
      /\ AloneInv'
      /\ \A h \in Handlers :
           h \in alone /\ pc[h] = "write" /\ file # file' => file' = Content'
<1> SUFFICES ASSUME StoreInv, PublishInv, AloneInv, [Next]_vars
             PROVE  /\ AloneInv'
                    /\ \A h \in Handlers :
                         h \in alone /\ pc[h] = "write" /\ file # file' => file' = Content'
    OBVIOUS
<1>1. ASSUME NEW g \in Handlers, Handler(g), ~Changes(g)
      PROVE  /\ AloneInv' /\ file' = file
  <2>1. /\ UNCHANGED <<slice, file>>
        /\ \A h \in Handlers \ {g} :
             /\ pc'[h] = pc[h] /\ op'[h] = op[h]
             /\ arr'[h] = arr[h] /\ size'[h] = size[h] /\ out'[h] = out[h]
        /\ alone' \subseteq alone \cup {g}
        /\ (\E h \in alone' : h # g) => ~Changes(g)'
    BY <1>1, BystanderStep DEF Aside
  <2>2. ASSUME NEW h \in alone', h # g PROVE Alone(h)'
    <3>1. h \in alone /\ h \in Handlers /\ Alone(h)
      BY <2>1, <2>2 DEF AloneInv
    <3>2. \A k \in Handlers \ {h} : ~Changes(k)'
      BY <2>1, <2>2, <3>1 DEF Alone, Changes
    <3>3. Content' = Content /\ len' = len
      BY <2>1 DEF Content, slice
    <3>4. QED
      BY <2>1, <2>2, <3>1, <3>2, <3>3 DEF Alone
  <2>3. ASSUME g \in alone' PROVE Alone(g)'
    <3>1. pc[g] \in {"idle", "ptr", "len", "scan"}
      BY <1>1 DEF PublishInv, Changes
    <3>2. pc'[g] \notin {"wlen", "wlock", "marshal", "write"}
      <4>1. CASE Reply(g)
        BY <4>1 DEF Reply, Goto, StoreInv, Types
      <4>2. ASSUME NEW to \in {"lock", "ptr", "index"}, NEW n, Leave(g, to, n)
            PROVE  pc'[g] = to
        BY <4>2 DEF Leave, Goto, StoreInv, Types
      <4>3. CASE ScanHit(g) \/ ScanMiss(g)
        <5>1. /\ op[g].kind \in {"add", "update", "consumer", "delete", "publish"}
              /\ pass[g] \in {1, 2}
          BY DEF StoreInv, Types, Op, Nothing
        <5>2. \/ Reply(g)
              \/ \E to \in {"lock", "ptr", "index"}, n \in {1, 2} : Leave(g, to, n)
          BY <4>3, <5>1 DEF ScanHit, ScanMiss
        <5>3. QED
          BY <4>1, <4>2, <5>2
      <4>4. CASE \/ \E o \in Op : Begin(g, o)
                 \/ StartLookup(g) \/ ReadLen(g, "len", "scan") \/ ScanOn(g)
        BY <4>4 DEF Begin, StartLookup, ReadPtr, ReadLen, ScanOn, Goto, StoreInv, Types
      <4>5. QED
        BY <1>1, <3>1, <4>3, <4>4
           DEF Handler, Index, Acquire, Grow, SetElement, SetLength, Update, Delete,
               Shift, Unlock, ReadPtr, ReadLen, Marshal, Write
    <3>3. \A k \in Handlers \ {g} : ~Changes(k)'
      <4>1. CASE g \in alone
        BY <2>1, <4>1 DEF AloneInv, Alone, Changes
      <4>2. CASE g \notin alone
        <5>1. PICK o \in Op : Begin(g, o) /\ o.kind # "publish"
          <6>1. alone' # alone
            BY <2>3, <4>2
          <6>2. ASSUME ScanHit(g) \/ ScanMiss(g) PROVE g \notin alone'
            <7>1. op[g].kind = "publish" /\ pass[g] \in {1, 2}
              BY <1>1, <6>2 DEF Changes, ScanHit, ScanMiss, StoreInv, Types
            <7>2. Reply(g) \/ Leave(g, "ptr", 2)
              BY <6>2, <7>1 DEF ScanHit, ScanMiss
            <7>3. QED
              BY <4>2, <7>2 DEF Reply, Leave
          <6>3. \E o \in Op : Begin(g, o)
            BY <1>1, <2>3, <3>1, <6>1, <6>2
               DEF Handler, StartLookup, Index, Acquire, Grow, SetElement, SetLength,
                   Update, Delete, Shift, Unlock, ReadPtr, ReadLen, ScanOn, Marshal, Write
          <6>4. QED
            BY <6>1, <6>3 DEF Begin
        <5>2. \A k \in Handlers : ~Changes(k)
          BY <2>3, <5>1 DEF Begin
        <5>3. QED
          BY <2>1, <5>2 DEF Changes
      <4>3. QED
        BY <4>1, <4>2
    <3>4. QED
      BY <3>2, <3>3 DEF Alone
  <2>4. alone' \subseteq Handlers
    BY <2>1 DEF AloneInv
  <2>5. QED
    BY <2>1, <2>2, <2>3, <2>4 DEF AloneInv
<1>2. ASSUME NEW g \in Handlers, Handler(g), Changes(g)
      PROVE  /\ AloneInv'
             /\ \A h \in Handlers :
                  h \in alone /\ pc[h] = "write" /\ file # file' => file' = Content'
  <2>1. \A h \in alone : h = g
    BY <1>2 DEF AloneInv, Alone
  <2>2. /\ \A k \in Handlers \ {g} : pc'[k] = pc[k] /\ op'[k] = op[k]
        /\ alone' \subseteq alone
    BY <1>2, ChangerMoves
  <2>3. ASSUME g \in alone PROVE Alone(g)'
    <3>1. Alone(g)
      BY <2>3 DEF AloneInv
    <3>2. \A k \in Handlers \ {g} : ~Changes(k)'
      BY <2>2, <3>1 DEF Alone, Changes
    <3>3. CASE pc'[g] \notin {"wlen", "wlock", "marshal", "write"}
      BY <3>2, <3>3 DEF Alone
    <3>4. CASE ReadPtr(g, "wptr", "wlen")
      BY <3>2, <3>4 DEF Alone, ReadPtr, Goto, StoreInv, Types
    <3>5. CASE ReadLen(g, "wlen", "wlock")
      BY <3>1, <3>2, <3>5 DEF Alone, ReadLen, Goto, slice, StoreInv, Types
    <3>6. CASE Acquire(g, "wlock", "marshal")
      BY <3>1, <3>2, <3>6 DEF Alone, Acquire, Goto, slice, locals, StoreInv, Types
    <3>7. ASSUME NEW opened \in BOOLEAN, Marshal(g, opened), pc'[g] = "write"
          PROVE  Alone(g)'
      <4>1. /\ out' = [out EXCEPT ![g] = Marshalled(g)]
            /\ UNCHANGED slice /\ arr' = arr /\ pc[g] = "marshal"
        BY <3>7 DEF Marshal, Reply, Goto, locals, StoreInv, Types
      <4>2. Marshalled(g) = Content /\ Content' = Content
        BY <3>1, <4>1 DEF Alone, Marshalled, Backing, Content, slice
      <4>3. out'[g] = Content'
        BY <4>1, <4>2 DEF StoreInv, Types
      <4>4. QED
        BY <3>1, <3>2, <3>7, <4>1, <4>3 DEF Alone
    <3>8. QED
      BY <1>2, <3>3, <3>4, <3>5, <3>6, <3>7, ChangerWrites
  <2>4. AloneInv'
    BY <2>1, <2>2, <2>3 DEF AloneInv
  <2>5. ASSUME g \in alone, pc[g] = "write", file # file' PROVE file' = Content'
    <3>1. PICK good \in BOOLEAN : Write(g, good)
      BY <1>2, <2>5
         DEF Handler, Begin, StartLookup, ScanOn, ScanHit, ScanMiss, Index, Acquire,
             Grow, SetElement, SetLength, Update, Delete, Shift, Unlock, ReadPtr,
             ReadLen, Marshal
    <3>2. file' = out[g] /\ Content' = Content
      BY <2>5, <3>1 DEF Write, Content, slice
    <3>3. out[g] = Content
      BY <2>5 DEF AloneInv, Alone
    <3>4. QED
      BY <3>2, <3>3
  <2>6. QED
    BY <2>1, <2>4, <2>5
<1>3. CASE Restart
    BY <1>3 DEF Restart, AloneInv
<1>4. CASE UNCHANGED vars
    BY <1>4 DEF vars, AloneInv, Alone, Changes, Content
<1>5. QED
    BY <1>1, <1>2, <1>3, <1>4 DEF Next

(* A change that overlapped no other is in the file, and nothing else is,  *)
(* when it is acknowledged (api.go:74-78, message.go:634-641).             *)
THEOREM StoreAcknowledged == Spec => AcknowledgedIsStored
<1>1. Init => PublishInv /\ AloneInv
    BY DEF Init, PublishInv, AloneInv
<1>2. StoreInv /\ PublishInv /\ [Next]_vars => PublishInv'
    BY PublishStep
<1>3. StoreInv /\ PublishInv /\ AloneInv /\ [Next]_vars =>
        /\ AloneInv'
        /\ \A h \in Handlers :
             h \in alone /\ pc[h] = "write" /\ file # file' => file' = Content'
    BY AloneStep
<1>4. QED
    BY <1>1, <1>2, <1>3, StoreInvariant, PTL DEF Spec, AcknowledgedIsStored

-----------------------------------------------------------------------------
(* The messages of one name                                                *)

(* A set of numbers that is not empty has a least one.                     *)
LEMMA Least ==
    ASSUME NEW S \in SUBSET Nat, S # {}
    PROVE  \E m \in S : \A j \in S : m <= j
<1>1. PICK x \in S : \A y \in S : <<y, x>> \notin OpToRel(<, Nat)
    BY NatLessThanWellFounded, WFMin, Zenon
<1>2. \A y \in S : ~(y < x) /\ y \in Nat /\ x \in Nat
    BY <1>1 DEF OpToRel
<1>3. QED
    BY <1>2

(* What NamedIn's recursive function is, up to the n-th element of s.      *)
Picks(s, name, n, f) ==
    f = [i \in 0..n |-> IF i = 0 THEN <<>>
                        ELSE IF s[i].name = name THEN Append(f[i - 1], s[i])
                        ELSE f[i - 1]]

Picked(s, name) == CHOOSE f : Picks(s, name, Len(s), f)

LEMMA NamedInIs ==
    ASSUME NEW s, NEW name
    PROVE  NamedIn(s, name) = Picked(s, name)[Len(s)]
BY DEF NamedIn, Picked, Picks

(* That function exists: a number of elements for which it did not would   *)
(* have a least one.                                                       *)
LEMMA PicksExists ==
    ASSUME NEW s, NEW name, NEW n \in Nat
    PROVE  \E f : Picks(s, name, n, f)
<1> DEFINE bad == {k \in Nat : ~\E f : Picks(s, name, k, f)}
<1>1. SUFFICES bad = {}
    OBVIOUS
<1>2. SUFFICES ASSUME bad # {} PROVE FALSE
    OBVIOUS
<1>3. PICK m \in bad : \A j \in bad : m <= j
  <2>1. bad \in SUBSET Nat
    OBVIOUS
  <2>2. QED
    BY <1>2, <2>1, Least
<1>4. m \in Nat /\ ~\E f : Picks(s, name, m, f)
    BY <1>3
<1>5. CASE m = 0
  <2>1. Picks(s, name, 0, [i \in 0..0 |-> <<>>])
    BY DEF Picks
  <2>2. QED
    BY <1>4, <1>5, <2>1
<1>6. CASE m # 0
  <2>1. m - 1 \in Nat /\ ~(m <= m - 1)
    BY <1>4, <1>6
  <2>2. PICK g : Picks(s, name, m - 1, g)
    BY <1>3, <2>1
  <2> HIDE DEF bad
  <2> DEFINE last == IF s[m].name = name THEN Append(g[m - 1], s[m]) ELSE g[m - 1]
             f == [i \in 0..m |-> IF i = m THEN last ELSE g[i]]
  <2>3. \A i \in 0..(m - 1) : i # m /\ i \in 0..m
    BY <1>4
  <2>4. f[m] = last /\ \A i \in 0..(m - 1) : f[i] = g[i]
    BY <1>4, <2>3
  <2>5. ASSUME NEW i \in 0..m
        PROVE  f[i] = IF i = 0 THEN <<>>
                      ELSE IF s[i].name = name THEN Append(f[i - 1], s[i])
                      ELSE f[i - 1]
    <3> HIDE DEF f
    <3>1. CASE i = m
      <4>1. m - 1 \in 0..(m - 1)
        BY <2>1
      <4>2. QED
        BY <1>6, <2>4, <3>1, <4>1
    <3>2. CASE i # m
      <4>1. i \in 0..(m - 1) /\ (i # 0 => i - 1 \in 0..(m - 1))
        BY <1>4, <3>2
      <4>2. g[i] = IF i = 0 THEN <<>>
                   ELSE IF s[i].name = name THEN Append(g[i - 1], s[i])
                   ELSE g[i - 1]
        BY <2>2, <4>1 DEF Picks
      <4>3. QED
        BY <2>4, <4>1, <4>2
    <3>3. QED
      BY <3>1, <3>2
  <2>6. f = [i \in 0..m |-> f[i]]
    OBVIOUS
  <2> HIDE DEF f
  <2>7. Picks(s, name, m, f)
    BY <2>5, <2>6 DEF Picks
  <2>8. QED
    BY <1>4, <2>7
<1>7. QED
    BY <1>5, <1>6

(* Its equations.                                                          *)
LEMMA PickedIs ==
    ASSUME NEW S, NEW s \in Seq(S), NEW name
    PROVE  /\ Picked(s, name)[0] = <<>>
           /\ \A i \in 1..Len(s) :
                Picked(s, name)[i] = IF s[i].name = name
                                     THEN Append(Picked(s, name)[i - 1], s[i])
                                     ELSE Picked(s, name)[i - 1]
<1>1. Len(s) \in Nat
    BY LenProperties
<1>2. Picks(s, name, Len(s), Picked(s, name))
    BY <1>1, PicksExists DEF Picked
<1> DEFINE f == Picked(s, name)
<1>3. \A i \in 0..Len(s) :
        f[i] = IF i = 0 THEN <<>>
               ELSE IF s[i].name = name THEN Append(f[i - 1], s[i])
               ELSE f[i - 1]
    BY <1>2 DEF Picks
<1> HIDE DEF f
<1>4. QED
    BY <1>1, <1>3 DEF f

(* It depends on the elements of the name only, and on those up to k for   *)
(* the first k.                                                            *)
LEMMA PickedSame ==
    ASSUME NEW S, NEW s \in Seq(S), NEW T, NEW t \in Seq(T), NEW name,
           NEW k \in Nat, k <= Len(s), k <= Len(t),
           \A i \in 1..k : \/ s[i] = t[i]
                           \/ s[i].name # name /\ t[i].name # name
    PROVE  \A i \in 0..k : Picked(s, name)[i] = Picked(t, name)[i]
<1> DEFINE f == Picked(s, name)
           g == Picked(t, name)
           bad == {i \in 0..k : f[i] # g[i]}
<1>1. /\ Len(s) \in Nat /\ Len(t) \in Nat
      /\ f[0] = <<>> /\ g[0] = <<>>
      /\ \A i \in 1..Len(s) : f[i] = IF s[i].name = name THEN Append(f[i - 1], s[i]) ELSE f[i - 1]
      /\ \A i \in 1..Len(t) : g[i] = IF t[i].name = name THEN Append(g[i - 1], t[i]) ELSE g[i - 1]
    BY PickedIs, LenProperties
<1> HIDE DEF f, g
<1>2. SUFFICES ASSUME bad # {} PROVE FALSE
    BY DEF f, g
<1>3. PICK m \in bad : \A j \in bad : m <= j
  <2>1. bad \in SUBSET Nat
    OBVIOUS
  <2>2. QED
    BY <1>2, <2>1, Least
<1>4. m \in 1..k /\ f[m] # g[m] /\ m - 1 \in 0..k /\ ~(m <= m - 1)
    BY <1>1, <1>3
<1>5. f[m - 1] = g[m - 1]
    BY <1>3, <1>4
<1>6. QED
    BY <1>1, <1>4, <1>5

(* Appending, rewriting or removing messages of another name leaves those  *)
(* of this name alone.                                                     *)
LEMMA AppendOther ==
    ASSUME NEW S, NEW s \in Seq(S), NEW m \in S, NEW name, m.name # name
    PROVE  NamedIn(Append(s, m), name) = NamedIn(s, name)
<1> DEFINE t == Append(s, m)
<1>1. /\ t \in Seq(S) /\ Len(s) \in Nat /\ Len(t) = Len(s) + 1
      /\ \A i \in 1..Len(s) : t[i] = s[i]
      /\ t[Len(s) + 1] = m
    BY AppendProperties, LenProperties
<1> HIDE DEF t
<1>2. Picked(t, name)[Len(s)] = Picked(s, name)[Len(s)]
    BY <1>1, PickedSame
<1>3. Picked(t, name)[Len(s) + 1] = Picked(t, name)[Len(s)]
    BY <1>1, PickedIs
<1>4. QED
    BY <1>1, <1>2, <1>3, NamedInIs DEF t

LEMMA RewriteOther ==
    ASSUME NEW S, NEW s \in Seq(S), NEW t \in Seq(S), NEW i \in 1..Len(s), NEW name,
           Len(t) = Len(s), \A j \in 1..Len(s) : j # i => t[j] = s[j],
           s[i].name # name, t[i].name # name
    PROVE  NamedIn(t, name) = NamedIn(s, name)
<1>1. Len(s) \in Nat
    BY LenProperties
<1>2. Picked(t, name)[Len(s)] = Picked(s, name)[Len(s)]
    BY <1>1, PickedSame
<1>3. QED
    BY <1>2, NamedInIs

LEMMA RemoveOther ==
    ASSUME NEW S, NEW s \in Seq(S), NEW i \in 1..Len(s), NEW name, s[i].name # name
    PROVE  NamedIn(Without(s, i), name) = NamedIn(s, name)
<1> DEFINE t == Without(s, i)
           f == Picked(s, name)
           g == Picked(t, name)
           bad == {j \in i..Len(s) : f[j] # g[j - 1]}
<1>1. /\ t \in Seq(S) /\ Len(s) \in Nat /\ Len(t) = Len(s) - 1 /\ i \in 1..Len(s)
      /\ \A j \in 1..(Len(s) - 1) : t[j] = IF j < i THEN s[j] ELSE s[j + 1]
    BY WithoutOne, LenProperties
<1> HIDE DEF t
<1>2. /\ \A j \in 1..Len(s) : f[j] = IF s[j].name = name THEN Append(f[j - 1], s[j]) ELSE f[j - 1]
      /\ \A j \in 1..Len(t) : g[j] = IF t[j].name = name THEN Append(g[j - 1], t[j]) ELSE g[j - 1]
  <2>1. \A j \in 1..Len(s) : f[j] = IF s[j].name = name THEN Append(f[j - 1], s[j]) ELSE f[j - 1]
    BY PickedIs
  <2>2. t \in Seq(S)
    BY <1>1
  <2>3. \A j \in 1..Len(t) : g[j] = IF t[j].name = name THEN Append(g[j - 1], t[j]) ELSE g[j - 1]
    BY <2>2, PickedIs
  <2>4. QED
    BY <2>1, <2>3
<1>3. \A j \in 0..(i - 1) : f[j] = g[j]
  <2>1. i - 1 \in Nat /\ i - 1 <= Len(s) /\ i - 1 <= Len(t) /\ \A j \in 1..(i - 1) : t[j] = s[j]
    BY <1>1
  <2>2. QED
    BY <1>1, <2>1, PickedSame
<1> HIDE DEF f, g
<1>4. bad = {}
  <2>1. SUFFICES ASSUME bad # {} PROVE FALSE
    OBVIOUS
  <2>2. PICK m \in bad : \A j \in bad : m <= j
    <3>1. bad \in SUBSET Nat
      BY <1>1
    <3>2. QED
      BY <2>1, <3>1, Least
  <2>3. m \in i..Len(s) /\ f[m] # g[m - 1] /\ m \in 1..Len(s)
    BY <1>1, <2>2
  <2>4. CASE m = i
    <3>1. f[i] = f[i - 1] /\ i - 1 \in 0..(i - 1)
      BY <1>1, <1>2
    <3>2. QED
      BY <1>3, <2>3, <2>4, <3>1
  <2>5. CASE m # i
    <3>1. m - 1 \in i..Len(s) /\ ~(m <= m - 1) /\ m - 1 \in 1..Len(t) /\ ~(m - 1 < i)
      BY <1>1, <2>3, <2>5
    <3>2. f[m - 1] = g[m - 1 - 1]
      BY <2>2, <3>1
    <3>3. t[m - 1] = s[m]
      BY <1>1, <3>1, <2>3
    <3>4. QED
      BY <1>2, <2>3, <3>1, <3>2, <3>3
  <2>6. QED
    BY <2>4, <2>5
<1>5. f[Len(s)] = g[Len(s) - 1]
    BY <1>1, <1>4
<1>6. QED
    BY <1>1, <1>5, NamedInIs DEF f, g, t

-----------------------------------------------------------------------------
(* What a change touches                                                   *)

(* The element that append has stored and not yet counted is the one its   *)
(* request names.                                                          *)
SlotInv == \A h \in Handlers : pc[h] = "setlen" => array[len + 1].name = op[h].name

LEMMA SlotStep == StoreInv /\ SlotInv /\ [Next]_vars => SlotInv'
<1> SUFFICES ASSUME StoreInv, SlotInv, [Next]_vars PROVE SlotInv'
    OBVIOUS
<1>1. ASSUME NEW h \in Handlers, UNCHANGED slice,
             \A g \in Handlers \ {h} : pc'[g] = pc[g] /\ op'[g] = op[g],
             pc'[h] # "setlen"
      PROVE  SlotInv'
    BY <1>1 DEF SlotInv, slice
<1>2. ASSUME NEW h \in Handlers, pc[h] \in Locked, UNCHANGED lock,
             \A g \in Handlers \ {h} : pc'[g] = pc[g],
             pc'[h] = "setlen" => array'[len' + 1].name = op'[h].name
      PROVE  SlotInv'
  <2>1. lock = h /\ \A g \in Handlers \ {h} : pc[g] \notin Locked
    BY <1>2 DEF StoreInv, LockInv
  <2>2. QED
    BY <1>2, <2>1 DEF SlotInv, Locked
<1>3. ASSUME NEW h \in Handlers, Handler(h) PROVE SlotInv'
  <2>0. pc \in [Handlers -> Steps] /\ op \in [Handlers -> Op \cup {Nothing}]
    BY DEF StoreInv, Types
  <2>1. CASE \/ \E o \in Op : Begin(h, o)
             \/ StartLookup(h) \/ ReadLen(h, "len", "scan") \/ ScanOn(h)
             \/ Acquire(h, "lock", "change")
             \/ ReadPtr(h, "wptr", "wlen") \/ ReadLen(h, "wlen", "wlock")
             \/ Acquire(h, "wlock", "marshal")
    BY <1>1, <2>0, <2>1
       DEF Begin, StartLookup, ReadPtr, ReadLen, ScanOn, Acquire, Goto
  <2>2. CASE \/ ScanHit(h) \/ ScanMiss(h) \/ Unlock(h)
             \/ \E known \in BOOLEAN : Index(h, known)
             \/ \E good \in BOOLEAN : Marshal(h, good) \/ Write(h, good)
    <3>1. /\ UNCHANGED slice
          /\ \/ Reply(h)
             \/ \E to \in {"lock", "ptr", "index", "panicked", "wptr", "write"} :
                  Goto(h, to) /\ op' = op
      <4>1. CASE ScanHit(h)
        <5>1. /\ op[h].kind \in {"add", "update", "consumer", "delete", "publish"}
              /\ pass[h] \in {1, 2}
          BY DEF StoreInv, Types, Op, Nothing
        <5>2. QED
          BY <4>1, <5>1 DEF ScanHit, Leave, slice
      <4>2. CASE ScanMiss(h) \/ Unlock(h)
        BY <4>2 DEF ScanMiss, Leave, Unlock, slice
      <4>3. CASE \/ \E known \in BOOLEAN : Index(h, known)
                 \/ \E good \in BOOLEAN : Marshal(h, good) \/ Write(h, good)
        BY <4>3 DEF Index, Marshal, Write, slice
      <4>4. QED
        BY <2>2, <4>1, <4>2, <4>3
    <3>2. CASE Reply(h)
      BY <1>1, <2>0, <3>1, <3>2 DEF Reply, Goto
    <3>3. QED
      BY <1>1, <2>0, <3>1, <3>2 DEF Goto
  <2>3. CASE SetElement(h, "change", "setlen")
    <3>1. /\ array' = [array EXCEPT ![len + 1] = Message(h)]
          /\ UNCHANGED <<len, lock, op>> /\ pc[h] = "change"
          /\ pc' = [pc EXCEPT ![h] = "setlen"] /\ len < Len(array)
      BY <2>3 DEF SetElement, Goto
    <3>2. len + 1 \in DOMAIN array
      BY <3>1, LenProperties DEF StoreInv, Types
    <3>3. array'[len' + 1].name = op'[h].name
      BY <3>1, <3>2 DEF Message
    <3>4. QED
      BY <1>2, <2>0, <3>1, <3>3 DEF Locked
  <2>4. CASE \/ Grow(h)
             \/ SetLength(h, "setlen", "unlock")
             \/ SetLength(h, "change", "setelem") \/ SetElement(h, "setelem", "unlock")
             \/ \E known, bad \in BOOLEAN : Update(h, known, bad)
             \/ \E bad \in BOOLEAN : Delete(h, bad)
             \/ Shift(h)
    BY <1>2, <2>0, <2>4
       DEF Grow, SetElement, SetLength, Update, Delete, Shift, Goto, Locked
  <2>5. QED
    BY <1>3, <2>1, <2>2, <2>3, <2>4 DEF Handler
<1>4. CASE Restart
    BY <1>4 DEF Restart, SlotInv
<1>5. CASE UNCHANGED vars
    BY <1>5 DEF vars, slice, SlotInv
<1>6. QED
    BY <1>3, <1>4, <1>5 DEF Next

(* Every step of a handler leaves the messages of a name alone, but those  *)
(* of the name in the request of the handler that holds msgLock.           *)
LEMMA TouchStep ==
    ASSUME StoreInv, StoreInv', SlotInv, [Next]_vars, ~Restart,
           NEW name \in Names, ~(lock # None /\ op[lock].name = name)
    PROVE  Named(name)' = Named(name)
<1>1. ASSUME Committed' = Committed PROVE Named(name)' = Named(name)
    BY <1>1 DEF Named
<1>2. Committed \in Seq(Msg) /\ Committed' \in Seq(Msg)
    BY CommittedAlways, CommittedThen DEF CommittedFacts
<1>3. ASSUME NEW m \in Msg, m.name # name, Committed' = Append(Committed, m)
      PROVE  Named(name)' = Named(name)
    BY <1>2, <1>3, AppendOther DEF Named
<1>4. ASSUME NEW h \in Handlers, Handler(h) PROVE Named(name)' = Named(name)
  <2>1. pc[h] \in Locked => op[h].name # name
    BY NoneAssumption DEF StoreInv, LockInv
  <2>2. CASE Local(h)
    BY <1>1, <2>2, LocalQuiet, QuietSame
  <2>3. CASE Grow(h) \/ Shift(h)
    BY <1>1, <2>3, GrowSame, ShiftSame
  <2>4. CASE SetElement(h, "change", "setlen") \/ SetElement(h, "setelem", "unlock")
    <3>1. pc[h] \in {"change", "setelem"}
      BY <2>4 DEF SetElement
    <3>2. Message(h) \in Msg /\ Message(h).name # name
      BY <2>1, <2>4, <3>1, SetElementList DEF Message, Locked
    <3>3. QED
      BY <1>1, <1>3, <2>4, <3>1, <3>2, SetElementList
  <2>5. CASE SetLength(h, "setlen", "unlock") \/ SetLength(h, "change", "setelem")
    <3>1. pc[h] \in {"change", "setlen"}
      BY <2>5 DEF SetLength
    <3>2. CASE pc[h] = "change"
      BY <1>1, <2>5, <3>2, SetLengthList
    <3>3. CASE pc[h] = "setlen"
      <4>1. array[len + 1].name # name
        BY <2>1, <3>3 DEF SlotInv, Locked
      <4>2. QED
        BY <1>3, <2>5, <3>3, <4>1, SetLengthList
    <3>4. QED
      BY <3>1, <3>2, <3>3
  <2>6. ASSUME NEW known \in BOOLEAN, NEW bad \in BOOLEAN, Update(h, known, bad)
        PROVE  Named(name)' = Named(name)
    <3>1. op[h].name # name
      BY <2>1, <2>6 DEF Update, Locked
    <3>2. CASE Committed' = Committed
      BY <1>1, <3>2
    <3>3. ASSUME NEW i \in DOMAIN Committed,
                 i \in 1..len, array[i].name = op[h].name,
                 Committed' = [Committed EXCEPT ![i].attr = op[h].attr]
          PROVE  Named(name)' = Named(name)
      <4>1. i \in 1..Len(Committed) /\ Len(Committed') = Len(Committed)
        BY <1>2, <3>3, LenProperties
      <4>2. Committed[i].name # name
        <5>1. pc[h] = "change"
          BY <2>6 DEF Update
        <5>2. \A step : At(step) <=> step = "change"
          BY <5>1, HolderAt DEF Locked
        <5>3. Committed[i] = array[i]
          BY <1>2, <4>1, <5>2, CommittedAlways DEF CommittedFacts, Slot
        <5>4. QED
          BY <3>1, <3>3, <5>3
      <4>3. Committed'[i].name = Committed[i].name
        BY <1>2, <3>3 DEF Msg
      <4>4. \A j \in 1..Len(Committed) : j # i => Committed'[j] = Committed[j]
        BY <1>2, <3>3
      <4>5. NamedIn(Committed', name) = NamedIn(Committed, name)
        BY <1>2, <4>1, <4>2, <4>3, <4>4, RewriteOther
      <4>6. QED
        BY <4>5 DEF Named
    <3>4. ASSUME Committed' # Committed
          PROVE  \E i \in DOMAIN Committed :
                   /\ i \in 1..len /\ array[i].name = op[h].name
                   /\ Committed' = [Committed EXCEPT ![i].attr = op[h].attr]
      <4>1. \E i \in DOMAIN Committed :
              /\ i \in 1..len /\ array[i].name = op[h].name
              /\ \A j \in 1..(i - 1) : Committed[j].name # Committed[i].name
              /\ array' = [array EXCEPT ![i] = Message(h)]
              /\ Committed' = [Committed EXCEPT ![i].attr = op[h].attr]
        BY <2>6, <3>4, UpdateList, ZenonT(60)
      <4>2. QED
        BY <4>1
    <3>5. QED
      BY <3>2, <3>3, <3>4
  <2>7. ASSUME NEW bad \in BOOLEAN, Delete(h, bad) PROVE Named(name)' = Named(name)
    <3>1. op[h].name # name
      BY <2>1, <2>7 DEF Delete, Locked
    <3>2. CASE Committed' = Committed
      BY <1>1, <3>2
    <3>3. ASSUME NEW i \in DOMAIN Committed,
                 Committed[i].name = op[h].name,
                 Committed' = Without(Committed, i)
          PROVE  Named(name)' = Named(name)
      <4>1. i \in 1..Len(Committed)
        BY <1>2, LenProperties
      <4>2. NamedIn(Without(Committed, i), name) = NamedIn(Committed, name)
        BY <1>2, <3>1, <3>3, <4>1, RemoveOther
      <4>3. QED
        BY <3>3, <4>2 DEF Named
    <3>4. QED
      BY <2>7, <3>2, <3>3, DeleteList
  <2>8. QED
    BY <1>4, <2>2, <2>3, <2>4, <2>5, <2>6, <2>7 DEF Handler, Local
<1>5. CASE UNCHANGED vars
  <2>1. Quiet
    BY <1>5 DEF vars, slice, Quiet, At
  <2>2. QED
    BY <1>1, <2>1, QuietSame
<1>6. QED
    BY <1>4, <1>5 DEF Next

(* A change touches no message but the one its request names, although the *)
(* position it found before it had the lock may be another's by then       *)
(* (message.go:178, 212, 239, 255, 271).                                   *)
THEOREM StoreTouchesNamed == Spec => TouchesNamedOnly
<1>1. Init => SlotInv
    BY DEF Init, SlotInv
<1>2. StoreInv /\ SlotInv /\ [Next]_vars => SlotInv'
    BY SlotStep
<1>3. StoreInv /\ StoreInv' /\ SlotInv /\ [Next]_vars =>
        \A name \in Names :
          Named(name)' # Named(name) => Restart \/ (lock # None /\ op[lock].name = name)
    BY TouchStep
<1>4. QED
    BY <1>1, <1>2, <1>3, StoreInvariant, PTL DEF Spec, TouchesNamedOnly
=============================================================================
