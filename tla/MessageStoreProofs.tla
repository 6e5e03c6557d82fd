------------------------- MODULE MessageStoreProofs -------------------------
(***************************************************************************)
(* Proofs about MessageStore, for any number of handlers, messages and     *)
(* requests: its types, and that it is a list to whoever holds msgLock.    *)
(*                                                                         *)
(* StoreInv says which slots of an array hold messages, under the half     *)
(* done steps of append and delete, for the list and for every slice that  *)
(* a handler has read.  A step of one handler that leaves the arrays alone *)
(* (Local) leaves the list alone; the few that write an array are proved   *)
(* one by one to be a step of the list or none.                            *)
(***************************************************************************)
EXTENDS MessageStore, SequenceTheorems, WellFoundedInduction, TLAPS

(* The steps of a handler that holds msgLock.                              *)
Locked == {"change", "setlen", "setelem", "shift", "unlock", "marshal", "write"}

Types ==
    /\ array \in Seq(Msg \cup {None})
    /\ len \in 0..Len(array)
    /\ lock \in Handlers \cup {None}
    /\ file = Torn \/ file \in Seq(Msg)
    /\ pc \in [Handlers -> Steps]
    /\ op \in [Handlers -> Op \cup {Nothing}]
    /\ pass \in [Handlers -> {1, 2}]
    /\ arr \in [Handlers -> Seq(Msg \cup {None}) \cup {Shared}]
    /\ size \in [Handlers -> Nat]
    /\ idx \in [Handlers -> Nat]
    /\ failed \subseteq Handlers
    /\ out \in [Handlers -> Seq(Msg)]

(* Only the holder of msgLock is between taking and giving it back.        *)
LockInv == \A h \in Handlers : pc[h] \in Locked => lock = h

(* A slot up to the length holds a message, but for the one that append    *)
(* has counted and not written.                                            *)
Written(i) == array[i] \in Msg \/ (At("setelem") /\ i = len)

SliceInv ==
    /\ \A i \in 1..len : Written(i)
    /\ At("setlen") => len < Len(array) /\ array[len + 1] \in Msg
    /\ At("setelem") => len >= 1
    /\ At("shift") => idx[lock] \in 1..len

(* The slots a handler's slice reaches into hold messages too, although    *)
(* the list may be shorter by now, and so do all of an array that append   *)
(* has left behind.                                                        *)
Reading == {"scan", "wlock", "marshal", "write", "panicked"}

ReaderInv ==
    \A h \in Handlers :
      /\ idx[h] >= 1
      /\ size[h] # 0 => pc[h] \in Reading
      /\ arr[h] = Shared => /\ size[h] <= Len(array)
                            /\ \A i \in 1..size[h] : Written(i)
      /\ arr[h] # Shared => arr[h] \in Seq(Msg)

StoreInv == Types /\ LockInv /\ SliceInv /\ ReaderInv

-----------------------------------------------------------------------------
(* The data                                                                *)

(* An operation that makes a message carries one.                          *)
LEMMA MessageTyped ==
    ASSUME Types, NEW h \in Handlers, op[h].kind \in {"add", "update", "consumer"}
    PROVE  Message(h) \in Msg
BY DEF Types, Op, Nothing, Message, Msg

(* Append's new array has room and keeps what was there.                   *)
LEMMA GrownKeeps ==
    ASSUME NEW s \in Seq(Msg \cup {None}), NEW n \in Nat
    PROVE  /\ Grown(s, n) \in Seq(Msg \cup {None})
           /\ Len(Grown(s, n)) \in Nat
           /\ Len(Grown(s, n)) >= n
           /\ \A i \in 1..Len(Grown(s, n)) :
                Grown(s, n)[i] = IF i <= Len(s) THEN s[i] ELSE None
<1> DEFINE room(c) == c >= n /\ \A d \in {0, 1, 2, 4, 8} : d >= n => d >= c
<1>1. n <= 8 => \E c \in {0, 1, 2, 4, 8} : room(c)
  <2>1. n = 0 => room(0)
    OBVIOUS
  <2>2. n = 1 => room(1)
    OBVIOUS
  <2>3. n = 2 => room(2)
    OBVIOUS
  <2>4. n \in 3..4 => room(4)
    OBVIOUS
  <2>5. n \in 5..8 => room(8)
    OBVIOUS
  <2>6. n <= 8 => n = 0 \/ n = 1 \/ n = 2 \/ n \in 3..4 \/ n \in 5..8
    OBVIOUS
  <2>7. QED
    BY <2>1, <2>2, <2>3, <2>4, <2>5, <2>6
<1>2. n <= 8 => Room(n) \in {0, 1, 2, 4, 8} /\ room(Room(n))
  <2>1. SUFFICES ASSUME n <= 8 PROVE Room(n) \in {0, 1, 2, 4, 8} /\ room(Room(n))
    OBVIOUS
  <2>2. Room(n) = CHOOSE c \in {0, 1, 2, 4, 8} : room(c)
    BY <2>1 DEF Room
  <2>3. QED
    BY <1>1, <2>1, <2>2
<1>3. Room(n) \in Nat /\ Room(n) >= n
  <2>1. CASE n <= 8
    BY <1>2, <2>1
  <2>2. CASE n > 8
    BY <2>2 DEF Room
  <2>3. QED
    BY <2>1, <2>2
<1>4. \A i \in 1..Room(n) : (IF i <= Len(s) THEN s[i] ELSE None) \in Msg \cup {None}
    BY <1>3, ElementOfSeq
<1>5. Grown(s, n) \in [1..Room(n) -> Msg \cup {None}]
    BY <1>4 DEF Grown
<1>6. Grown(s, n) \in Seq(Msg \cup {None}) /\ Len(Grown(s, n)) = Room(n)
    BY <1>3, <1>5
<1>7. QED
    BY <1>3, <1>6 DEF Grown

(* Where getMessage finds a name: the first of it, if there is one.        *)
LEMMA IndexOfFirst ==
    ASSUME Types, NEW name,
           \A i \in 1..len : array[i] \in Msg
    PROVE  \/ IndexOf(name) = 0 /\ \A i \in 1..len : array[i].name # name
           \/ /\ IndexOf(name) \in 1..len
              /\ array[IndexOf(name)].name = name
              /\ \A j \in 1..(IndexOf(name) - 1) : array[j].name # name
<1> DEFINE S == {i \in 1..len : array[i].name = name}
           first(i) == /\ array[i].name = name
                       /\ \A j \in 1..(i - 1) : array[j].name # name
<1>1. /\ Content \in Seq(Msg)
      /\ DOMAIN Content = 1..len
      /\ \A i \in 1..len : Content[i] = array[i]
  <2>1. len \in Int /\ 1 \in Int
    BY DEF Types
  <2>2. /\ SubSeq(array, 1, len) \in Seq(Msg)
        /\ Len(SubSeq(array, 1, len)) = IF 1 <= len THEN len - 1 + 1 ELSE 0
        /\ \A i \in 1..(len - 1 + 1) : SubSeq(array, 1, len)[i] = array[1 + i - 1]
    BY <2>1, SubSeqProperties
  <2>3. len \in Nat
    BY DEF Types
  <2>4. QED
    BY <2>2, <2>3 DEF Content
<1>2. name \in NamesOf(Content) <=> S # {}
    BY <1>1, NoneAssumption DEF NamesOf
<1>3. CASE S = {}
  <2>1. IndexOf(name) = 0
    BY <1>2, <1>3 DEF IndexOf
  <2>2. QED
    BY <1>3, <2>1
<1>4. CASE S # {}
  <2>1. PICK i \in S : \A j \in S : ~(j < i)
    <3>1. S \subseteq Nat /\ S # {}
      BY <1>4 DEF Types
    <3>2. PICK x \in S : \A y \in S : <<y, x>> \notin OpToRel(<, Nat)
      BY <3>1, NatLessThanWellFounded, WFMin, Zenon
    <3>3. QED
      BY <3>1, <3>2 DEF OpToRel
  <2>2. i \in 1..len /\ first(i)
    BY <2>1 DEF Types
  <2>3. IndexOf(name) = CHOOSE k \in 1..len : first(k)
    BY <1>2, <1>4 DEF IndexOf
  <2>4. IndexOf(name) \in 1..len /\ first(IndexOf(name))
    BY <2>2, <2>3
  <2>5. QED
    BY <2>4
<1>5. QED
    BY <1>3, <1>4

-----------------------------------------------------------------------------
(* The store's invariant                                                   *)

LEMMA InitStore == Init => StoreInv
BY NoneAssumption, EmptySeq
   DEF Init, StoreInv, Types, LockInv, SliceInv, ReaderInv, Written, At, Locked, Reading,
       Steps, Nothing

(* Steps that leave the slice alone: one handler moves, and takes or gives *)
(* back the lock or leaves it.                                             *)
LEMMA MoveStore ==
    ASSUME StoreInv, Types', UNCHANGED slice,
           NEW h \in Handlers, NEW to \in Steps \ {"setlen", "setelem", "shift"},
           pc' = [pc EXCEPT ![h] = to],
           pc[h] \notin {"setlen", "setelem", "shift"},
           \/ lock' = lock /\ (to \in Locked => pc[h] \in Locked)
           \/ lock = h /\ lock' = None /\ to \notin Locked
           \/ lock = None /\ lock' = h,
           \A g \in Handlers \ {h} :
             arr'[g] = arr[g] /\ size'[g] = size[g] /\ idx'[g] = idx[g],
           idx'[h] >= 1,
           arr'[h] \in {Shared, arr[h]},
           \/ size'[h] = 0
           \/ size'[h] \in {len, size[h]} /\ arr'[h] = arr[h] /\ to \in Reading
    PROVE  StoreInv'
<1>1. \A step \in {"setlen", "setelem", "shift"} : At(step)' => At(step)
    BY NoneAssumption DEF StoreInv, Types, At
<1>2. \A step \in {"setlen", "setelem", "shift"} :
        At(step) => At(step)' /\ lock' = lock /\ lock # h
    BY NoneAssumption DEF StoreInv, Types, At
<1>3. LockInv'
    BY NoneAssumption DEF StoreInv, Types, LockInv, Locked
<1>4. \A i : Written(i)' = Written(i)
    BY <1>1, <1>2 DEF Written, slice
<1>5. SliceInv'
  <2>1. \A i \in 1..len' : Written(i)'
    BY <1>4 DEF StoreInv, SliceInv, slice
  <2>2. At("setlen")' => len' < Len(array') /\ array'[len' + 1] \in Msg
    BY <1>1 DEF StoreInv, SliceInv, slice
  <2>3. At("setelem")' => len' >= 1
    BY <1>1 DEF StoreInv, SliceInv, slice
  <2>4. At("shift")' => idx'[lock'] \in 1..len'
    <3>1. SUFFICES ASSUME At("shift")' PROVE idx'[lock'] \in 1..len'
      OBVIOUS
    <3>2. At("shift") /\ lock' = lock /\ lock # h /\ lock \in Handlers
      BY <1>1, <1>2, <3>1 DEF StoreInv, Types, At
    <3>3. QED
      BY <3>2 DEF StoreInv, SliceInv, slice
  <2>5. QED
    BY <2>1, <2>2, <2>3, <2>4 DEF SliceInv
<1>6. ASSUME NEW g \in Handlers \ {h}
      PROVE  /\ idx'[g] >= 1
             /\ size'[g] # 0 => pc'[g] \in Reading
             /\ arr'[g] = Shared => /\ size'[g] <= Len(array')
                                    /\ \A i \in 1..size'[g] : Written(i)'
             /\ arr'[g] # Shared => arr'[g] \in Seq(Msg)
    BY <1>4 DEF StoreInv, Types, ReaderInv, slice
<1>7. /\ size'[h] # 0 => pc'[h] \in Reading
      /\ arr'[h] = Shared => /\ size'[h] <= Len(array')
                             /\ \A i \in 1..size'[h] : Written(i)'
      /\ arr'[h] # Shared => arr'[h] \in Seq(Msg)
    BY <1>4 DEF StoreInv, Types, SliceInv, ReaderInv, slice
<1>8. QED
    BY <1>3, <1>5, <1>6, <1>7 DEF StoreInv, ReaderInv

LEMMA ReplyTyped ==
    ASSUME Types, NEW h \in Handlers, Reply(h), UNCHANGED slice,
           lock' \in Handlers \cup {None}, file' = Torn \/ file' \in Seq(Msg)
    PROVE  Types'
<1>1. <<>> \in Seq(Msg)
    BY EmptySeq
<1>2. "idle" \in Steps
    BY DEF Steps
<1>3. QED
    BY <1>1, <1>2 DEF Types, Reply, Goto, slice

(* An answer, with or without the lock.                                    *)
LEMMA ReplyStore ==
    ASSUME StoreInv, NEW h \in Handlers, Reply(h), UNCHANGED slice,
           pc[h] \notin {"setlen", "setelem", "shift"},
           lock' = lock \/ (lock = h /\ lock' = None),
           file' = Torn \/ file' \in Seq(Msg)
    PROVE  StoreInv'
<1>1. Types'
    BY ReplyTyped DEF StoreInv, Types
<1>2. "idle" \in Steps /\ "idle" \notin Locked
    BY DEF Steps, Locked
<1>3. /\ pc' = [pc EXCEPT ![h] = "idle"]
      /\ \A g \in Handlers \ {h} :
           arr'[g] = arr[g] /\ size'[g] = size[g] /\ idx'[g] = idx[g]
      /\ idx'[h] >= 1 /\ arr'[h] = Shared /\ size'[h] = 0
    BY DEF StoreInv, Types, Reply, Goto
<1>4. QED
    BY <1>1, <1>2, <1>3, MoveStore

LEMMA LeaveStore ==
    ASSUME StoreInv, NEW h \in Handlers, NEW to \in {"lock", "ptr", "index"},
           NEW n \in {1, 2}, Leave(h, to, n),
           UNCHANGED <<slice, lock, file>>, pc[h] = "scan"
    PROVE  StoreInv'
<1>1. to \in Steps /\ to \notin Locked
    BY DEF Steps, Locked
<1>2. Types'
    BY <1>1 DEF StoreInv, Types, Leave, Goto, slice
<1>3. QED
    BY <1>1, <1>2, MoveStore DEF StoreInv, Types, ReaderInv, Leave, Goto

LEMMA BeginStore ==
    ASSUME StoreInv, NEW h \in Handlers, NEW o \in Op, Begin(h, o)
    PROVE  StoreInv'
<1>1. Types'
    BY DEF StoreInv, Types, Steps, Begin, Goto, slice, locals
<1>2. "ptr" \in Steps /\ "ptr" \notin Locked
    BY DEF Steps, Locked
<1>3. size[h] = 0
    BY DEF StoreInv, ReaderInv, Types, Reading, Begin
<1>4. QED
    BY <1>1, <1>2, <1>3, MoveStore DEF StoreInv, Types, ReaderInv, Begin, Goto, locals

LEMMA ReadPtrStore ==
    ASSUME StoreInv, NEW h \in Handlers,
           ReadPtr(h, "ptr", "len") \/ ReadPtr(h, "wptr", "wlen")
    PROVE  StoreInv'
<1>1. PICK to \in {"len", "wlen"} : pc' = [pc EXCEPT ![h] = to]
    BY DEF ReadPtr, Goto
<1>2. Types'
    BY <1>1 DEF StoreInv, Types, Steps, ReadPtr, slice
<1>3. to \in Steps /\ to \notin Locked
    BY DEF Steps, Locked
<1>4. size[h] = 0
    BY DEF StoreInv, ReaderInv, Types, Reading, ReadPtr
<1>5. QED
    BY <1>1, <1>2, <1>3, <1>4, MoveStore, ZenonT(60) DEF StoreInv, Types, ReaderInv, ReadPtr, Goto

LEMMA ReadLenStore ==
    ASSUME StoreInv, NEW h \in Handlers,
           ReadLen(h, "len", "scan") \/ ReadLen(h, "wlen", "wlock")
    PROVE  StoreInv'
<1>1. PICK to \in {"scan", "wlock"} : pc' = [pc EXCEPT ![h] = to]
    BY DEF ReadLen, Goto
<1>2. /\ size' = [size EXCEPT ![h] = len]
      /\ idx' = [idx EXCEPT ![h] = 1]
      /\ UNCHANGED slice /\ lock' = lock
      /\ UNCHANGED <<file, op, pass, arr, failed, out>>
      /\ pc[h] \notin {"setlen", "setelem", "shift"}
    BY DEF ReadLen
<1>3. to \in Steps /\ to \notin Locked /\ to \in Reading
    BY DEF Steps, Locked, Reading
<1>4. len \in Nat
    BY LenProperties DEF StoreInv, Types
<1>5. Types'
    BY <1>1, <1>2, <1>3, <1>4 DEF StoreInv, Types, slice
<1>6. /\ \A g \in Handlers \ {h} :
           arr'[g] = arr[g] /\ size'[g] = size[g] /\ idx'[g] = idx[g]
      /\ idx'[h] >= 1 /\ arr'[h] \in {Shared, arr[h]}
      /\ size'[h] \in {len, size[h]} /\ arr'[h] = arr[h] /\ to \in Reading
      /\ to \in Steps \ {"setlen", "setelem", "shift"}
      /\ pc[h] \notin {"setlen", "setelem", "shift"}
      /\ UNCHANGED slice /\ lock' = lock /\ to \notin Locked
    BY <1>2, <1>3 DEF StoreInv, Types
<1>7. QED
    BY <1>1, <1>2, <1>3, <1>5, <1>6, MoveStore

LEMMA ScanOnStore ==
    ASSUME StoreInv, NEW h \in Handlers, ScanOn(h)
    PROVE  StoreInv'
<1>1. pc' = [pc EXCEPT ![h] = "scan"]
    BY DEF StoreInv, Types, ScanOn
<1>2. Types'
    BY DEF StoreInv, Types, ScanOn, slice
<1>3. "scan" \in Steps /\ "scan" \notin Locked /\ "scan" \in Reading
    BY DEF Steps, Locked, Reading
<1>4. /\ \A g \in Handlers \ {h} :
           arr'[g] = arr[g] /\ size'[g] = size[g] /\ idx'[g] = idx[g]
      /\ idx'[h] >= 1 /\ arr'[h] = arr[h] /\ size'[h] = size[h]
    BY DEF StoreInv, Types, ReaderInv, ScanOn
<1>5. QED
    BY <1>1, <1>2, <1>3, <1>4, MoveStore DEF ScanOn

LEMMA ScanHitStore ==
    ASSUME StoreInv, NEW h \in Handlers, ScanHit(h)
    PROVE  StoreInv'
<1>1. \/ Reply(h)
      \/ \E to \in {"lock", "ptr", "index"}, n \in {1, 2} : Leave(h, to, n)
  <2>1. /\ op[h].kind \in {"add", "update", "consumer", "delete", "publish"}
        /\ pass[h] \in {1, 2}
    BY DEF StoreInv, Types, Op, Nothing
  <2>2. QED
    BY <2>1 DEF ScanHit
<1>2. /\ pc[h] = "scan"
      /\ UNCHANGED <<slice, lock, file>>
    BY DEF ScanHit
<1>3. QED
    BY <1>1, <1>2, ReplyStore, LeaveStore DEF StoreInv, Types

LEMMA ScanMissStore ==
    ASSUME StoreInv, NEW h \in Handlers, ScanMiss(h)
    PROVE  StoreInv'
<1>1. Reply(h) \/ Leave(h, "lock", 1)
    BY DEF ScanMiss
<1>2. /\ pc[h] = "scan"
      /\ UNCHANGED <<slice, lock, file>>
    BY DEF ScanMiss
<1>3. QED
    BY <1>1, <1>2, ReplyStore, LeaveStore DEF StoreInv, Types

LEMMA IndexStore ==
    ASSUME StoreInv, NEW h \in Handlers, NEW known \in BOOLEAN, Index(h, known)
    PROVE  StoreInv'
<1>1. CASE Reply(h)
    BY <1>1, ReplyStore DEF StoreInv, Types, Index
<1>2. ASSUME NEW to \in {"panicked", "lock"}, Goto(h, to),
             UNCHANGED <<op, pass, locals, failed, out, alone>>
      PROVE  StoreInv'
  <2>1. to \in Steps /\ to \notin Locked
    BY DEF Steps, Locked
  <2>2. Types'
    BY <1>2, <2>1 DEF StoreInv, Types, Index, Goto, slice, locals
  <2>3. size[h] = 0
    BY DEF StoreInv, ReaderInv, Types, Reading, Index
  <2>4. QED
    BY <1>2, <2>1, <2>2, <2>3, MoveStore
       DEF StoreInv, Types, ReaderInv, Index, Goto, locals
<1>3. QED
    BY <1>1, <1>2 DEF Index

LEMMA AcquireStore ==
    ASSUME StoreInv, NEW h \in Handlers,
           Acquire(h, "lock", "change") \/ Acquire(h, "wlock", "marshal")
    PROVE  StoreInv'
<1>1. PICK to \in {"change", "marshal"} : pc' = [pc EXCEPT ![h] = to]
    BY DEF Acquire, Goto
<1>2. Types'
    BY <1>1 DEF StoreInv, Types, Steps, Acquire, slice, locals
<1>3. to \in Steps \ {"setlen", "setelem", "shift"}
    BY DEF Steps
<1>4. size[h] = 0 \/ to \in Reading
    BY <1>1 DEF StoreInv, ReaderInv, Types, Reading, Acquire, Goto
<1>5. QED
    BY <1>1, <1>2, <1>3, <1>4, MoveStore
       DEF StoreInv, Types, ReaderInv, Acquire, Goto, locals

LEMMA UnlockStore ==
    ASSUME StoreInv, NEW h \in Handlers, Unlock(h)
    PROVE  StoreInv'
<1>1. lock = h /\ lock' = None /\ pc[h] = "unlock" /\ UNCHANGED <<slice, file>>
    BY DEF StoreInv, LockInv, Locked, Unlock
<1>2. CASE Reply(h)
    BY <1>1, <1>2, ReplyStore DEF StoreInv, Types
<1>3. CASE Goto(h, "wptr") /\ UNCHANGED <<op, pass, locals, failed, out, alone>>
  <2>1. "wptr" \in Steps /\ "wptr" \notin Locked
    BY DEF Steps, Locked
  <2>2. Types'
    BY <1>1, <1>3, <2>1 DEF StoreInv, Types, Goto, slice, locals
  <2>3. size[h] = 0
    BY <1>1 DEF StoreInv, ReaderInv, Types, Reading
  <2>4. QED
    BY <1>1, <1>3, <2>1, <2>2, <2>3, MoveStore
       DEF StoreInv, Types, ReaderInv, Goto, locals
<1>4. QED
    BY <1>2, <1>3 DEF Unlock

(* What is marshalled are messages: the reader holds the lock, so that no  *)
(* slot is counted and not written.                                        *)
LEMMA MarshalledTyped ==
    ASSUME StoreInv, NEW h \in Handlers, pc[h] = "marshal", size[h] <= Len(Backing(h))
    PROVE  Marshalled(h) \in Seq(Msg)
<1>1. ~At("setelem")
    BY NoneAssumption DEF StoreInv, LockInv, Locked, At
<1>2. \A i \in 1..size[h] : Backing(h)[i] \in Msg
  <2>1. CASE arr[h] = Shared
    BY <1>1, <2>1 DEF StoreInv, ReaderInv, Backing, Written
  <2>2. CASE arr[h] # Shared
    BY <2>2, ElementOfSeq DEF StoreInv, Types, ReaderInv, Backing
  <2>3. QED
    BY <2>1, <2>2
<1>3. size[h] \in Int /\ 1 \in Int
    BY DEF StoreInv, Types
<1>4. QED
    BY <1>2, <1>3, SubSeqProperties DEF Marshalled

LEMMA MarshalStore ==
    ASSUME StoreInv, NEW h \in Handlers, NEW opened \in BOOLEAN, Marshal(h, opened)
    PROVE  StoreInv'
<1>1. lock = h /\ pc[h] = "marshal" /\ UNCHANGED slice
    BY DEF StoreInv, LockInv, Locked, Marshal
<1>2. CASE Goto(h, "panicked") /\ UNCHANGED <<lock, file, op, pass, locals, failed, out, alone>>
  <2>1. "panicked" \in Steps /\ "panicked" \notin Locked /\ "panicked" \in Reading
    BY DEF Steps, Locked, Reading
  <2>2. Types'
    BY <1>1, <1>2, <2>1 DEF StoreInv, Types, Goto, slice, locals
  <2>3. QED
    BY <1>1, <1>2, <2>1, <2>2, MoveStore DEF StoreInv, Types, ReaderInv, Goto, locals
<1>3. CASE /\ size[h] <= Len(Backing(h))
           /\ out' = [out EXCEPT ![h] = Marshalled(h)]
           /\ file' = Torn
           /\ Goto(h, "write")
           /\ UNCHANGED <<lock, op, pass, locals, failed, alone>>
  <2>1. "write" \in Steps \ {"setlen", "setelem", "shift"} /\ "write" \in Reading
        /\ "marshal" \in Locked
    BY DEF Steps, Locked, Reading
  <2>2. Marshalled(h) \in Seq(Msg)
    BY <1>1, <1>3, MarshalledTyped
  <2>3. Types'
    BY <1>1, <1>3, <2>1, <2>2 DEF StoreInv, Types, Goto, slice, locals
  <2>4. /\ pc' = [pc EXCEPT ![h] = "write"] /\ lock' = lock
        /\ arr' = arr /\ size' = size /\ idx' = idx /\ idx[h] >= 1
    BY <1>3 DEF StoreInv, ReaderInv, Goto, locals
  <2>5. QED
    BY <1>1, <2>1, <2>3, <2>4, MoveStore
<1>4. CASE Reply(h) /\ lock' = None /\ UNCHANGED file
    BY <1>1, <1>4, ReplyStore DEF StoreInv, Types
<1>5. size[h] \in Nat /\ Len(Backing(h)) \in Nat
    BY DEF StoreInv, Types, Backing
<1>6. QED
    BY <1>2, <1>3, <1>4, <1>5 DEF Marshal

LEMMA WriteStore ==
    ASSUME StoreInv, NEW h \in Handlers, NEW good \in BOOLEAN, Write(h, good)
    PROVE  StoreInv'
<1>1. lock = h /\ pc[h] = "write"
    BY DEF StoreInv, LockInv, Locked, Write
<1>2. file' = Torn \/ file' \in Seq(Msg)
    BY DEF StoreInv, Types, Write
<1>3. QED
    BY <1>1, <1>2, ReplyStore DEF Write

(* The holder of msgLock is alone with the slice.                          *)
LEMMA HolderAt ==
    ASSUME StoreInv, NEW h \in Handlers, pc[h] \in Locked
    PROVE  /\ lock = h
           /\ h # None
           /\ \A step : At(step) <=> pc[h] = step
           /\ \A g \in Handlers \ {h} : pc[g] \notin Locked
BY NoneAssumption DEF StoreInv, LockInv, At

(* Append moves to a bigger array: the slices read before keep the old     *)
(* one, whose slots all hold messages.                                     *)
LEMMA GrowStore ==
    ASSUME StoreInv, Up, NEW h \in Handlers, Grow(h)
    PROVE  StoreInv'
<1>1. /\ pc[h] = "change" /\ len = Len(array) /\ len \in Nat
      /\ array' = Grown(array, len + 1)
      /\ UNCHANGED <<len, lock, file, pc, op, pass, size, idx, failed, out>>
    BY LenProperties DEF StoreInv, Types, Grow
<1>2. /\ lock = h
      /\ \A step : At(step)' <=> pc[h] = step
      /\ \A g \in Handlers \ {h} : pc[g] \notin Locked
      /\ ~At("setelem")
    BY <1>1, HolderAt DEF Locked, At
<1>3. /\ array' \in Seq(Msg \cup {None})
      /\ len <= Len(array')
      /\ Len(array') \in Nat
      /\ \A i \in 1..len : array'[i] = array[i]
  <2>1. len + 1 \in Nat /\ array \in Seq(Msg \cup {None})
    BY <1>1 DEF StoreInv, Types
  <2>2. /\ array' \in Seq(Msg \cup {None})
        /\ Len(array') \in Nat /\ Len(array') >= len + 1
        /\ \A i \in 1..Len(array') : array'[i] = IF i <= len THEN array[i] ELSE None
    BY <1>1, <2>1, GrownKeeps
  <2>3. QED
    BY <1>1, <2>2
<1>4. array \in Seq(Msg)
  <2>1. \A i \in 1..Len(array) : array[i] \in Msg
    BY <1>1, <1>2 DEF StoreInv, SliceInv, Written
  <2>2. /\ array \in [1..Len(array) -> Msg \cup {None}]
        /\ Len(array) \in Nat
    BY LenProperties DEF StoreInv, Types
  <2>3. array \in [1..Len(array) -> Msg]
    BY <2>1, <2>2
  <2>4. QED
    BY <2>2, <2>3
<1>5. \A g \in Handlers :
        arr'[g] = IF arr[g] = Shared /\ pc[g] \in {"len", "scan", "wlen", "wlock"}
                  THEN array ELSE arr[g]
    BY DEF Grow
<1>6. Types'
  <2>1. arr' \in [Handlers -> Seq(Msg \cup {None}) \cup {Shared}]
    BY <1>4 DEF StoreInv, Types, Grow
  <2>2. QED
    BY <1>1, <1>3, <2>1 DEF StoreInv, Types
<1>7. LockInv'
    BY <1>1 DEF StoreInv, LockInv
<1>8. SliceInv'
    BY <1>1, <1>2, <1>3 DEF StoreInv, SliceInv, Written
<1>9. ReaderInv'
  <2>1. SUFFICES ASSUME NEW g \in Handlers
                 PROVE  /\ idx'[g] >= 1
                        /\ size'[g] # 0 => pc'[g] \in Reading
                        /\ arr'[g] = Shared =>
                             /\ size'[g] <= Len(array')
                             /\ \A i \in 1..size'[g] : Written(i)'
                        /\ arr'[g] # Shared => arr'[g] \in Seq(Msg)
    BY DEF ReaderInv
  <2>2. arr'[g] = Shared => arr[g] = Shared /\ size[g] = 0
    <3>1. array # Shared
      BY SharedAssumption DEF StoreInv, Types
    <3>2. pc[g] \in {"marshal", "write", "panicked"} => FALSE
      BY <1>1, <1>2 DEF Up, Locked
    <3>3. QED
      BY <1>5, <3>1, <3>2 DEF StoreInv, Types, ReaderInv, Reading
  <2>3. QED
    BY <1>1, <1>3, <1>4, <1>5, <2>2 DEF StoreInv, ReaderInv
<1>10. QED
    BY <1>6, <1>7, <1>8, <1>9 DEF StoreInv

(* A message stored in a slot, where append or an update puts it.          *)
LEMMA PutStore ==
    ASSUME StoreInv, NEW h \in Handlers, pc[h] \in Locked,
           NEW i \in 1..Len(array), NEW m \in Msg,
           array' = [array EXCEPT ![i] = m],
           NEW to \in Steps, pc' = [pc EXCEPT ![h] = to],
           UNCHANGED <<len, lock, arr, size, idx>>, Types',
           to \notin {"setelem", "shift"},
           to = "setlen" => i = len + 1,
           pc[h] = "setelem" => i = len,
           size[h] = 0
    PROVE  StoreInv'
<1>1. /\ lock = h
      /\ \A step : At(step) <=> pc[h] = step
      /\ \A g \in Handlers \ {h} : pc[g] \notin Locked
      /\ \A step : At(step)' <=> to = step
    BY HolderAt DEF At, StoreInv, Types
<1>2. /\ array'[i] = m
      /\ \A j \in 1..Len(array) : j # i => array'[j] = array[j]
      /\ Len(array') = Len(array)
      /\ Len(array) \in Nat /\ len \in 0..Len(array)
    BY LenProperties DEF StoreInv, Types
<1>3. \A j \in 1..Len(array) : Written(j) => array'[j] \in Msg
    BY <1>1, <1>2 DEF Written
<1>4. LockInv'
    BY <1>1 DEF StoreInv, Types, LockInv
<1>5. SliceInv'
    BY <1>1, <1>2, <1>3 DEF StoreInv, SliceInv, Written
<1>6. ReaderInv'
  <2>1. SUFFICES ASSUME NEW g \in Handlers
                 PROVE  /\ idx'[g] >= 1
                        /\ size'[g] # 0 => pc'[g] \in Reading
                        /\ arr'[g] = Shared =>
                             /\ size'[g] <= Len(array')
                             /\ \A j \in 1..size'[g] : Written(j)'
                        /\ arr'[g] # Shared => arr'[g] \in Seq(Msg)
    BY DEF ReaderInv
  <2>2. size[g] # 0 => pc'[g] = pc[g]
    BY DEF StoreInv, Types
  <2>3. arr[g] = Shared => \A j \in 1..size[g] : j \in 1..Len(array) /\ Written(j)
    BY <1>2 DEF StoreInv, Types, ReaderInv
  <2>4. QED
    BY <1>2, <1>3, <2>2, <2>3 DEF StoreInv, ReaderInv, Written
<1>7. QED
    BY <1>4, <1>5, <1>6 DEF StoreInv

LEMMA SetElementStore ==
    ASSUME StoreInv, NEW h \in Handlers,
           SetElement(h, "change", "setlen") \/ SetElement(h, "setelem", "unlock")
    PROVE  StoreInv'
<1>1. /\ pc[h] \in Locked
      /\ Message(h) \in Msg
      /\ len \in Nat /\ Len(array) \in Nat /\ len <= Len(array)
      /\ size[h] = 0
  <2>1. pc[h] \in {"change", "setelem"} /\ op[h].kind = "add"
    BY DEF SetElement
  <2>2. Message(h) \in Msg
    BY <2>1, MessageTyped DEF StoreInv
  <2>3. len \in Nat /\ Len(array) \in Nat /\ len <= Len(array)
    BY LenProperties DEF StoreInv, Types
  <2>4. pc[h] \in Locked /\ pc[h] \notin Reading
    BY <2>1 DEF Locked, Reading
  <2>5. QED
    BY <2>2, <2>3, <2>4 DEF StoreInv, ReaderInv
<1>2. UNCHANGED <<len, lock, file, op, pass, arr, size, idx, failed, out>>
    BY DEF SetElement, locals
<1>3. ASSUME NEW i \in 1..Len(array), NEW to \in Steps,
             array' = [array EXCEPT ![i] = Message(h)], Goto(h, to)
      PROVE  Types'
  <2>1. array' \in Seq(Msg \cup {None}) /\ Len(array') = Len(array)
    BY <1>1, <1>3 DEF StoreInv, Types
  <2>2. QED
    BY <1>2, <1>3, <2>1 DEF StoreInv, Types, Goto
<1>4. "setlen" \in Steps /\ "unlock" \in Steps
    BY DEF Steps
<1>5. CASE SetElement(h, "change", "setlen")
  <2>1. /\ len + 1 \in 1..Len(array) /\ Goto(h, "setlen") /\ pc[h] = "change"
        /\ array' = [array EXCEPT ![len + 1] = Message(h)]
    BY <1>1, <1>5 DEF SetElement
  <2>2. QED
    BY <1>1, <1>2, <1>3, <1>4, <2>1, PutStore DEF Goto
<1>6. CASE SetElement(h, "setelem", "unlock")
  <2>1. len >= 1
    BY <1>6, HolderAt DEF StoreInv, SliceInv, SetElement, Locked
  <2>2. /\ len \in 1..Len(array) /\ Goto(h, "unlock") /\ pc[h] = "setelem"
        /\ array' = [array EXCEPT ![len] = Message(h)]
    BY <1>1, <1>6, <2>1 DEF SetElement
  <2>3. QED
    BY <1>1, <1>2, <1>3, <1>4, <2>2, PutStore DEF Goto
<1>7. QED
    BY <1>5, <1>6

LEMMA SetLengthStore ==
    ASSUME StoreInv, NEW h \in Handlers,
           SetLength(h, "setlen", "unlock") \/ SetLength(h, "change", "setelem")
    PROVE  StoreInv'
<1>1. PICK to \in {"unlock", "setelem"} :
        /\ pc[h] = IF to = "unlock" THEN "setlen" ELSE "change"
        /\ pc' = [pc EXCEPT ![h] = to]
        /\ to = "setelem" => len < Len(array)
        /\ len' = len + 1
        /\ UNCHANGED <<array, lock, file, op, pass, arr, size, idx, failed, out>>
    BY DEF SetLength, Goto, locals
<1>2. /\ lock = h
      /\ \A step : At(step) <=> pc[h] = step
      /\ \A g \in Handlers \ {h} : pc[g] \notin Locked
      /\ \A step : At(step)' <=> to = step
    BY <1>1, HolderAt DEF At, StoreInv, Types, Locked
<1>3. len \in Nat /\ Len(array) \in Nat /\ len + 1 <= Len(array)
    BY <1>1, <1>2, LenProperties DEF StoreInv, Types, SliceInv
<1>4. Types'
    BY <1>1, <1>3 DEF StoreInv, Types, Steps
<1>5. LockInv'
    BY <1>1, <1>2 DEF StoreInv, Types, LockInv
<1>6. SliceInv'
    BY <1>1, <1>2, <1>3 DEF StoreInv, SliceInv, Written
<1>7. ReaderInv'
  <2>1. \A i : Written(i) => Written(i)'
    BY <1>1, <1>2 DEF Written
  <2>2. size[h] = 0
    BY <1>1 DEF StoreInv, ReaderInv, Types, Reading
  <2>3. QED
    BY <1>1, <2>1, <2>2 DEF StoreInv, Types, ReaderInv
<1>8. QED
    BY <1>4, <1>5, <1>6, <1>7 DEF StoreInv

(* A lookup under the lock meets messages only.                            *)
LEMMA LockedLookup ==
    ASSUME StoreInv, NEW h \in Handlers, pc[h] = "change"
    PROVE  /\ \A i \in 1..len : array[i] \in Msg
           /\ \/ Position(h) = 0 /\ \A i \in 1..len : array[i].name # op[h].name
              \/ /\ Position(h) \in 1..len
                 /\ array[Position(h)].name = op[h].name
                 /\ \A j \in 1..(Position(h) - 1) : array[j].name # op[h].name
<1>1. ~At("setelem")
    BY HolderAt DEF Locked
<1>2. \A i \in 1..len : array[i] \in Msg
    BY <1>1 DEF StoreInv, SliceInv, Written
<1>3. QED
    BY <1>2, IndexOfFirst DEF StoreInv, Position

LEMMA UpdateStore ==
    ASSUME StoreInv, NEW h \in Handlers, NEW known \in BOOLEAN, NEW bad \in BOOLEAN,
           Update(h, known, bad)
    PROVE  StoreInv'
<1>1. /\ pc[h] = "change" /\ pc' = [pc EXCEPT ![h] = "unlock"]
      /\ failed' \subseteq Handlers
      /\ UNCHANGED <<len, lock, file, op, pass, arr, size, idx, out>>
    BY DEF StoreInv, Types, Update, Goto, locals
<1>2. "unlock" \in Steps \ {"setlen", "setelem", "shift"} /\ "change" \in Locked
    BY DEF Steps, Locked
<1>3. size[h] = 0
    BY <1>1 DEF StoreInv, ReaderInv, Reading
<1>4. CASE array' = array
  <2>1. Types'
    BY <1>1, <1>2, <1>4 DEF StoreInv, Types
  <2>2. UNCHANGED slice
    BY <1>1, <1>4 DEF slice
  <2>3. /\ idx'[h] >= 1 /\ arr' = arr /\ size' = size /\ idx' = idx
        /\ lock' = lock /\ size'[h] = 0
    BY <1>1, <1>3 DEF StoreInv, ReaderInv
  <2>4. QED
    BY <1>1, <1>2, <2>1, <2>2, <2>3, MoveStore
<1>5. CASE Position(h) # 0 /\ array' = [array EXCEPT ![Position(h)] = Message(h)]
  <2>1. Message(h) \in Msg
    BY MessageTyped DEF StoreInv, Update
  <2>2. Position(h) \in 1..len /\ len \in Nat /\ Len(array) \in Nat /\ len <= Len(array)
    BY <1>1, <1>5, LockedLookup, LenProperties DEF StoreInv, Types
  <2>3. Position(h) \in 1..Len(array)
    BY <2>2
  <2>4. array' \in Seq(Msg \cup {None}) /\ Len(array') = Len(array)
    BY <1>5, <2>1, <2>3 DEF StoreInv, Types
  <2>5. Types'
    BY <1>1, <1>2, <2>4 DEF StoreInv, Types
  <2>6. QED
    BY <1>1, <1>2, <1>3, <1>5, <2>1, <2>3, <2>5, PutStore
<1>6. QED
    BY <1>4, <1>5 DEF Update

LEMMA DeleteStore ==
    ASSUME StoreInv, NEW h \in Handlers, NEW bad \in BOOLEAN, Delete(h, bad)
    PROVE  StoreInv'
<1>1. /\ pc[h] = "change" /\ lock' = lock
      /\ UNCHANGED <<slice, file, op, pass, arr, size, out>>
      /\ size[h] = 0 /\ idx[h] >= 1
    BY DEF StoreInv, ReaderInv, Reading, Delete
<1>2. "unlock" \in Steps /\ "shift" \in Steps /\ "change" \in Locked
    BY DEF Steps, Locked
<1>3. CASE failed' = failed \cup {h} /\ Goto(h, "unlock") /\ idx' = idx
  <2>1. Types'
    BY <1>1, <1>2, <1>3 DEF StoreInv, Types, Goto, slice
  <2>2. QED
    BY <1>1, <1>2, <1>3, <2>1, MoveStore DEF Goto
<1>4. CASE /\ Position(h) # 0
           /\ idx' = [idx EXCEPT ![h] = Position(h)]
           /\ Goto(h, "shift")
           /\ failed' = failed
  <2>1. Position(h) \in 1..len /\ len \in Nat
    BY <1>1, <1>4, LockedLookup, LenProperties DEF StoreInv, Types
  <2>2. Types'
    BY <1>1, <1>2, <1>4, <2>1 DEF StoreInv, Types, Goto, slice
  <2>3. /\ lock = h
        /\ \A step : At(step)' <=> step = "shift"
        /\ ~At("setelem")
    BY <1>1, <1>2, <1>4, HolderAt DEF At, Goto, StoreInv, Types
  <2>4. LockInv'
    BY <1>1, <1>4, <2>3 DEF StoreInv, Types, LockInv, Goto
  <2>5. SliceInv'
    BY <1>1, <1>4, <2>1, <2>3 DEF StoreInv, Types, SliceInv, Written, slice
  <2>6. ReaderInv'
    BY <1>1, <1>4, <2>1, <2>3 DEF StoreInv, Types, ReaderInv, Written, Goto, slice
  <2>7. QED
    BY <2>2, <2>4, <2>5, <2>6 DEF StoreInv
<1>5. QED
    BY <1>3, <1>4 DEF Delete

LEMMA ShiftStore ==
    ASSUME StoreInv, NEW h \in Handlers, Shift(h)
    PROVE  StoreInv'
<1>1. /\ pc[h] = "shift"
      /\ UNCHANGED <<lock, file, op, pass, arr, size, failed, out>>
    BY DEF Shift
<1>2. /\ lock = h
      /\ \A step : At(step) <=> pc[h] = step
      /\ \A g \in Handlers \ {h} : pc[g] \notin Locked
      /\ size[h] = 0
    BY <1>1, HolderAt DEF Locked, StoreInv, ReaderInv, Reading
<1>3. /\ idx[h] \in 1..len /\ len \in Nat /\ Len(array) \in Nat /\ len <= Len(array)
      /\ \A i \in 1..len : array[i] \in Msg
    BY <1>1, <1>2, LenProperties DEF StoreInv, Types, SliceInv, Written
<1>4. \A g \in Handlers : arr[g] = Shared =>
        \A i \in 1..size[g] : array[i] \in Msg /\ i \in 1..Len(array)
    BY <1>1, <1>2, <1>3 DEF StoreInv, Types, ReaderInv, Written
<1>5. CASE /\ idx[h] < len
           /\ array' = [array EXCEPT ![idx[h]] = array[idx[h] + 1]]
           /\ idx' = [idx EXCEPT ![h] = @ + 1]
           /\ UNCHANGED <<len, pc>>
  <2>1. /\ array[idx[h] + 1] \in Msg /\ idx[h] \in 1..Len(array)
    BY <1>3, <1>5
  <2>2. /\ array' \in Seq(Msg \cup {None})
        /\ Len(array') = Len(array)
        /\ \A i \in 1..Len(array) : array[i] \in Msg => array'[i] \in Msg
    BY <1>5, <2>1 DEF StoreInv, Types
  <2>3. \A step : At(step)' <=> pc[h] = step
    BY <1>1, <1>2, <1>5 DEF At
  <2>4. Types'
    BY <1>1, <1>3, <1>5, <2>2 DEF StoreInv, Types
  <2>5. LockInv'
    BY <1>1, <1>5 DEF StoreInv, LockInv
  <2>6. SliceInv'
    BY <1>1, <1>2, <1>3, <1>5, <2>2, <2>3 DEF StoreInv, Types, SliceInv, Written
  <2>7. ReaderInv'
    BY <1>1, <1>3, <1>4, <1>5, <2>2 DEF StoreInv, Types, ReaderInv, Written
  <2>8. QED
    BY <2>4, <2>5, <2>6, <2>7 DEF StoreInv
<1>6. CASE /\ len' = len - 1
           /\ Goto(h, "unlock")
           /\ UNCHANGED <<array, idx>>
  <2>1. Types'
    BY <1>1, <1>3, <1>6 DEF StoreInv, Types, Goto, Steps
  <2>2. \A step : At(step)' <=> step = "unlock"
    BY <1>1, <1>2, <1>6 DEF At, Goto, StoreInv, Types
  <2>3. LockInv'
    BY <1>1, <1>2, <1>6 DEF StoreInv, Types, LockInv, Goto
  <2>4. SliceInv'
    BY <1>3, <1>6, <2>2 DEF SliceInv, Written
  <2>5. ReaderInv'
    BY <1>1, <1>2, <1>4, <1>6 DEF StoreInv, Types, ReaderInv, Written, Goto
  <2>6. QED
    BY <2>1, <2>3, <2>4, <2>5 DEF StoreInv
<1>7. QED
    BY <1>5, <1>6 DEF Shift, Shifting

(* What was stored is loaded into an array of its own size or more.        *)
LEMMA RestartLoads ==
    ASSUME StoreInv, Restart
    PROVE  /\ Loaded \in Seq(Msg)
           /\ len' = Len(Loaded) /\ len' \in Nat
           /\ array' \in Seq(Msg \cup {None})
           /\ Len(array') \in Nat /\ len' <= Len(array')
           /\ \A i \in 1..len' : array'[i] = Loaded[i]
<1>1. Loaded \in Seq(Msg)
    BY EmptySeq DEF StoreInv, Types, Loaded
<1>2. Loaded \in Seq(Msg \cup {None}) /\ Len(Loaded) \in Nat
    BY <1>1, LenProperties
<1>3. array' = Grown(Loaded, Len(Loaded)) /\ len' = Len(Loaded)
    BY DEF Restart
<1>4. QED
    BY <1>1, <1>2, <1>3, GrownKeeps

LEMMA RestartStore ==
    ASSUME StoreInv, Restart
    PROVE  StoreInv'
<1>1. Types'
    BY RestartLoads, EmptySeq DEF StoreInv, Types, Restart, Steps, Nothing
<1>2. LockInv'
    BY DEF Restart, LockInv, Locked
<1>3. SliceInv'
    BY RestartLoads, ElementOfSeq DEF Restart, SliceInv, Written, At
<1>4. ReaderInv'
    BY RestartLoads DEF Restart, ReaderInv
<1>5. QED
    BY <1>1, <1>2, <1>3, <1>4 DEF StoreInv

LEMMA StutterStore == StoreInv /\ UNCHANGED vars => StoreInv'
BY DEF StoreInv, Types, LockInv, SliceInv, ReaderInv, Written, At, vars

LEMMA StoreStep == StoreInv /\ [Next]_vars => StoreInv'
<1> SUFFICES ASSUME StoreInv, [Next]_vars PROVE StoreInv'
    OBVIOUS
<1>1. ASSUME NEW h \in Handlers, Handler(h), Up PROVE StoreInv'
    BY <1>1, BeginStore, ReadPtrStore, ReadLenStore, ScanOnStore, ScanHitStore,
       ScanMissStore, IndexStore, AcquireStore, GrowStore, SetElementStore,
       SetLengthStore, UpdateStore, DeleteStore, ShiftStore, UnlockStore,
       MarshalStore, WriteStore
       DEF Handler, StartLookup
<1>2. CASE Restart
    BY <1>2, RestartStore
<1>3. CASE UNCHANGED vars
    BY <1>3, StutterStore
<1>4. QED
    BY <1>1, <1>2, <1>3 DEF Next

-----------------------------------------------------------------------------
(* What the lock holder sees                                               *)

LEMMA Prefix ==
    ASSUME NEW S, NEW s, NEW n \in Nat, \A i \in 1..n : s[i] \in S
    PROVE  /\ SubSeq(s, 1, n) \in Seq(S)
           /\ Len(SubSeq(s, 1, n)) = n
           /\ DOMAIN SubSeq(s, 1, n) = 1..n
           /\ \A i \in 1..n : SubSeq(s, 1, n)[i] = s[i]
<1>1. n \in Int /\ 1 \in Int
    OBVIOUS
<1>2. /\ SubSeq(s, 1, n) \in Seq(S)
      /\ Len(SubSeq(s, 1, n)) = IF 1 <= n THEN n - 1 + 1 ELSE 0
      /\ \A i \in 1..(n - 1 + 1) : SubSeq(s, 1, n)[i] = s[1 + i - 1]
    BY <1>1, SubSeqProperties
<1>3. QED
    BY <1>2, LenProperties

LEMMA WithoutOne ==
    ASSUME NEW S, NEW s \in Seq(S), NEW i \in 1..Len(s)
    PROVE  /\ Without(s, i) \in Seq(S)
           /\ Len(Without(s, i)) = Len(s) - 1
           /\ \A j \in 1..(Len(s) - 1) :
                Without(s, i)[j] = IF j < i THEN s[j] ELSE s[j + 1]
<1> DEFINE left  == SubSeq(s, 1, i - 1)
           right == SubSeq(s, i + 1, Len(s))
           n == Len(s)
<1>1. n \in Nat /\ i \in 1..n /\ \A j \in 1..n : s[j] \in S
    BY LenProperties, ElementOfSeq
<1>2. left \in Seq(S) /\ Len(left) = i - 1 /\ \A j \in 1..(i - 1) : left[j] = s[j]
  <2>1. i - 1 \in Nat /\ \A j \in 1..(i - 1) : s[j] \in S
    BY <1>1
  <2>2. QED
    BY <2>1, Prefix
<1>3. right \in Seq(S) /\ Len(right) = n - i /\ \A j \in 1..(n - i) : right[j] = s[i + j]
  <2>1. i + 1 \in Int /\ n \in Int /\ \A j \in (i + 1)..n : s[j] \in S
    BY <1>1
  <2>2. /\ right \in Seq(S)
        /\ Len(right) = IF i + 1 <= n THEN n - (i + 1) + 1 ELSE 0
        /\ \A j \in 1..(n - (i + 1) + 1) : right[j] = s[i + 1 + j - 1]
    BY <2>1, SubSeqProperties
  <2>3. QED
    BY <1>1, <2>2
<1>4. /\ left \o right \in Seq(S)
      /\ Len(left \o right) = Len(left) + Len(right)
      /\ \A j \in 1..(Len(left) + Len(right)) :
           (left \o right)[j] = IF j <= Len(left) THEN left[j] ELSE right[j - Len(left)]
    BY <1>2, <1>3, ConcatProperties
<1>5. Without(s, i) = left \o right
    BY DEF Without
<1> HIDE DEF left, right
<1>6. ASSUME NEW j \in 1..(n - 1)
      PROVE  Without(s, i)[j] = IF j < i THEN s[j] ELSE s[j + 1]
  <2>1. Len(left) + Len(right) = n - 1 /\ j \in 1..(Len(left) + Len(right))
    BY <1>1, <1>2, <1>3
  <2>2. Without(s, i)[j] = IF j <= i - 1 THEN left[j] ELSE right[j - (i - 1)]
    BY <1>2, <1>4, <1>5, <2>1
  <2>3. CASE j < i
    BY <1>1, <1>2, <2>2, <2>3
  <2>4. CASE j >= i
    <3>1. j - (i - 1) \in 1..(n - i) /\ i + (j - (i - 1)) = j + 1
      BY <1>1, <2>4
    <3>2. right[j - (i - 1)] = s[j + 1]
      BY <1>3, <3>1
    <3>3. QED
      BY <1>1, <2>2, <2>4, <3>2
  <2>5. QED
    BY <1>1, <2>3, <2>4
<1>7. Len(left) + Len(right) = n - 1
    BY <1>1, <1>2, <1>3
<1>8. QED
    BY <1>4, <1>5, <1>6, <1>7

(* The messages the next holder will find, slot by slot.                   *)
CommittedLen == IF At("shift") \/ At("setelem") THEN len - 1 ELSE len
Slot(i) == IF At("shift") /\ i >= idx[lock] THEN i + 1 ELSE i

LEMMA CommittedSlots ==
    ASSUME StoreInv
    PROVE  /\ CommittedLen \in Nat /\ len \in Nat
           /\ Committed \in Seq(Msg)
           /\ Len(Committed) = CommittedLen
           /\ DOMAIN Committed = 1..CommittedLen
           /\ \A i \in 1..CommittedLen :
                /\ Committed[i] = array[Slot(i)]
                /\ Slot(i) \in 1..len
                /\ array[Slot(i)] \in Msg
<1>1. len \in Nat /\ Len(array) \in Nat /\ len <= Len(array)
    BY LenProperties DEF StoreInv, Types
<1>2. ~(At("shift") /\ At("setelem"))
    BY DEF At
<1>3. CASE At("setelem")
  <2>1. len - 1 \in Nat /\ \A i \in 1..(len - 1) : array[i] \in Msg
    BY <1>1, <1>2, <1>3 DEF StoreInv, SliceInv, Written
  <2>2. Committed = SubSeq(array, 1, len - 1)
    BY <1>2, <1>3 DEF Committed
  <2>3. QED
    BY <1>1, <1>2, <1>3, <2>1, <2>2, Prefix DEF CommittedLen, Slot
<1>4. CASE ~At("setelem")
  <2>1. \A i \in 1..len : array[i] \in Msg
    BY <1>4 DEF StoreInv, SliceInv, Written
  <2>2. /\ Content \in Seq(Msg) /\ Len(Content) = len /\ DOMAIN Content = 1..len
        /\ \A i \in 1..len : Content[i] = array[i]
    BY <1>1, <2>1, Prefix DEF Content
  <2>3. CASE ~At("shift")
    BY <1>1, <1>4, <2>1, <2>2, <2>3 DEF Committed, CommittedLen, Slot
  <2>4. CASE At("shift")
    <3>1. idx[lock] \in 1..len
      BY <2>4 DEF StoreInv, SliceInv
    <3>2. Committed = Without(Content, idx[lock])
      BY <2>4 DEF Committed
    <3>3. /\ Committed \in Seq(Msg) /\ Len(Committed) = len - 1
          /\ \A j \in 1..(len - 1) :
               Committed[j] = IF j < idx[lock] THEN Content[j] ELSE Content[j + 1]
      BY <2>2, <3>1, <3>2, WithoutOne
    <3>4. DOMAIN Committed = 1..(len - 1)
      BY <3>3, LenProperties
    <3>5. CommittedLen = len - 1 /\ len - 1 \in Nat
      BY <1>1, <2>4, <3>1 DEF CommittedLen
    <3>6. ASSUME NEW i \in 1..(len - 1)
          PROVE  /\ Committed[i] = array[Slot(i)]
                 /\ Slot(i) \in 1..len
                 /\ array[Slot(i)] \in Msg
      <4>1. Slot(i) = (IF i >= idx[lock] THEN i + 1 ELSE i) /\ Slot(i) \in 1..len
        BY <1>1, <2>4, <3>1 DEF Slot
      <4>2. Committed[i] = Content[Slot(i)]
        BY <1>1, <3>1, <3>3, <4>1
      <4>3. QED
        BY <2>1, <2>2, <4>1, <4>2
    <3>7. QED
      BY <1>1, <3>3, <3>4, <3>5, <3>6
  <2>5. QED
    BY <2>3, <2>4
<1>5. QED
    BY <1>3, <1>4

(* The names in it, and those a lookup may meet.                           *)
Has(i, name) == array[i] # None /\ array[i].name = name

LEMMA CommittedNames ==
    ASSUME StoreInv, NEW name
    PROVE  name \in NamesOf(Committed) <=> \E i \in 1..CommittedLen : Has(Slot(i), name)
BY CommittedSlots, NoneAssumption DEF NamesOf, Has

VisibleLen == IF At("setlen") THEN len + 1 ELSE len

LEMMA VisibleNames ==
    ASSUME StoreInv, NEW name
    PROVE  /\ VisibleLen \in 0..Len(array)
           /\ name \in NamesOf(Visible) <=> \E i \in 1..VisibleLen : Has(i, name)
<1>1. len \in Nat /\ Len(array) \in Nat /\ VisibleLen \in 0..Len(array)
    BY LenProperties DEF StoreInv, Types, SliceInv, VisibleLen
<1>2. \A i \in 1..VisibleLen : array[i] \in Msg \cup {None}
    BY <1>1 DEF StoreInv, Types
<1>3. /\ DOMAIN Visible = 1..VisibleLen
      /\ \A i \in 1..VisibleLen : Visible[i] = array[i]
  <2>1. VisibleLen \in Nat
    BY <1>1
  <2>2. Visible = SubSeq(array, 1, VisibleLen)
    BY DEF Visible, VisibleLen
  <2>3. QED
    BY <1>2, <2>1, <2>2, Prefix
<1>4. QED
    BY <1>1, <1>3 DEF NamesOf, Has

LEMMA StoreTypes == StoreInv => TypeOK
BY CommittedSlots DEF StoreInv, Types, TypeOK

-----------------------------------------------------------------------------
(* The messages are a list                                                 *)

CommittedFacts ==
    /\ CommittedLen \in Nat /\ len \in Nat
    /\ Committed \in Seq(Msg)
    /\ Len(Committed) = CommittedLen
    /\ \A i \in 1..CommittedLen :
         /\ Committed[i] = array[Slot(i)]
         /\ Slot(i) \in 1..len

LEMMA CommittedAlways == StoreInv => CommittedFacts
BY CommittedSlots DEF CommittedFacts

LEMMA CommittedThen == StoreInv' => CommittedFacts'
BY CommittedAlways, PTL

LEMMA SameCommitted ==
    ASSUME StoreInv, StoreInv', CommittedLen' = CommittedLen,
           \A i \in 1..CommittedLen : array'[Slot(i)'] = array[Slot(i)]
    PROVE  Committed' = Committed
<1>1. CommittedFacts /\ CommittedFacts'
    BY CommittedAlways, CommittedThen
<1>2. /\ Committed \in Seq(Msg) /\ Committed' \in Seq(Msg)
      /\ Len(Committed') = Len(Committed)
      /\ \A i \in 1..Len(Committed') : Committed'[i] = Committed[i]
    BY <1>1 DEF CommittedFacts
<1>3. QED
    BY <1>2, SeqEqual

(* The steps that leave alone what the lock holder and the lookups see.    *)
Quiet ==
    /\ UNCHANGED slice
    /\ \A step \in {"setlen", "setelem", "shift"} : At(step)' <=> At(step)
    /\ At("shift") => lock' = lock /\ idx'[lock] = idx[lock]

LEMMA MoveQuiet ==
    ASSUME StoreInv, NEW h \in Handlers, UNCHANGED slice,
           \A g \in Handlers \ {h} : pc'[g] = pc[g] /\ idx'[g] = idx[g],
           pc[h] \notin {"setlen", "setelem", "shift"},
           pc'[h] \notin {"setlen", "setelem", "shift"},
           \/ lock' = lock
           \/ lock = h /\ lock' = None
           \/ lock = None /\ lock' = h
    PROVE  Quiet
BY NoneAssumption DEF StoreInv, Types, Quiet, At

(* A handler's steps but those of append and delete on the slice.          *)
Local(h) ==
    \/ \E o \in Op : Begin(h, o)
    \/ StartLookup(h) \/ ReadLen(h, "len", "scan")
    \/ ScanOn(h) \/ ScanHit(h) \/ ScanMiss(h)
    \/ \E known \in BOOLEAN : Index(h, known)
    \/ Acquire(h, "lock", "change")
    \/ Unlock(h)
    \/ (ReadPtr(h, "wptr", "wlen") /\ UNCHANGED history)
    \/ ReadLen(h, "wlen", "wlock")
    \/ Acquire(h, "wlock", "marshal")
    \/ \E good \in BOOLEAN : Marshal(h, good) \/ Write(h, good)

LEMMA LocalQuiet ==
    ASSUME StoreInv, NEW h \in Handlers, Local(h)
    PROVE  Quiet
<1> DEFINE moves ==
             /\ UNCHANGED slice
             /\ \A g \in Handlers \ {h} : pc'[g] = pc[g] /\ idx'[g] = idx[g]
             /\ pc[h] \notin {"setlen", "setelem", "shift"}
             /\ pc'[h] \notin {"setlen", "setelem", "shift"}
             /\ \/ lock' = lock
                \/ lock = h /\ lock' = None
                \/ lock = None /\ lock' = h
<1> SUFFICES moves
    BY MoveQuiet
<1>1. ASSUME NEW o \in Op, Begin(h, o) PROVE moves
    BY <1>1 DEF StoreInv, Types, Begin, Goto, locals
<1>2. CASE StartLookup(h) \/ ReadPtr(h, "wptr", "wlen")
    BY <1>2 DEF StoreInv, Types, StartLookup, ReadPtr, Goto
<1>3. CASE ReadLen(h, "len", "scan") \/ ReadLen(h, "wlen", "wlock")
    BY <1>3 DEF StoreInv, Types, ReadLen, Goto
<1>4. CASE ScanOn(h)
    BY <1>4 DEF StoreInv, Types, ScanOn
<1>5. ASSUME Reply(h) PROVE /\ \A g \in Handlers \ {h} : pc'[g] = pc[g] /\ idx'[g] = idx[g]
                            /\ pc'[h] = "idle"
    BY <1>5 DEF StoreInv, Types, Reply, Goto
<1>6. ASSUME NEW to, NEW n, Leave(h, to, n)
      PROVE  /\ \A g \in Handlers \ {h} : pc'[g] = pc[g] /\ idx'[g] = idx[g]
             /\ pc'[h] = to
    BY <1>6 DEF StoreInv, Types, Leave, Goto
<1>7. CASE ScanHit(h)
  <2>1. /\ op[h].kind \in {"add", "update", "consumer", "delete", "publish"}
        /\ pass[h] \in {1, 2}
    BY DEF StoreInv, Types, Op, Nothing
  <2>2. \/ Reply(h)
        \/ \E to \in {"lock", "ptr", "index"}, n \in {1, 2} : Leave(h, to, n)
    BY <1>7, <2>1 DEF ScanHit
  <2>3. pc[h] = "scan" /\ UNCHANGED <<slice, lock>>
    BY <1>7 DEF ScanHit
  <2>4. QED
    BY <1>5, <1>6, <2>2, <2>3
<1>8. CASE ScanMiss(h)
    BY <1>5, <1>6, <1>8 DEF ScanMiss
<1>9. ASSUME NEW known \in BOOLEAN, Index(h, known) PROVE moves
    BY <1>5, <1>9 DEF StoreInv, Types, Index, Goto, locals
<1>10. CASE Acquire(h, "lock", "change") \/ Acquire(h, "wlock", "marshal")
    BY <1>10 DEF StoreInv, Types, Acquire, Goto, locals
<1>11. CASE Unlock(h)
    BY <1>5, <1>11, HolderAt DEF StoreInv, Types, Unlock, Goto, locals, Locked
<1>12. ASSUME NEW good \in BOOLEAN, Marshal(h, good) PROVE moves
    BY <1>5, <1>12, HolderAt DEF StoreInv, Types, Marshal, Goto, locals, Locked
<1>13. ASSUME NEW good \in BOOLEAN, Write(h, good) PROVE moves
    BY <1>5, <1>13, HolderAt DEF Write, Locked
<1>14. QED
    BY <1>1, <1>2, <1>3, <1>4, <1>7, <1>8, <1>9, <1>10, <1>11, <1>12, <1>13 DEF Local

LEMMA QuietSame ==
    ASSUME StoreInv, StoreInv', Quiet
    PROVE  Committed' = Committed
<1>1. CommittedLen' = CommittedLen
    BY DEF Quiet, CommittedLen, slice
<1>2. \A i \in 1..CommittedLen : Slot(i)' = Slot(i)
    BY DEF Quiet, Slot
<1>3. array' = array
    BY DEF Quiet, slice
<1>4. QED
    BY <1>1, <1>2, <1>3, SameCommitted

(* The steps of append, updates and deletes, as steps of the list.         *)
LEMMA GrowSame ==
    ASSUME StoreInv, StoreInv', NEW h \in Handlers, Grow(h)
    PROVE  /\ Committed' = Committed
           /\ \A i \in 1..len : array'[i] = array[i]
           /\ \A step : At(step) <=> step = "change"
           /\ \A step : At(step)' <=> step = "change"
           /\ len' = len /\ len \in Nat /\ len = Len(array) /\ pc' = pc
<1>1. /\ pc[h] = "change" /\ len = Len(array)
      /\ array' = Grown(array, len + 1)
      /\ UNCHANGED <<len, lock, pc>>
    BY DEF Grow
<1>2. /\ \A step : At(step) <=> step = "change"
      /\ \A step : At(step)' <=> step = "change"
    BY <1>1, HolderAt DEF At, Locked
<1>3. len \in Nat /\ len + 1 \in Nat /\ array \in Seq(Msg \cup {None})
    BY LenProperties DEF StoreInv, Types
<1>4. \A i \in 1..len : array'[i] = array[i]
    BY <1>1, <1>3, GrownKeeps
<1>5. CommittedLen = len /\ CommittedLen' = len /\ \A i : Slot(i) = i /\ Slot(i)' = i
    BY <1>1, <1>2 DEF CommittedLen, Slot
<1>6. QED
    BY <1>1, <1>2, <1>3, <1>4, <1>5, SameCommitted

LEMMA AppendList ==
    ASSUME CommittedFacts, CommittedFacts', NEW m \in Msg,
           CommittedLen' = CommittedLen + 1,
           \A i : Slot(i) = i /\ Slot(i)' = i,
           \A i \in 1..CommittedLen : array'[i] = array[i],
           array'[CommittedLen + 1] = m
    PROVE  Committed' = Append(Committed, m)
<1>1. /\ Append(Committed, m) \in Seq(Msg)
      /\ Len(Append(Committed, m)) = CommittedLen + 1
      /\ \A i \in 1..CommittedLen : Append(Committed, m)[i] = Committed[i]
      /\ Append(Committed, m)[CommittedLen + 1] = m
    BY AppendProperties DEF CommittedFacts
<1>2. /\ Committed' \in Seq(Msg)
      /\ Len(Committed') = CommittedLen + 1
      /\ \A i \in 1..(CommittedLen + 1) :
           Committed'[i] = IF i = CommittedLen + 1 THEN m ELSE Committed[i]
    BY DEF CommittedFacts
<1>3. CommittedLen \in Nat
    BY DEF CommittedFacts
<1>4. \A i \in 1..Len(Committed') : Committed'[i] = Append(Committed, m)[i]
    BY <1>1, <1>2, <1>3
<1>5. QED
    BY <1>1, <1>2, <1>4, SeqEqual

LEMMA SetElementList ==
    ASSUME StoreInv, StoreInv', NEW h \in Handlers,
           SetElement(h, "change", "setlen") \/ SetElement(h, "setelem", "unlock")
    PROVE  /\ pc[h] = "change" => Committed' = Committed
           /\ pc[h] = "setelem" => Committed' = Append(Committed, Message(h))
           /\ Message(h) \in Msg
<1>1. /\ Message(h) \in Msg /\ len' = len /\ lock' = lock
      /\ CommittedFacts /\ CommittedFacts'
      /\ Len(array) \in Nat /\ len \in 0..Len(array)
    BY MessageTyped, CommittedAlways, CommittedThen, LenProperties
       DEF SetElement, StoreInv, Types
<1>2. CASE SetElement(h, "change", "setlen")
  <2>1. /\ pc[h] = "change" /\ pc' = [pc EXCEPT ![h] = "setlen"]
        /\ array' = [array EXCEPT ![len + 1] = Message(h)]
    BY <1>2 DEF SetElement, Goto
  <2>2. /\ \A step : At(step) <=> step = "change"
        /\ \A step : At(step)' <=> step = "setlen"
    BY <1>1, <2>1, HolderAt DEF At, Locked, StoreInv, Types
  <2>3. CommittedLen = len /\ CommittedLen' = len /\ \A i : Slot(i) = i /\ Slot(i)' = i
    BY <1>1, <2>2 DEF CommittedLen, Slot
  <2>4. \A i \in 1..len : array'[i] = array[i]
    BY <1>1, <2>1 DEF StoreInv, Types
  <2>5. QED
    BY <1>1, <2>1, <2>3, <2>4, SameCommitted
<1>3. CASE SetElement(h, "setelem", "unlock")
  <2>1. /\ pc[h] = "setelem" /\ pc' = [pc EXCEPT ![h] = "unlock"]
        /\ array' = [array EXCEPT ![len] = Message(h)]
    BY <1>3 DEF SetElement, Goto
  <2>2. /\ \A step : At(step) <=> step = "setelem"
        /\ \A step : At(step)' <=> step = "unlock"
    BY <1>1, <2>1, HolderAt DEF At, Locked, StoreInv, Types
  <2>3. len >= 1
    BY <2>2 DEF StoreInv, SliceInv
  <2>4. /\ CommittedLen = len - 1 /\ CommittedLen' = len
        /\ \A i : Slot(i) = i /\ Slot(i)' = i
    BY <1>1, <2>2 DEF CommittedLen, Slot
  <2>5. /\ \A i \in 1..(len - 1) : array'[i] = array[i]
        /\ array'[len] = Message(h)
    BY <1>1, <2>1, <2>3 DEF StoreInv, Types
  <2>6. Committed' = Append(Committed, Message(h))
    BY <1>1, <2>3, <2>4, <2>5, AppendList
  <2>7. QED
    BY <1>1, <2>1, <2>6
<1>4. QED
    BY <1>2, <1>3

LEMMA SetLengthList ==
    ASSUME StoreInv, StoreInv', NEW h \in Handlers,
           SetLength(h, "setlen", "unlock") \/ SetLength(h, "change", "setelem")
    PROVE  /\ pc[h] = "change" => Committed' = Committed
           /\ pc[h] = "setlen" => /\ array[len + 1] \in Msg
                                  /\ Committed' = Append(Committed, array[len + 1])
<1>1. /\ len' = len + 1 /\ UNCHANGED <<array, lock>>
      /\ CommittedFacts /\ CommittedFacts'
      /\ Len(array) \in Nat /\ len \in 0..Len(array)
    BY CommittedAlways, CommittedThen, LenProperties DEF SetLength, StoreInv, Types
<1>2. CASE SetLength(h, "change", "setelem")
  <2>1. pc[h] = "change" /\ pc' = [pc EXCEPT ![h] = "setelem"]
    BY <1>2 DEF SetLength, Goto
  <2>2. /\ \A step : At(step) <=> step = "change"
        /\ \A step : At(step)' <=> step = "setelem"
    BY <1>1, <2>1, HolderAt DEF At, Locked, StoreInv, Types
  <2>3. CommittedLen = len /\ CommittedLen' = len /\ \A i : Slot(i) = i /\ Slot(i)' = i
    BY <1>1, <2>2 DEF CommittedLen, Slot
  <2>4. QED
    BY <1>1, <2>1, <2>3, SameCommitted
<1>3. CASE SetLength(h, "setlen", "unlock")
  <2>1. pc[h] = "setlen" /\ pc' = [pc EXCEPT ![h] = "unlock"]
    BY <1>3 DEF SetLength, Goto
  <2>2. /\ \A step : At(step) <=> step = "setlen"
        /\ \A step : At(step)' <=> step = "unlock"
    BY <1>1, <2>1, HolderAt DEF At, Locked, StoreInv, Types
  <2>3. array[len + 1] \in Msg
    BY <2>2 DEF StoreInv, SliceInv
  <2>4. /\ CommittedLen = len /\ CommittedLen' = len + 1
        /\ \A i : Slot(i) = i /\ Slot(i)' = i
    BY <1>1, <2>2 DEF CommittedLen, Slot
  <2>5. Committed' = Append(Committed, array[len + 1])
    BY <1>1, <2>3, <2>4, AppendList
  <2>6. QED
    BY <2>1, <2>3, <2>5
<1>4. QED
    BY <1>2, <1>3

LEMMA ShiftSame ==
    ASSUME StoreInv, StoreInv', NEW h \in Handlers, Shift(h)
    PROVE  Committed' = Committed
<1>1. /\ pc[h] = "shift" /\ lock = h /\ lock' = lock
      /\ \A step : At(step) <=> step = "shift"
    BY HolderAt DEF Shift, Locked
<1>2. /\ Len(array) \in Nat /\ len \in 0..Len(array) /\ idx[h] \in 1..len
    BY <1>1, LenProperties DEF StoreInv, Types, SliceInv
<1>3. /\ CommittedLen = len - 1
      /\ \A i : Slot(i) = IF i >= idx[h] THEN i + 1 ELSE i
    BY <1>1 DEF CommittedLen, Slot
<1>4. CASE /\ idx[h] < len
           /\ array' = [array EXCEPT ![idx[h]] = array[idx[h] + 1]]
           /\ idx' = [idx EXCEPT ![h] = @ + 1]
           /\ UNCHANGED <<len, pc>>
  <2>1. \A step : At(step)' <=> step = "shift"
    BY <1>1, <1>4 DEF At
  <2>2. idx'[h] = idx[h] + 1
    BY <1>4 DEF StoreInv, Types
  <2>3. /\ CommittedLen' = len - 1
        /\ \A i : Slot(i)' = IF i >= idx[h] + 1 THEN i + 1 ELSE i
    BY <1>1, <1>4, <2>1, <2>2 DEF CommittedLen, Slot
  <2>4. \A i \in 1..len : array'[i] = IF i = idx[h] THEN array[idx[h] + 1] ELSE array[i]
    BY <1>2, <1>4 DEF StoreInv, Types
  <2>5. \A i \in 1..(len - 1) : array'[Slot(i)'] = array[Slot(i)]
    BY <1>2, <1>3, <1>4, <2>3, <2>4
  <2>6. QED
    BY <1>3, <2>3, <2>5, SameCommitted
<1>5. CASE /\ ~(idx[h] < len)
           /\ len' = len - 1
           /\ Goto(h, "unlock")
           /\ UNCHANGED <<array, idx>>
  <2>1. \A step : At(step)' <=> step = "unlock"
    BY <1>1, <1>5 DEF At, Goto, StoreInv, Types
  <2>2. CommittedLen' = len - 1 /\ \A i : Slot(i)' = i
    BY <1>5, <2>1 DEF CommittedLen, Slot
  <2>3. \A i \in 1..(len - 1) : Slot(i) = i
    BY <1>2, <1>3, <1>5
  <2>4. QED
    BY <1>3, <1>5, <2>2, <2>3, SameCommitted
<1>6. QED
    BY <1>4, <1>5 DEF Shift, Shifting

LEMMA UpdateList ==
    ASSUME StoreInv, StoreInv', NEW h \in Handlers, NEW known \in BOOLEAN, NEW bad \in BOOLEAN,
           Update(h, known, bad)
    PROVE  \/ Quiet /\ Committed' = Committed
           \/ \E i \in DOMAIN Committed :
                /\ i \in 1..len /\ array[i].name = op[h].name
                /\ \A j \in 1..(i - 1) : Committed[j].name # Committed[i].name
                /\ array' = [array EXCEPT ![i] = Message(h)]
                /\ Committed' = [Committed EXCEPT ![i].attr = op[h].attr]
<1>1. /\ pc[h] = "change" /\ pc' = [pc EXCEPT ![h] = "unlock"]
      /\ lock' = lock /\ len' = len /\ idx' = idx
    BY DEF Update, Goto, locals
<1>2. /\ \A step : At(step) <=> step = "change"
      /\ \A step : At(step)' <=> step = "unlock"
    BY <1>1, HolderAt DEF At, Locked, StoreInv, Types
<1>3. CASE array' = array
  <2>1. Quiet
    BY <1>1, <1>2, <1>3 DEF Quiet, slice
  <2>2. QED
    BY <2>1, QuietSame
<1>4. CASE Position(h) # 0 /\ array' = [array EXCEPT ![Position(h)] = Message(h)]
  <2> DEFINE i == Position(h)
             new == [Committed EXCEPT ![i].attr = op[h].attr]
  <2>1. /\ CommittedFacts /\ CommittedFacts' /\ DOMAIN Committed = 1..CommittedLen
        /\ Len(array) \in Nat /\ len \in 0..Len(array) /\ len \in Nat
    BY CommittedAlways, CommittedThen, CommittedSlots, LenProperties DEF StoreInv, Types
  <2>2. /\ CommittedLen = len /\ CommittedLen' = len
        /\ \A j : Slot(j) = j /\ Slot(j)' = j
    BY <1>1, <1>2 DEF CommittedLen, Slot
  <2>3. /\ i \in 1..len /\ array[i].name = op[h].name
        /\ \A j \in 1..(i - 1) : array[j].name # op[h].name
        /\ \A j \in 1..len : array[j] \in Msg
    BY <1>1, <1>4, LockedLookup
  <2>4. \A j \in 1..len : Committed[j] = array[j] /\ Committed'[j] = array'[j]
    BY <2>1, <2>2 DEF CommittedFacts
  <2>5. \A j \in 1..len : array'[j] = IF j = i THEN Message(h) ELSE array[j]
    <3>1. \A j \in 1..len : j \in 1..Len(array)
      BY <2>1
    <3>2. array \in [1..Len(array) -> Msg \cup {None}]
      BY LenProperties DEF StoreInv, Types
    <3>3. QED
      BY <1>4, <3>1, <3>2
  <2>6. Message(h) \in Msg
    BY MessageTyped DEF StoreInv, Update
  <2>7. [Committed[i] EXCEPT !.attr = op[h].attr] = Message(h)
    <3>1. Committed[i] \in Msg /\ Committed[i].name = op[h].name
      BY <2>3, <2>4
    <3>2. QED
      BY <3>1 DEF Message, Msg
  <2>8. new = [Committed EXCEPT ![i] = Message(h)]
    BY <2>7
  <2>9. /\ Committed \in Seq(Msg) /\ Len(Committed) = len
        /\ Committed' \in Seq(Msg) /\ Len(Committed') = len
    BY <2>1, <2>2 DEF CommittedFacts
  <2>10. /\ new \in Seq(Msg) /\ Len(new) = len
         /\ \A j \in 1..len : new[j] = IF j = i THEN Message(h) ELSE Committed[j]
    <3>1. i \in 1..Len(Committed)
      BY <2>3, <2>9
    <3>2. QED
      BY <2>6, <2>8, <2>9, <3>1, ExceptSeq
  <2>11. Committed' = new
    <3> HIDE DEF new
    <3>1. \A j \in 1..len : Committed'[j] = new[j]
      BY <2>4, <2>5, <2>10
    <3>2. QED
      BY <2>9, <2>10, <3>1, SeqEqual
  <2>12. \A j \in 1..(i - 1) : Committed[j].name # Committed[i].name
    BY <2>1, <2>3, <2>4
  <2>13. i \in DOMAIN Committed
    BY <2>1, <2>2, <2>3
  <2>14. QED
    BY <1>4, <2>3, <2>11, <2>12, <2>13
<1>5. QED
    BY <1>3, <1>4 DEF Update

LEMMA DeleteList ==
    ASSUME StoreInv, StoreInv', NEW h \in Handlers, NEW bad \in BOOLEAN, Delete(h, bad)
    PROVE  \/ Quiet /\ Committed' = Committed
           \/ /\ slice' = slice /\ pc' = [pc EXCEPT ![h] = "shift"]
              /\ \A step : At(step) <=> step = "change"
              /\ \A step : At(step)' <=> step = "shift"
              /\ shifted' = shifted \cup {g \in Handlers : pc[g] \in {"len", "scan"}}
              /\ Note
              /\ \E i \in DOMAIN Committed :
                   /\ Committed[i].name = op[h].name
                   /\ \A j \in 1..(i - 1) : Committed[j].name # Committed[i].name
                   /\ Committed' = Without(Committed, i)
<1>1. pc[h] = "change" /\ lock' = lock /\ slice' = slice
    BY DEF Delete
<1>2. \A step : At(step) <=> step = "change"
    BY <1>1, HolderAt DEF Locked
<1>3. CASE Goto(h, "unlock") /\ idx' = idx
  <2>1. \A step : At(step)' <=> step = "unlock"
    BY <1>1, <1>2, <1>3, HolderAt DEF At, Locked, Goto, StoreInv, Types
  <2>2. Quiet
    BY <1>1, <1>2, <1>3, <2>1 DEF Quiet
  <2>3. QED
    BY <2>2, QuietSame
<1>4. CASE /\ Position(h) # 0
           /\ idx' = [idx EXCEPT ![h] = Position(h)]
           /\ Goto(h, "shift")
           /\ shifted' = shifted \cup {g \in Handlers : pc[g] \in {"len", "scan"}}
           /\ Note
  <2>1. /\ \A step : At(step)' <=> step = "shift"
        /\ lock = h
    BY <1>1, <1>2, <1>4, HolderAt DEF At, Locked, Goto, StoreInv, Types
  <2>2. idx'[lock'] = Position(h)
    BY <1>1, <1>4, <2>1 DEF StoreInv, Types
  <2>3. Committed = Content
    BY <1>2 DEF Committed
  <2>4. Committed' = Without(Content', idx'[lock'])
    BY <2>1 DEF Committed
  <2>5. Content' = Content
    BY <1>1 DEF Content, slice
  <2>6. Committed' = Without(Committed, Position(h))
    BY <2>2, <2>3, <2>4, <2>5
  <2>7. /\ Position(h) \in 1..len
        /\ array[Position(h)].name = op[h].name
        /\ \A j \in 1..(Position(h) - 1) : array[j].name # op[h].name
    BY <1>1, <1>4, LockedLookup
  <2>8. CommittedLen = len /\ \A j : Slot(j) = j
    BY <1>2 DEF CommittedLen, Slot
  <2>9. /\ DOMAIN Committed = 1..len /\ len \in Nat
        /\ \A j \in 1..len : Committed[j] = array[j]
    BY <2>8, CommittedSlots
  <2>10. /\ Position(h) \in DOMAIN Committed
         /\ Committed[Position(h)].name = op[h].name
         /\ \A j \in 1..(Position(h) - 1) : Committed[j].name # Committed[Position(h)].name
    BY <2>7, <2>9
  <2>11. QED
    BY <1>1, <1>2, <1>4, <2>1, <2>6, <2>10 DEF Goto
<1>5. QED
    BY <1>3, <1>4 DEF Delete

LEMMA RestartList ==
    ASSUME StoreInv, StoreInv', Restart
    PROVE  Committed' = Loaded /\ Loaded' = Loaded
<1>1. CommittedFacts'
    BY CommittedThen
<1>2. \A step : ~At(step)'
    BY DEF Restart, At
<1>3. CommittedLen' = len' /\ \A i : Slot(i)' = i
    BY <1>2 DEF CommittedLen, Slot
<1>4. /\ Committed' \in Seq(Msg) /\ Loaded \in Seq(Msg)
      /\ Len(Committed') = Len(Loaded)
      /\ \A i \in 1..Len(Committed') : Committed'[i] = Loaded[i]
    BY <1>1, <1>3, RestartLoads DEF CommittedFacts
<1>5. Loaded' = Loaded
    BY DEF Loaded, Restart
<1>6. QED
    BY <1>4, <1>5, SeqEqual

LEMMA ListStep == StoreInv /\ StoreInv' /\ [Next]_vars => [List!Next]_<<Committed, Loaded>>
<1> SUFFICES ASSUME StoreInv, StoreInv', [Next]_vars
             PROVE  [List!Next]_<<Committed, Loaded>>
    OBVIOUS
<1>1. ASSUME Committed' = Committed PROVE List!Next
    BY <1>1 DEF List!Next, List!Store
<1>2. ASSUME NEW m \in Msg, Committed' = Append(Committed, m), Loaded' = Loaded
      PROVE  List!Next
  <2>1. m \in List!Msg
    BY DEF Msg, List!Msg
  <2>2. QED
    BY <1>2, <2>1 DEF List!Next, List!Add
<1>3. ASSUME NEW h \in Handlers, Handler(h) PROVE List!Next
  <2>1. CASE Local(h)
    BY <1>1, <2>1, LocalQuiet, QuietSame
  <2>2. CASE Grow(h)
    BY <1>1, <2>2, GrowSame
  <2>3. CASE SetElement(h, "change", "setlen") \/ SetElement(h, "setelem", "unlock")
    <3>1. pc[h] \in {"change", "setelem"} /\ Loaded' = Loaded
      BY <2>3 DEF SetElement, Loaded
    <3>2. QED
      BY <1>1, <1>2, <2>3, <3>1, SetElementList
  <2>4. CASE SetLength(h, "setlen", "unlock") \/ SetLength(h, "change", "setelem")
    <3>1. pc[h] \in {"change", "setlen"} /\ Loaded' = Loaded
      BY <2>4 DEF SetLength, Loaded
    <3>2. QED
      BY <1>1, <1>2, <2>4, <3>1, SetLengthList
  <2>5. ASSUME NEW known \in BOOLEAN, NEW bad \in BOOLEAN, Update(h, known, bad)
        PROVE  List!Next
    <3>1. Loaded' = Loaded /\ op[h].attr \in Attrs
      <4>1. op[h] \in Op \cup {Nothing} /\ op[h].kind \in {"update", "consumer"}
        BY <2>5 DEF Update, StoreInv, Types
      <4>2. QED
        BY <2>5, <4>1 DEF Update, Loaded, Op, Nothing
    <3>2. CASE Committed' = Committed
      BY <1>1, <3>2
    <3>3. ASSUME NEW i \in DOMAIN Committed,
                 \A j \in 1..(i - 1) : Committed[j].name # Committed[i].name,
                 Committed' = [Committed EXCEPT ![i].attr = op[h].attr]
          PROVE  List!Next
      BY <3>1, <3>3 DEF List!Next, List!Update, List!First
    <3>4. QED
      BY <2>5, <3>2, <3>3, UpdateList
  <2>6. ASSUME NEW bad \in BOOLEAN, Delete(h, bad) PROVE List!Next
    <3>1. Loaded' = Loaded
      BY <2>6 DEF Delete, Loaded
    <3>2. CASE Committed' = Committed
      BY <1>1, <3>2
    <3>3. ASSUME NEW i \in DOMAIN Committed,
                 \A j \in 1..(i - 1) : Committed[j].name # Committed[i].name,
                 Committed' = Without(Committed, i)
          PROVE  List!Next
      BY <3>1, <3>3 DEF List!Next, List!Delete, List!First, Without
    <3>4. QED
      BY <2>6, <3>2, <3>3, DeleteList
  <2>7. CASE Shift(h)
    BY <1>1, <2>7, ShiftSame
  <2>8. QED
    BY <1>3, <2>1, <2>2, <2>3, <2>4, <2>5, <2>6, <2>7 DEF Handler, Local
<1>4. CASE Restart
    BY <1>4, RestartList DEF List!Next, List!Load
<1>5. CASE UNCHANGED vars
  <2>1. Quiet
    BY <1>5 DEF vars, slice, Quiet, At
  <2>2. Loaded' = Loaded
    BY <1>5 DEF vars, Loaded
  <2>3. QED
    BY <2>1, <2>2, QuietSame
<1>6. QED
    BY <1>3, <1>4, <1>5 DEF Next

LEMMA ListInit == Init => List!Init
BY Prefix DEF Init, List!Init, Committed, Content, At, Loaded

-----------------------------------------------------------------------------
(* Theorems                                                                *)

(* Slots up to the length hold messages but while append is between its    *)
(* two stores, and so do the slots of every slice a handler has read: what *)
(* is looked up, marshalled and loaded is typed (message.go:84, 169, 229,  *)
(* 637).                                                                   *)
THEOREM StoreInvariant == Spec => []StoreInv
<1>1. Init => StoreInv
    BY InitStore
<1>2. StoreInv /\ [Next]_vars => StoreInv'
    BY StoreStep
<1>3. QED
    BY <1>1, <1>2, PTL DEF Spec

THEOREM StoreTypeOK == Spec => []TypeOK
BY StoreInvariant, StoreTypes, PTL

(* To whoever holds msgLock the messages are a list that changes by whole  *)
(* operations, each on the first message of its name, although append and  *)
(* delete write shared arrays element by element (message.go:169, 184,     *)
(* 229, 245, 277).                                                         *)
THEOREM StoreIsList == Spec => ImplementsList
<1>1. Init => List!Init
    BY ListInit
<1>2. StoreInv /\ StoreInv' /\ [Next]_vars => [List!Next]_<<Committed, Loaded>>
    BY ListStep
<1>3. QED
    BY <1>1, <1>2, StoreInvariant, PTL DEF Spec, ImplementsList, List!Spec
=============================================================================
