------------------------ MODULE MessageLookupProofs -------------------------
(***************************************************************************)
(* Proofs about the lookups of MessageStore that hold no lock: what they   *)
(* find was there, and what they miss a delete has shifted, for any number *)
(* of handlers, messages and requests.                                     *)
(*                                                                         *)
(* Both invariants follow a lookup's slice: as long as it is the shared    *)
(* array every write to it is noted, and when append leaves the array      *)
(* behind, it holds the messages of that moment for good.                  *)
(***************************************************************************)
EXTENDS MessageStoreProofs

(* Lookups that find                                                       *)

LookingUp == {"len", "scan"}

(* What a lookup may still meet has been configured since it began: what   *)
(* it sees in the list, in the slots its length reaches beyond the list,   *)
(* and in an array left behind.                                            *)
Found(g) ==
    /\ pc[g] \in LookingUp => \A i \in 1..VisibleLen : Has(i, op[g].name) => g \in seen
    /\ pc[g] = "scan" /\ arr[g] = Shared =>
         \A i \in 1..size[g] : Has(i, op[g].name) => g \in seen
    /\ pc[g] \in LookingUp /\ arr[g] # Shared =>
         \A i \in 1..Len(arr[g]) : arr[g][i].name = op[g].name => g \in seen

FoundInv == \A g \in Handlers : Found(g)

VisibleFacts ==
    /\ VisibleLen \in Nat /\ len \in Nat /\ len <= VisibleLen
    /\ VisibleLen <= Len(array) /\ Len(array) \in Nat
    /\ \A name : name \in NamesOf(Visible) <=> \E i \in 1..VisibleLen : Has(i, name)

LEMMA VisibleAlways == StoreInv => VisibleFacts
<1> SUFFICES ASSUME StoreInv PROVE VisibleFacts
    OBVIOUS
<1>1. len \in Nat /\ Len(array) \in Nat /\ len <= VisibleLen
    BY LenProperties DEF StoreInv, Types, VisibleLen
<1>2. \A name : /\ VisibleLen \in 0..Len(array)
                /\ name \in NamesOf(Visible) <=> \E i \in 1..VisibleLen : Has(i, name)
    BY VisibleNames
<1>3. QED
    BY <1>1, <1>2 DEF VisibleFacts

LEMMA VisibleThen == StoreInv' => VisibleFacts'
BY VisibleAlways, PTL

(* What a step that is not append's or delete's does to the lookups.       *)
LookupMoves(h) ==
    /\ \A g \in Handlers \ {h} :
         /\ pc'[g] = pc[g] /\ op'[g] = op[g]
         /\ arr'[g] = arr[g] /\ size'[g] = size[g] /\ idx'[g] = idx[g]
         /\ g \in seen' <=> g \in seen
         /\ g \in kept' <=> g \in kept
         /\ g \in shifted' <=> g \in shifted
    /\ \/ StartLookup(h)
       \/ ReadLen(h, "len", "scan")
       \/ ScanOn(h)
       \/ /\ pc'[h] \notin LookingUp
          /\ kept' \subseteq kept
          /\ pc[h] \in LookingUp => h \notin kept'

LEMMA LocalLookup ==
    ASSUME StoreInv, NEW h \in Handlers, Local(h)
    PROVE  LookupMoves(h)
<1> DEFINE still ==
             \A g \in Handlers \ {h} :
               /\ pc'[g] = pc[g] /\ op'[g] = op[g]
               /\ arr'[g] = arr[g] /\ size'[g] = size[g] /\ idx'[g] = idx[g]
<1>1. ASSUME NEW o \in Op, Begin(h, o) PROVE LookupMoves(h)
    BY <1>1 DEF StoreInv, Types, Begin, Goto, locals, history, LookupMoves, LookingUp
<1>2. CASE StartLookup(h)
    BY <1>2 DEF StoreInv, Types, StartLookup, ReadPtr, Goto, LookupMoves
<1>3. CASE ReadLen(h, "len", "scan")
    BY <1>3 DEF StoreInv, Types, ReadLen, Goto, history, LookupMoves
<1>4. CASE ScanOn(h)
    BY <1>4 DEF StoreInv, Types, ScanOn, history, LookupMoves
<1>5. ASSUME Reply(h) PROVE still /\ pc'[h] = "idle"
    BY <1>5 DEF StoreInv, Types, Reply, Goto
<1>6. ASSUME NEW to, NEW n, Leave(h, to, n) PROVE still /\ pc'[h] = to
    BY <1>6 DEF StoreInv, Types, Leave, Goto
<1>7. CASE ScanHit(h) \/ ScanMiss(h)
  <2>1. /\ op[h].kind \in {"add", "update", "consumer", "delete", "publish"}
        /\ pass[h] \in {1, 2}
    BY DEF StoreInv, Types, Op, Nothing
  <2>2. \/ Reply(h)
        \/ \E to \in {"lock", "ptr", "index"}, n \in {1, 2} : Leave(h, to, n)
    BY <1>7, <2>1 DEF ScanHit, ScanMiss
  <2>3. still /\ pc'[h] \notin LookingUp
    BY <1>5, <1>6, <2>2 DEF LookingUp
  <2>4. QED
    BY <1>7, <2>3 DEF ScanHit, ScanMiss, EndLookup, LookupMoves
<1>8. ASSUME NEW known \in BOOLEAN, Index(h, known) PROVE LookupMoves(h)
  <2>1. still /\ pc'[h] \notin LookingUp /\ UNCHANGED history /\ pc[h] \notin LookingUp
    BY <1>5, <1>8 DEF StoreInv, Types, Index, Goto, locals, LookingUp
  <2>2. QED
    BY <2>1 DEF LookupMoves, history
<1>9. CASE \/ Acquire(h, "lock", "change") \/ Acquire(h, "wlock", "marshal")
           \/ ReadPtr(h, "wptr", "wlen") /\ UNCHANGED history
           \/ ReadLen(h, "wlen", "wlock")
  <2>1. still /\ pc'[h] \notin LookingUp /\ UNCHANGED history /\ pc[h] \notin LookingUp
    BY <1>9 DEF StoreInv, Types, Acquire, ReadPtr, ReadLen, Goto, locals, LookingUp
  <2>2. QED
    BY <2>1 DEF LookupMoves, history
<1>10. CASE Unlock(h)
  <2>1. still /\ pc'[h] \notin LookingUp /\ UNCHANGED history /\ pc[h] \notin LookingUp
    BY <1>5, <1>10 DEF StoreInv, Types, Unlock, Goto, locals, LookingUp
  <2>2. QED
    BY <2>1 DEF LookupMoves, history
<1>11. ASSUME NEW good \in BOOLEAN, Marshal(h, good) \/ Write(h, good)
       PROVE  LookupMoves(h)
  <2>1. still /\ pc'[h] \notin LookingUp /\ UNCHANGED history /\ pc[h] \notin LookingUp
    BY <1>5, <1>11 DEF StoreInv, Types, Marshal, Write, Goto, locals, LookingUp
  <2>2. QED
    BY <2>1 DEF LookupMoves, history
<1>12. QED
    BY <1>1, <1>2, <1>3, <1>4, <1>7, <1>8, <1>9, <1>10, <1>11 DEF Local

LEMMA QuietVisible ==
    ASSUME Quiet
    PROVE  /\ VisibleLen' = VisibleLen /\ CommittedLen' = CommittedLen
           /\ array' = array /\ len' = len
           /\ \A i, name : Has(i, name)' <=> Has(i, name)
BY DEF Quiet, slice, VisibleLen, CommittedLen, Has

LEMMA LocalFound ==
    ASSUME StoreInv, FoundInv, NEW h \in Handlers, Local(h)
    PROVE  FoundInv'
<1>1. VisibleFacts
    BY VisibleAlways
<1>2. /\ LookupMoves(h)
      /\ VisibleLen' = VisibleLen
      /\ \A i, name : Has(i, name)' <=> Has(i, name)
    BY LocalLookup, LocalQuiet, QuietVisible
<1>3. ASSUME NEW g \in Handlers \ {h} PROVE Found(g)'
    BY <1>2 DEF FoundInv, Found, LookupMoves
<1>4. Found(h)'
  <2>1. CASE StartLookup(h)
    <3>1. /\ pc'[h] = "len" /\ arr'[h] = Shared /\ op'[h] = op[h]
          /\ op[h].name \in NamesOf(Visible) => h \in seen'
      BY <2>1 DEF StartLookup, ReadPtr, Goto, StoreInv, Types
    <3>2. QED
      BY <1>1, <1>2, <3>1 DEF Found, VisibleFacts
  <2>2. CASE ReadLen(h, "len", "scan")
    <3>1. /\ pc[h] = "len" /\ size'[h] = len /\ op' = op /\ arr' = arr /\ seen' = seen
      BY <2>2 DEF ReadLen, StoreInv, Types, history
    <3>2. /\ \A i \in 1..VisibleLen : Has(i, op[h].name) => h \in seen
          /\ arr[h] # Shared =>
               \A i \in 1..Len(arr[h]) : arr[h][i].name = op[h].name => h \in seen
      BY <3>1 DEF FoundInv, Found, LookingUp
    <3>3. \A i \in 1..len : i \in 1..VisibleLen
      BY <1>1 DEF VisibleFacts
    <3>4. QED
      BY <1>2, <3>1, <3>2, <3>3 DEF Found
  <2>3. CASE ScanOn(h)
    <3>1. /\ pc[h] = "scan" /\ pc' = pc /\ op' = op /\ arr' = arr /\ size' = size
          /\ seen' = seen
      BY <2>3 DEF ScanOn, history
    <3>2. QED
      BY <1>2, <3>1 DEF FoundInv, Found
  <2>4. CASE pc'[h] \notin LookingUp
    BY <2>4 DEF Found, LookingUp
  <2>5. QED
    BY <1>2, <2>1, <2>2, <2>3, <2>4 DEF LookupMoves
<1>5. QED
    BY <1>3, <1>4 DEF FoundInv

(* Steps of append, updates and deletes that note the change.              *)
LEMMA Noted ==
    ASSUME StoreInv, StoreInv', Note, NEW g \in Handlers,
           pc[g] \in LookingUp, op' = op
    PROVE  /\ \A i \in 1..VisibleLen' : Has(i, op[g].name)' => g \in seen'
           /\ g \in seen => g \in seen'
<1>1. VisibleFacts'
    BY VisibleThen
<1>2. op[g].name \in NamesOf(Visible') => g \in seen'
    BY DEF Note, LookingUp
<1>3. op[g].name \in NamesOf(Visible') <=> \E i \in 1..VisibleLen' : Has(i, op[g].name)'
    BY <1>1 DEF VisibleFacts, Has, NamesOf
<1>4. QED
    BY <1>2, <1>3 DEF Note

(* The holder of the lock is at none of its lookups.                       *)
LEMMA GrowFound ==
    ASSUME StoreInv, StoreInv', FoundInv, NEW h \in Handlers, Grow(h)
    PROVE  FoundInv'
<1>1. SUFFICES ASSUME NEW g \in Handlers PROVE Found(g)'
    BY DEF FoundInv
<1>2. VisibleFacts
    BY VisibleAlways
<1>3. /\ VisibleLen = len /\ VisibleLen' = len /\ len = Len(array) /\ len \in Nat
      /\ \A i \in 1..len : array'[i] = array[i]
      /\ pc' = pc /\ op' = op /\ seen' = seen
    BY GrowSame DEF VisibleLen, Grow, history
<1>4. arr'[g] = IF arr[g] = Shared /\ pc[g] \in {"len", "scan", "wlen", "wlock"}
                THEN array ELSE arr[g]
    BY DEF Grow
<1>5. array # Shared
    BY SharedAssumption DEF StoreInv, Types
<1>6. pc[g] \in LookingUp => \A i \in 1..len : Has(i, op[g].name) => g \in seen
    BY <1>3 DEF FoundInv, Found
<1>7. CASE pc[g] \in LookingUp /\ arr[g] = Shared
  <2>1. arr'[g] = array
    BY <1>4, <1>7 DEF LookingUp
  <2>2. \A i \in 1..len : array[i] # None
    <3>1. arr'[g] \in Seq(Msg)
      BY <1>5, <2>1 DEF StoreInv, ReaderInv
    <3>2. QED
      BY <1>3, <2>1, <3>1, ElementOfSeq, NoneAssumption
  <2>3. QED
    BY <1>3, <1>5, <1>6, <1>7, <2>1, <2>2 DEF Found, Has
<1>8. CASE pc[g] \in LookingUp /\ arr[g] # Shared
    BY <1>3, <1>4, <1>6, <1>8 DEF FoundInv, Found, Has
<1>9. CASE pc[g] \notin LookingUp
    BY <1>3, <1>9 DEF Found, LookingUp
<1>10. QED
    BY <1>7, <1>8, <1>9

LEMMA AppendFound ==
    ASSUME StoreInv, StoreInv', FoundInv, NEW h \in Handlers,
           \/ SetElement(h, "change", "setlen") \/ SetElement(h, "setelem", "unlock")
           \/ SetLength(h, "setlen", "unlock") \/ SetLength(h, "change", "setelem")
    PROVE  FoundInv'
<1>1. SUFFICES ASSUME NEW g \in Handlers PROVE Found(g)'
    BY DEF FoundInv
<1>2. /\ Note /\ op' = op /\ arr' = arr /\ size' = size /\ lock' = lock
      /\ pc[h] \in {"change", "setlen", "setelem"}
      /\ pc' \in [Handlers -> Steps] /\ pc'[h] \in {"setlen", "setelem", "unlock"}
      /\ \A k \in Handlers \ {h} : pc'[k] = pc[k]
    BY DEF SetElement, SetLength, locals, Goto, StoreInv, Types
<1>3. CASE pc'[g] \notin LookingUp
    BY <1>3 DEF Found, LookingUp
<1>4. CASE pc'[g] \in LookingUp
  <2>1. pc[g] \in LookingUp /\ pc'[g] = pc[g]
    BY <1>2, <1>4 DEF LookingUp
  <2>2. /\ \A i \in 1..VisibleLen' : Has(i, op[g].name)' => g \in seen'
        /\ g \in seen => g \in seen'
    BY <1>2, <2>1, Noted
  <2>3. pc[g] = "scan" /\ arr[g] = Shared =>
          \A i \in 1..size[g] : Has(i, op[g].name)' => g \in seen'
    <3>1. SUFFICES ASSUME pc[g] = "scan", arr[g] = Shared, NEW i \in 1..size[g],
                          Has(i, op[g].name)', ~Has(i, op[g].name)
                   PROVE  i \in 1..VisibleLen'
      BY <2>2 DEF FoundInv, Found
    <3>2. array' # array
      BY <1>2, <3>1 DEF Has
    <3>3. /\ lock = h /\ h # None /\ len \in Nat /\ Len(array) \in Nat
          /\ len' = len
          /\ array' = [array EXCEPT ![IF pc[h] = "change" THEN len + 1 ELSE len] = Message(h)]
          /\ pc[h] = "change" => pc'[h] = "setlen"
      BY <1>2, <3>2, HolderAt, LenProperties, SMTT(30)
         DEF SetElement, SetLength, Goto, StoreInv, Types, Locked
    <3>4. VisibleLen' = IF pc[h] = "change" THEN len + 1 ELSE len
      BY <1>2, <3>2, <3>3
         DEF VisibleLen, At, SetElement, SetLength, Goto, StoreInv, Types
    <3>5. /\ size[g] \in Nat /\ size[g] <= Len(array)
          /\ array \in [1..Len(array) -> Msg \cup {None}]
      BY <3>1, LenProperties DEF StoreInv, Types, ReaderInv
    <3>6. i # VisibleLen' => array'[i] = array[i]
      BY <3>3, <3>4, <3>5
    <3>7. i = VisibleLen'
      BY <1>2, <3>1, <3>6 DEF Has
    <3>8. QED
      BY <3>7
  <2>4. arr[g] # Shared =>
          \A i \in 1..Len(arr[g]) : arr[g][i].name = op[g].name => g \in seen'
    BY <2>1, <2>2 DEF FoundInv, Found
  <2>5. QED
    BY <1>2, <2>1, <2>2, <2>3, <2>4 DEF Found
<1>5. QED
    BY <1>3, <1>4

(* A message written over one of its name shows no lookup a new name.      *)
LEMMA UpdateHas ==
    ASSUME StoreInv, NEW h \in Handlers, NEW known \in BOOLEAN, NEW bad \in BOOLEAN,
           Update(h, known, bad)
    PROVE  \/ Quiet
           \/ /\ VisibleLen' = VisibleLen /\ CommittedLen' = CommittedLen /\ len' = len
              /\ \A i \in 1..Len(array) : \A name : Has(i, name)' <=> Has(i, name)
<1>1. /\ pc[h] = "change" /\ pc' = [pc EXCEPT ![h] = "unlock"]
      /\ lock' = lock /\ len' = len /\ idx' = idx
    BY DEF Update, Goto, locals
<1>2. /\ \A step : At(step) <=> step = "change"
      /\ \A step : At(step)' <=> step = "unlock"
    BY <1>1, HolderAt DEF At, Locked, StoreInv, Types
<1>3. VisibleLen' = VisibleLen /\ CommittedLen' = CommittedLen
    BY <1>1, <1>2 DEF VisibleLen, CommittedLen
<1>4. CASE array' = array
    BY <1>1, <1>2, <1>4 DEF Quiet, slice
<1>5. CASE Position(h) # 0 /\ array' = [array EXCEPT ![Position(h)] = Message(h)]
  <2>1. /\ Position(h) \in 1..len /\ array[Position(h)].name = op[h].name
        /\ array[Position(h)] \in Msg
    BY <1>1, <1>5, LockedLookup
  <2>2. Message(h) \in Msg /\ Message(h).name = op[h].name
    BY MessageTyped DEF StoreInv, Update, Message
  <2>3. array \in [1..Len(array) -> Msg \cup {None}]
    BY LenProperties DEF StoreInv, Types
  <2>4. ASSUME NEW i \in 1..Len(array), NEW name
        PROVE  Has(i, name)' <=> Has(i, name)
    <3>1. CASE i = Position(h)
      BY <1>5, <2>1, <2>2, <2>3, <3>1, NoneAssumption DEF Has
    <3>2. CASE i # Position(h)
      BY <1>5, <2>3, <3>2 DEF Has
    <3>3. QED
      BY <3>1, <3>2
  <2>5. QED
    BY <1>1, <1>3, <2>4
<1>6. QED
    BY <1>4, <1>5 DEF Update

LEMMA UpdateFound ==
    ASSUME StoreInv, FoundInv, NEW h \in Handlers, NEW known \in BOOLEAN, NEW bad \in BOOLEAN,
           Update(h, known, bad)
    PROVE  FoundInv'
<1>1. SUFFICES ASSUME NEW g \in Handlers PROVE Found(g)'
    BY DEF FoundInv
<1>2. VisibleFacts
    BY VisibleAlways
<1>3. /\ VisibleLen' = VisibleLen
      /\ \A i \in 1..Len(array) : \A name : Has(i, name)' <=> Has(i, name)
    BY UpdateHas, QuietVisible
<1>4. /\ op' = op /\ arr' = arr /\ size' = size /\ seen' = seen
      /\ pc'[g] \in LookingUp => pc'[g] = pc[g]
    BY DEF Update, Goto, locals, history, StoreInv, Types, LookingUp
<1>5. /\ \A i \in 1..VisibleLen : i \in 1..Len(array)
      /\ arr[g] = Shared => \A i \in 1..size[g] : i \in 1..Len(array)
    BY <1>2 DEF VisibleFacts, StoreInv, Types, ReaderInv
<1>6. QED
    BY <1>3, <1>4, <1>5 DEF FoundInv, Found, LookingUp

LEMMA DeleteFound ==
    ASSUME StoreInv, StoreInv', FoundInv, NEW h \in Handlers, NEW bad \in BOOLEAN,
           Delete(h, bad)
    PROVE  FoundInv'
<1>1. SUFFICES ASSUME NEW g \in Handlers PROVE Found(g)'
    BY DEF FoundInv
<1>2. /\ VisibleLen' = VisibleLen
      /\ \A i, name : Has(i, name)' <=> Has(i, name)
    BY DeleteList, QuietVisible DEF VisibleLen, slice, Has
<1>3. /\ op' = op /\ arr' = arr /\ size' = size
      /\ g \in seen => g \in seen'
      /\ pc'[g] \in LookingUp => pc'[g] = pc[g]
    BY DEF Delete, Note, Goto, history, StoreInv, Types, LookingUp
<1>4. QED
    BY <1>2, <1>3 DEF FoundInv, Found, LookingUp

LEMMA ShiftFound ==
    ASSUME StoreInv, FoundInv, NEW h \in Handlers, Shift(h)
    PROVE  FoundInv'
<1>1. SUFFICES ASSUME NEW g \in Handlers PROVE Found(g)'
    BY DEF FoundInv
<1>2. /\ pc[h] = "shift" /\ lock = h /\ lock' = lock /\ h # None
      /\ \A step : At(step) <=> step = "shift"
      /\ op' = op /\ arr' = arr /\ size' = size /\ seen' = seen
      /\ pc'[g] \in LookingUp => pc'[g] = pc[g]
    BY HolderAt, SMTT(30) DEF Shift, Locked, Goto, history, StoreInv, Types, LookingUp
<1>3. /\ Len(array) \in Nat /\ len \in 0..Len(array) /\ idx[h] \in 1..len
      /\ array \in [1..Len(array) -> Msg \cup {None}]
      /\ VisibleLen = len
    BY <1>2, LenProperties DEF StoreInv, Types, SliceInv, VisibleLen
<1>4. CASE /\ idx[h] < len
           /\ array' = [array EXCEPT ![idx[h]] = array[idx[h] + 1]]
           /\ UNCHANGED <<len, pc>>
  <2>1. VisibleLen' = len
    BY <1>2, <1>3, <1>4 DEF VisibleLen, At
  <2>2. \A i \in 1..Len(array) : \A name :
          Has(i, name)' => Has(i, name) \/ (i = idx[h] /\ Has(idx[h] + 1, name))
    BY <1>3, <1>4 DEF Has
  <2>3. idx[h] + 1 \in 1..VisibleLen
    BY <1>3, <1>4
  <2>4. arr[g] = Shared => \A i \in 1..size[g] : i \in 1..Len(array)
    BY <1>3 DEF StoreInv, Types, ReaderInv
  <2>5. \A i \in 1..VisibleLen : i \in 1..Len(array)
    BY <1>3
  <2>6. QED
    BY <1>2, <1>3, <1>4, <2>1, <2>2, <2>3, <2>4, <2>5 DEF FoundInv, Found, LookingUp
<1>5. CASE /\ len' = len - 1
           /\ Goto(h, "unlock")
           /\ UNCHANGED array
  <2>1. \A step : At(step)' <=> step = "unlock"
    BY <1>2, <1>5 DEF At, Goto, StoreInv, Types
  <2>2. VisibleLen' = len - 1 /\ \A i \in 1..(len - 1) : i \in 1..VisibleLen
    BY <1>3, <1>5, <2>1 DEF VisibleLen
  <2>3. \A i, name : Has(i, name)' <=> Has(i, name)
    BY <1>5 DEF Has
  <2>4. QED
    BY <1>2, <2>2, <2>3 DEF FoundInv, Found, LookingUp
<1>6. QED
    BY <1>4, <1>5 DEF Shift, Shifting

LEMMA FoundStep == StoreInv /\ StoreInv' /\ FoundInv /\ [Next]_vars => FoundInv'
<1> SUFFICES ASSUME StoreInv, StoreInv', FoundInv, [Next]_vars PROVE FoundInv'
    OBVIOUS
<1>1. ASSUME NEW h \in Handlers, Handler(h) PROVE FoundInv'
    BY <1>1, LocalFound, GrowFound, AppendFound, UpdateFound, DeleteFound, ShiftFound
       DEF Handler, Local
<1>2. CASE Restart
    BY <1>2 DEF Restart, FoundInv, Found, LookingUp
<1>3. CASE UNCHANGED vars
    BY <1>3 DEF vars, FoundInv, Found, VisibleLen, At, Has
<1>4. QED
    BY <1>1, <1>2, <1>3 DEF Next

LEMMA FoundImplies == StoreInv /\ FoundInv => FoundWasThere
<1> SUFFICES ASSUME StoreInv, FoundInv, NEW h \in Handlers, pc[h] = "scan", Hit(h)
             PROVE  h \in seen
    BY DEF FoundWasThere
<1>1. /\ idx[h] \in 1..size[h]
      /\ Element(h, idx[h]) # None /\ Element(h, idx[h]).name = op[h].name
    BY DEF StoreInv, Types, ReaderInv, Hit
<1>2. idx[h] <= Len(Backing(h)) /\ Element(h, idx[h]) = Backing(h)[idx[h]]
    BY <1>1 DEF Element
<1>3. CASE arr[h] = Shared
    BY <1>1, <1>2, <1>3 DEF FoundInv, Found, Has, Backing
<1>4. CASE arr[h] # Shared
  <2>1. Len(arr[h]) \in Nat
    BY <1>4, LenProperties DEF StoreInv, ReaderInv
  <2>2. idx[h] \in 1..Len(arr[h]) /\ arr[h][idx[h]].name = op[h].name
    BY <1>1, <1>2, <1>4, <2>1 DEF Backing, StoreInv, Types
  <2>3. QED
    BY <1>4, <2>2 DEF FoundInv, Found, LookingUp
<1>5. QED
    BY <1>3, <1>4

-----------------------------------------------------------------------------
(* Lookups that miss                                                       *)

(* A lookup of a message that was configured all the time, during which no *)
(* delete has shifted, has it ahead of it: in the array that is shared, or *)
(* in the one that append has left behind.                                 *)
Match(g, i) == arr[g][i].name = op[g].name

Kept(g) ==
    /\ g \in kept => pc[g] \in LookingUp /\ op[g].name \in NamesOf(Committed)
    /\ At("shift") /\ pc[g] \in LookingUp => g \in shifted
    /\ g \notin shifted /\ pc[g] = "scan" /\ arr[g] = Shared => size[g] <= len
    /\ g \in kept \ shifted =>
         /\ pc[g] = "len" /\ arr[g] # Shared =>
              \E i \in 1..Len(arr[g]) : i <= len /\ Match(g, i)
         /\ pc[g] = "scan" /\ arr[g] # Shared =>
              \E i \in idx[g]..size[g] : i <= Len(arr[g]) /\ Match(g, i)
         /\ pc[g] = "scan" /\ arr[g] = Shared =>
              \E i \in idx[g]..size[g] : i <= CommittedLen /\ Has(i, op[g].name)

KeptInv == \A g \in Handlers : Kept(g)

(* While no delete shifts, what is committed is a prefix of the array.     *)
LEMMA CommittedPrefix ==
    ASSUME StoreInv, ~At("shift"), NEW name, name \in NamesOf(Committed)
    PROVE  /\ CommittedLen \in Nat /\ CommittedLen <= len /\ len \in Nat
           /\ \E i \in 1..CommittedLen : Has(i, name)
<1>1. CommittedLen \in Nat /\ len \in Nat
    BY CommittedSlots
<1>2. CommittedLen <= len
    BY <1>1 DEF CommittedLen
<1>3. \A i : Slot(i) = i
    BY DEF Slot
<1>4. \E i \in 1..CommittedLen : Has(Slot(i), name)
    BY CommittedNames
<1>5. QED
    BY <1>1, <1>2, <1>3, <1>4

LEMMA LocalKept ==
    ASSUME StoreInv, StoreInv', KeptInv, NEW h \in Handlers, Local(h)
    PROVE  KeptInv'
<1>1. /\ LookupMoves(h) /\ Quiet
      /\ CommittedLen' = CommittedLen /\ len' = len
      /\ \A i, name : Has(i, name)' <=> Has(i, name)
      /\ Committed' = Committed
      /\ At("shift")' <=> At("shift")
    BY LocalLookup, LocalQuiet, QuietVisible, QuietSame DEF Quiet
<1>2. \A name : name \in NamesOf(Committed)' <=> name \in NamesOf(Committed)
    BY <1>1 DEF NamesOf
<1>3. ASSUME NEW g \in Handlers \ {h} PROVE Kept(g)'
  <2>1. /\ pc'[g] = pc[g] /\ op'[g] = op[g]
        /\ arr'[g] = arr[g] /\ size'[g] = size[g] /\ idx'[g] = idx[g]
        /\ g \in kept' <=> g \in kept
        /\ g \in shifted' <=> g \in shifted
    BY <1>1 DEF LookupMoves
  <2>2. Kept(g)
    BY DEF KeptInv
  <2>3. QED
    BY <1>1, <1>2, <2>1, <2>2 DEF Kept, Match
<1>4. Kept(h)'
  <2>1. CASE StartLookup(h)
    <3>1. /\ pc'[h] = "len" /\ arr'[h] = Shared /\ op' = op
          /\ h \in kept' => h \in kept \/ op[h].name \in NamesOf(Committed)
          /\ At("shift") => h \in shifted'
      BY <2>1 DEF StartLookup, ReadPtr, Goto, StoreInv, Types
    <3>2. h \in kept => op[h].name \in NamesOf(Committed)
      BY DEF KeptInv, Kept
    <3>3. QED
      BY <1>1, <1>2, <3>1, <3>2 DEF Kept, LookingUp
  <2>2. CASE ReadLen(h, "len", "scan")
    <3>1. /\ pc[h] = "len" /\ pc'[h] = "scan" /\ size'[h] = len /\ idx'[h] = 1
          /\ op' = op /\ arr' = arr /\ kept' = kept /\ shifted' = shifted
      BY <2>2 DEF ReadLen, StoreInv, Types, history, Goto
    <3>2. Kept(h)
      BY DEF KeptInv
    <3>3. ASSUME h \in kept \ shifted, arr[h] # Shared
          PROVE  \E i \in 1..len : i <= Len(arr[h]) /\ Match(h, i)
      <4>1. PICK i \in 1..Len(arr[h]) : i <= len /\ Match(h, i)
        BY <3>1, <3>2, <3>3 DEF Kept
      <4>2. len \in Nat /\ Len(arr[h]) \in Nat
        BY <3>3, LenProperties, CommittedSlots DEF StoreInv, ReaderInv
      <4>3. i \in 1..len /\ i <= Len(arr[h])
        BY <4>1, <4>2
      <4>4. QED
        BY <4>1, <4>3
    <3>4. ASSUME h \in kept \ shifted
          PROVE  \E i \in 1..len : i <= CommittedLen /\ Has(i, op[h].name)
      <4>1. ~At("shift") /\ op[h].name \in NamesOf(Committed)
        BY <3>1, <3>2, <3>4 DEF Kept, LookingUp
      <4>2. PICK i \in 1..CommittedLen : Has(i, op[h].name)
        BY <4>1, CommittedPrefix
      <4>3. CommittedLen \in Nat /\ CommittedLen <= len /\ len \in Nat
        BY <4>1, CommittedPrefix
      <4>4. i \in 1..len /\ i <= CommittedLen
        BY <4>3
      <4>5. QED
        BY <4>2, <4>4
    <3>5. len <= len
      BY CommittedSlots
    <3>6. QED
      BY <1>1, <1>2, <3>1, <3>2, <3>3, <3>4, <3>5 DEF Kept, LookingUp, Match
  <2>3. CASE ScanOn(h)
    <3>1. /\ pc[h] = "scan" /\ pc' = pc /\ op' = op /\ arr' = arr /\ size' = size
          /\ idx[h] \in Nat /\ size[h] \in Nat /\ idx[h] >= 1
          /\ idx'[h] = idx[h] + 1 /\ idx[h] <= size[h] /\ ~Hit(h)
          /\ kept' = kept /\ shifted' = shifted
      BY <2>3 DEF ScanOn, history, StoreInv, Types, ReaderInv
    <3>2. Kept(h)
      BY DEF KeptInv
    <3>3. ASSUME arr[h] # Shared, idx[h] <= Len(arr[h]) PROVE ~Match(h, idx[h])
      <4>1. /\ arr[h][idx[h]] \in Msg
            /\ Element(h, idx[h]) = arr[h][idx[h]]
        BY <3>1, <3>3, ElementOfSeq, LenProperties
           DEF StoreInv, ReaderInv, Element, Backing
      <4>2. QED
        BY <3>1, <4>1, NoneAssumption DEF Hit, Match
    <3>4. ASSUME arr[h] = Shared, idx[h] <= CommittedLen PROVE ~Has(idx[h], op[h].name)
      <4>1. /\ CommittedLen \in Nat /\ len \in Nat /\ Len(array) \in Nat
            /\ CommittedLen <= len /\ len <= Len(array)
        BY CommittedSlots, LenProperties, SMTT(30) DEF CommittedLen, StoreInv, Types
      <4>2. Element(h, idx[h]) = array[idx[h]]
        BY <3>1, <3>4, <4>1 DEF Element, Backing
      <4>3. QED
        BY <3>1, <4>2 DEF Hit, Has
    <3>5. ASSUME h \in kept \ shifted, arr[h] # Shared
          PROVE  \E i \in (idx[h] + 1)..size[h] : i <= Len(arr[h]) /\ Match(h, i)
      <4>1. PICK i \in idx[h]..size[h] : i <= Len(arr[h]) /\ Match(h, i)
        BY <3>1, <3>2, <3>5 DEF Kept
      <4>2. i # idx[h]
        BY <3>3, <3>5, <4>1
      <4>3. QED
        BY <3>1, <4>1, <4>2
    <3>6. ASSUME h \in kept \ shifted, arr[h] = Shared
          PROVE  \E i \in (idx[h] + 1)..size[h] : i <= CommittedLen /\ Has(i, op[h].name)
      <4>1. PICK i \in idx[h]..size[h] : i <= CommittedLen /\ Has(i, op[h].name)
        BY <3>1, <3>2, <3>6 DEF Kept
      <4>2. i # idx[h]
        BY <3>4, <3>6, <4>1
      <4>3. QED
        BY <3>1, <4>1, <4>2
    <3>7. QED
      BY <1>1, <1>2, <3>1, <3>2, <3>5, <3>6 DEF Kept, LookingUp, Match
  <2>4. CASE /\ pc'[h] \notin LookingUp
             /\ kept' \subseteq kept
             /\ pc[h] \in LookingUp => h \notin kept'
    <3>1. h \notin kept'
      BY <2>4 DEF KeptInv, Kept
    <3>2. QED
      BY <2>4, <3>1 DEF Kept, LookingUp
  <2>5. QED
    BY <1>1, <2>1, <2>2, <2>3, <2>4 DEF LookupMoves
<1>5. QED
    BY <1>3, <1>4 DEF KeptInv

LEMMA GrowKept ==
    ASSUME StoreInv, StoreInv', KeptInv, NEW h \in Handlers, Grow(h)
    PROVE  KeptInv'
<1>1. SUFFICES ASSUME NEW g \in Handlers PROVE Kept(g)'
    BY DEF KeptInv
<1>2. /\ Committed' = Committed
      /\ \A i \in 1..len : array'[i] = array[i]
      /\ ~At("shift") /\ ~At("shift")'
      /\ CommittedLen = len /\ CommittedLen' = len
      /\ len' = len /\ len \in Nat /\ len = Len(array) /\ pc' = pc
    BY GrowSame DEF CommittedLen
<1>3. op' = op /\ size' = size /\ idx' = idx /\ kept' = kept /\ shifted' = shifted
    BY DEF Grow, history
<1>4. arr'[g] = IF arr[g] = Shared /\ pc[g] \in {"len", "scan", "wlen", "wlock"}
                THEN array ELSE arr[g]
    BY DEF Grow
<1>5. array # Shared
    BY SharedAssumption DEF StoreInv, Types
<1>6. Kept(g)
    BY DEF KeptInv
<1>7. \A name : name \in NamesOf(Committed)' <=> name \in NamesOf(Committed)
    BY <1>2 DEF NamesOf
<1>8. CASE pc[g] \notin LookingUp
    BY <1>2, <1>3, <1>6, <1>8 DEF Kept, LookingUp
<1>9. CASE pc[g] \in LookingUp /\ arr[g] # Shared
    BY <1>2, <1>3, <1>4, <1>6, <1>7, <1>9 DEF Kept, Match
<1>10. CASE pc[g] \in LookingUp /\ arr[g] = Shared
  <2>1. arr'[g] = array /\ arr'[g] # Shared
    BY <1>4, <1>5, <1>10 DEF LookingUp
  <2>2. ASSUME g \in kept \ shifted
        PROVE  \E i \in 1..Len(array) : i <= len /\ array[i].name = op[g].name
    <3>1. op[g].name \in NamesOf(Committed)
      BY <1>6, <2>2 DEF Kept
    <3>2. PICK i \in 1..len : Has(i, op[g].name)
      BY <1>2, <3>1, CommittedPrefix
    <3>3. QED
      BY <1>2, <3>2 DEF Has
  <2>3. ASSUME g \in kept \ shifted, pc[g] = "scan"
        PROVE  \E i \in idx[g]..size[g] : i <= Len(array) /\ array[i].name = op[g].name
    BY <1>2, <1>6, <1>10, <2>3 DEF Kept, Has
  <2>4. QED
    BY <1>2, <1>3, <1>6, <1>7, <2>1, <2>2, <2>3 DEF Kept, Match
<1>11. QED
    BY <1>8, <1>9, <1>10

LEMMA AppendKept ==
    ASSUME StoreInv, StoreInv', KeptInv, NEW h \in Handlers,
           \/ SetElement(h, "change", "setlen") \/ SetElement(h, "setelem", "unlock")
           \/ SetLength(h, "setlen", "unlock") \/ SetLength(h, "change", "setelem")
    PROVE  KeptInv'
<1>1. SUFFICES ASSUME NEW g \in Handlers PROVE Kept(g)'
    BY DEF KeptInv
<1>2. /\ Note /\ op' = op /\ arr' = arr /\ size' = size /\ idx' = idx /\ lock' = lock
      /\ shifted' = shifted
      /\ pc[h] \in {"change", "setlen", "setelem"}
      /\ pc' \in [Handlers -> Steps] /\ pc'[h] \in {"setlen", "setelem", "unlock"}
      /\ \A k \in Handlers \ {h} : pc'[k] = pc[k]
    BY DEF SetElement, SetLength, locals, Goto, StoreInv, Types
<1>3. /\ lock = h /\ h # None
      /\ \A step : At(step) <=> pc[h] = step
      /\ \A step : At(step)' <=> pc'[h] = step
      /\ len \in Nat /\ Len(array) \in Nat
      /\ array \in [1..Len(array) -> Msg \cup {None}]
  <2>1. pc[h] \in Locked
    BY <1>2 DEF Locked
  <2>2. lock = h /\ h # None /\ \A step : At(step) <=> pc[h] = step
    BY <2>1, HolderAt
  <2>3. \A step : At(step)' <=> pc'[h] = step
    BY <1>2, <2>2 DEF At
  <2>4. /\ len \in Nat /\ Len(array) \in Nat
        /\ array \in [1..Len(array) -> Msg \cup {None}]
    BY LenProperties DEF StoreInv, Types
  <2>5. QED
    BY <2>2, <2>3, <2>4
<1>4. /\ len <= len' /\ len' \in Nat
      /\ CommittedLen <= CommittedLen' /\ CommittedLen \in Nat /\ CommittedLen' \in Nat
      /\ CommittedLen <= Len(array)
      /\ \A i \in 1..CommittedLen : array'[i] = array[i]
  <2>1. /\ CommittedFacts /\ CommittedFacts' /\ len <= Len(array)
    <3>1. CommittedFacts /\ CommittedFacts'
      BY CommittedAlways, CommittedThen
    <3>2. QED
      BY <1>3, <3>1 DEF StoreInv, Types
  <2>2. CommittedLen = IF pc[h] = "setelem" THEN len - 1 ELSE len
    BY <1>2, <1>3 DEF CommittedLen
  <2>3. CommittedLen' = IF pc'[h] = "setelem" THEN len' - 1 ELSE len'
    BY <1>2, <1>3 DEF CommittedLen
  <2>4. CASE SetElement(h, "change", "setlen") \/ SetElement(h, "setelem", "unlock")
    <3>1. /\ len' = len /\ pc'[h] # "setelem"
          /\ array' = [array EXCEPT ![CommittedLen + 1] = Message(h)]
      BY <1>2, <1>3, <2>2, <2>4 DEF SetElement, Goto, StoreInv, Types
    <3>2. CommittedLen \in Nat /\ CommittedLen <= Len(array)
      BY <1>3, <2>1, <2>2 DEF CommittedFacts
    <3>3. \A i \in 1..CommittedLen : array'[i] = array[i]
      BY <1>3, <3>1, <3>2
    <3>4. CommittedLen <= CommittedLen' /\ CommittedLen' \in Nat
      BY <1>3, <2>2, <2>3, <3>1
    <3>5. QED
      BY <1>3, <3>1, <3>2, <3>3, <3>4
  <2>5. CASE SetLength(h, "setlen", "unlock") \/ SetLength(h, "change", "setelem")
    <3>1. len' = len + 1 /\ array' = array /\ pc[h] # "setelem"
      BY <2>5 DEF SetLength
    <3>2. QED
      BY <1>3, <2>1, <2>2, <2>3, <3>1 DEF CommittedFacts
  <2>6. QED
    BY <2>4, <2>5
<1>5. Kept(g)
    BY DEF KeptInv
<1>6. g \in kept' => g \in kept /\ op[g].name \in NamesOf(Committed')
    BY <1>2 DEF Note
<1>7. ~At("shift")'
    BY <1>2, <1>3
<1>8. CASE pc'[g] \notin LookingUp
  <2>1. g \notin kept'
    <3>1. pc[g] \notin LookingUp
      BY <1>2, <1>8 DEF LookingUp
    <3>2. QED
      BY <1>5, <1>6, <3>1 DEF Kept
  <2>2. QED
    BY <1>7, <1>8, <2>1 DEF Kept, LookingUp
<1>9. CASE pc'[g] \in LookingUp
  <2>1. pc'[g] = pc[g]
    BY <1>2, <1>9 DEF LookingUp
  <2>2. size[g] \in Nat /\ idx[g] \in Nat /\ idx[g] >= 1
    BY DEF StoreInv, Types, ReaderInv
  <2>3. ASSUME g \notin shifted, pc[g] = "scan", arr[g] = Shared
        PROVE  /\ size[g] <= len'
               /\ g \in kept =>
                    \E i \in idx[g]..size[g] : i <= CommittedLen' /\ Has(i, op[g].name)'
    <3>1. size[g] <= len'
      BY <1>3, <1>4, <1>5, <2>2, <2>3 DEF Kept
    <3>2. ASSUME g \in kept
          PROVE  \E i \in idx[g]..size[g] : i <= CommittedLen' /\ Has(i, op[g].name)'
      <4>1. PICK i \in idx[g]..size[g] : i <= CommittedLen /\ Has(i, op[g].name)
        BY <1>5, <2>3, <3>2 DEF Kept
      <4>2. i \in 1..CommittedLen /\ i <= CommittedLen'
        BY <1>4, <2>2, <4>1
      <4>3. Has(i, op[g].name)'
        BY <1>2, <1>4, <4>1, <4>2 DEF Has
      <4>4. QED
        BY <4>2, <4>3
    <3>3. QED
      BY <3>1, <3>2
  <2>4. ASSUME g \in kept \ shifted, pc[g] = "len", arr[g] # Shared
        PROVE  \E i \in 1..Len(arr[g]) : i <= len' /\ Match(g, i)
    <3>1. PICK i \in 1..Len(arr[g]) : i <= len /\ Match(g, i)
      BY <1>5, <2>4 DEF Kept
    <3>2. i <= len'
      BY <1>3, <1>4, <3>1
    <3>3. QED
      BY <3>1, <3>2
  <2>5. QED
    BY <1>2, <1>5, <1>6, <1>7, <1>9, <2>1, <2>3, <2>4 DEF Kept, Match
<1>10. QED
    BY <1>8, <1>9

LEMMA UpdateKept ==
    ASSUME StoreInv, StoreInv', KeptInv,
           NEW h \in Handlers, NEW known \in BOOLEAN, NEW bad \in BOOLEAN,
           Update(h, known, bad)
    PROVE  KeptInv'
<1>1. SUFFICES ASSUME NEW g \in Handlers PROVE Kept(g)'
    BY DEF KeptInv
<1>2. /\ CommittedLen' = CommittedLen /\ len' = len
      /\ \A i \in 1..Len(array) : \A name : Has(i, name)' <=> Has(i, name)
    BY UpdateHas, QuietVisible
<1>3. /\ CommittedLen \in Nat /\ len \in Nat /\ Len(array) \in Nat
      /\ CommittedLen <= Len(array)
      /\ Committed \in Seq(Msg) /\ DOMAIN Committed = 1..CommittedLen
  <2>1. /\ CommittedLen \in Nat /\ len \in Nat
        /\ Committed \in Seq(Msg) /\ DOMAIN Committed = 1..CommittedLen
    BY CommittedSlots
  <2>2. CommittedLen <= len
    BY <2>1 DEF CommittedLen
  <2>3. Len(array) \in Nat /\ len <= Len(array)
    BY LenProperties DEF StoreInv, Types
  <2>4. QED
    BY <2>1, <2>2, <2>3
<1>4. \A name : name \in NamesOf(Committed)' <=> name \in NamesOf(Committed)
  <2>1. CASE Committed' = Committed
    BY <2>1 DEF NamesOf
  <2>2. ASSUME NEW i \in DOMAIN Committed, NEW a,
               Committed' = [Committed EXCEPT ![i].attr = a]
        PROVE  \A name : name \in NamesOf(Committed)' <=> name \in NamesOf(Committed)
    <3>1. Committed' \in Seq(Msg)
      BY CommittedThen DEF CommittedFacts
    <3>2. DOMAIN Committed' = DOMAIN Committed
      BY <1>3, <2>2
    <3>3. \A j \in DOMAIN Committed :
            /\ Committed[j] \in Msg /\ Committed'[j] \in Msg
            /\ Committed'[j].name = Committed[j].name
      <4>1. \A j \in DOMAIN Committed : Committed[j] \in Msg
        BY <1>3
      <4>2. \A j \in DOMAIN Committed' : Committed'[j] \in Msg
        BY <3>1
      <4>3. \A j \in DOMAIN Committed : Committed'[j].name = Committed[j].name
        BY <1>3, <2>2, <4>1 DEF Msg
      <4>4. QED
        BY <3>2, <4>1, <4>2, <4>3
    <3>4. QED
      BY <3>2, <3>3, NoneAssumption DEF NamesOf
  <2>3. \/ Committed' = Committed
        \/ \E i \in DOMAIN Committed : Committed' = [Committed EXCEPT ![i].attr = op[h].attr]
    BY UpdateList
  <2>4. QED
    BY <2>1, <2>2, <2>3
<1>5. /\ op' = op /\ arr' = arr /\ size' = size /\ idx' = idx
      /\ kept' = kept /\ shifted' = shifted
      /\ pc[h] = "change" /\ pc'[h] = "unlock" /\ lock' = lock
      /\ \A k \in Handlers \ {h} : pc'[k] = pc[k]
    BY DEF Update, Goto, locals, history, StoreInv, Types
<1>6. ~At("shift") /\ ~At("shift")'
  <2>1. lock = h
    BY <1>5, HolderAt DEF Locked
  <2>2. QED
    BY <1>5, <2>1 DEF At
<1>7. Kept(g)
    BY DEF KeptInv
<1>8. CASE g = h
    BY <1>5, <1>6, <1>7, <1>8 DEF Kept, LookingUp
<1>9. CASE g # h
  <2>1. pc'[g] = pc[g]
    BY <1>5, <1>9
  <2>2. size[g] \in Nat /\ idx[g] \in Nat /\ idx[g] >= 1
    BY DEF StoreInv, Types, ReaderInv
  <2>3. ASSUME NEW i \in idx[g]..size[g], i <= CommittedLen, Has(i, op[g].name)
        PROVE  Has(i, op[g].name)'
    <3>1. i \in 1..Len(array)
      BY <1>3, <2>2, <2>3
    <3>2. QED
      BY <1>2, <1>5, <2>3, <3>1
  <2>4. QED
    BY <1>2, <1>4, <1>5, <1>6, <1>7, <2>1, <2>3 DEF Kept, Match
<1>10. QED
    BY <1>8, <1>9

LEMMA DeleteKept ==
    ASSUME StoreInv, StoreInv', KeptInv, NEW h \in Handlers, NEW bad \in BOOLEAN,
           Delete(h, bad)
    PROVE  KeptInv'
<1>1. SUFFICES ASSUME NEW g \in Handlers PROVE Kept(g)'
    BY DEF KeptInv
<1>2. Kept(g)
    BY DEF KeptInv
<1>3. /\ op' = op /\ arr' = arr /\ size' = size /\ slice' = slice
      /\ pc[h] = "change" /\ pc'[h] \in {"unlock", "shift"} /\ lock' = lock
      /\ \A k \in Handlers \ {h} : pc'[k] = pc[k] /\ idx'[k] = idx[k]
    BY DEF Delete, Goto, StoreInv, Types
<1>4. ~At("shift")
    BY <1>3, HolderAt DEF Locked
<1>5. CASE g = h
  <2>1. g \notin kept /\ kept' \subseteq kept
    BY <1>2, <1>3, <1>5 DEF Kept, LookingUp, Delete, Note, history
  <2>2. QED
    BY <1>3, <1>5, <2>1 DEF Kept, LookingUp
<1>6. CASE g # h /\ Quiet /\ Committed' = Committed /\ UNCHANGED history
  <2>1. \A name : name \in NamesOf(Committed)' <=> name \in NamesOf(Committed)
    BY <1>6 DEF NamesOf
  <2>2. /\ CommittedLen' = CommittedLen /\ len' = len
        /\ \A i, name : Has(i, name)' <=> Has(i, name)
        /\ ~At("shift")'
    BY <1>4, <1>6, QuietVisible DEF Quiet
  <2>3. pc'[g] = pc[g] /\ idx'[g] = idx[g] /\ kept' = kept /\ shifted' = shifted
    BY <1>3, <1>6 DEF history
  <2>4. QED
    BY <1>2, <1>3, <2>1, <2>2, <2>3 DEF Kept, Match
<1>7. CASE /\ g # h /\ Note
           /\ shifted' = shifted \cup {k \in Handlers : pc[k] \in {"len", "scan"}}
  <2>1. g \in kept' => g \in kept /\ op[g].name \in NamesOf(Committed')
    BY <1>7 DEF Note
  <2>2. pc[g] \in LookingUp => g \in shifted'
    BY <1>7 DEF LookingUp
  <2>3. pc'[g] = pc[g]
    BY <1>3, <1>7
  <2>4. g \in kept' => pc'[g] \in LookingUp /\ g \in shifted'
    BY <1>2, <2>1, <2>2, <2>3 DEF Kept
  <2>5. QED
    BY <1>3, <2>1, <2>2, <2>3, <2>4 DEF Kept, LookingUp
<1>8. \/ Quiet /\ Committed' = Committed
      \/ /\ Note
         /\ shifted' = shifted \cup {k \in Handlers : pc[k] \in {"len", "scan"}}
    BY DeleteList
<1>9. \/ UNCHANGED history
      \/ /\ Note
         /\ shifted' = shifted \cup {k \in Handlers : pc[k] \in {"len", "scan"}}
    BY DEF Delete
<1>10. QED
    BY <1>5, <1>6, <1>7, <1>8, <1>9

LEMMA ShiftKept ==
    ASSUME StoreInv, StoreInv', KeptInv, NEW h \in Handlers, Shift(h)
    PROVE  KeptInv'
<1>1. SUFFICES ASSUME NEW g \in Handlers PROVE Kept(g)'
    BY DEF KeptInv
<1>2. Kept(g)
    BY DEF KeptInv
<1>3. /\ op' = op /\ kept' = kept /\ shifted' = shifted
      /\ pc[h] = "shift" /\ pc'[h] \in {"shift", "unlock"}
      /\ \A k \in Handlers \ {h} : pc'[k] = pc[k]
    BY DEF Shift, Goto, history, StoreInv, Types
<1>4. At("shift")
    BY <1>3, HolderAt DEF Locked
<1>5. pc'[g] \in LookingUp => pc'[g] = pc[g] /\ g \in shifted'
    BY <1>2, <1>3, <1>4 DEF Kept, LookingUp
<1>6. g \in kept' => /\ pc'[g] \in LookingUp
                     /\ op'[g].name \in NamesOf(Committed)'
  <2>1. Committed' = Committed
    BY ShiftSame
  <2>2. \A name : name \in NamesOf(Committed)' <=> name \in NamesOf(Committed)
    BY <2>1 DEF NamesOf
  <2>3. pc[g] \in LookingUp => pc'[g] = pc[g]
    BY <1>3 DEF LookingUp
  <2>4. QED
    BY <1>2, <1>3, <2>2, <2>3 DEF Kept
<1>7. QED
    BY <1>5, <1>6 DEF Kept, LookingUp

LEMMA KeptStep == StoreInv /\ StoreInv' /\ KeptInv /\ [Next]_vars => KeptInv'
<1> SUFFICES ASSUME StoreInv, StoreInv', KeptInv, [Next]_vars PROVE KeptInv'
    OBVIOUS
<1>1. ASSUME NEW h \in Handlers, Handler(h) PROVE KeptInv'
    BY <1>1, LocalKept, GrowKept, AppendKept, UpdateKept, DeleteKept, ShiftKept
       DEF Handler, Local
<1>2. CASE Restart
    BY <1>2 DEF Restart, KeptInv, Kept, LookingUp, At
<1>3. CASE UNCHANGED vars
  <2>1. Quiet /\ (At("shift")' <=> At("shift"))
    BY <1>3 DEF vars, slice, Quiet, At
  <2>2. /\ Committed' = Committed
        /\ CommittedLen' = CommittedLen
        /\ \A i, name : Has(i, name)' <=> Has(i, name)
    BY <2>1, QuietSame, QuietVisible
  <2>3. \A name : name \in NamesOf(Committed)' <=> name \in NamesOf(Committed)
    BY <2>2 DEF NamesOf
  <2>4. ASSUME NEW g \in Handlers PROVE Kept(g)'
    <3>1. Kept(g)
      BY DEF KeptInv
    <3>2. QED
      BY <1>3, <2>1, <2>2, <2>3, <3>1 DEF vars, Kept, Match
  <2>5. QED
    BY <2>4 DEF KeptInv
<1>4. QED
    BY <1>1, <1>2, <1>3 DEF Next

LEMMA KeptImplies == StoreInv /\ KeptInv => MissedOnlyIfShifted
<1> SUFFICES ASSUME StoreInv, KeptInv, NEW h \in Handlers,
                    pc[h] = "scan", idx[h] > size[h], h \in kept
             PROVE  h \in shifted
    BY DEF MissedOnlyIfShifted
<1>1. idx[h] \in Nat /\ size[h] \in Nat
    BY DEF StoreInv, Types
<1>2. \A i \in idx[h]..size[h] : FALSE
    BY <1>1
<1>3. QED
    BY <1>2 DEF KeptInv, Kept

(* An unlocked lookup that finds a name found it in the list at some time  *)
(* while it ran, the element a delete is removing and the slot an append   *)
(* is about to write included (message.go:84, 169, 229).                   *)
THEOREM StoreFoundWasThere == Spec => []FoundWasThere
<1>1. Init => FoundInv
    BY DEF Init, FoundInv, Found, LookingUp
<1>2. StoreInv /\ StoreInv' /\ FoundInv /\ [Next]_vars => FoundInv'
    BY FoundStep
<1>3. StoreInv /\ FoundInv => FoundWasThere
    BY FoundImplies
<1>4. QED
    BY <1>1, <1>2, <1>3, StoreInvariant, PTL DEF Spec

(* An unlocked lookup that misses a message configured all the time was    *)
(* overtaken by a delete that shifted: an add, which moves the array,      *)
(* hides nothing (message.go:84, 169, 229).                                *)
THEOREM StoreMissedOnlyIfShifted == Spec => []MissedOnlyIfShifted
<1>1. Init => KeptInv
    BY DEF Init, KeptInv, Kept, LookingUp, At
<1>2. StoreInv /\ StoreInv' /\ KeptInv /\ [Next]_vars => KeptInv'
    BY KeptStep
<1>3. StoreInv /\ KeptInv => MissedOnlyIfShifted
    BY KeptImplies
<1>4. QED
    BY <1>1, <1>2, <1>3, StoreInvariant, PTL DEF Spec
=============================================================================
