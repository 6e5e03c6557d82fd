---------------------------- MODULE MessageStore ----------------------------
(***************************************************************************)
(* The configured messages of wmq, the handlers of the management and the  *)
(* publish API that read and change them, and the file they are kept in    *)
(* (src/message.go, src/api.go).                                           *)
(*                                                                         *)
(* "messages" is a Go slice: a pointer to a backing array and a length.    *)
(* msgLock guards its changes, but every handler first looks its message   *)
(* up without the lock, reading pointer, length and elements one by one,   *)
(* and the file is written in a second critical section, from a slice read *)
(* between the two.  append moves to an array of twice the size when there *)
(* is no room; it then stores the element and the length, in an order that *)
(* the compiler chooses.  A delete shifts the elements after it in place.  *)
(* An array that append has left is never written again.                   *)
(*                                                                         *)
(* A message's attributes and consumers are one value here, so the         *)
(* operations on consumers are updates of their message.  The broker calls *)
(* made under the lock only matter by their failure.  The process may be   *)
(* killed, and is started again, at any step.                              *)
(***************************************************************************)
EXTENDS Naturals, Sequences, FiniteSets

CONSTANTS
    Names,           \* message names
    Attrs,           \* everything else a message holds
    Handlers,        \* handler goroutines of the two HTTP servers
    Kinds,           \* bound: the kinds of requests that arrive
    MaxMessages,     \* bound: no add starts that could pass this length
    None,            \* no lock holder; an array slot that was never written
    Shared,          \* a slice read from "messages" and not left behind
    Torn             \* the content of a file that was truncated only

ASSUME MaxMessagesAssumption == MaxMessages \in Nat \ {0}
ASSUME KindsAssumption == Kinds \subseteq {"add", "update", "consumer", "delete", "publish"}

VARIABLES
    array,           \* the backing array of "messages"
    len,             \* the length of "messages"
    lock,            \* the holder of msgLock
    file,            \* the data file: the messages in it, or Torn
    pc, op,          \* each handler's step and request
    pass,            \* which of the unlocked lookups of a request it is in
    arr, size, idx,  \* each handler's own slice and position in it
    failed,          \* the handlers whose locked section returned an error
    out,             \* the messages a handler is writing to the file
    alone,           \* history: changes that overlapped no other change
    seen, kept,      \* history: lookups whose message was configured at some
                     \* time, and all the time, since they began
    shifted          \* history: lookups during which a delete shifted

slice == <<array, len>>
locals == <<arr, size, idx>>
history == <<seen, kept, shifted>>
vars == <<array, len, lock, file, pc, op, pass, arr, size, idx, failed, out,
          alone, seen, kept, shifted>>

-----------------------------------------------------------------------------
(* The data                                                                *)

Msg == [name : Names, attr : Attrs]

ASSUME NoneAssumption == None \notin Handlers /\ None \notin Msg
ASSUME SharedAssumption == Shared \notin Seq(Msg \cup {None})

(* update stands for /message/update and /consumer/add, consumer for       *)
(* /consumer/update and /consumer/delete.                                  *)
Op == [kind : Kinds \cap {"add", "update", "consumer"}, name : Names, attr : Attrs]
        \cup [kind : Kinds \cap {"delete", "publish"}, name : Names]

Steps == {"idle", "ptr", "len", "scan", "index",
          "lock", "change", "setlen", "setelem", "shift", "unlock",
          "wptr", "wlen", "wlock", "marshal", "write", "panicked"}

Content == SubSeq(array, 1, len)

Without(s, i) == SubSeq(s, 1, i - 1) \o SubSeq(s, i + 1, Len(s))

At(step) == lock # None /\ pc[lock] = step

(* The messages as the next holder of msgLock will find them: an add takes *)
(* effect when both its stores are done, and a delete when it starts to    *)
(* shift, though elements are then still moving.                           *)
Committed == IF At("shift") THEN Without(Content, idx[lock])
             ELSE IF At("setelem") THEN SubSeq(array, 1, len - 1)
             ELSE Content

(* The elements a lookup may meet: those and what is half done.            *)
Visible == SubSeq(array, 1, IF At("setlen") THEN len + 1 ELSE len)

NamesOf(s) == {s[i].name : i \in {j \in DOMAIN s : s[j] # None}}

(* The element a handler reads from its slice.  Beyond the end of an array *)
(* that was left behind it reads memory that is no message.                *)
Backing(h) == IF arr[h] = Shared THEN array ELSE arr[h]
Element(h, i) == IF i <= Len(Backing(h)) THEN Backing(h)[i] ELSE None

HitBeyondLength(h) ==                                             \* fault
    /\ Element(h, idx[h]) # None
    /\ Element(h, idx[h]).name = op[h].name

Hit(h) == /\ idx[h] <= size[h]
          /\ Element(h, idx[h]) # None
          /\ Element(h, idx[h]).name = op[h].name

(* Go's growth of a small slice, from an empty one; for one that no run    *)
(* reaches, just enough.                                                   *)
Room(n) == IF n > 8 THEN n
           ELSE CHOOSE c \in {0, 1, 2, 4, 8} :
                  c >= n /\ \A d \in {0, 1, 2, 4, 8} : d >= n => d >= c

GrownUncopied(s, n) == [i \in 1..Room(n) |-> None]                 \* fault

Grown(s, n) == [i \in 1..Room(n) |-> IF i <= Len(s) THEN s[i] ELSE None]

(* Where getMessage finds a name when called under the lock, 0 if nowhere. *)
IndexOf(name) ==
    IF name \notin NamesOf(Content) THEN 0
    ELSE CHOOSE i \in 1..len : /\ array[i].name = name
                               /\ \A j \in 1..(i - 1) : array[j].name # name

PositionFoundBefore(h) == IF idx[h] <= len THEN idx[h] ELSE 0      \* fault

Position(h) == IndexOf(op[h].name)

(* A shift has elements left to move.                                      *)
ShiftingTooFew(h) == idx[h] < len - 1                              \* fault

Shifting(h) == idx[h] < len

(* What writeMessagesToFile marshals.                                      *)
MarshalledCapacity(h) == Backing(h)                                \* fault

MarshalledBeforeAdd(h) ==                                          \* fault
    SubSeq(Backing(h), 1, IF op[h].kind = "add" THEN size[h] - 1 ELSE size[h])

Marshalled(h) == SubSeq(Backing(h), 1, size[h])

Changes(h) == pc[h] # "idle" /\ op[h].kind # "publish"

Nothing == [kind |-> "publish", name |-> None]

TypeOK ==
    /\ array \in Seq(Msg \cup {None})
    /\ len \in 0..Len(array)
    /\ Committed \in Seq(Msg)
    /\ lock \in Handlers \cup {None}
    /\ file = Torn \/ file \in Seq(Msg)
    /\ pc \in [Handlers -> Steps]
    /\ \A h \in Handlers : op[h] \in Op \/ op[h] = Nothing
    /\ pass \in [Handlers -> {1, 2}]
    /\ \A h \in Handlers : arr[h] = Shared \/ arr[h] \in Seq(Msg \cup {None})
    /\ size \in [Handlers -> Nat]
    /\ idx \in [Handlers -> Nat]
    /\ failed \subseteq Handlers
    /\ out \in [Handlers -> Seq(Msg)]

Init ==
    /\ array = <<>>
    /\ len = 0
    /\ lock = None
    /\ file = <<>>
    /\ pc = [h \in Handlers |-> "idle"]
    /\ op = [h \in Handlers |-> Nothing]
    /\ pass = [h \in Handlers |-> 1]
    /\ arr = [h \in Handlers |-> Shared]
    /\ size = [h \in Handlers |-> 0]
    /\ idx = [h \in Handlers |-> 1]
    /\ failed = {}
    /\ out = [h \in Handlers |-> <<>>]
    /\ alone = {}
    /\ seen = {}
    /\ kept = {}
    /\ shifted = {}

-----------------------------------------------------------------------------
(* Steps                                                                   *)

Goto(h, step) == pc' = [pc EXCEPT ![h] = step]

(* A reply ends the request and forgets what was local to it.              *)
Reply(h) ==
    /\ Goto(h, "idle")
    /\ op' = [op EXCEPT ![h] = Nothing]
    /\ pass' = [pass EXCEPT ![h] = 1]
    /\ arr' = [arr EXCEPT ![h] = Shared]
    /\ size' = [size EXCEPT ![h] = 0]
    /\ idx' = [idx EXCEPT ![h] = 1]
    /\ out' = [out EXCEPT ![h] = <<>>]
    /\ failed' = failed \ {h}
    /\ alone' = alone \ {h}

EndLookup(h) ==
    /\ seen' = seen \ {h}
    /\ kept' = kept \ {h}
    /\ shifted' = shifted \ {h}

(* What every lookup under way notes of a change of the messages.          *)
Note ==
    /\ seen' = seen \cup {g \in Handlers : /\ pc[g] \in {"len", "scan"}
                                           /\ op[g].name \in NamesOf(Visible')}
    /\ kept' = {g \in kept : op[g].name \in NamesOf(Committed')}

Begin(h, o) ==
    /\ pc[h] = "idle"
    /\ o.kind = "add" =>
         len + Cardinality({g \in Handlers : op[g].kind = "add"}) < MaxMessages
    /\ op' = [op EXCEPT ![h] = o]
    /\ Goto(h, "ptr")
    /\ alone' = IF o.kind = "publish" THEN alone
                ELSE IF \E g \in Handlers : Changes(g) THEN {} ELSE {h}
    /\ UNCHANGED <<slice, lock, file, pass, locals, failed, out, history>>

(* The unlocked getMessage: range reads the slice, pointer and length...   *)
ReadPtr(h, from, to) ==
    /\ pc[h] = from
    /\ arr' = [arr EXCEPT ![h] = Shared]
    /\ Goto(h, to)
    /\ UNCHANGED <<slice, lock, file, op, pass, size, idx, failed, out, alone>>

StartLookup(h) ==
    /\ ReadPtr(h, "ptr", "len")
    /\ seen' = seen \cup {g \in {h} : op[h].name \in NamesOf(Visible)}
    /\ kept' = kept \cup {g \in {h} : op[h].name \in NamesOf(Committed)}
    /\ shifted' = shifted \cup {g \in {h} : At("shift")}

ReadLenSkipping(h, from, to) ==                                    \* fault
    /\ pc[h] = from
    /\ size' = [size EXCEPT ![h] = len]
    /\ idx' = [idx EXCEPT ![h] = 2]
    /\ Goto(h, to)
    /\ UNCHANGED <<slice, lock, file, op, pass, arr, failed, out, alone, history>>

ReadLen(h, from, to) ==
    /\ pc[h] = from
    /\ size' = [size EXCEPT ![h] = len]
    /\ idx' = [idx EXCEPT ![h] = 1]
    /\ Goto(h, to)
    /\ UNCHANGED <<slice, lock, file, op, pass, arr, failed, out, alone, history>>

(* ... and then the elements, one after the other.                         *)
ScanOn(h) ==
    /\ pc[h] = "scan"
    /\ idx[h] <= size[h]
    /\ ~Hit(h)
    /\ idx' = [idx EXCEPT ![h] = @ + 1]
    /\ UNCHANGED <<slice, lock, file, pc, op, pass, arr, size, failed, out, alone, history>>

(* The lookup ends and forgets its slice, but not the position it found.   *)
Leave(h, to, n) ==
    /\ Goto(h, to)
    /\ pass' = [pass EXCEPT ![h] = n]
    /\ arr' = [arr EXCEPT ![h] = Shared]
    /\ size' = [size EXCEPT ![h] = 0]
    /\ UNCHANGED <<op, idx, failed, out, alone>>

(* Found.  An add is refused.  A publish looks its message up twice, and   *)
(* so do the operations on a consumer, which then index the slice.         *)
ScanHit(h) ==
    /\ pc[h] = "scan"
    /\ Hit(h)
    /\ EndLookup(h)
    /\ CASE op[h].kind = "add" -> Reply(h)
         [] op[h].kind \in {"update", "delete"} -> Leave(h, "lock", 1)
         [] op[h].kind \in {"consumer", "publish"} /\ pass[h] = 1 -> Leave(h, "ptr", 2)
         [] op[h].kind = "consumer" /\ pass[h] = 2 -> Leave(h, "index", 1)
         [] op[h].kind = "publish" /\ pass[h] = 2 -> Reply(h)
    /\ UNCHANGED <<slice, lock, file>>

(* Not found.  An add goes on, every other request is answered so.         *)
ScanMiss(h) ==
    /\ pc[h] = "scan"
    /\ idx[h] > size[h]
    /\ EndLookup(h)
    /\ IF op[h].kind = "add" THEN Leave(h, "lock", 1) ELSE Reply(h)
    /\ UNCHANGED <<slice, lock, file>>

(* getConsumer, still unlocked, indexes "messages" with the position found *)
(* in the slice read before: out of range is a panic, which nobody         *)
(* recovers.  The consumer may also not be found there.                    *)
Index(h, known) ==
    /\ pc[h] = "index"
    /\ IF idx[h] > len \/ known
       THEN /\ Goto(h, IF idx[h] > len THEN "panicked" ELSE "lock")
            /\ UNCHANGED <<op, pass, locals, failed, out, alone>>
       ELSE Reply(h)
    /\ UNCHANGED <<slice, lock, file, history>>

Acquire(h, from, to) ==
    /\ pc[h] = from
    /\ lock = None
    /\ lock' = h
    /\ Goto(h, to)
    /\ UNCHANGED <<slice, file, op, pass, locals, failed, out, alone, history>>

(* addMessage: append does not look whether the name is taken by now.      *)
Message(h) == [name |-> op[h].name, attr |-> op[h].attr]

(* The slices read before keep the old array.                              *)
Grow(h) ==
    /\ pc[h] = "change"
    /\ op[h].kind = "add"
    /\ len = Len(array)
    /\ array' = Grown(array, len + 1)
    /\ arr' = [g \in Handlers |->
                 IF arr[g] = Shared /\ pc[g] \in {"len", "scan", "wlen", "wlock"}
                 THEN array ELSE arr[g]]
    /\ UNCHANGED <<len, lock, file, pc, op, pass, size, idx, failed, out, alone, history>>

SetElement(h, from, to) ==
    /\ pc[h] = from
    /\ op[h].kind = "add"
    /\ from = "change" => len < Len(array)
    /\ array' = [array EXCEPT ![IF from = "change" THEN len + 1 ELSE len] = Message(h)]
    /\ Goto(h, to)
    /\ UNCHANGED <<len, lock, file, op, pass, locals, failed, out, alone, shifted>>
    /\ Note

SetLength(h, from, to) ==
    /\ pc[h] = from
    /\ op[h].kind = "add"
    /\ from = "change" => len < Len(array)
    /\ len' = len + 1
    /\ Goto(h, to)
    /\ UNCHANGED <<array, lock, file, op, pass, locals, failed, out, alone, shifted>>
    /\ Note

(* updateMessage and the consumer operations look the message up again and *)
(* rewrite it in place.  The consumer may be gone; deleteConsumer may fail *)
(* after the change.                                                       *)
Update(h, known, bad) ==
    /\ pc[h] = "change"
    /\ op[h].kind \in {"update", "consumer"}
    /\ bad \/ ~known => op[h].kind = "consumer"
    /\ LET i == Position(h) IN
         IF i # 0 /\ known
         THEN /\ array' = [array EXCEPT ![i] = Message(h)]
              /\ failed' = IF bad THEN failed \cup {h} ELSE failed
         ELSE /\ failed' = failed \cup {h}
              /\ UNCHANGED array
    /\ Goto(h, "unlock")
    /\ UNCHANGED <<len, lock, file, op, pass, locals, out, alone, history>>

(* deleteMessage looks the message up again, stops its workers and deletes *)
(* its queues and its exchange, any of which may fail, and only then       *)
(* removes it, shifting the elements after it one by one.                  *)
Delete(h, bad) ==
    /\ pc[h] = "change"
    /\ op[h].kind = "delete"
    /\ LET i == Position(h) IN
         IF i = 0 \/ bad
         THEN /\ failed' = failed \cup {h}
              /\ Goto(h, "unlock")
              /\ UNCHANGED <<slice, lock, op, idx, history>>
         ELSE /\ idx' = [idx EXCEPT ![h] = i]
              /\ Goto(h, "shift")
              /\ shifted' = shifted \cup {g \in Handlers : pc[g] \in {"len", "scan"}}
              /\ UNCHANGED <<slice, lock, op, failed>>
              /\ Note
    /\ UNCHANGED <<file, pass, arr, size, out, alone>>

Shift(h) ==
    /\ pc[h] = "shift"
    /\ IF Shifting(h)
       THEN /\ array' = [array EXCEPT ![idx[h]] = array[idx[h] + 1]]
            /\ idx' = [idx EXCEPT ![h] = @ + 1]
            /\ UNCHANGED <<len, pc>>
       ELSE /\ len' = len - 1
            /\ Goto(h, "unlock")
            /\ UNCHANGED <<array, idx>>
    /\ UNCHANGED <<lock, file, op, pass, arr, size, failed, out, alone, history>>

(* The first critical section ends.  A failure is answered at once; else   *)
(* the handler reads "messages", unlocked, for writeMessagesToFile.        *)
Unlock(h) ==
    /\ pc[h] = "unlock"
    /\ lock' = None
    /\ IF h \in failed
       THEN Reply(h)
       ELSE /\ Goto(h, "wptr")
            /\ UNCHANGED <<op, pass, locals, failed, out, alone>>
    /\ UNCHANGED <<slice, file, history>>

(* writeMessagesToFile: marshal the slice that was passed, then open the   *)
(* file, which truncates it...  A length newer than its array reaches into *)
(* memory that holds no messages: the handler dies.                        *)
Marshal(h, opened) ==
    /\ pc[h] = "marshal"
    /\ IF size[h] > Len(Backing(h))
       THEN /\ Goto(h, "panicked")
            /\ UNCHANGED <<lock, file, op, pass, locals, failed, out, alone>>
       ELSE IF opened
       THEN /\ out' = [out EXCEPT ![h] = Marshalled(h)]
            /\ file' = Torn
            /\ Goto(h, "write")
            /\ UNCHANGED <<lock, op, pass, locals, failed, alone>>
       ELSE /\ lock' = None
            /\ Reply(h)
            /\ UNCHANGED file
    /\ UNCHANGED <<slice, history>>

(* ... and write it, which may fail.  Either way the request is answered.  *)
Write(h, good) ==
    /\ pc[h] = "write"
    /\ file' = IF good THEN out[h] ELSE file
    /\ lock' = None
    /\ Reply(h)
    /\ UNCHANGED <<slice, history>>

(* The process dies, at any step, and is started again.  What it cannot    *)
(* parse it takes for no messages at all (643-659: err is shadowed).       *)
Loaded == IF file = Torn THEN <<>> ELSE file

Restart ==
    /\ array' = Grown(Loaded, Len(Loaded))
    /\ len' = Len(Loaded)
    /\ lock' = None
    /\ pc' = [h \in Handlers |-> "idle"]
    /\ op' = [h \in Handlers |-> Nothing]
    /\ pass' = [h \in Handlers |-> 1]
    /\ arr' = [h \in Handlers |-> Shared]
    /\ size' = [h \in Handlers |-> 0]
    /\ idx' = [h \in Handlers |-> 1]
    /\ failed' = {}
    /\ out' = [h \in Handlers |-> <<>>]
    /\ alone' = {}
    /\ seen' = {}
    /\ kept' = {}
    /\ shifted' = {}
    /\ UNCHANGED file

Up == \A h \in Handlers : pc[h] # "panicked"

Handler(h) ==
    \/ \E o \in Op : Begin(h, o)
    \/ StartLookup(h) \/ ReadLen(h, "len", "scan")
    \/ ScanOn(h) \/ ScanHit(h) \/ ScanMiss(h)
    \/ \E known \in BOOLEAN : Index(h, known)
    \/ Acquire(h, "lock", "change")
    \/ Grow(h)
    \/ SetElement(h, "change", "setlen") \/ SetLength(h, "setlen", "unlock")
    \/ SetLength(h, "change", "setelem") \/ SetElement(h, "setelem", "unlock")
    \/ \E known, bad \in BOOLEAN : Update(h, known, bad)
    \/ \E bad \in BOOLEAN : Delete(h, bad)
    \/ Shift(h) \/ Unlock(h)
    \/ (ReadPtr(h, "wptr", "wlen") /\ UNCHANGED history)
    \/ ReadLen(h, "wlen", "wlock")
    \/ Acquire(h, "wlock", "marshal")
    \/ \E good \in BOOLEAN : Marshal(h, good) \/ Write(h, good)

Next ==
    \/ Up /\ \E h \in Handlers : Handler(h)
    \/ Restart

Spec == Init /\ [][Next]_vars

-----------------------------------------------------------------------------
(* Properties                                                              *)

(* Under msgLock the messages are a list that changes by whole operations, *)
(* each on one message, although append and delete write shared arrays     *)
(* element by element (message.go:169, 184, 229, 245, 277).                *)
List == INSTANCE MessageList WITH list <- Committed, stored <- Loaded
ImplementsList == List!Spec

(* The messages of one name in a list, in its order.                       *)
NamedIn(s, name) ==
    LET upto[i \in 0..Len(s)] ==
          IF i = 0 THEN <<>>
          ELSE IF s[i].name = name THEN Append(upto[i - 1], s[i])
          ELSE upto[i - 1]
    IN  upto[Len(s)]

Named(name) == NamedIn(Committed, name)

(* A change touches no message but the one its request names, although the *)
(* position it found before it had the lock may be another's by then       *)
(* (message.go:178, 212, 239, 255, 271 look it up again).                  *)
TouchesNamedOnly ==
    [][\A name \in Names :
         Named(name)' # Named(name) => Restart \/ (lock # None /\ op[lock].name = name)]_vars

(* An unlocked lookup that finds a name (getMessage, message.go:84) found  *)
(* it in the slice at some time during the lookup, the element a delete is *)
(* removing and the slot an append has not written yet included, though it *)
(* may read an array left behind and beyond a length that has shrunk.      *)
FoundWasThere ==
    \A h \in Handlers : pc[h] = "scan" /\ Hit(h) => h \in seen

(* An unlocked lookup that misses a message that was configured all the    *)
(* time was overtaken by a delete that shifted: an add, which moves the    *)
(* array, never hides a message (message.go:84, 169, 229).                 *)
MissedOnlyIfShifted ==
    \A h \in Handlers :
      pc[h] = "scan" /\ idx[h] > size[h] /\ h \in kept => h \in shifted

(* A change that overlapped no other change is in the file, and nothing    *)
(* else is, when it is acknowledged (api.go:74-78): between the two        *)
(* critical sections only publishers read.                                 *)
AcknowledgedIsStored ==
    [][\A h \in Handlers :
         h \in alone /\ pc[h] = "write" /\ file # file' => file' = Content']_vars

-----------------------------------------------------------------------------
(* What the documentation says and the code does not do                    *)

(* "message name,must be unique" (README.md:70): apiMessageAdd looks the   *)
(* name up before addMessage takes the lock, which appends unconditionally.*)
NamesUnique ==
    \A i, j \in DOMAIN Committed : Committed[i].name = Committed[j].name => i = j

(* Every request is answered with code 1 or 0 (README.md:169, 187), but    *)
(* getConsumer indexes "messages" with a position it found before          *)
(* (message.go:102-103): out of range, the handler panics instead.         *)
PositionInRange == \A h \in Handlers : pc[h] = "index" => idx[h] <= len

(* "load message data form file fail" (wmq.go:78): a data file that cannot *)
(* be read as messages stops the start.                                    *)
BadFileStopsStart == [][Restart => file # Torn]_vars
=============================================================================
