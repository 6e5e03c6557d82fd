----------------------------- MODULE MessageList -----------------------------
(***************************************************************************)
(* What the message store promises whoever holds msgLock: the configured   *)
(* messages are a list that changes by whole operations, each of which     *)
(* touches one message.  A restart replaces the list by the one stored.    *)
(* MessageStore implements this specification.                             *)
(***************************************************************************)
EXTENDS Naturals, Sequences

CONSTANTS Names, Attrs

VARIABLES
    list,            \* the configured messages
    stored           \* what a restart would load

Msg == [name : Names, attr : Attrs]

Init == /\ list = <<>>
        /\ stored = <<>>

Add == /\ \E m \in Msg : list' = Append(list, m)
       /\ UNCHANGED stored

(* An update rewrites the first message of its name.                       *)
First(s, i) == \A j \in 1..(i - 1) : s[j].name # s[i].name

Update == /\ \E i \in DOMAIN list, a \in Attrs :
               First(list, i) /\ list' = [list EXCEPT ![i].attr = a]
          /\ UNCHANGED stored

Delete == /\ \E i \in DOMAIN list :
               /\ First(list, i)
               /\ list' = SubSeq(list, 1, i - 1) \o SubSeq(list, i + 1, Len(list))
          /\ UNCHANGED stored

Store == UNCHANGED list

Load == /\ list' = stored
        /\ UNCHANGED stored

Next == Add \/ Update \/ Delete \/ Store \/ Load

Spec == Init /\ [][Next]_<<list, stored>>
=============================================================================
