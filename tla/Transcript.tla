----------------------------- MODULE Transcript -----------------------------
(***************************************************************************)
(* What a shared chat promises: a sequence of messages, to which a message *)
(* is added at the end, once; a message keeps its place while its wording  *)
(* changes; and what was removed does not come back.                       *)
(***************************************************************************)
EXTENDS Naturals, Sequences

CONSTANTS
  Id,             \* what identifies a message
  Text,           \* what it can say
  None            \* the id of a message older than the sharing

VARIABLES
  log,            \* the messages, in order
  used            \* the ids of the messages that were ever in it

vars == <<log, used>>

Message == [id : Id \cup {None}, text : Text]

TypeOK == log \in Seq(Message) /\ used \subseteq Id

Init ==
  /\ log \in Seq(Message) /\ \A k \in DOMAIN log : log[k].id = None
  /\ used = {}

Add(m) ==
  /\ m.id \in Id \ used
  /\ log' = Append(log, m) /\ used' = used \cup {m.id}

Reword(k, t) == log' = [log EXCEPT ![k].text = t] /\ UNCHANGED used

Remove(k) ==
  /\ log' = SubSeq(log, 1, k - 1) \o SubSeq(log, k + 1, Len(log))
  /\ UNCHANGED used

Next ==
  \/ \E m \in Message : Add(m)
  \/ \E k \in DOMAIN log : Remove(k) \/ \E t \in Text : Reword(k, t)

Spec == Init /\ [][Next]_vars

\* No message is in the chat twice, and none that was never added.
Once ==
  /\ \A k \in DOMAIN log : log[k].id \in used \cup {None}
  /\ \A j, k \in DOMAIN log : log[j].id = log[k].id /\ log[j].id # None => j = k
=============================================================================
