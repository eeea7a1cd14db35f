------------------------------ MODULE TextService ------------------------------
(***************************************************************************)
(* What the inspector promises its clients, whatever the threads do: every *)
(* text a client sends is given to V8's session once, a client's texts in  *)
(* the order it sent them, and V8's answer to a text goes, once, to a      *)
(* client that spoke at that text or after it: TWebsocketMessageChannel    *)
(* remembers the last client only, so an answer may go astray, but never   *)
(* to a client that has been silent since.                                 *)
(***************************************************************************)
EXTENDS Naturals, Sequences

CONSTANT Clients

VARIABLES
  senders,  (* the client of each text, in order of arrival *)
  given,    (* the texts given to the session, in order     *)
  answers   (* the pairs <<text, client>> of answers sent   *)

Given == {given[i] : i \in DOMAIN given}

Init == senders = <<>> /\ given = <<>> /\ answers = {}

Accept(c) ==
  /\ senders' = Append(senders, c)
  /\ UNCHANGED <<given, answers>>

Give(k) ==
  /\ k \notin Given
  /\ \A j \in 1..(k - 1) : senders[j] = senders[k] => j \in Given
  /\ given' = Append(given, k)
  /\ UNCHANGED <<senders, answers>>

Answer(k, c) ==
  /\ k \in Given
  /\ \A d \in Clients : <<k, d>> \notin answers
  /\ \E j \in k..Len(senders) : senders[j] = c
  /\ answers' = answers \cup {<<k, c>>}
  /\ UNCHANGED <<senders, given>>

Next ==
  \/ \E c \in Clients : Accept(c)
  \/ \E k \in DOMAIN senders : Give(k) \/ \E c \in Clients : Answer(k, c)

Spec == Init /\ [][Next]_<<senders, given, answers>>
=============================================================================
