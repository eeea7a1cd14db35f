----------------------------- MODULE MessageStream -----------------------------
(***************************************************************************)
(* What a websocket connection promises the program: the client's messages *)
(* arrive whole, once and in order, all of them while the connection       *)
(* lasts; a lost connection cuts the stream off after some message.        *)
(* MessageChannel takes this for granted, a text being one step there.     *)
(***************************************************************************)
EXTENDS Naturals, Sequences

VARIABLES
  sent,       (* the messages the client sent *)
  delivered,  (* those that have arrived      *)
  connected

Init == sent = <<>> /\ delivered = <<>> /\ connected = TRUE

(* Which messages there are is the client's affair. *)
Send ==
  /\ connected
  /\ Len(sent') = Len(sent) + 1
  /\ SubSeq(sent', 1, Len(sent)) = sent
  /\ UNCHANGED <<delivered, connected>>

Deliver ==
  /\ Len(delivered) < Len(sent)
  /\ delivered' = Append(delivered, sent[Len(delivered) + 1])
  /\ UNCHANGED <<sent, connected>>

Lose == connected /\ connected' = FALSE /\ UNCHANGED <<sent, delivered>>

Next == Send \/ Deliver \/ Lose

Spec == Init /\ [][Next]_<<sent, delivered, connected>>

FairSpec == Spec /\ WF_<<sent, delivered, connected>>(connected /\ Deliver)
=============================================================================
