----------------------------- MODULE WebsocketPeer -----------------------------
(***************************************************************************)
(* How one TWebsocketServerPeer puts messages together: its read thread    *)
(* allocates a protocol for each request or frame, decodes it, and hands   *)
(* it to OnDataRecieved.  All protocols of a message share mCurrentMessage. *)
(*                                                                         *)
(* WebsocketServer and MessageChannel have the peer's other steps; their   *)
(* OnTextMessage is OnCompleteText here.  Decoding is SoyLib's: a frame's  *)
(* payload goes to the buffer the protocol was given, a message is text or *)
(* binary by its first frame and complete after its last.                  *)
(***************************************************************************)
EXTENDS Naturals, Sequences

CONSTANTS
  MaxMessages,  (* bound: the messages the client sends                    *)
  MaxFrames     (* bound: the frames of a message                          *)

ASSUME BoundsAssumption == MaxMessages \in Nat /\ MaxFrames \in Nat \ {0}

VARIABLES
  sent,             (* history: the messages the client began, in order    *)
  stream,           (* requests and frames on their way to the read thread *)
  connected,        (* whether the socket lasts                            *)
  reader,           (* the read thread: "alloc", "decode", "received"      *)
                    (* (in OnDataRecieved), "reset"                        *)
  mCurrentMessage,  (* the buffer the next protocol is given, or None      *)
  packet,           (* what was just decoded: "reply" or "message"         *)
  delivered         (* history: what the two callbacks were given          *)

vars == <<sent, stream, connected, reader, mCurrentMessage, packet, delivered>>

Kinds == {"text", "binary"}

(* Part p of message m; a message is whole with its parts 1..frames. *)
Frame == [message : 1..MaxMessages, part : 1..MaxFrames, kind : Kinds, last : BOOLEAN]

(* The http request that opens the connection. *)
Request == [message |-> 0, part |-> 0, kind |-> "http", last |-> TRUE]

None == [kind |-> "none"]
NewBuffer == [kind |-> "unknown", parts |-> <<>>, complete |-> FALSE]
Buffer == [kind : Kinds \cup {"unknown"}, parts : Seq(Frame), complete : BOOLEAN]

TypeOK ==
  /\ sent \in Seq([kind : Kinds, frames : 1..MaxFrames])
  /\ stream \in Seq(Frame \cup {Request})
  /\ connected \in BOOLEAN
  /\ reader \in {"alloc", "decode", "received", "reset"}
  /\ mCurrentMessage \in Buffer \cup {None}
  /\ packet \in {"reply", "message"}
  /\ delivered \in Seq([kind : Kinds, parts : Seq(Frame)])

Init ==
  /\ sent = <<>>
  /\ stream = <<Request>>
  /\ connected = TRUE
  /\ reader = "alloc"
  /\ mCurrentMessage = None
  /\ packet = "reply"
  /\ delivered = <<>>
-----------------------------------------------------------------------------
(***************************************************************************)
(* The client: a message's frames go out together.  What is lost with the  *)
(* connection is a suffix of the stream, in the middle of a message or not. *)
(***************************************************************************)
FramesOf(m, kind, n) ==
  [p \in 1..n |-> [message |-> m, part |-> p, kind |-> kind, last |-> p = n]]

SendMessage(kind, n) ==
  /\ connected /\ Len(sent) < MaxMessages
  /\ sent' = Append(sent, [kind |-> kind, frames |-> n])
  /\ stream' = stream \o FramesOf(Len(sent) + 1, kind, n)
  /\ UNCHANGED <<connected, reader, mCurrentMessage, packet, delivered>>

Disconnect == \E n \in 0..Len(stream) :
  /\ connected
  /\ connected' = FALSE
  /\ stream' = SubSeq(stream, 1, n)
  /\ UNCHANGED <<sent, reader, mCurrentMessage, packet, delivered>>
-----------------------------------------------------------------------------
(***************************************************************************)
(* The read thread.                                                        *)
(***************************************************************************)
(* A bug: every frame gets a buffer of its own. *)
AllocProtocolAndBuffer ==
  /\ reader = "alloc"
  /\ mCurrentMessage' = NewBuffer
  /\ reader' = "decode"
  /\ UNCHANGED <<sent, stream, connected, packet, delivered>>

AllocProtocol ==
  /\ reader = "alloc"
  /\ mCurrentMessage' = IF mCurrentMessage = None THEN NewBuffer ELSE mCurrentMessage
  /\ reader' = "decode"
  /\ UNCHANGED <<sent, stream, connected, packet, delivered>>

(* The http request fills mReplyMessage and leaves the message buffer.     *)
DecodeRequest ==
  /\ reader = "decode" /\ stream # <<>> /\ Head(stream) = Request
  /\ stream' = Tail(stream)
  /\ packet' = "reply"
  /\ reader' = "received"
  /\ UNCHANGED <<sent, connected, mCurrentMessage, delivered>>

DecodeFrame ==
  /\ reader = "decode" /\ stream # <<>> /\ Head(stream) # Request
  /\ LET frame == Head(stream)
     IN  mCurrentMessage' =
           [mCurrentMessage EXCEPT !.kind = IF @ = "unknown" THEN frame.kind ELSE @,
                                   !.parts = Append(@, frame),
                                   !.complete = frame.last]
  /\ stream' = Tail(stream)
  /\ packet' = "message"
  /\ reader' = "received"
  /\ UNCHANGED <<sent, connected, delivered>>

IsComplete(kind) == mCurrentMessage.kind = kind /\ mCurrentMessage.complete

(* OnDataRecieved: the reply, or a message with frames to come. *)
ReturnEarly ==
  /\ reader = "received"
  /\ packet = "message" => \A kind \in Kinds : ~IsComplete(kind)
  /\ reader' = "alloc"
  /\ UNCHANGED <<sent, stream, connected, mCurrentMessage, packet, delivered>>

Deliver(kind) ==
  /\ reader = "received" /\ packet = "message" /\ IsComplete(kind)
  /\ delivered' = Append(delivered, [kind |-> kind, parts |-> mCurrentMessage.parts])
  /\ reader' = "reset"
  /\ UNCHANGED <<sent, stream, connected, mCurrentMessage, packet>>

(* mOnTextMessage; the text is not a binary message too. *)
OnCompleteText == Deliver("text")

(* A bug: the binary branch forgets to reset. *)
OnCompleteBinaryKept ==
  /\ reader = "received" /\ packet = "message" /\ IsComplete("binary")
  /\ delivered' = Append(delivered, [kind |-> "binary", parts |-> mCurrentMessage.parts])
  /\ reader' = "alloc"
  /\ UNCHANGED <<sent, stream, connected, mCurrentMessage, packet>>

(* mOnBinaryMessage, which only logs. *)
OnCompleteBinary == Deliver("binary")

(* A bug: the buffer is emptied, not dropped, and keeps no kind to be set. *)
ResetInPlace ==
  /\ reader = "reset"
  /\ mCurrentMessage' = [kind |-> "none", parts |-> <<>>, complete |-> FALSE]
  /\ reader' = "alloc"
  /\ UNCHANGED <<sent, stream, connected, packet, delivered>>

(* mCurrentMessage.reset(), under mCurrentMessageLock.  The lock is only   *)
(* ever taken by this thread.                                              *)
ResetCurrentMessage ==
  /\ reader = "reset"
  /\ mCurrentMessage' = None
  /\ reader' = "alloc"
  /\ UNCHANGED <<sent, stream, connected, packet, delivered>>

ReadNext ==
  \/ AllocProtocol
  \/ DecodeRequest
  \/ DecodeFrame
  \/ ReturnEarly
  \/ OnCompleteText
  \/ OnCompleteBinary
  \/ ResetCurrentMessage

Next ==
  \/ \E kind \in Kinds, n \in 1..MaxFrames : SendMessage(kind, n)
  \/ Disconnect
  \/ ReadNext

Spec == Init /\ [][Next]_vars

(* The read thread goes on while there is something to read. *)
FairSpec == Spec /\ WF_vars(ReadNext)
-----------------------------------------------------------------------------
Whole(m) == [kind |-> sent[m].kind, parts |-> FramesOf(m, sent[m].kind, sent[m].frames)]

(* What the callbacks are given are the client's messages, whole, each     *)
(* once and in order: mCurrentMessage, allocated in one place and reset in *)
(* another, never mixes the frames of two messages nor drops one.          *)
DeliversWholeMessages ==
  /\ Len(delivered) <= Len(sent)
  /\ \A m \in DOMAIN delivered :
       delivered[m] = Whole(m)

(* The buffer the next frame goes to holds the frames of the message being *)
(* read, and nothing else, when a protocol is about to be allocated.       *)
BufferIsCurrent ==
  reader = "alloc" /\ mCurrentMessage # None =>
    LET next == Len(delivered) + 1
    IN  \A i \in DOMAIN mCurrentMessage.parts :
          /\ mCurrentMessage.parts[i].message = next
          /\ mCurrentMessage.parts[i].part = i
          /\ ~mCurrentMessage.parts[i].last

(* What the two callbacks are given is a stream of whole messages that may *)
(* be cut off: the steps of allocating, decoding and resetting do not show. *)
Stream == INSTANCE MessageStream WITH sent <- [m \in DOMAIN sent |-> Whole(m)]
StreamSpec == Stream!FairSpec
=============================================================================
