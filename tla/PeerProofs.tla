------------------------------- MODULE PeerProofs -------------------------------
(***************************************************************************)
(* What holds of WebsocketPeer for any number of messages and frames; that *)
(* it implements the safety part of MessageStream.                         *)
(***************************************************************************)
EXTENDS WebsocketPeer, TLAPS, SequenceTheorems

(* The p-th frame the client made of its m-th message.                     *)
FrameAt(m, p) ==
  [message |-> m, part |-> p, kind |-> sent[m].kind, last |-> p = sent[m].frames]

IsFrame(f) ==
  /\ f.message \in DOMAIN sent
  /\ f.part \in 1..sent[f.message].frames
  /\ f = FrameAt(f.message, f.part)

(* Frame g is the one after part p of message m; last: p was its last.     *)
Follows(m, p, last, g) ==
  IF last THEN g.message = m + 1 /\ g.part = 1
          ELSE g.message = m /\ g.part = p + 1

(* The message being read, and what of it is in the buffer.                *)
Current == IF reader = "reset" THEN Len(delivered) ELSE Len(delivered) + 1

Parts == IF mCurrentMessage = None THEN <<>> ELSE mCurrentMessage.parts

Complete == mCurrentMessage # None /\ mCurrentMessage.complete

BufferInv ==
  /\ \A i \in DOMAIN Parts :
       /\ Current \in DOMAIN sent /\ i \in 1..sent[Current].frames
       /\ Parts[i] = FrameAt(Current, i)
  /\ Complete <=> Parts # <<>> /\ Len(Parts) = sent[Current].frames
  /\ mCurrentMessage # None =>
       mCurrentMessage.kind = IF Parts = <<>> THEN "unknown" ELSE sent[Current].kind

(* The buffer is there from the allocation to the reset, and complete only *)
(* between the message's last frame and the reset.                         *)
ReaderInv ==
  /\ reader # "alloc" => mCurrentMessage # None
  /\ reader = "reset" => Complete
  /\ Complete => reader = "reset" \/ (reader = "received" /\ packet = "message")

(* The frame before the stream's first.                                    *)
BeforeMessage == IF Parts = <<>> THEN Len(delivered) ELSE Current
BeforeLast == Parts = <<>> \/ Complete

(* The stream goes on where the buffer ends, without a gap.                *)
StreamInv ==
  /\ \A i \in DOMAIN stream : IsFrame(stream[i]) \/ (i = 1 /\ stream[i] = Request)
  /\ \A i, j \in DOMAIN stream : j = i + 1 =>
       Follows(stream[i].message, stream[i].part, stream[i].last, stream[j])
  /\ stream # <<>> =>
       IF stream[1] = Request
       THEN delivered = <<>> /\ Parts = <<>> /\ reader \in {"alloc", "decode"}
       ELSE Follows(BeforeMessage, Len(Parts), BeforeLast, stream[1])

(* As long as the connection lasts it ends with the last message sent.     *)
EndInv == connected =>
  IF stream = <<>>
  THEN BeforeMessage = Len(sent) /\ BeforeLast
  ELSE stream[Len(stream)].message = Len(sent) /\ stream[Len(stream)].last

Inv == BufferInv /\ ReaderInv /\ StreamInv /\ EndInv /\ DeliversWholeMessages

IInv == TypeOK /\ Inv
-----------------------------------------------------------------------------
(***************************************************************************)
(* Sequences.                                                              *)
(***************************************************************************)
LEMMA SeqFacts ==
  ASSUME NEW S, NEW s \in Seq(S)
  PROVE  /\ Len(s) \in Nat /\ DOMAIN s = 1..Len(s)
         /\ \A i \in DOMAIN s : s[i] \in S
         /\ s = <<>> <=> Len(s) = 0
BY EmptySeq, LenProperties, ElementOfSeq

LEMMA AppendFacts ==
  ASSUME NEW S, NEW s \in Seq(S), NEW e \in S
  PROVE  /\ Append(s, e) \in Seq(S) /\ Append(s, e) # <<>>
         /\ Len(s) \in Nat /\ Len(Append(s, e)) = Len(s) + 1
         /\ DOMAIN Append(s, e) = DOMAIN s \cup {Len(s) + 1}
         /\ \A i \in DOMAIN s : Append(s, e)[i] = s[i]
         /\ Append(s, e)[Len(s) + 1] = e
OBVIOUS

LEMMA TailFacts ==
  ASSUME NEW S, NEW s \in Seq(S), s # <<>>
  PROVE  /\ Head(s) \in S /\ Head(s) = s[1] /\ 1 \in DOMAIN s
         /\ Tail(s) \in Seq(S) /\ Len(Tail(s)) = Len(s) - 1
         /\ DOMAIN Tail(s) = 1..Len(s) - 1
         /\ \A i \in 1..Len(s) - 1 : Tail(s)[i] = s[i + 1]
         /\ Tail(s) = <<>> <=> Len(s) = 1
<1>1. Len(s) \in Nat \ {0} /\ DOMAIN s = 1..Len(s)
  BY SeqFacts
<1>2. /\ Head(s) \in S /\ Tail(s) \in Seq(S) /\ Len(Tail(s)) = Len(s) - 1
      /\ \A i \in 1..Len(Tail(s)) : Tail(s)[i] = s[i + 1]
  BY HeadTailProperties
<1>3. Head(s) = s[1]
  OBVIOUS
<1>4. DOMAIN Tail(s) = 1..Len(Tail(s)) /\ (Tail(s) = <<>> <=> Len(Tail(s)) = 0)
  BY <1>2, SeqFacts
<1> QED
  BY <1>1, <1>2, <1>3, <1>4

LEMMA PrefixFacts ==
  ASSUME NEW S, NEW s \in Seq(S), NEW n \in 0..Len(s)
  PROVE  /\ SubSeq(s, 1, n) \in Seq(S) /\ Len(SubSeq(s, 1, n)) = n
         /\ DOMAIN SubSeq(s, 1, n) = 1..n /\ 1..n \subseteq DOMAIN s
         /\ \A i \in 1..n : SubSeq(s, 1, n)[i] = s[i]
<1>1. Len(s) \in Nat /\ DOMAIN s = 1..Len(s)
  BY SeqFacts
<1> QED
  BY <1>1

LEMMA ConcatFacts ==
  ASSUME NEW S, NEW s \in Seq(S), NEW t \in Seq(S)
  PROVE  /\ s \o t \in Seq(S) /\ Len(s \o t) = Len(s) + Len(t)
         /\ Len(s) \in Nat /\ Len(t) \in Nat
         /\ DOMAIN (s \o t) = 1..(Len(s) + Len(t))
         /\ \A i \in 1..Len(s) : (s \o t)[i] = s[i]
         /\ \A i \in 1..Len(t) : (s \o t)[Len(s) + i] = t[i]
<1>1. /\ s \o t \in Seq(S) /\ Len(s \o t) = Len(s) + Len(t)
      /\ \A i \in 1..Len(s) + Len(t) :
           (s \o t)[i] = IF i <= Len(s) THEN s[i] ELSE t[i - Len(s)]
  BY ConcatProperties
<1>2. Len(s) \in Nat /\ Len(t) \in Nat /\ DOMAIN (s \o t) = 1..Len(s \o t)
  BY <1>1, SeqFacts
<1> HIDE DEF SeqFacts
<1>3. ASSUME NEW i \in 1..Len(t) PROVE (s \o t)[Len(s) + i] = t[i]
  <2>1. Len(s) + i \in 1..Len(s) + Len(t) /\ ~(Len(s) + i <= Len(s)) /\ Len(s) + i - Len(s) = i
    BY <1>2
  <2> QED
    BY <1>1, <2>1
<1>4. ASSUME NEW i \in 1..Len(s) PROVE (s \o t)[i] = s[i]
  BY <1>1, <1>2
<1> QED
  BY <1>1, <1>2, <1>3, <1>4
-----------------------------------------------------------------------------
(***************************************************************************)
(* Types.                                                                  *)
(***************************************************************************)
Message == [kind : Kinds, frames : 1..MaxFrames]

LEMMA FramesType ==
  ASSUME NEW m \in 1..MaxMessages, NEW kind \in Kinds, NEW n \in 1..MaxFrames
  PROVE  /\ FramesOf(m, kind, n) \in Seq(Frame) /\ Len(FramesOf(m, kind, n)) = n
         /\ \A p \in 1..n : FramesOf(m, kind, n)[p] =
              [message |-> m, part |-> p, kind |-> kind, last |-> p = n]
<1>1. n \in Nat /\ 1..n \subseteq 1..MaxFrames
  BY BoundsAssumption
<1>2. \A p \in 1..n : [message |-> m, part |-> p, kind |-> kind, last |-> p = n] \in Frame
  BY <1>1 DEF Frame
<1>3. FramesOf(m, kind, n) = [p \in 1..n |->
        [message |-> m, part |-> p, kind |-> kind, last |-> p = n]]
  BY DEF FramesOf
<1> HIDE DEF FramesOf
<1> QED
  BY <1>1, <1>2, <1>3, SMTT(30)

LEMMA NoneIsNoBuffer == None \notin Buffer
BY DEF None, Buffer, Kinds

(* What the decoder makes of the buffer. *)
Extended(b, f) ==
  [kind |-> IF b.kind = "unknown" THEN f.kind ELSE b.kind,
   parts |-> Append(b.parts, f),
   complete |-> f.last]

LEMMA BufferExtended ==
  ASSUME NEW b \in Buffer, NEW f \in Frame
  PROVE  /\ Extended(b, f) \in Buffer
         /\ [b EXCEPT !.kind = IF @ = "unknown" THEN f.kind ELSE @,
                      !.parts = Append(@, f),
                      !.complete = f.last] = Extended(b, f)
<1>1. /\ b = [kind |-> b.kind, parts |-> b.parts, complete |-> b.complete]
      /\ b.kind \in Kinds \cup {"unknown"} /\ b.parts \in Seq(Frame)
  BY DEF Buffer
<1>2. f.kind \in Kinds /\ f.last \in BOOLEAN
  BY DEF Frame
<1>3. Append(b.parts, f) \in Seq(Frame)
  BY <1>1, AppendFacts
<1>4. Extended(b, f) \in Buffer
  BY <1>1, <1>2, <1>3 DEF Extended, Buffer
<1> DEFINE r == [b EXCEPT !.kind = IF @ = "unknown" THEN f.kind ELSE @,
                         !.parts = Append(@, f),
                         !.complete = f.last]
<1>5. /\ DOMAIN r = {"kind", "parts", "complete"}
      /\ r.kind = IF b.kind = "unknown" THEN f.kind ELSE b.kind
      /\ r.parts = Append(b.parts, f) /\ r.complete = f.last
  BY <1>1
<1>6. r = [field \in DOMAIN r |-> r[field]]
  OBVIOUS
<1> HIDE DEF r
<1>7. r = Extended(b, f)
  BY <1>5, <1>6 DEF Extended
<1> QED
  BY <1>4, <1>7 DEF r

LEMMA TypeStep == TypeOK /\ ReaderInv /\ [Next]_vars => TypeOK'
<1> SUFFICES ASSUME TypeOK, ReaderInv, [Next]_vars PROVE TypeOK'
  OBVIOUS
<1>1. ASSUME NEW kind \in Kinds, NEW n \in 1..MaxFrames, SendMessage(kind, n) PROVE TypeOK'
  <2> DEFINE m == Len(sent) + 1
             F == FramesOf(m, kind, n)
  <2>1. m \in 1..MaxMessages
    <3>1. Len(sent) \in Nat
      BY SeqFacts DEF TypeOK
    <3> QED
      BY <1>1, <3>1, BoundsAssumption DEF SendMessage
  <2>2. F \in Seq(Frame \cup {Request})
    <3>1. F \in Seq(Frame)
      BY <2>1, FramesType
    <3> HIDE DEF F
    <3> QED
      BY <3>1
  <2>3. sent' \in Seq([kind : Kinds, frames : 1..MaxFrames])
    BY <1>1 DEF TypeOK, SendMessage
  <2>4. stream' = stream \o F /\ stream \in Seq(Frame \cup {Request})
    BY <1>1 DEF TypeOK, SendMessage
  <2> HIDE DEF F, m
  <2>5. stream' \in Seq(Frame \cup {Request})
    BY <2>2, <2>4, ConcatFacts
  <2> QED
    BY <1>1, <2>3, <2>5 DEF TypeOK, SendMessage
<1>2. CASE Disconnect
  <2>1. PICK n \in 0..Len(stream) : stream' = SubSeq(stream, 1, n)
    BY <1>2 DEF Disconnect
  <2>2. stream' \in Seq(Frame \cup {Request})
    BY <2>1, PrefixFacts DEF TypeOK
  <2> QED
    BY <1>2, <2>2 DEF TypeOK, Disconnect
<1>3. CASE AllocProtocol
  <2>1. NewBuffer \in Buffer
    BY EmptySeq DEF NewBuffer, Buffer
  <2> QED
    BY <1>3, <2>1 DEF TypeOK, AllocProtocol
<1>4. CASE DecodeRequest
  BY <1>4, TailFacts DEF TypeOK, DecodeRequest
<1>5. ASSUME DecodeFrame, mCurrentMessage # None PROVE TypeOK'
  <2>1. Head(stream) \in Frame /\ Tail(stream) \in Seq(Frame \cup {Request})
    BY <1>5, TailFacts DEF TypeOK, DecodeFrame
  <2>2. mCurrentMessage \in Buffer
    BY <1>5 DEF TypeOK
  <2>3. mCurrentMessage' \in Buffer
    BY <1>5, <2>1, <2>2, BufferExtended DEF DecodeFrame
  <2> QED
    BY <1>5, <2>1, <2>3 DEF TypeOK, DecodeFrame
<1>6. CASE ReturnEarly
  BY <1>6 DEF TypeOK, ReturnEarly
<1>7. ASSUME NEW kind \in Kinds, Deliver(kind), mCurrentMessage # None PROVE TypeOK'
  <2>1. [kind |-> kind, parts |-> mCurrentMessage.parts] \in [kind : Kinds, parts : Seq(Frame)]
    BY <1>7 DEF TypeOK, Buffer
  <2> QED
    BY <1>7, <2>1, AppendFacts DEF TypeOK, Deliver
<1>8. CASE ResetCurrentMessage
  BY <1>8 DEF TypeOK, ResetCurrentMessage
<1>9. CASE UNCHANGED vars
  BY <1>9 DEF TypeOK, vars
<1> QED
  BY <1>1, <1>2, <1>3, <1>4, <1>5, <1>6, <1>7, <1>8, <1>9
     DEF Next, ReadNext, ReaderInv, DecodeFrame, Deliver, OnCompleteText, OnCompleteBinary, Kinds
-----------------------------------------------------------------------------
(***************************************************************************)
(* The inductive step, action by action.                                   *)
(***************************************************************************)
(* The buffer's parts, typed.                                              *)
LEMMA PartsType ==
  ASSUME TypeOK
  PROVE  /\ Parts \in Seq(Frame) /\ Len(Parts) \in Nat /\ DOMAIN Parts = 1..Len(Parts)
         /\ Parts = <<>> <=> Len(Parts) = 0
         /\ mCurrentMessage # None => mCurrentMessage \in Buffer
         /\ Len(delivered) \in Nat /\ Len(sent) \in Nat
         /\ DOMAIN sent = 1..Len(sent) /\ DOMAIN delivered = 1..Len(delivered)
         /\ Len(stream) \in Nat /\ DOMAIN stream = 1..Len(stream)
         /\ stream = <<>> <=> Len(stream) = 0
         /\ \A m \in DOMAIN sent : sent[m].frames \in Nat \ {0} /\ sent[m].kind \in Kinds
<1>1. mCurrentMessage # None => mCurrentMessage \in Buffer
  BY DEF TypeOK
<1>2. Parts \in Seq(Frame)
  BY <1>1, EmptySeq DEF Parts, Buffer
<1>3. \A m \in DOMAIN sent : sent[m] \in [kind : Kinds, frames : 1..MaxFrames]
  BY SeqFacts DEF TypeOK
<1>4. \A m \in DOMAIN sent : sent[m].frames \in Nat \ {0} /\ sent[m].kind \in Kinds
  BY <1>3, BoundsAssumption
<1> HIDE DEF Parts
<1>5. /\ Len(delivered) \in Nat /\ Len(sent) \in Nat
      /\ DOMAIN sent = 1..Len(sent) /\ DOMAIN delivered = 1..Len(delivered)
      /\ Len(stream) \in Nat /\ DOMAIN stream = 1..Len(stream)
      /\ stream = <<>> <=> Len(stream) = 0
  BY SeqFacts DEF TypeOK
<1> QED
  BY <1>1, <1>2, <1>4, <1>5, SeqFacts

LEMMA FramesAreFrames ==
  ASSUME TypeOK, NEW f, IsFrame(f)
  PROVE  /\ f # Request
         /\ f.kind = sent[f.message].kind /\ f.last = (f.part = sent[f.message].frames)
<1>1. f.message # 0
  BY PartsType DEF IsFrame
<1>2. f.last = (f.part = sent[f.message].frames) /\ f.kind = sent[f.message].kind
  BY DEF IsFrame, FrameAt
<1> QED
  BY <1>1, <1>2 DEF Request

(* Nothing but the reader's place, or nothing at all, changes.             *)
LEMMA AllocStep ==
  ASSUME TypeOK, Inv, AllocProtocol
  PROVE  Inv'
<1>1. /\ reader = "alloc" /\ reader' = "decode" /\ mCurrentMessage' # None
      /\ UNCHANGED <<sent, stream, connected, packet, delivered>>
  BY NoneIsNoBuffer DEF AllocProtocol, NewBuffer, None
<1>2. /\ Parts' = Parts /\ Complete' = Complete /\ ~Complete /\ Current' = Current
      /\ BeforeMessage' = BeforeMessage /\ BeforeLast' = BeforeLast
  BY <1>1 DEF AllocProtocol, Parts, NewBuffer, None, Complete, Current, Inv, ReaderInv,
     BeforeMessage, BeforeLast
<1>3. mCurrentMessage'.kind = IF Parts = <<>> THEN "unknown" ELSE sent[Current].kind
  BY <1>1 DEF AllocProtocol, NewBuffer, Parts, Inv, BufferInv
<1>4. BufferInv' /\ ReaderInv'
  BY <1>1, <1>2, <1>3 DEF Inv, BufferInv, ReaderInv, FrameAt
<1>5. StreamInv' /\ EndInv'
  BY <1>1, <1>2 DEF Inv, StreamInv, EndInv, IsFrame, FrameAt, Follows
<1>6. DeliversWholeMessages'
  BY <1>1 DEF Inv, DeliversWholeMessages, Whole
<1> QED
  BY <1>4, <1>5, <1>6 DEF Inv

LEMMA ReturnStep ==
  ASSUME TypeOK, Inv, ReturnEarly
  PROVE  Inv'
<1>1. /\ reader = "received" /\ reader' = "alloc"
      /\ UNCHANGED <<sent, stream, connected, mCurrentMessage, packet, delivered>>
  BY DEF ReturnEarly
<1>2. ~Complete
  <2>1. ASSUME Complete PROVE FALSE
    <3>1. mCurrentMessage.kind \in Kinds /\ mCurrentMessage.complete /\ packet = "message"
      BY <1>1, <2>1, PartsType DEF Inv, BufferInv, ReaderInv, Complete
    <3> QED
      BY <3>1 DEF ReturnEarly, IsComplete
  <2> QED
    BY <2>1
<1>3. /\ Parts' = Parts /\ Complete' = Complete /\ Current' = Current
      /\ BeforeMessage' = BeforeMessage /\ BeforeLast' = BeforeLast
  BY <1>1 DEF Parts, Complete, Current, BeforeMessage, BeforeLast
<1>4. BufferInv' /\ ReaderInv'
  BY <1>1, <1>2, <1>3 DEF Inv, BufferInv, ReaderInv, FrameAt
<1>5. StreamInv' /\ EndInv'
  BY <1>1, <1>3 DEF Inv, StreamInv, EndInv, IsFrame, FrameAt, Follows
<1>6. DeliversWholeMessages'
  BY <1>1 DEF Inv, DeliversWholeMessages, Whole
<1> QED
  BY <1>4, <1>5, <1>6 DEF Inv

(* What is left of the stream once its first element is taken.             *)
LEMMA StreamTail ==
  ASSUME TypeOK, StreamInv, stream # <<>>, stream' = Tail(stream), sent' = sent
  PROVE  /\ stream' = <<>> <=> Len(stream) = 1
         /\ stream' # <<>> => /\ stream'[Len(stream')] = stream[Len(stream)]
                             /\ 2 \in DOMAIN stream /\ stream'[1] = stream[2]
         /\ (\A i \in DOMAIN stream : IsFrame(stream[i]))'
         /\ \A i, j \in DOMAIN stream' : j = i + 1 =>
              Follows(stream'[i].message, stream'[i].part, stream'[i].last, stream'[j])
<1>1. /\ DOMAIN stream' = 1..Len(stream) - 1 /\ Len(stream') = Len(stream) - 1
      /\ \A i \in DOMAIN stream' : stream'[i] = stream[i + 1]
      /\ stream' = <<>> <=> Len(stream) = 1
      /\ DOMAIN stream = 1..Len(stream) /\ Len(stream) \in Nat \ {0}
  BY TailFacts, PartsType DEF TypeOK
<1>2. \A i \in DOMAIN stream' : IsFrame(stream'[i])
  <2>1. \A i \in DOMAIN stream' : i + 1 \in DOMAIN stream /\ i + 1 # 1
    BY <1>1
  <2> QED
    BY <1>1, <2>1 DEF StreamInv
<1>3. (\A i \in DOMAIN stream : IsFrame(stream[i]))'
  BY <1>2 DEF IsFrame, FrameAt
<1>4. \A i, j \in DOMAIN stream' : j = i + 1 =>
        Follows(stream'[i].message, stream'[i].part, stream'[i].last, stream'[j])
  BY <1>1 DEF StreamInv
<1>5. stream' # <<>> => /\ stream'[Len(stream')] = stream[Len(stream)]
                       /\ 2 \in DOMAIN stream /\ stream'[1] = stream[2]
  BY <1>1
<1> QED
  BY <1>1, <1>3, <1>4, <1>5

LEMMA RequestStep ==
  ASSUME TypeOK, Inv, DecodeRequest
  PROVE  Inv'
<1>1. /\ stream # <<>> /\ stream[1] = Request /\ reader = "decode" /\ reader' = "received"
      /\ packet' = "reply"
      /\ stream' = Tail(stream)
      /\ UNCHANGED <<sent, connected, mCurrentMessage, delivered>>
  BY TailFacts DEF DecodeRequest, TypeOK
<1>2. delivered = <<>> /\ Parts = <<>> /\ ~Complete
  BY <1>1 DEF Inv, StreamInv, BufferInv
<1>3. /\ Parts' = Parts /\ Complete' = Complete /\ Current' = Current
      /\ BeforeMessage' = BeforeMessage /\ BeforeLast' = BeforeLast
  BY <1>1 DEF Parts, Complete, Current, BeforeMessage, BeforeLast
<1>4. BufferInv' /\ ReaderInv'
  BY <1>1, <1>2, <1>3 DEF Inv, BufferInv, ReaderInv, FrameAt
<1>5. ASSUME stream' # <<>>
      PROVE  /\ stream'[1] # Request
             /\ Follows(BeforeMessage, Len(Parts), BeforeLast, stream'[1])
  <2>1. 2 \in DOMAIN stream /\ stream'[1] = stream[2]
    BY <1>1, <1>5, StreamTail DEF Inv
  <2>2. Follows(0, 0, TRUE, stream[2])
    BY <1>1, <2>1, PartsType DEF Inv, StreamInv, Request, Follows
  <2>3. IsFrame(stream[2])
    BY <2>1 DEF Inv, StreamInv
  <2> QED
    BY <1>2, <2>1, <2>2, <2>3, FramesAreFrames DEF BeforeMessage, BeforeLast, Follows
<1>8. StreamInv'
  BY <1>1, <1>3, <1>5, StreamTail DEF Inv, StreamInv, Follows
<1>6. EndInv'
  <2>1. CASE stream' = <<>>
    BY <1>1, <1>2, <1>3, <2>1, StreamTail
       DEF Inv, EndInv, Request, BeforeMessage, BeforeLast
  <2>2. CASE stream' # <<>>
    BY <1>1, <2>2, StreamTail DEF Inv, EndInv
  <2> QED
    BY <2>1, <2>2
<1>7. DeliversWholeMessages'
  BY <1>1 DEF Inv, DeliversWholeMessages, Whole
<1> QED
  BY <1>4, <1>8, <1>6, <1>7 DEF Inv

LEMMA FrameStep ==
  ASSUME TypeOK, Inv, DecodeFrame
  PROVE  Inv'
<1> DEFINE f == stream[1]
<1>1. /\ stream # <<>> /\ f # Request /\ reader = "decode" /\ reader' = "received"
      /\ packet' = "message"
      /\ stream' = Tail(stream)
      /\ 1 \in DOMAIN stream
      /\ UNCHANGED <<sent, connected, delivered>>
  BY TailFacts DEF DecodeFrame, TypeOK
<1>2. /\ mCurrentMessage \in Buffer /\ mCurrentMessage # None /\ ~Complete
      /\ Parts = mCurrentMessage.parts
  BY <1>1, PartsType DEF Inv, ReaderInv, Parts
<1>3. IsFrame(f) /\ f \in Frame
  <2>1. IsFrame(f) /\ f \in Frame \cup {Request}
    BY <1>1, SeqFacts DEF Inv, StreamInv, TypeOK
  <2> QED
    BY <1>1, <2>1
<1>4. mCurrentMessage' = Extended(mCurrentMessage, f)
  <2>1. Head(stream) = f
    BY <1>1, TailFacts DEF TypeOK
  <2> QED
    BY <1>2, <1>3, <2>1, BufferExtended DEF DecodeFrame
<1>5. /\ Parts' = Append(Parts, f) /\ (Complete' <=> f.last) /\ Current' = Current
      /\ mCurrentMessage' # None
  <2>1. mCurrentMessage' # None
    BY <1>2, <1>3, <1>4, BufferExtended, NoneIsNoBuffer
  <2>2. Current' = Current
    BY <1>1 DEF Current
  <2> QED
    BY <1>2, <1>4, <2>1, <2>2 DEF Extended, Parts, Complete
<1>6. /\ f.message = Current /\ f.part = Len(Parts) + 1 /\ Current \in DOMAIN sent
      /\ f.part \in 1..sent[Current].frames /\ f = FrameAt(Current, Len(Parts) + 1)
      /\ f.kind = sent[Current].kind /\ f.last = (Len(Parts) + 1 = sent[Current].frames)
  <2>1. Follows(BeforeMessage, Len(Parts), BeforeLast, f)
    BY <1>1 DEF Inv, StreamInv
  <2>2. f.message = Current /\ f.part = Len(Parts) + 1
    BY <1>1, <1>2, <2>1, PartsType DEF Follows, BeforeMessage, BeforeLast, Current
  <2> QED
    BY <1>3, <2>2, FramesAreFrames DEF IsFrame
<1>7. /\ Parts' \in Seq(Frame) /\ Parts' # <<>> /\ Len(Parts') = Len(Parts) + 1
      /\ DOMAIN Parts' = DOMAIN Parts \cup {Len(Parts) + 1}
      /\ \A i \in DOMAIN Parts : Parts'[i] = Parts[i]
      /\ Parts'[Len(Parts) + 1] = f
  BY <1>3, <1>5, PartsType, AppendFacts
<1> HIDE DEF f
<1>8. BufferInv'
  <2>1. (\A i \in DOMAIN Parts :
          /\ Current \in DOMAIN sent /\ i \in 1..sent[Current].frames
          /\ Parts[i] = FrameAt(Current, i))'
    BY <1>1, <1>5, <1>6, <1>7 DEF Inv, BufferInv, FrameAt
  <2>2. mCurrentMessage'.kind = sent[Current].kind
    <3>1. mCurrentMessage'.kind =
            IF mCurrentMessage.kind = "unknown" THEN f.kind ELSE mCurrentMessage.kind
      BY <1>4 DEF Extended
    <3> QED
      BY <1>2, <1>6, <3>1 DEF Inv, BufferInv
  <2>3. Complete' <=> Len(Parts') = sent[Current].frames
    BY <1>5, <1>6, <1>7
  <2> QED
    BY <1>1, <1>5, <1>7, <2>1, <2>2, <2>3 DEF BufferInv
<1>9. ReaderInv'
  BY <1>1, <1>5 DEF ReaderInv
<1>10. /\ BeforeMessage' = f.message /\ (BeforeLast' <=> f.last) /\ Len(Parts') = f.part
  BY <1>5, <1>6, <1>7 DEF BeforeMessage, BeforeLast
<1>11. ASSUME stream' # <<>>
       PROVE  /\ stream'[1] # Request
              /\ Follows(f.message, f.part, f.last, stream'[1])
  <2>1. 2 \in DOMAIN stream /\ stream'[1] = stream[2]
    BY <1>1, <1>11, StreamTail DEF Inv
  <2>2. Follows(f.message, f.part, f.last, stream[2])
    BY <1>1, <2>1 DEF Inv, StreamInv, f
  <2>3. IsFrame(stream[2])
    BY <2>1 DEF Inv, StreamInv
  <2> QED
    BY <2>1, <2>2, <2>3, FramesAreFrames
<1>12. StreamInv'
  BY <1>1, <1>10, <1>11, StreamTail DEF Inv, StreamInv, Follows
<1>13. EndInv'
  <2>1. CASE stream' = <<>>
    BY <1>1, <1>10, <2>1, StreamTail DEF Inv, EndInv, f
  <2>2. CASE stream' # <<>>
    BY <1>1, <2>2, StreamTail DEF Inv, EndInv
  <2> QED
    BY <2>1, <2>2
<1>14. DeliversWholeMessages'
  BY <1>1 DEF Inv, DeliversWholeMessages, Whole
<1> QED
  BY <1>8, <1>9, <1>12, <1>13, <1>14 DEF Inv

(* What is in a complete buffer is the current message, whole.             *)
LEMMA CompleteIsWhole ==
  ASSUME TypeOK, Inv, Complete
  PROVE  /\ Parts # <<>> /\ Current \in DOMAIN sent
         /\ mCurrentMessage.kind = sent[Current].kind
         /\ mCurrentMessage.parts = FramesOf(Current, sent[Current].kind, sent[Current].frames)
<1> DEFINE n == sent[Current].frames
           F == FramesOf(Current, sent[Current].kind, n)
<1>1. Parts # <<>> /\ Len(Parts) = n /\ Parts = mCurrentMessage.parts /\ mCurrentMessage # None
  BY DEF Inv, BufferInv, Complete, Parts
<1>2. Current \in DOMAIN sent
  <2>1. 1 \in DOMAIN Parts
    BY <1>1, PartsType
  <2> QED
    BY <2>1 DEF Inv, BufferInv
<1>3. \A i \in 1..n : Parts[i] = F[i]
  BY <1>1, PartsType DEF Inv, BufferInv, FrameAt, FramesOf
<1>4. F = [i \in 1..n |-> F[i]]
  BY DEF FramesOf
<1>5. n \in Nat
  BY <1>2, PartsType
<1> HIDE DEF n, F
<1>6. Parts = F
  <2>1. Parts \in Seq(Frame) /\ Len(Parts) = n
    BY <1>1, PartsType
  <2> HIDE DEF Parts
  <2>2. Parts = [i \in 1..n |-> Parts[i]]
    BY <1>5, <2>1
  <2> QED
    BY <1>3, <1>4, <2>2, Zenon
<1>7. mCurrentMessage.kind = sent[Current].kind
  BY <1>1 DEF Inv, BufferInv
<1> QED
  BY <1>1, <1>2, <1>6, <1>7 DEF F, n

LEMMA DeliverStep ==
  ASSUME TypeOK, Inv, NEW kind \in Kinds, Deliver(kind)
  PROVE  Inv'
<1> DEFINE d == [kind |-> kind, parts |-> mCurrentMessage.parts]
<1>1. /\ reader = "received" /\ reader' = "reset" /\ packet = "message"
      /\ mCurrentMessage.kind = kind
      /\ delivered' = Append(delivered, d)
      /\ UNCHANGED <<sent, stream, connected, mCurrentMessage, packet>>
  BY DEF Deliver, IsComplete
<1>2. Complete
  BY <1>1 DEF Deliver, IsComplete, Complete, Inv, ReaderInv
<1>3. /\ Parts # <<>> /\ Current \in DOMAIN sent /\ d = Whole(Current)
      /\ Current = Len(delivered) + 1
  BY <1>1, <1>2, CompleteIsWhole DEF Whole, Current
<1>4. /\ Len(delivered') = Len(delivered) + 1
      /\ DOMAIN delivered' = DOMAIN delivered \cup {Len(delivered) + 1}
      /\ \A i \in DOMAIN delivered : delivered'[i] = delivered[i]
      /\ delivered'[Len(delivered) + 1] = d
  <2>1. d \in [kind : Kinds, parts : Seq(Frame)]
    BY <1>1, PartsType DEF Inv, ReaderInv, Buffer
  <2>2. delivered \in Seq([kind : Kinds, parts : Seq(Frame)])
    BY DEF TypeOK
  <2> HIDE DEF d
  <2> QED
    BY <1>1, <2>1, <2>2, AppendFacts
<1> HIDE DEF d
<1>5. /\ Parts' = Parts /\ Complete' = Complete /\ Current' = Current
      /\ BeforeMessage' = BeforeMessage /\ BeforeLast' = BeforeLast
  BY <1>1, <1>3, <1>4 DEF Parts, Complete, Current, BeforeMessage, BeforeLast
<1>6. BufferInv' /\ ReaderInv'
  BY <1>1, <1>2, <1>5 DEF Inv, BufferInv, ReaderInv, FrameAt
<1>7. StreamInv' /\ EndInv'
  BY <1>1, <1>3, <1>5 DEF Inv, StreamInv, EndInv, IsFrame, FrameAt, Follows
<1>8. DeliversWholeMessages'
  <2>1. \A m \in DOMAIN delivered : delivered'[m] = Whole(m)
    BY <1>4 DEF Inv, DeliversWholeMessages
  <2>2. \A m \in DOMAIN delivered' : delivered'[m] = Whole(m)
    BY <1>3, <1>4, <2>1
  <2>3. Len(delivered') <= Len(sent)
    BY <1>3, <1>4, PartsType
  <2> QED
    BY <1>1, <2>2, <2>3 DEF DeliversWholeMessages, Whole
<1> QED
  BY <1>6, <1>7, <1>8 DEF Inv

LEMMA ResetStep ==
  ASSUME TypeOK, Inv, ResetCurrentMessage
  PROVE  Inv'
<1>1. /\ reader = "reset" /\ reader' = "alloc" /\ mCurrentMessage' = None
      /\ UNCHANGED <<sent, stream, connected, packet, delivered>>
  BY DEF ResetCurrentMessage
<1>2. Complete /\ Parts # <<>> /\ Current = Len(delivered)
  BY <1>1, CompleteIsWhole DEF Inv, ReaderInv, Current
<1>3. /\ Parts' = <<>> /\ ~Complete'
      /\ BeforeMessage' = BeforeMessage /\ BeforeLast' /\ BeforeLast
  BY <1>1, <1>2 DEF Parts, Complete, BeforeMessage, BeforeLast
<1>4. BufferInv' /\ ReaderInv'
  BY <1>1, <1>3 DEF BufferInv, ReaderInv
<1>5. StreamInv' /\ EndInv'
  BY <1>1, <1>2, <1>3 DEF Inv, StreamInv, EndInv, IsFrame, FrameAt, Follows
<1>6. DeliversWholeMessages'
  BY <1>1 DEF Inv, DeliversWholeMessages, Whole
<1> QED
  BY <1>4, <1>5, <1>6 DEF Inv

LEMMA DisconnectStep ==
  ASSUME TypeOK, Inv, Disconnect
  PROVE  Inv'
<1>1. PICK n \in 0..Len(stream) : stream' = SubSeq(stream, 1, n)
  BY DEF Disconnect
<1>2. /\ connected' = FALSE
      /\ UNCHANGED <<sent, reader, mCurrentMessage, packet, delivered>>
  BY DEF Disconnect
<1>3. /\ DOMAIN stream' = 1..n /\ 1..n \subseteq DOMAIN stream /\ Len(stream') = n
      /\ \A i \in 1..n : stream'[i] = stream[i]
      /\ stream' # <<>> => 1 \in 1..n /\ stream # <<>>
  <2>1. /\ DOMAIN stream' = 1..n /\ 1..n \subseteq DOMAIN stream /\ Len(stream') = n
        /\ \A i \in 1..n : stream'[i] = stream[i]
        /\ stream' \in Seq(Frame \cup {Request})
    BY <1>1, PrefixFacts DEF TypeOK
  <2>2. stream' # <<>> => n # 0
    BY <2>1, SeqFacts
  <2> QED
    BY <2>1, <2>2, PartsType
<1>4. /\ Parts' = Parts /\ Complete' = Complete /\ Current' = Current
      /\ BeforeMessage' = BeforeMessage /\ BeforeLast' = BeforeLast
  BY <1>2 DEF Parts, Complete, Current, BeforeMessage, BeforeLast
<1>5. BufferInv' /\ ReaderInv' /\ EndInv'
  BY <1>2, <1>4 DEF Inv, BufferInv, ReaderInv, FrameAt, EndInv
<1>6. StreamInv'
  BY <1>2, <1>3, <1>4 DEF Inv, StreamInv, IsFrame, FrameAt, Follows
<1>7. DeliversWholeMessages'
  BY <1>2 DEF Inv, DeliversWholeMessages, Whole
<1> QED
  BY <1>5, <1>6, <1>7 DEF Inv

LEMMA SendStep ==
  ASSUME TypeOK, Inv, NEW kind \in Kinds, NEW n \in 1..MaxFrames, SendMessage(kind, n)
  PROVE  Inv'
<1> DEFINE m == Len(sent) + 1
           r == [kind |-> kind, frames |-> n]
           F == FramesOf(m, kind, n)
<1>1. /\ connected /\ sent' = Append(sent, r) /\ stream' = stream \o F
      /\ UNCHANGED <<connected, reader, mCurrentMessage, packet, delivered>>
  BY DEF SendMessage
<1>2. m \in 1..MaxMessages /\ n \in Nat \ {0}
  BY PartsType, BoundsAssumption DEF SendMessage
<1>3. /\ F \in Seq(Frame \cup {Request}) /\ Len(F) = n
      /\ \A p \in 1..n : F[p] = [message |-> m, part |-> p, kind |-> kind, last |-> p = n]
  <2>1. /\ F \in Seq(Frame) /\ Len(F) = n
        /\ \A p \in 1..n : F[p] = [message |-> m, part |-> p, kind |-> kind, last |-> p = n]
    BY <1>2, FramesType
  <2> HIDE DEF F
  <2> QED
    BY <2>1
<1>4. /\ Len(sent') = m /\ DOMAIN sent' = DOMAIN sent \cup {m} /\ m \notin DOMAIN sent
      /\ \A i \in DOMAIN sent : sent'[i] = sent[i]
      /\ sent'[m].kind = kind /\ sent'[m].frames = n
  <2>1. r \in [kind : Kinds, frames : 1..MaxFrames] /\ r.kind = kind /\ r.frames = n
    OBVIOUS
  <2> HIDE DEF r
  <2> QED
    BY <1>1, <2>1, AppendFacts, PartsType DEF TypeOK
<1> HIDE DEF F, r, m
<1>5. /\ Parts' = Parts /\ Complete' = Complete /\ Current' = Current
      /\ BeforeMessage' = BeforeMessage /\ BeforeLast' = BeforeLast
  BY <1>1 DEF Parts, Complete, Current, BeforeMessage, BeforeLast
<1>6. Parts # <<>> => Current \in DOMAIN sent
  <2>1. Parts # <<>> => 1 \in DOMAIN Parts
    BY PartsType
  <2> QED
    BY <2>1 DEF Inv, BufferInv
<1>7. BufferInv' /\ ReaderInv'
  BY <1>1, <1>4, <1>5, <1>6 DEF Inv, BufferInv, ReaderInv, FrameAt
<1>8. DeliversWholeMessages'
  <2>1. \A i \in DOMAIN delivered : i \in DOMAIN sent
    BY PartsType DEF Inv, DeliversWholeMessages
  <2>2. Len(delivered) <= m
    BY PartsType DEF Inv, DeliversWholeMessages, m
  <2> QED
    BY <1>1, <1>4, <2>1, <2>2 DEF Inv, DeliversWholeMessages, Whole
(* The stream, and its junction with the new message. *)
<1>9. /\ Len(stream) \in Nat
      /\ DOMAIN stream' = 1..(Len(stream) + n) /\ Len(stream') = Len(stream) + n
      /\ \A i \in 1..Len(stream) : i \in DOMAIN stream /\ stream'[i] = stream[i]
      /\ \A p \in 1..n : stream'[Len(stream) + p] = F[p]
  <2>1. stream \in Seq(Frame \cup {Request})
    BY DEF TypeOK
  <2>2. F \in Seq(Frame \cup {Request})
    BY <1>3
  <2>3. /\ Len(stream \o F) = Len(stream) + Len(F) /\ Len(stream) \in Nat
        /\ DOMAIN (stream \o F) = 1..(Len(stream) + Len(F))
        /\ \A i \in 1..Len(stream) : (stream \o F)[i] = stream[i]
        /\ \A p \in 1..Len(F) : (stream \o F)[Len(stream) + p] = F[p]
    BY <2>1, <2>2, ConcatFacts
  <2> QED
    BY <1>1, <1>3, <2>3, PartsType
<1>10. \A f : IsFrame(f) => IsFrame(f)'
  BY <1>4 DEF IsFrame, FrameAt
<1>11. \A p \in 1..n : /\ F[p] # Request /\ F[p].message = m
                       /\ F[p].part = p /\ F[p].last = (p = n)
  BY <1>2, <1>3 DEF Request
<1>12. \A p \in 1..n : \E f : f = F[p] /\ IsFrame(f)'
  <2> SUFFICES ASSUME NEW p \in 1..n PROVE \E f : f = F[p] /\ IsFrame(f)'
    OBVIOUS
  <2>1. F[p] = [message |-> m, part |-> p, kind |-> kind, last |-> p = n]
    BY <1>3
  <2>2. PICK f : f = F[p]
    OBVIOUS
  <2>3. /\ f = [message |-> m, part |-> p, kind |-> sent'[m].kind, last |-> p = sent'[m].frames]
        /\ m \in DOMAIN sent' /\ p \in 1..sent'[m].frames
    BY <1>4, <2>1, <2>2
  <2>4. f.message = m /\ f.part = p
    BY <2>3
  <2>5. IsFrame(f)'
    BY <2>3, <2>4 DEF IsFrame, FrameAt
  <2> QED
    BY <2>2, <2>5
<1>13. Len(sent) = m - 1 /\ m \in Nat /\ Len(sent) \in Nat
  BY PartsType DEF m
<1> DEFINE Old(i) == i \in 1..Len(stream) /\ i \in DOMAIN stream /\ stream'[i] = stream[i]
           New(i) == i - Len(stream) \in 1..n /\ stream'[i] = F[i - Len(stream)]
<1>14. \A i \in DOMAIN stream' : i \in Nat /\ (Old(i) \/ New(i))
  <2> SUFFICES ASSUME NEW i \in 1..(Len(stream) + n)
               PROVE  Old(i) \/ New(i)
    BY <1>9
  <2>1. CASE i <= Len(stream)
    BY <1>9, <2>1
  <2>2. CASE ~(i <= Len(stream))
    <3> DEFINE p == i - Len(stream)
    <3>1. p \in 1..n /\ Len(stream) + p = i
      BY <1>2, <1>9, <2>2
    <3> QED
      BY <1>9, <3>1
  <2> QED
    BY <2>1, <2>2
<1>15. (\A i \in DOMAIN stream : IsFrame(stream[i]) \/ (i = 1 /\ stream[i] = Request))'
  <2>1. \A i \in DOMAIN stream : IsFrame(stream[i]) \/ (i = 1 /\ stream[i] = Request)
    BY DEF Inv, StreamInv
  <2>2. \A f : IsFrame(f)' <=> /\ f.message \in DOMAIN sent'
                             /\ f.part \in 1..sent'[f.message].frames
                             /\ f = [message |-> f.message, part |-> f.part,
                                     kind |-> sent'[f.message].kind,
                                     last |-> f.part = sent'[f.message].frames]
    BY DEF IsFrame, FrameAt
  <2>3. \A i \in DOMAIN stream' : \/ i = 1 /\ stream'[i] = Request
                                  \/ /\ stream'[i].message \in DOMAIN sent'
                                     /\ stream'[i].part \in 1..sent'[stream'[i].message].frames
                                     /\ stream'[i] =
                                          [message |-> stream'[i].message, part |-> stream'[i].part,
                                           kind |-> sent'[stream'[i].message].kind,
                                           last |-> stream'[i].part = sent'[stream'[i].message].frames]
    <3>1. ASSUME NEW i \in DOMAIN stream', Old(i)
          PROVE  \/ i = 1 /\ stream'[i] = Request
                 \/ \E f : f = stream'[i] /\ IsFrame(f)'
      BY <1>10, <2>1, <3>1
    <3>2. ASSUME NEW i \in DOMAIN stream', New(i)
          PROVE  \E f : f = stream'[i] /\ IsFrame(f)'
      <4>1. PICK p \in 1..n : p = i - Len(stream)
        BY <3>2
      <4> QED
        BY <1>12, <3>2, <4>1
    <3> QED
      BY <1>14, <2>2, <3>1, <3>2
  <2> QED
    BY <2>3 DEF IsFrame, FrameAt
<1>16. (\A i, j \in DOMAIN stream : j = i + 1 =>
         Follows(stream[i].message, stream[i].part, stream[i].last, stream[j]))'
  <2> SUFFICES ASSUME NEW i \in DOMAIN stream', NEW j \in DOMAIN stream', j = i + 1
               PROVE  Follows(stream'[i].message, stream'[i].part, stream'[i].last, stream'[j])
    OBVIOUS
  <2>1. i \in Nat /\ j \in Nat /\ Len(stream) \in Nat
    BY <1>9, <1>14
  <2>2. CASE Old(i) /\ Old(j)
    BY <2>2 DEF Inv, StreamInv
  <2>3. CASE Old(i) /\ New(j)
    <3>1. i = Len(stream) /\ j - Len(stream) = 1 /\ stream # <<>>
      BY <2>1, <2>3, PartsType
    <3>2. stream'[i].message = Len(sent) /\ stream'[i].last
      BY <1>1, <2>3, <3>1 DEF Inv, EndInv
    <3>3. stream'[j].message = m /\ stream'[j].part = 1
      BY <1>2, <1>11, <2>3, <3>1
    <3> QED
      BY <1>13, <3>2, <3>3 DEF Follows
  <2>4. CASE New(i) /\ New(j)
    <3> DEFINE p == i - Len(stream)
    <3>1. p \in 1..n /\ p + 1 \in 1..n /\ j - Len(stream) = p + 1 /\ p # n
      BY <1>2, <2>1, <2>4
    <3>2. stream'[i] = F[p] /\ stream'[j] = F[p + 1]
      BY <2>4, <3>1
    <3> HIDE DEF p
    <3> QED
      BY <1>11, <3>1, <3>2 DEF Follows
  <2>5. ~(New(i) /\ Old(j))
    BY <1>2, <2>1
  <2> QED
    BY <1>14, <2>2, <2>3, <2>4, <2>5
<1>17. IF stream'[1] = Request
       THEN delivered = <<>> /\ Parts = <<>> /\ reader \in {"alloc", "decode"}
       ELSE Follows(BeforeMessage, Len(Parts), BeforeLast, stream'[1])
  <2>1. CASE stream = <<>>
    <3>1. stream'[1] = F[1] /\ 1 \in 1..n
      BY <1>2, <1>9, <2>1, PartsType
    <3>2. BeforeMessage = Len(sent) /\ BeforeLast
      BY <1>1, <2>1 DEF Inv, EndInv
    <3> QED
      BY <1>11, <1>13, <3>1, <3>2 DEF Follows
  <2>2. CASE stream # <<>>
    <3>1. stream'[1] = stream[1]
      BY <1>9, <2>2, PartsType
    <3> QED
      BY <2>2, <3>1 DEF Inv, StreamInv
  <2> QED
    BY <2>1, <2>2
<1>18. StreamInv'
  BY <1>1, <1>5, <1>15, <1>16, <1>17 DEF StreamInv
<1>19. EndInv'
  <2>1. stream'[Len(stream')] = F[n] /\ n \in 1..n /\ stream' # <<>>
    <3>1. n \in 1..n /\ Len(stream') = Len(stream) + n /\ Len(stream') # 0
      BY <1>2, <1>9
    <3>2. Len(<<>>) = 0
      OBVIOUS
    <3> QED
      BY <1>9, <3>1, <3>2
  <2> QED
    BY <1>4, <1>11, <2>1 DEF EndInv
<1> QED
  BY <1>7, <1>8, <1>18, <1>19 DEF Inv
-----------------------------------------------------------------------------
LEMMA InitIInv == Init => IInv
<1> SUFFICES ASSUME Init PROVE IInv
  OBVIOUS
<1>1. TypeOK
  BY EmptySeq DEF Init, TypeOK
<1>2. /\ Parts = <<>> /\ ~Complete /\ mCurrentMessage = None /\ reader = "alloc"
      /\ DOMAIN Parts = {} /\ BeforeLast
  BY DEF Init, Parts, Complete, BeforeLast
<1>3. BufferInv /\ ReaderInv
  BY <1>2 DEF BufferInv, ReaderInv
<1>4. stream = <<Request>> /\ DOMAIN stream = {1} /\ Len(stream) = 1 /\ stream[1] = Request
  BY DEF Init
<1>5. StreamInv
  BY <1>2, <1>4 DEF Init, StreamInv
<1>6. EndInv
  BY <1>4 DEF Init, EndInv, Request
<1>7. DeliversWholeMessages
  BY DEF Init, DeliversWholeMessages
<1> QED
  BY <1>1, <1>3, <1>5, <1>6, <1>7 DEF IInv, Inv

LEMMA IInvStep == IInv /\ [Next]_vars => IInv'
<1> SUFFICES ASSUME TypeOK, Inv, [Next]_vars PROVE IInv'
  BY DEF IInv
<1>1. TypeOK'
  BY TypeStep DEF Inv
<1>2. CASE UNCHANGED vars
  <2>1. Inv'
    BY <1>2 DEF vars, Inv, BufferInv, ReaderInv, StreamInv, EndInv, DeliversWholeMessages,
       Whole, Parts, Complete, Current, BeforeMessage, BeforeLast, IsFrame, FrameAt, Follows
  <2> QED
    BY <1>1, <2>1 DEF IInv
<1> QED
  BY <1>1, <1>2, AllocStep, RequestStep, FrameStep, ReturnStep, DeliverStep, ResetStep,
     SendStep, DisconnectStep
     DEF IInv, Next, ReadNext, OnCompleteText, OnCompleteBinary, Kinds

LEMMA IInvHolds == Spec => []IInv
BY InitIInv, IInvStep, PTL DEF Spec

(* Every variable keeps its type: no frame is decoded into a buffer that   *)
(* was dropped.                                                            *)
THEOREM TypeCorrect == Spec => []TypeOK
<1>1. IInv => TypeOK
  BY DEF IInv
<1> QED
  BY <1>1, IInvHolds, PTL

(* OnDataRecieved's callbacks are given the client's messages, whole, once *)
(* and in order, however they are cut into frames.                         *)
THEOREM WholeMessagesDelivered == Spec => []DeliversWholeMessages
<1>1. IInv => DeliversWholeMessages
  BY DEF IInv, Inv
<1> QED
  BY <1>1, IInvHolds, PTL

(* The buffer the next protocol is allocated with has the current          *)
(* message's frames and no others.                                         *)
THEOREM BufferKeptCurrent == Spec => []BufferIsCurrent
<1>1. ASSUME IInv PROVE BufferIsCurrent
  <2> SUFFICES ASSUME reader = "alloc", mCurrentMessage # None,
                      NEW i \in DOMAIN mCurrentMessage.parts
               PROVE  /\ mCurrentMessage.parts[i].message = Len(delivered) + 1
                      /\ mCurrentMessage.parts[i].part = i
                      /\ ~mCurrentMessage.parts[i].last
    BY DEF BufferIsCurrent
  <2>1. /\ Parts = mCurrentMessage.parts /\ Current = Len(delivered) + 1 /\ ~Complete
        /\ i \in DOMAIN Parts
    BY <1>1 DEF IInv, Inv, ReaderInv, Parts, Current
  <2>2. /\ Parts[i] = FrameAt(Current, i) /\ Len(Parts) # sent[Current].frames
        /\ i \in 1..sent[Current].frames /\ i \in 1..Len(Parts)
        /\ \A j \in 1..Len(Parts) : j \in 1..sent[Current].frames
        /\ Current \in DOMAIN sent
    BY <1>1, <2>1, PartsType DEF IInv, Inv, BufferInv
  <2>3. i # sent[Current].frames
    <3>1. Len(Parts) \in 1..Len(Parts) /\ sent[Current].frames \in Nat /\ Len(Parts) \in Nat
      BY <1>1, <2>2, PartsType DEF IInv
    <3>2. Len(Parts) <= sent[Current].frames
      BY <2>2, <3>1
    <3> QED
      BY <2>2, <3>1, <3>2
  <2>4. /\ FrameAt(Current, i).message = Current /\ FrameAt(Current, i).part = i
        /\ FrameAt(Current, i).last = (i = sent[Current].frames)
    BY DEF FrameAt
  <2>5. Parts[i].last = (i = sent[Current].frames)
    BY <2>2, <2>4
  <2>6. ~Parts[i].last
    BY <2>3, <2>5
  <2> QED
    BY <2>1, <2>2, <2>4, <2>6
<1> QED
  BY <1>1, IInvHolds, PTL
-----------------------------------------------------------------------------
(***************************************************************************)
(* MessageStream is implemented.                                           *)
(***************************************************************************)
Sent == [m \in DOMAIN sent |-> Whole(m)]

LEMMA SentFacts ==
  ASSUME TypeOK
  PROVE  /\ Len(Sent) = Len(sent)
         /\ \A m \in DOMAIN sent : Sent[m] = Whole(m)
<1>1. Len(sent) \in Nat /\ DOMAIN sent = 1..Len(sent)
  BY PartsType
<1>2. Sent = [m \in 1..Len(sent) |-> Whole(m)]
  BY <1>1 DEF Sent
<1> HIDE DEF Sent
<1>3. Len(Sent) = Len(sent)
  BY <1>1, <1>2
<1> QED
  BY <1>1, <1>2, <1>3

LEMMA SendRefines ==
  ASSUME TypeOK, NEW kind \in Kinds, NEW n \in 1..MaxFrames, SendMessage(kind, n)
  PROVE  Stream!Send
<1> DEFINE r == [kind |-> kind, frames |-> n]
<1>1. connected /\ sent' = Append(sent, r) /\ UNCHANGED <<delivered, connected>>
  BY DEF SendMessage
<1>2. /\ Len(sent') = Len(sent) + 1 /\ Len(sent) \in Nat
      /\ DOMAIN sent = 1..Len(sent) /\ DOMAIN sent' = 1..Len(sent) + 1
      /\ \A m \in DOMAIN sent : sent'[m] = sent[m]
  <2>1. r \in [kind : Kinds, frames : 1..MaxFrames]
    OBVIOUS
  <2> HIDE DEF r
  <2> QED
    BY <1>1, <2>1, PartsType, AppendFacts DEF TypeOK
<1>3. /\ DOMAIN Sent = 1..Len(sent) /\ DOMAIN Sent' = 1..Len(sent) + 1
      /\ Sent = [m \in 1..Len(sent) |-> Sent[m]]
      /\ Sent' = [m \in 1..Len(sent) + 1 |-> Sent'[m]]
      /\ \A m \in 1..Len(sent) : Sent'[m] = Sent[m]
  BY <1>2 DEF Sent, Whole
<1> HIDE DEF Sent
<1>4. Len(Sent') = Len(Sent) + 1 /\ Len(Sent) = Len(sent)
  BY <1>2, <1>3
<1>5. SubSeq(Sent', 1, Len(Sent)) = Sent
  BY <1>2, <1>3, <1>4
<1> QED
  BY <1>1, <1>4, <1>5 DEF Stream!Send, Sent

LEMMA DeliverRefines ==
  ASSUME TypeOK, Inv, NEW kind \in Kinds, Deliver(kind)
  PROVE  Stream!Deliver
<1> DEFINE d == [kind |-> kind, parts |-> mCurrentMessage.parts]
<1>1. /\ reader = "received" /\ mCurrentMessage.kind = kind
      /\ delivered' = Append(delivered, d)
      /\ UNCHANGED <<sent, connected>>
  BY DEF Deliver, IsComplete
<1>2. Complete
  BY DEF Deliver, IsComplete, Complete, Inv, ReaderInv
<1>3. d = Whole(Current) /\ Current \in DOMAIN sent /\ Current = Len(delivered) + 1
  BY <1>1, <1>2, CompleteIsWhole DEF Whole, Current
<1>4. Sent' = Sent
  BY <1>1 DEF Sent, Whole
<1>5. Len(delivered) < Len(Sent) /\ d = Sent[Len(delivered) + 1]
  BY <1>3, SentFacts, PartsType
<1> QED
  BY <1>1, <1>4, <1>5 DEF Stream!Deliver, Sent

LEMMA StreamStep ==
  ASSUME IInv, [Next]_vars
  PROVE  [Stream!Next]_<<Sent, delivered, connected>>
<1>1. ASSUME UNCHANGED <<sent, delivered, connected>>
      PROVE  UNCHANGED <<Sent, delivered, connected>>
  BY <1>1 DEF Sent, Whole
<1>2. ASSUME NEW kind \in Kinds, NEW n \in 1..MaxFrames, SendMessage(kind, n)
      PROVE  Stream!Next
  BY <1>2, SendRefines DEF IInv, Stream!Next
<1>3. ASSUME NEW kind \in Kinds, Deliver(kind)
      PROVE  Stream!Next
  BY <1>3, DeliverRefines DEF IInv, Stream!Next
<1>4. ASSUME Disconnect
      PROVE  Stream!Next
  <2>1. connected /\ connected' = FALSE /\ UNCHANGED <<sent, delivered>>
    BY <1>4 DEF Disconnect
  <2>2. UNCHANGED <<Sent, delivered>>
    BY <2>1 DEF Sent, Whole
  <2> QED
    BY <2>1, <2>2 DEF Stream!Next, Stream!Lose, Sent
<1> QED
  BY <1>1, <1>2, <1>3, <1>4
     DEF Next, ReadNext, AllocProtocol, DecodeRequest, DecodeFrame, ReturnEarly,
         OnCompleteText, OnCompleteBinary, ResetCurrentMessage, Kinds, vars

LEMMA StreamInit == Init => Stream!Init
<1> SUFFICES ASSUME Init PROVE Sent = <<>>
  BY DEF Init, Stream!Init, Sent
<1>1. sent = <<>>
  BY DEF Init
<1> QED
  BY <1>1 DEF Sent

(* The peer implements MessageStream's safety part: what its callbacks are *)
(* given, and the loss of the connection, are steps of a stream of whole   *)
(* messages, and nothing else the read thread does shows.                  *)
THEOREM StreamImplemented == Spec => Stream!Spec
<1>1. IInv /\ [Next]_vars => [Stream!Next]_<<Sent, delivered, connected>>
  BY StreamStep
<1> QED
  BY <1>1, IInvHolds, StreamInit, PTL DEF Spec, Stream!Spec, Sent
=============================================================================
