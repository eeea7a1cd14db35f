----------------------------- MODULE InspectorText -----------------------------
(***************************************************************************)
(* What happens to the characters of a text on their way from a DevTools   *)
(* window through V8 and back: SendMessageToSession, which gives the bytes *)
(* of the text to V8 as 8-bit characters, and GetString, which turns what  *)
(* V8 says, in 8-bit or 16-bit characters, into bytes.  A StringView is a  *)
(* piece of memory; a 16-bit character is two bytes, the low one first.    *)
(*                                                                         *)
(* The window sends and expects UTF-8, as text frames do.  V8 answers with *)
(* some of what it was given or with characters of its own, in either      *)
(* width: the repository does not say which.                               *)
(***************************************************************************)
EXTENDS Naturals, SequencesExt

CONSTANTS
  Characters,  (* the code points in use, each one 16-bit character        *)
  MaxLength    (* bound: the characters of a text                          *)

ASSUME CharactersAssumption ==
  (\A c \in Characters : c \in Nat /\ c < 65536) /\ MaxLength \in Nat

VARIABLES
  stage,     (* where the text is: "window", "session", "channel", "wire"  *)
  said,      (* the characters the window sent                             *)
  view,      (* the StringView the session was given                       *)
  composed,  (* the characters V8 answers with                             *)
  buffer,    (* the StringView it puts them in                             *)
  wire       (* the bytes sent back                                        *)

vars == <<stage, said, view, composed, buffer, wire>>

Texts == UNION {[1..n -> Characters] : n \in 0..MaxLength}
Byte == 0..255
View == [is8Bit : BOOLEAN, length : Nat, memory : Seq(Byte)]

TypeOK ==
  /\ stage \in {"window", "session", "channel", "wire"}
  /\ said \in Texts
  /\ view \in View /\ buffer \in View
  /\ composed \in Seq(Nat)
  /\ wire \in Seq(Byte)
-----------------------------------------------------------------------------
Utf8(c) ==
  CASE c < 128 -> <<c>>
    [] c >= 128 /\ c < 2048 -> <<192 + (c \div 64), 128 + (c % 64)>>
    [] c >= 2048 -> <<224 + (c \div 4096), 128 + ((c \div 64) % 64), 128 + (c % 64)>>
Encode(text) == FlattenSeq([i \in DOMAIN text |-> Utf8(text[i])])

Is8Bit(text) == \A i \in DOMAIN text : text[i] < 256

(* StringView(const uint8_t*, n) and StringView(const uint16_t*, n) *)
View8(bytes) == [is8Bit |-> TRUE, length |-> Len(bytes), memory |-> bytes]
View16(text) ==
  [is8Bit |-> FALSE, length |-> Len(text),
   memory |-> FlattenSeq([i \in DOMAIN text |-> <<text[i] % 256, text[i] \div 256>>])]

(* The characters V8 finds in an 8-bit view. *)
CharactersOf(v) == SubSeq(v.memory, 1, v.length)

(* A bug: c_str() is copied with its terminator. *)
ToArrayWithTerminator(bytes) == Append(bytes, 0)

(* Soy::StringToArray *)
StringToArray(bytes) == bytes

(* A bug: every view is read as an 8-bit one. *)
CharStepOne(v) == 1

CharStep(v) == IF v.is8Bit THEN 1 ELSE 2

(* A bug: the first character is skipped. *)
GetStringFromSecond(v) ==
  [i \in 1..(v.length - 1) |-> v.memory[i * CharStep(v) + 1]]

(* A bug: both bytes of a 16-bit character are taken for one. *)
GetStringWide(v) == [i \in 1..v.length |->
  IF v.is8Bit THEN v.memory[i] ELSE v.memory[2 * i - 1] + 256 * v.memory[2 * i]]

(* characters8() of either view; a char of what is found at each step. *)
GetString(v) == [i \in 1..v.length |-> v.memory[(i - 1) * CharStep(v) + 1]]
-----------------------------------------------------------------------------
Init ==
  /\ stage = "window"
  /\ said \in Texts
  /\ view = View8(<<>>) /\ buffer = View8(<<>>)
  /\ composed = <<>> /\ wire = <<>>

SendMessageToSession ==
  /\ stage = "window" /\ stage' = "session"
  /\ view' = View8(StringToArray(Encode(said)))
  /\ UNCHANGED <<said, composed, buffer, wire>>

(* V8 *)
Compose(text) ==
  /\ stage = "session" /\ stage' = "channel"
  /\ composed' = text
  /\ \/ Is8Bit(text) /\ buffer' = View8(text)
     \/ buffer' = View16(text)
  /\ UNCHANGED <<said, view, wire>>

(* TV8Channel, for a response as for a notification. *)
SendResponse ==
  /\ stage = "channel" /\ stage' = "wire"
  /\ wire' = GetString(buffer)
  /\ UNCHANGED <<said, view, composed, buffer>>

Next ==
  \/ SendMessageToSession
  \/ \E text \in Texts \cup {CharactersOf(view)} : Compose(text)
  \/ SendResponse

Spec == Init /\ [][Next]_vars
-----------------------------------------------------------------------------
(* V8 reads what the window said just when that is ASCII: any other        *)
(* character arrives as the two or more that its bytes stand for.          *)
SessionReadsAscii == stage # "window" =>
  (CharactersOf(view) = said <=> \A i \in DOMAIN said : said[i] < 128)

(* What V8 says goes out character by character just when each fits a      *)
(* byte, in whichever width V8 says it: nothing tells a character above    *)
(* 255 from the one that is its low byte.                                  *)
BytesGoThrough == stage = "wire" => (wire = composed <=> Is8Bit(composed))

(* When V8 repeats what it was given, the window gets back what it said,   *)
(* also where V8 itself has misread it: the two conversions cancel out.    *)
EchoReturnsText ==
  stage = "wire" /\ composed = CharactersOf(view) => wire = Encode(said)
=============================================================================
