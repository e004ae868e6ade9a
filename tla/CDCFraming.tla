----------------------------- MODULE CDCFraming -----------------------------
(***************************************************************************)
(* How the reading thread cuts the byte stream of the COM port into        *)
(* messages: appendDataFromPort (Linux: whatever a read returns) or the    *)
(* reading loop (Windows: one byte), processAllMessages, parseNextMessage. *)
(* The device and the line are external: the device sends messages of      *)
(* Frames, and the line may lose a byte.                                   *)
(***************************************************************************)
EXTENDS CDCGrammar, SequencesExt

CONSTANTS Platforms,   \* "Linux", "Windows", or both
          Frames,      \* for each, the messages the device may send, [type, text]
          MaxFrames,   \* bound on the number of messages sent
          MaxLosses    \* for each, a bound on the number of bytes lost

ASSUME FramingAssumption == /\ Platforms \subseteq {"Linux", "Windows"}
                            /\ MaxFrames \in Nat /\ MaxLosses \in [Platforms -> Nat]

(* What the device sends are bytes. *)
ASSUME FramesAssumption ==
  \A p \in Platforms : \A m \in Frames[p] : m \in [type : MessageTypes, text : Seq(0..255)]

VARIABLES platform,            \* where the library runs
          sent,                \* history: the messages sent
          wire,                \* bytes the host has not read
          losses,              \* number of bytes lost
          receivedBytes,       \* the reader's buffer
          delivered,           \* history: the messages given to processMessage
          lastReceptionError   \* set to "Bad message format"

vars == <<platform, sent, wire, losses, receivedBytes, delivered, lastReceptionError>>

Init ==
  /\ platform \in Platforms
  /\ sent = <<>> /\ wire = <<>> /\ losses = 0
  /\ receivedBytes = <<>> /\ delivered = <<>> /\ lastReceptionError = FALSE

-----------------------------------------------------------------------------
(* The device and the line.                                                *)

DeviceSends ==
  /\ Len(sent) < MaxFrames
  /\ \E m \in Frames[platform] : sent' = Append(sent, m) /\ wire' = wire \o m.text
  /\ UNCHANGED <<platform, losses, receivedBytes, delivered, lastReceptionError>>

LineLosesByte ==
  /\ losses < MaxLosses[platform]
  /\ \E i \in DOMAIN wire : wire' = RemoveAt(wire, i)
  /\ losses' = losses + 1
  /\ UNCHANGED <<platform, sent, receivedBytes, delivered, lastReceptionError>>

-----------------------------------------------------------------------------
(* The reader.  A round is the buffer, the messages taken from it so far   *)
(* and whether lastReceptionError is set.                                  *)

(* Plausible slips, each in place of the definition it precedes. *)
FaultFixHead(buffer) == buffer

(* Some firmware heads its messages with > (parseNextMessage). *)
FixHead(buffer) ==
  IF buffer # <<>> /\ Head(buffer) = GT THEN <<LT>> \o Tail(buffer) ELSE buffer

Drop(buffer, n) == SubSeq(buffer, n + 1, Len(buffer))

FaultEraseAll(buffer, lastPosition) == <<>>

(* All bytes up to the next CR after the offending one, or all there are. *)
EraseBad(buffer, lastPosition) ==
  LET ends == {i \in lastPosition..(Len(buffer) - 1) : At(buffer, i) = CR}
  IN  IF ends = {} THEN <<>> ELSE Drop(buffer, Min(ends) + 1)

(* The message is not erased from the buffer, or its last byte is cut off. *)
FaultMessageKept(round) ==
  LET result == parseData(round.buffer) IN
    IF round.buffer = <<>> \/ result.resultType # "PARSE_OK" THEN round
    ELSE [round EXCEPT !.messages = Append(@, [type |-> result.msgType,
                                               text |-> round.buffer])]

FaultMessageCut(round) ==
  LET result == parseData(round.buffer) IN
    IF round.buffer = <<>> \/ result.resultType # "PARSE_OK" THEN round
    ELSE [round EXCEPT !.buffer   = <<>>,
                       !.messages = Append(@, [type |-> result.msgType,
                          text |-> SubSeq(round.buffer, 1, result.lastPosition)])]

Take(round, msgBuffer, result) ==
  CASE msgBuffer = <<>> -> round
    [] msgBuffer # <<>> /\ result.resultType = "PARSE_NOT_COMPLETE" ->
         [round EXCEPT !.buffer = msgBuffer]
    [] msgBuffer # <<>> /\ result.resultType = "PARSE_BAD_FORMAT" ->
         [round EXCEPT !.buffer = EraseBad(msgBuffer, result.lastPosition),
                       !.error  = TRUE]
    [] msgBuffer # <<>> /\ result.resultType = "PARSE_OK" ->
         [round EXCEPT !.buffer   = Drop(msgBuffer, result.lastPosition + 1),
                       !.messages = Append(@, [type |-> result.msgType,
                          text |-> SubSeq(msgBuffer, 1, result.lastPosition + 1)])]

(* The head is mended for the parser alone. *)
FaultHeadKept(round) ==
  Take(round, round.buffer, parseData(FixHead(round.buffer)))

TakeMessage(round) ==
  Take(round, FixHead(round.buffer), parseData(FixHead(round.buffer)))

(* One message for each read. *)
FaultOneMessage(buffer) ==
  TakeMessage([buffer |-> buffer, messages |-> <<>>, error |-> lastReceptionError])

(* Every turn of the loop but the last erases a byte at least. *)
processAllMessages(buffer) ==
  LET round[n \in Nat] ==
        IF n = 0 THEN [buffer |-> buffer, messages |-> <<>>, error |-> lastReceptionError]
        ELSE TakeMessage(round[n - 1])
  IN  round[Len(buffer)]

ReadSizes == IF platform = "Linux" THEN 1..Len(wire) ELSE {1}

(* Linux looks for a CR in the whole buffer, Windows at the byte just read. *)
MessageEnd(bytes, buffer) ==
  IF platform = "Linux" THEN CR \in Range(buffer) ELSE bytes = <<CR>>

Store(round) ==
  /\ receivedBytes' = round.buffer
  /\ delivered' = delivered \o round.messages
  /\ lastReceptionError' = round.error

Receive(bytes, buffer) ==
  IF MessageEnd(bytes, buffer) THEN Store(processAllMessages(buffer))
  ELSE receivedBytes' = buffer /\ UNCHANGED <<delivered, lastReceptionError>>

Read ==
  /\ wire # <<>>
  /\ \E n \in ReadSizes :
       /\ wire' = Drop(wire, n)
       /\ Receive(SubSeq(wire, 1, n), receivedBytes \o SubSeq(wire, 1, n))
  /\ UNCHANGED <<platform, sent, losses>>

Next == DeviceSends \/ LineLosesByte \/ Read

Spec == Init /\ [][Next]_vars

-----------------------------------------------------------------------------
(* The variables keep to the program's values: bytes are unsigned char, a  *)
(* delivered message has a known type and its closing CR.                  *)
TypeOK ==
  /\ platform \in Platforms
  /\ sent \in Seq(Frames[platform]) /\ Len(sent) <= MaxFrames
  /\ losses \in 0..MaxLosses[platform]
  /\ \A m \in Range(delivered) : m.type \in Range(statesInfoMap) /\ Last(m.text) = CR
  /\ \A b \in {wire, receivedBytes} : b \in Seq(0..255)
  /\ lastReceptionError \in BOOLEAN

(* Whatever the line lost and wherever the reads cut what arrived, what is *)
(* handed to processMessage is a whole message of the type it is announced *)
(* with, and the getter for that type understands it (parseNextMessage).   *)
DeliveredAreMessages ==
  \A m \in Range(delivered) : IsMessage(m.type, m.text) /\ Understood(m.type, m.text)

Undamaged == losses = 0

Expected(m) == [m EXCEPT !.text = FixHead(@)]

(* Whatever the reads returned, once the line is empty every message has   *)
(* been handed on, with its type and its whole text, in order, and none    *)
(* twice ("extracts and processes all messages", CDCImpl.cpp:429).         *)
AllMessagesProcessed ==
  Undamaged /\ wire = <<>> => delivered = [i \in DOMAIN sent |-> Expected(sent[i])]

(* "Bad message format" is recorded only after the line lost a byte        *)
(* (processAllMessages).                                                   *)
RefusalExplained == lastReceptionError => ~Undamaged

(* Throwing the bytes up to the next CR away finds the next message again: *)
(* a lost byte costs its own message and the one behind it, no more, and   *)
(* the buffer holds back at most the last one (processAllMessages).  It is *)
(* not so for data that begin with a colon: when their length byte is      *)
(* lost, a colon is taken for it and the parser waits for 58 bytes.        *)
LossBounded ==
  wire = <<>> => Len(delivered) + 2 * losses >= Len(sent)

(* The reader implements the channel of whole messages that the            *)
(* command/response cycle is built on (processMessage's callers), as long  *)
(* as the line loses nothing: every step is one of the channel's.          *)
Channel == INSTANCE CDCChannel WITH
             Messages <- {Expected(m) : m \in UNION {Frames[p] : p \in Platforms}},
             sent     <- [i \in DOMAIN sent |-> Expected(sent[i])]

ChannelSpec ==
  Channel!Init /\ [][Undamaged' => Channel!Next]_(Channel!vars)
=============================================================================
