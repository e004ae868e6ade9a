--------------------------- MODULE CDCParserBytes ---------------------------
(***************************************************************************)
(* parseData on a buffer that grows byte by byte, as the reader's does.    *)
(* The buffer follows one of Streams; Samples are the messages to be       *)
(* recognised and what a getter should read in them.                       *)
(***************************************************************************)
EXTENDS CDCGrammar, SequencesExt

CONSTANTS Streams,    \* the byte streams the buffer may follow
          Samples     \* records [text, type, value]

(* What the port delivers are bytes. *)
ASSUME StreamsAssumption == Streams \subseteq Seq(0..255)
ASSUME SamplesAssumption == \A m \in Samples : m.text \in Seq(0..255)

VARIABLES data,       \* the buffer
          rest        \* what is still to arrive

vars == <<data, rest>>

Init == data = <<>> /\ rest \in Streams

ByteArrives ==
  /\ rest # <<>>
  /\ data' = Append(data, Head(rest))
  /\ rest' = Tail(rest)

Next == ByteArrives

Spec == Init /\ [][Next]_vars

Verdict(buffer) ==
  LET c == parseData(buffer) IN
    [resultType |-> c.resultType, msgType |-> c.msgType, lastPosition |-> c.lastPosition]

Decided(buffer) == parseData(buffer).resultType # "PARSE_NOT_COMPLETE"

-----------------------------------------------------------------------------
(* The loop of parseData ends: each iteration moves on in the buffer or    *)
(* leaves a special state for good (the loop at CDCMessageParser.cpp:725). *)
LoopEnds == ~Looping(data, parseData(data))

(* What parseData accepts is a message of the type it reports, whole and   *)
(* inside the buffer, and its getter understands it: the automaton, the    *)
(* special states and the getters agree on the format.                     *)
AcceptedIsMessage ==
  LET c == parseData(data)  text == SubSeq(data, 1, c.lastPosition + 1) IN
    c.resultType = "PARSE_OK" =>
      /\ c.lastPosition < Len(data)
      /\ IsMessage(c.msgType, text)
      /\ Understood(c.msgType, text)

(* A message alone in the buffer is accepted, to its last byte, with its   *)
(* own type, and its getter reads what the device put in it.               *)
MessageAccepted ==
  \A m \in Samples : data = m.text =>
    /\ Verdict(data) = [resultType |-> "PARSE_OK", msgType |-> m.type,
                        lastPosition |-> Len(data) - 1]
    /\ Parsed(m.type, data) = m.value

(* The head of a message that marks its own end is never refused: a        *)
(* message split over several reads waits for its rest.                    *)
HeadNotRefused ==
  \A m \in Samples :
    IsSelfDelimiting(m.text) /\ IsStrictPrefix(data, m.text) => ~Decided(data)

(* Bytes that follow do not change what was decided, unless the message is *)
(* one of those whose end depends on the size of the buffer ("<PM:" and    *)
(* "<IT:", whose special states look at data.size()).                      *)
LooksAhead(buffer) ==
  \E h \in {<<LT, ch.P, ch.M, COLON>>, <<LT, ch.I, ch.T, COLON>>} : IsPrefix(h, buffer)

VerdictStands ==
  [][Decided(data) /\ ~LooksAhead(data) => Verdict(data') = Verdict(data)]_vars
=============================================================================
