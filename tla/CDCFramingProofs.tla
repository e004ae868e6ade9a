--------------------------- MODULE CDCFramingProofs ---------------------------
(***************************************************************************)
(* What the reading thread hands on, for every set of messages the device  *)
(* may send, every number of messages and of lost bytes, and wherever the  *)
(* reads cut the stream.                                                   *)
(***************************************************************************)
EXTENDS CDCFraming, CDCGrammarProofs

-----------------------------------------------------------------------------
(* The buffer under the hands of parseNextMessage and processAllMessages.  *)

LEMMA PartOfSequence ==
  ASSUME NEW S, NEW s \in Seq(S), NEW a \in Nat, NEW z \in Nat, 1 <= a, a <= z + 1, z <= Len(s)
  PROVE  SubSeq(s, a, z) \in Seq(S) /\ Len(SubSeq(s, a, z)) = z + 1 - a
OBVIOUS

LEMMA Parts ==
  ASSUME NEW s \in Buffers, NEW a \in Nat, NEW z \in Nat, 1 <= a, a <= z + 1, z <= Len(s)
  PROVE  SubSeq(s, a, z) \in Buffers /\ Len(SubSeq(s, a, z)) = z + 1 - a
<1> DEFINE S == 0..255
<1>1. Buffers = Seq(S)
  BY DEF Buffers
<1> HIDE DEF S
<1>2. SubSeq(s, a, z) \in Seq(S) /\ Len(SubSeq(s, a, z)) = z + 1 - a
  BY <1>1, PartOfSequence
<1>. QED  BY <1>1, <1>2

LEMMA Dropped ==
  ASSUME NEW buffer \in Buffers, NEW n \in 0..Len(buffer)
  PROVE  Drop(buffer, n) \in Buffers /\ Len(Drop(buffer, n)) = Len(buffer) - n
<1>1. Len(buffer) \in Nat
  BY BufferBytes
<1>2. n + 1 \in Nat /\ 1 <= n + 1 /\ n + 1 <= Len(buffer) + 1 /\ Len(buffer) <= Len(buffer)
      /\ Len(buffer) + 1 - (n + 1) = Len(buffer) - n
  BY <1>1
<1>. QED  BY <1>1, <1>2, Parts DEF Drop

(* A head > is replaced, once and for all. *)
LEMMA FixedHead ==
  ASSUME NEW buffer \in Buffers
  PROVE  /\ FixHead(buffer) \in Buffers /\ Len(FixHead(buffer)) = Len(buffer)
         /\ FixHead(FixHead(buffer)) = FixHead(buffer)
         /\ FixHead(buffer) = <<>> <=> buffer = <<>>
<1>1. CASE buffer # <<>> /\ Head(buffer) = GT
  <2> DEFINE b == <<LT>> \o Tail(buffer)
  <2>1. FixHead(buffer) = b
    BY <1>1 DEF FixHead
  <2>2. b \in Buffers /\ Len(b) = Len(buffer) /\ b # <<>> /\ Head(b) = LT
    BY <1>1 DEF Buffers, LT
  <2>3. LT # GT
    BY DEF LT, GT
  <2>4. FixHead(b) = b
    BY <2>2, <2>3, Zenon DEF FixHead
  <2>. QED  BY <1>1, <2>1, <2>2, <2>4, Zenon
<1>2. CASE ~(buffer # <<>> /\ Head(buffer) = GT)
  <2>1. FixHead(buffer) = buffer
    BY <1>2, Zenon DEF FixHead
  <2>. QED  BY <2>1, Zenon
<1>. QED  BY <1>1, <1>2, Zenon

(* A refused head is erased: one byte at least. *)
LEMMA BadErased ==
  ASSUME NEW buffer \in Buffers, NEW last \in 0..(Len(buffer) - 1)
  PROVE  EraseBad(buffer, last) \in Buffers /\ Len(EraseBad(buffer, last)) < Len(buffer)
<1> DEFINE ends == {i \in last..(Len(buffer) - 1) : At(buffer, i) = CR}
<1>1. Len(buffer) \in Nat /\ Len(buffer) > 0 /\ ends \in SUBSET Nat
  BY BufferBytes
<1>2. CASE ends = {}
  <2>1. EraseBad(buffer, last) = <<>>
    BY <1>2 DEF EraseBad
  <2>2. <<>> \in Buffers /\ Len(<<>>) = 0
    BY DEF Buffers
  <2>. QED  BY <1>1, <2>1, <2>2
<1>3. CASE ends # {}
  <2>1. EraseBad(buffer, last) = Drop(buffer, Min(ends) + 1)
    BY <1>3 DEF EraseBad
  <2>2. Min(ends) \in ends
    BY <1>1, <1>3, MinNat
  <2>3. Min(ends) \in last..(Len(buffer) - 1)
    BY <2>2
  <2>4. Min(ends) + 1 \in 0..Len(buffer) /\ Min(ends) + 1 > 0 /\ Min(ends) + 1 \in Nat
    BY <1>1, <2>3
  <2>5. /\ Drop(buffer, Min(ends) + 1) \in Buffers
        /\ Len(Drop(buffer, Min(ends) + 1)) = Len(buffer) - (Min(ends) + 1)
    BY <2>4, Dropped
  <2> HIDE DEF ends
  <2>. QED  BY <1>1, <2>1, <2>4, <2>5
<1>. QED  BY <1>2, <1>3

-----------------------------------------------------------------------------
(* A turn of processAllMessages.                                           *)

(* What processMessage may be given: a text with its closing CR, a whole   *)
(* message of its type when the automaton's table names the types right.   *)
Message(m) ==
  /\ m.type \in MsgTypes /\ Last(m.text) = CR
  /\ 97 \notin OverRead => IsUnderstood(m.type, m.text)

Messages == {m \in [type : MsgTypes, text : Buffers] : Message(m)}

Rounds == [buffer : Buffers, messages : Seq(Messages), error : BOOLEAN]

(* No turn of the loop takes anything any more. *)
Ended(round) == TakeMessage(round) = round

LEMMA AcceptedMessage ==
  ASSUME NEW buffer \in Buffers, parseData(buffer).resultType = "PARSE_OK"
  PROVE  /\ parseData(buffer).lastPosition \in 0..(Len(buffer) - 1)
         /\ [type |-> parseData(buffer).msgType,
             text |-> SubSeq(buffer, 1, parseData(buffer).lastPosition + 1)] \in Messages
<1> DEFINE c == parseData(buffer)
           k == c.lastPosition + 1
           text == SubSeq(buffer, 1, k)
           m == [type |-> c.msgType, text |-> text]
<1>1. ConfInv(buffer, c)
  BY ParseDataInv
<1>2. buffer \in Seq(Nat) /\ Len(buffer) \in Nat
  BY BufferBytes
<1> SUFFICES c.lastPosition \in 0..(Len(buffer) - 1) /\ m \in Messages
  OBVIOUS
<1>3. c.resultType = "PARSE_OK"
  OBVIOUS
<1> HIDE DEF c
<1>4. /\ c.state \in finiteStates /\ c.msgType = statesInfoMap[c.state] /\ c.msgType \in MsgTypes
      /\ c.lastPosition \in 0..(Len(buffer) - 1) /\ buffer[k] = CR /\ Shape(buffer, c.state, k)
  BY <1>1, <1>3 DEF ConfInv, Configurations
<1>5. k \in 1..Len(buffer) /\ k \in Nat /\ 1 <= k + 1 /\ k <= Len(buffer) /\ k + 1 - 1 = k
  BY <1>2, <1>4
<1>6. text \in Buffers
  BY <1>5, Parts
<1>7. Len(text) = k /\ text[k] = CR
  <2>1. Len(text) = k /\ \A i \in 1..k : text[i] = buffer[i]
    BY <1>2, <1>5, HeadElements
  <2>. QED  BY <1>4, <1>5, <2>1
<1>8. Last(text) = CR
  BY <1>7 DEF Last
<1>9. 97 \notin OverRead => IsUnderstood(c.msgType, text)
  BY <1>4, <1>5, AcceptedText
<1> HIDE DEF text
<1>10. m \in [type : MsgTypes, text : Buffers] /\ m.type = c.msgType /\ m.text = text
  BY <1>4, <1>6
<1> HIDE DEF m
<1>11. Message(m)
  BY <1>4, <1>8, <1>9, <1>10, Zenon DEF Message
<1>. QED  BY <1>4, <1>10, <1>11, Zenon DEF Messages

LEMMA TurnOfRounds ==
  ASSUME NEW round \in Rounds
  PROVE  /\ TakeMessage(round) \in Rounds
         /\ \/ Ended(TakeMessage(round))
            \/ Len(TakeMessage(round).buffer) < Len(round.buffer)
<1> DEFINE b == FixHead(round.buffer)
           c == parseData(b)
<1>1. /\ round.buffer \in Buffers /\ round.messages \in Seq(Messages) /\ round.error \in BOOLEAN
      /\ Len(round.buffer) \in Nat
  BY BufferBytes DEF Rounds
<1>2. /\ b \in Buffers /\ Len(b) = Len(round.buffer) /\ FixHead(b) = b
      /\ b = <<>> <=> round.buffer = <<>>
  BY <1>1, FixedHead
<1>3. TakeMessage(round) = Take(round, b, c)
  BY DEF TakeMessage
<1>4. CASE b = <<>>
  <2>1. TakeMessage(round) = round
    BY <1>3, <1>4 DEF Take
  <2>. QED  BY <2>1 DEF Ended
<1>5. CASE b # <<>> /\ c.resultType = "PARSE_NOT_COMPLETE"
  <2> DEFINE r == [round EXCEPT !.buffer = b]
  <2>1. TakeMessage(round) = r
    BY <1>3, <1>5 DEF Take
  <2>2. r \in Rounds /\ r.buffer = b
    BY <1>1, <1>2 DEF Rounds
  <2>3. TakeMessage(r) = Take(r, b, c)
    BY <1>2, <2>2, Zenon DEF TakeMessage
  <2>4. Take(r, b, c) = [r EXCEPT !.buffer = b]
    BY <1>5 DEF Take
  <2>5. [r EXCEPT !.buffer = b] = r
    BY DEF Rounds
  <2>. QED  BY <2>1, <2>2, <2>3, <2>4, <2>5, Zenon DEF Ended
<1>6. CASE b # <<>> /\ c.resultType = "PARSE_BAD_FORMAT"
  <2> DEFINE e == EraseBad(b, c.lastPosition)
  <2>1. c.lastPosition \in 0..(Len(b) - 1)
    BY <1>2, <1>6, ParseDataInv DEF ConfInv
  <2>2. e \in Buffers /\ Len(e) < Len(b)
    BY <1>2, <2>1, BadErased
  <2>3. TakeMessage(round) = [round EXCEPT !.buffer = e, !.error = TRUE]
    BY <1>3, <1>6 DEF Take
  <2> HIDE DEF e, b
  <2>4. TakeMessage(round) \in Rounds /\ TakeMessage(round).buffer = e
    BY <1>1, <2>2, <2>3 DEF Rounds
  <2>. QED  BY <1>2, <2>2, <2>4, Zenon
<1>7. CASE b # <<>> /\ c.resultType = "PARSE_OK"
  <2> DEFINE e == Drop(b, c.lastPosition + 1)
             m == [type |-> c.msgType, text |-> SubSeq(b, 1, c.lastPosition + 1)]
             ms == Append(round.messages, m)
  <2>1. c.lastPosition \in 0..(Len(b) - 1) /\ m \in Messages
    BY <1>2, <1>7, AcceptedMessage
  <2>2. TakeMessage(round) = [round EXCEPT !.buffer = e, !.messages = ms]
    BY <1>3, <1>7 DEF Take
  <2> HIDE DEF c, b, m
  <2>3. c.lastPosition + 1 \in 0..Len(b) /\ c.lastPosition + 1 > 0
    BY <1>1, <1>2, <2>1
  <2>4. e \in Buffers /\ Len(e) = Len(b) - (c.lastPosition + 1)
    BY <1>2, <2>3, Dropped
  <2>5. Len(e) < Len(b)
    BY <1>1, <1>2, <2>3, <2>4
  <2>6. ms \in Seq(Messages)
    BY <1>1, <2>1
  <2> HIDE DEF e, ms
  <2>7. TakeMessage(round) \in Rounds /\ TakeMessage(round).buffer = e
    BY <1>1, <2>2, <2>4, <2>6 DEF Rounds
  <2>. QED  BY <1>2, <2>5, <2>7, Zenon
<1>8. c.resultType \in {"PARSE_NOT_COMPLETE", "PARSE_OK", "PARSE_BAD_FORMAT"}
  BY <1>2, ParseDataInv DEF ConfInv, Configurations
<1>. QED  BY <1>4, <1>5, <1>6, <1>7, <1>8, Zenon

-----------------------------------------------------------------------------
(* The loop of processAllMessages.                                         *)

FirstRound(buffer) == [buffer |-> buffer, messages |-> <<>>, error |-> lastReceptionError]

RoundsFrom(s) ==
  CHOOSE g : g = [n \in Nat |-> IF n = 0 THEN s ELSE TakeMessage(g[n - 1])]

LEMMA FirstRoundFits ==
  ASSUME NEW buffer \in Buffers, lastReceptionError \in BOOLEAN
  PROVE  FirstRound(buffer) \in Rounds /\ FirstRound(buffer).buffer = buffer
<1>1. <<>> \in Seq(Messages)
  OBVIOUS
<1>. QED  BY <1>1 DEF FirstRound, Rounds

LEMMA RoundsUnfold ==
  ASSUME NEW s \in Rounds
  PROVE  /\ RoundsFrom(s)[0] = s
         /\ \A n \in Nat : RoundsFrom(s)[n + 1] = TakeMessage(RoundsFrom(s)[n])
<1> DEFINE P(g) == g = [n \in Nat |-> IF n = 0 THEN s ELSE TakeMessage(g[n - 1])]
           nxt == [r \in Rounds |-> TakeMessage(r)]
<1>1. RoundsFrom(s) = CHOOSE g : P(g)
  BY DEF RoundsFrom
<1>2. nxt \in [Rounds -> Rounds]
  BY TurnOfRounds
<1>3. \A r \in Rounds : nxt[r] = TakeMessage(r)
  OBVIOUS
<1> HIDE DEF nxt
<1>4. PICK f \in [Nat -> Rounds] : f = [n \in Nat |-> IF n = 0 THEN s ELSE nxt[f[n - 1]]]
  BY <1>2, Recursion
<1>5. ASSUME NEW n \in Nat
      PROVE  (IF n = 0 THEN s ELSE nxt[f[n - 1]]) = (IF n = 0 THEN s ELSE TakeMessage(f[n - 1]))
  BY <1>3, <1>4
<1>6. P(f)
  BY <1>4, <1>5
<1> HIDE DEF P
<1>7. P(RoundsFrom(s))
  BY <1>1, <1>6
<1> DEFINE g == RoundsFrom(s)
<1> HIDE DEF g
<1>8. g = [n \in Nat |-> IF n = 0 THEN s ELSE TakeMessage(g[n - 1])]
  BY <1>7 DEF P, g
<1>9. g[0] = s
  BY <1>8
<1>10. ASSUME NEW n \in Nat PROVE g[n + 1] = TakeMessage(g[n])
  <2>1. n + 1 \in Nat /\ n + 1 # 0 /\ (n + 1) - 1 = n
    OBVIOUS
  <2>. QED  BY <1>8, <2>1
<1>. QED  BY <1>9, <1>10 DEF g

(* After n turns the loop has come to its end, or n bytes are gone. *)
LEMMA RoundsProgress ==
  ASSUME NEW s \in Rounds
  PROVE  \A n \in Nat : /\ RoundsFrom(s)[n] \in Rounds
                        /\ \/ Ended(RoundsFrom(s)[n])
                           \/ Len(RoundsFrom(s)[n].buffer) + n <= Len(s.buffer)
<1> DEFINE g == RoundsFrom(s)
           S == {n \in Nat : /\ g[n] \in Rounds
                             /\ Ended(g[n]) \/ Len(g[n].buffer) + n <= Len(s.buffer)}
<1>1. g[0] = s /\ \A n \in Nat : g[n + 1] = TakeMessage(g[n])
  BY RoundsUnfold
<1>2. Len(s.buffer) \in Nat
  BY BufferBytes DEF Rounds
<1> HIDE DEF g
<1>3. 0 \in S
  BY <1>1, <1>2
<1>4. ASSUME NEW n \in Nat, n \in S PROVE n + 1 \in S
  <2>1. g[n] \in Rounds /\ g[n + 1] = TakeMessage(g[n]) /\ g[n + 1] \in Rounds
    BY <1>1, <1>4, TurnOfRounds
  <2>2. CASE Ended(g[n])
    <3>1. g[n + 1] = g[n]
      BY <2>1, <2>2 DEF Ended
    <3>. QED  BY <2>1, <2>2, <3>1
  <2>3. CASE ~Ended(g[n]) /\ Ended(g[n + 1])
    BY <2>1, <2>3
  <2>4. CASE ~Ended(g[n]) /\ ~Ended(g[n + 1])
    <3>1. Len(g[n + 1].buffer) < Len(g[n].buffer)
      BY <2>1, <2>4, TurnOfRounds
    <3>2. Len(g[n].buffer) + n <= Len(s.buffer)
      BY <1>4, <2>4
    <3>3. Len(g[n].buffer) \in Nat /\ Len(g[n + 1].buffer) \in Nat
      BY <2>1, BufferBytes DEF Rounds
    <3>4. \A x, y, z \in Nat : x < y /\ y + n <= z => x + (n + 1) <= z
      OBVIOUS
    <3>5. Len(g[n + 1].buffer) + (n + 1) <= Len(s.buffer)
      BY <1>2, <3>1, <3>2, <3>3, <3>4, Zenon
    <3>6. n + 1 \in Nat
      OBVIOUS
    <3>. QED  BY <2>1, <3>5, <3>6, Zenon
  <2>. QED  BY <2>2, <2>3, <2>4
<1> HIDE DEF S
<1>5. Nat \subseteq S
  BY <1>3, <1>4, SetInduction, Zenon
<1>. QED  BY <1>5 DEF S, g

LEMMA AllRounds ==
  ASSUME NEW buffer \in Buffers
  PROVE  processAllMessages(buffer) = RoundsFrom(FirstRound(buffer))[Len(buffer)]
BY DEF processAllMessages, RoundsFrom, FirstRound

(* processAllMessages ends, whatever is in the buffer, after at most as    *)
(* many turns as the buffer has bytes: each turn erases a message or a     *)
(* refused head, or leaves a buffer from which no turn takes anything (the *)
(* loop at CDCImpl.cpp:438).  What it took are messages.                   *)
THEOREM ProcessingEnds ==
  ASSUME NEW buffer \in Buffers, lastReceptionError \in BOOLEAN
  PROVE  /\ TakeMessage(processAllMessages(buffer)) = processAllMessages(buffer)
         /\ processAllMessages(buffer) \in Rounds
<1> DEFINE n == Len(buffer)
           r == RoundsFrom(FirstRound(buffer))[n]
<1>1. n \in Nat
  BY BufferBytes
<1>2. r \in Rounds /\ (Ended(r) \/ Len(r.buffer) + n <= n)
  BY <1>1, FirstRoundFits, RoundsProgress
<1> HIDE DEF r
<1>3. Ended(r)
  <2>1. CASE Len(r.buffer) + n <= n
    <3>1. r.buffer \in Buffers /\ Len(r.buffer) \in Nat
      BY <1>2, BufferBytes DEF Rounds
    <3>2. ~(Len(TakeMessage(r).buffer) < Len(r.buffer))
      <4>1. Len(r.buffer) = 0
        BY <1>1, <2>1, <3>1
      <4>2. Len(TakeMessage(r).buffer) \in Nat
        BY <1>2, TurnOfRounds, BufferBytes DEF Rounds
      <4>. QED  BY <4>1, <4>2
    <3>3. r.buffer = <<>>
      BY <1>1, <2>1, <3>1 DEF Buffers
    <3>4. TakeMessage(r) = r
      BY <3>3 DEF TakeMessage, Take, FixHead
    <3>. QED  BY <3>4 DEF Ended
  <2>. QED  BY <1>2, <2>1
<1>. QED  BY <1>2, <1>3, AllRounds DEF Ended, r

-----------------------------------------------------------------------------
(* The reading thread.                                                     *)

FramingInv ==
  /\ platform \in Platforms
  /\ sent \in Seq(Frames[platform]) /\ Len(sent) <= MaxFrames
  /\ losses \in 0..MaxLosses[platform]
  /\ wire \in Buffers /\ receivedBytes \in Buffers
  /\ delivered \in Seq(Messages)
  /\ lastReceptionError \in BOOLEAN

LEMMA Joined ==
  ASSUME NEW S, NEW s \in Seq(S), NEW t \in Seq(S)
  PROVE  s \o t \in Seq(S)
OBVIOUS

LEMMA FramingInit == Init => FramingInv
<1> SUFFICES ASSUME Init PROVE FramingInv
  OBVIOUS
<1>1. MaxFrames \in Nat /\ MaxLosses[platform] \in Nat
  BY FramingAssumption DEF Init
<1>2. <<>> \in Buffers /\ <<>> \in Seq(Messages) /\ <<>> \in Seq(Frames[platform]) /\ Len(<<>>) = 0
  BY DEF Buffers
<1>3. /\ platform \in Platforms /\ sent \in Seq(Frames[platform]) /\ Len(sent) <= MaxFrames
      /\ losses \in 0..MaxLosses[platform]
  BY <1>1, <1>2 DEF Init
<1>4. /\ wire \in Buffers /\ receivedBytes \in Buffers /\ delivered \in Seq(Messages)
      /\ lastReceptionError \in BOOLEAN
  BY <1>2 DEF Init
<1>. QED  BY <1>3, <1>4 DEF FramingInv

LEMMA FramingDeviceSends == FramingInv /\ DeviceSends => FramingInv'
<1> SUFFICES ASSUME FramingInv, DeviceSends PROVE FramingInv'
  OBVIOUS
<1>1. PICK m \in Frames[platform] : sent' = Append(sent, m) /\ wire' = wire \o m.text
  BY DEF DeviceSends
<1>2. m.text \in Buffers /\ MaxFrames \in Nat
  BY FramesAssumption, FramingAssumption DEF FramingInv, Buffers
<1>3. wire' \in Buffers
  BY <1>1, <1>2, Joined, Zenon DEF FramingInv, Buffers
<1>4. sent' \in Seq(Frames[platform]) /\ Len(sent') <= MaxFrames
  BY <1>1, <1>2 DEF DeviceSends, FramingInv
<1>. QED  BY <1>3, <1>4 DEF DeviceSends, FramingInv

LEMMA FramingLineLosesByte == FramingInv /\ LineLosesByte => FramingInv'
<1> SUFFICES ASSUME FramingInv, LineLosesByte PROVE FramingInv'
  OBVIOUS
<1>1. PICK i \in DOMAIN wire : wire' = RemoveAt(wire, i)
  BY DEF LineLosesByte
<1>2. wire \in Buffers /\ Len(wire) \in Nat /\ i \in 1..Len(wire)
  BY <1>1, BufferBytes DEF FramingInv, Buffers
<1>3. SubSeq(wire, 1, i - 1) \in Buffers
  <2>1. i - 1 \in Nat /\ 1 <= (i - 1) + 1 /\ i - 1 <= Len(wire)
    BY <1>2
  <2>. QED  BY <1>2, <2>1, Parts
<1>4. SubSeq(wire, i + 1, Len(wire)) \in Buffers
  <2>1. i + 1 \in Nat /\ 1 <= i + 1 /\ i + 1 <= Len(wire) + 1 /\ Len(wire) <= Len(wire)
    BY <1>2
  <2>. QED  BY <1>2, <2>1, Parts
<1>5. wire' \in Buffers
  BY <1>1, <1>3, <1>4, Joined, Zenon DEF RemoveAt, Buffers
<1>6. losses' \in 0..MaxLosses[platform]
  BY FramingAssumption DEF LineLosesByte, FramingInv
<1>. QED  BY <1>5, <1>6 DEF LineLosesByte, FramingInv

LEMMA FramingRead == FramingInv /\ Read => FramingInv'
<1> SUFFICES ASSUME FramingInv, Read PROVE FramingInv'
  OBVIOUS
<1>1. PICK n \in ReadSizes : /\ wire' = Drop(wire, n)
                             /\ Receive(SubSeq(wire, 1, n), receivedBytes \o SubSeq(wire, 1, n))
  BY DEF Read
<1>2. wire \in Buffers /\ Len(wire) \in Nat /\ Len(wire) >= 1
  BY BufferBytes DEF FramingInv, Read, Buffers
<1>3. n \in Nat /\ 1 <= n /\ n <= Len(wire)
  BY <1>2 DEF ReadSizes
<1> DEFINE bytes == SubSeq(wire, 1, n)
           buffer == receivedBytes \o bytes
<1>4. wire' \in Buffers
  BY <1>1, <1>2, <1>3, Dropped
<1>5. buffer \in Buffers
  <2>1. bytes \in Buffers
    BY <1>2, <1>3, Parts
  <2>. QED  BY <2>1, Joined, Zenon DEF FramingInv, Buffers
<1> HIDE DEF bytes, buffer
<1>6. /\ receivedBytes' \in Buffers /\ delivered' \in Seq(Messages)
      /\ lastReceptionError' \in BOOLEAN
  <2>1. CASE MessageEnd(bytes, buffer)
    <3> DEFINE r == processAllMessages(buffer)
    <3>1. r \in Rounds
      BY <1>5, ProcessingEnds DEF FramingInv
    <3>2. Store(r)
      BY <1>1, <2>1 DEF Receive, bytes, buffer
    <3> HIDE DEF r
    <3>3. r.messages \in Seq(Messages) /\ r.buffer \in Buffers /\ r.error \in BOOLEAN
      BY <3>1 DEF Rounds
    <3>4. delivered \o r.messages \in Seq(Messages)
      BY <3>3, Joined, Zenon DEF FramingInv
    <3>. QED  BY <3>2, <3>3, <3>4 DEF Store
  <2>2. CASE ~MessageEnd(bytes, buffer)
    BY <1>1, <1>5, <2>2 DEF Receive, FramingInv, bytes, buffer
  <2>. QED  BY <2>1, <2>2
<1>. QED  BY <1>4, <1>6 DEF Read, FramingInv

LEMMA FramingInvariant == Spec => []FramingInv
<1>1. FramingInv /\ [Next]_vars => FramingInv'
  <2>1. FramingInv /\ UNCHANGED vars => FramingInv'
    BY DEF vars, FramingInv
  <2>. QED  BY <2>1, FramingDeviceSends, FramingLineLosesByte, FramingRead DEF Next
<1>. QED  BY <1>1, FramingInit, PTL DEF Spec

LEMMA ElementsOf ==
  ASSUME NEW S, NEW s \in Seq(S), NEW m \in Range(s)
  PROVE  m \in S
BY DEF Range

(* The variables keep to the program's values, whatever the device sends   *)
(* and the line loses; a message is never handed on without its closing CR *)
(* (parseNextMessage).                                                     *)
THEOREM FramingTypeCorrect == Spec => []TypeOK
<1>1. FramingInv => TypeOK
  <2> SUFFICES ASSUME FramingInv PROVE TypeOK
    OBVIOUS
  <2>1. \A m \in Range(delivered) : m.type \in Range(statesInfoMap) /\ Last(m.text) = CR
    <3> SUFFICES ASSUME NEW m \in Range(delivered)
                 PROVE  m.type \in Range(statesInfoMap) /\ Last(m.text) = CR
      OBVIOUS
    <3>1. m \in Messages
      BY ElementsOf DEF FramingInv
    <3>. QED  BY <3>1 DEF Messages, Message, MsgTypes
  <2>. QED  BY <2>1 DEF FramingInv, TypeOK, Buffers
<1>. QED  BY <1>1, FramingInvariant, PTL

(* What the reading thread hands to processMessage is a whole message of   *)
(* the type it is announced with, and its getter understands it, whatever  *)
(* bytes the line lost and wherever the reads cut the stream               *)
(* (parseNextMessage, CDCImpl.cpp:465): as long as what initStatesInfoMap  *)
(* reads behind its array does not name the state of downloaded data.      *)
THEOREM WholeMessagesDelivered ==
  ASSUME 97 \notin OverRead
  PROVE  Spec => []DeliveredAreMessages
<1>1. FramingInv => DeliveredAreMessages
  <2> SUFFICES ASSUME FramingInv, NEW m \in Range(delivered)
               PROVE  IsMessage(m.type, m.text) /\ Understood(m.type, m.text)
    BY DEF DeliveredAreMessages
  <2>1. m \in Messages
    BY ElementsOf DEF FramingInv
  <2>. QED  BY <2>1 DEF Messages, Message, IsUnderstood
<1>. QED  BY <1>1, FramingInvariant, PTL

-----------------------------------------------------------------------------
(* What the line holds: messages one behind the other, and in front of     *)
(* them the part of one that is in the buffer already.                     *)

Fix(byte) == IF byte = GT THEN LT ELSE byte

DeviceMessages == [type : MessageTypes, text : Buffers]

(* The message marks its own end, once its head is mended. *)
Marked(m) ==
  /\ m.type \in SelfDelimitingTypes /\ IsMessage(m.type, FixHead(m.text))
  /\ FixHead(m.text) # AsyncText(<<>>)

(* The byte at a place of the buffer with the line behind it. *)
Cell(buffer, line, i) == IF i <= Len(buffer) THEN buffer[i] ELSE line[i - Len(buffer)]

(* The text is found after a place; the first byte of all may be mended.   *)
StandsAt(buffer, line, place, text) ==
  \A k \in 1..Len(text) :
    \/ Cell(buffer, line, place + k) = text[k]
    \/ place + k = 1 /\ Cell(buffer, line, place + k) = Fix(text[k])

(* The messages of s after the first d, and nothing else, each of them     *)
(* after the place that e gives for the ones before it.                    *)
Laid(buffer, line, e, s, d) ==
  /\ e[d] = 0 /\ e[Len(s)] = Len(buffer) + Len(line)
  /\ \A i \in d..Len(s) : \A j \in d..Len(s) : i <= j => e[i] <= e[j]
  /\ \A i \in Nat : d <= i /\ i < Len(s) =>
       /\ e[i + 1] = e[i] + Len(s[i + 1].text)
       /\ StandsAt(buffer, line, e[i], s[i + 1].text)

(* The messages are those of s after the first ones, in order; what is     *)
(* left in the buffer and on the line are the others.                      *)
Ordered(first, messages, buffer, line, s) ==
  /\ first + Len(messages) <= Len(s)
  /\ \A i \in 1..Len(messages) : messages[i] = Expected(s[first + i])
  /\ \E e \in [Nat -> Nat] : Laid(buffer, line, e, s, first + Len(messages))

LEMMA FixedElements ==
  ASSUME NEW s \in Buffers, s # <<>>
  PROVE  FixHead(s)[1] = Fix(s[1]) /\ \A i \in 2..Len(s) : FixHead(s)[i] = s[i]
<1>1. Head(s) = s[1] /\ Len(s) \in Nat /\ Len(s) >= 1 /\ s \in Seq(Nat)
  BY BufferBytes DEF Buffers
<1>2. CASE s[1] = GT
  <2> DEFINE t == Tail(s)
             b == <<LT>> \o t
  <2>1. FixHead(s) = b
    BY <1>1, <1>2 DEF FixHead
  <2>2. t \in Seq(Nat) /\ Len(t) = Len(s) - 1 /\ \A i \in 1..(Len(s) - 1) : t[i] = s[i + 1]
    BY <1>1
  <2> HIDE DEF t
  <2>3. b[1] = LT /\ \A i \in 2..Len(s) : b[i] = t[i - 1]
    BY <1>1, <2>2
  <2>4. \A i \in 2..Len(s) : t[i - 1] = s[i]
    <3>1. \A i \in 2..Len(s) : i - 1 \in 1..(Len(s) - 1) /\ (i - 1) + 1 = i
      BY <1>1
    <3>. QED  BY <2>2, <3>1
  <2>. QED  BY <1>2, <2>1, <2>3, <2>4 DEF Fix
<1>3. CASE s[1] # GT
  <2>1. FixHead(s) = s
    BY <1>1, <1>3 DEF FixHead
  <2>. QED  BY <1>3, <2>1 DEF Fix
<1>. QED  BY <1>2, <1>3

LEMMA MarkedText ==
  ASSUME NEW m \in DeviceMessages, Marked(m)
  PROVE  /\ FixHead(m.text) \in Buffers /\ m.text \in Buffers
         /\ Len(FixHead(m.text)) = Len(m.text)
         /\ Len(m.text) \in Nat /\ 1 <= Len(m.text) /\ m.text[Len(m.text)] = CR
         /\ Delimited(FixHead(m.text), m.type)
<1> DEFINE t == FixHead(m.text)
           n == Len(m.text)
           c == parseData(t)
<1>1. m.text \in Buffers /\ n \in Nat
  BY BufferBytes DEF DeviceMessages
<1>2. t \in Buffers /\ Len(t) = n /\ (t = <<>> <=> m.text = <<>>)
  BY <1>1, FixedHead
<1>3. Delimited(t, m.type)
  BY <1>2, SelfDelimiting DEF Marked
<1> HIDE DEF t, n
<1>4. Agrees(t, t) /\ Len(t) <= Len(t)
  BY <1>1, <1>2 DEF Agrees
<1>5. c.resultType = "PARSE_OK" /\ c.lastPosition = n - 1
  BY <1>2, <1>3, <1>4, Zenon DEF Delimited, Accepts
<1>6. c.lastPosition \in 0..(n - 1)
      /\ [type |-> c.msgType, text |-> SubSeq(t, 1, c.lastPosition + 1)] \in Messages
  BY <1>2, <1>5, AcceptedMessage, Zenon
<1>7. 1 <= n /\ c.lastPosition + 1 = n
  BY <1>1, <1>5, <1>6
<1>8. Last(SubSeq(t, 1, n)) = CR
  BY <1>6, <1>7 DEF Messages, Message
<1>9. t[n] = CR
  <2>1. t \in Seq(Nat) /\ n \in Nat /\ 1 <= n /\ n <= Len(t)
    BY <1>1, <1>2, <1>7, BufferBytes
  <2>2. Len(SubSeq(t, 1, n)) = n /\ SubSeq(t, 1, n)[n] = t[n]
    BY <2>1
  <2>. QED  BY <1>8, <2>2 DEF Last
<1>10. m.text[n] = CR
  <2>1. m.text # <<>>
    BY <1>1, <1>7 DEF n
  <2>2. t[1] = Fix(m.text[1]) /\ \A i \in 2..n : t[i] = m.text[i]
    BY <1>1, <2>1, FixedElements DEF t, n
  <2>3. CASE n = 1
    <3>1. CR # LT
      BY DEF CR, LT
    <3>. QED  BY <1>9, <2>2, <2>3, <3>1 DEF Fix
  <2>4. CASE n # 1
    <3>1. n \in 2..n
      BY <1>1, <1>7, <2>4
    <3>. QED  BY <1>9, <2>2, <3>1
  <2>. QED  BY <2>3, <2>4
<1>. QED  BY <1>1, <1>2, <1>3, <1>7, <1>10 DEF t, n

(* A message at the head of the stream, as the parser sees it.             *)
LEMMA HeadAgrees ==
  ASSUME NEW buffer \in Buffers, NEW line, NEW text \in Buffers, StandsAt(buffer, line, 0, text)
  PROVE  Agrees(FixHead(buffer), FixHead(text))
<1>1. /\ Len(FixHead(buffer)) = Len(buffer) /\ Len(FixHead(text)) = Len(text)
      /\ Len(buffer) \in Nat /\ Len(text) \in Nat
  BY FixedHead, BufferBytes
<1> SUFFICES ASSUME NEW i \in Nat, 1 <= i, i <= Len(buffer), i <= Len(text)
             PROVE  FixHead(buffer)[i] = FixHead(text)[i]
  BY <1>1 DEF Agrees
<1>2. buffer # <<>> /\ text # <<>>
  BY <1>1
<1>3. /\ FixHead(buffer)[1] = Fix(buffer[1]) /\ \A j \in 2..Len(buffer) : FixHead(buffer)[j] = buffer[j]
      /\ FixHead(text)[1] = Fix(text[1]) /\ \A j \in 2..Len(text) : FixHead(text)[j] = text[j]
  BY <1>2, FixedElements
<1>4. \/ buffer[i] = text[i]
      \/ i = 1 /\ buffer[i] = Fix(text[i])
  <2>1. i \in 1..Len(text) /\ 0 + i = i
    BY <1>1
  <2>. QED  BY <2>1 DEF StandsAt, Cell
<1>5. CASE i = 1
  <2>1. LT # GT
    BY DEF LT, GT
  <2>2. Fix(Fix(text[1])) = Fix(text[1])
    BY <2>1 DEF Fix
  <2>. QED  BY <1>3, <1>4, <1>5, <2>2
<1>6. CASE i # 1
  <2>1. i \in 2..Len(buffer) /\ i \in 2..Len(text)
    BY <1>1, <1>6
  <2>. QED  BY <1>3, <1>4, <1>6, <2>1
<1>. QED  BY <1>5, <1>6

LEMMA LengthOf ==
  ASSUME NEW S, NEW s \in Seq(S)
  PROVE  Len(s) \in Nat
OBVIOUS

(* Every byte of a message that is still to come is in the stream.         *)
LEMMA InStream ==
  ASSUME NEW s \in Seq(DeviceMessages), NEW d \in 0..Len(s), NEW e \in [Nat -> Nat],
         NEW buffer \in Buffers, NEW line \in Buffers, Laid(buffer, line, e, s, d),
         NEW i \in Nat, d <= i, i < Len(s)
  PROVE  /\ s[i + 1] \in DeviceMessages /\ s[i + 1].text \in Buffers
         /\ Len(s[i + 1].text) \in Nat /\ e[i] \in Nat
         /\ \A k \in 1..Len(s[i + 1].text) : e[i] + k \in 1..(Len(buffer) + Len(line))
<1> DEFINE text == s[i + 1].text
           n == Len(s)
<1>1. n \in Nat /\ d \in Nat /\ i + 1 \in 1..n
  <2>1. n \in Nat
    BY LengthOf
  <2> HIDE DEF n
  <2>2. d \in 0..n /\ i < n
    BY DEF n
  <2>. QED  BY <2>1, <2>2
<1>2. s[i + 1] \in DeviceMessages
  BY <1>1, SeqElements, Zenon
<1>3. text \in Buffers
  BY <1>2, Zenon DEF DeviceMessages
<1>4. Len(text) \in Nat
  BY <1>3, BufferBytes
<1>5. Len(buffer) \in Nat /\ Len(line) \in Nat
  BY BufferBytes
<1> HIDE DEF text, n
<1>6. i + 1 \in d..n /\ n \in d..n /\ i + 1 <= n
  BY <1>1 DEF n
<1>7. e[i + 1] = e[i] + Len(text) /\ e[i + 1] <= e[n] /\ e[n] = Len(buffer) + Len(line)
  BY <1>6 DEF Laid, text, n
<1>8. e[i] \in Nat /\ e[n] \in Nat /\ e[i + 1] \in Nat
  <2>1. i + 1 \in Nat
    OBVIOUS
  <2>. QED  BY <1>1, <2>1, Zenon
<1>9. \A k \in 1..Len(text) : e[i] + k \in 1..(Len(buffer) + Len(line))
  <2>1. \A a, b, m, x, y \in Nat : b = a + m /\ b <= x + y => \A k \in 1..m : a + k \in 1..(x + y)
    OBVIOUS
  <2>2. e[i + 1] <= Len(buffer) + Len(line)
    BY <1>7
  <2>. QED  BY <1>4, <1>5, <1>7, <1>8, <2>1, <2>2, Zenon
<1>. QED  BY <1>2, <1>3, <1>4, <1>8, <1>9 DEF text

(* The stream is the same, its first byte perhaps mended.                  *)
SameStream(buffer, line, b, l) ==
  /\ Len(b) + Len(l) = Len(buffer) + Len(line)
  /\ \A i \in 1..(Len(buffer) + Len(line)) :
       \/ Cell(b, l, i) = Cell(buffer, line, i)
       \/ i = 1 /\ Cell(b, l, i) = Fix(Cell(buffer, line, i))

LEMMA LaidSame ==
  ASSUME NEW s \in Seq(DeviceMessages), NEW d \in 0..Len(s), NEW e \in [Nat -> Nat],
         NEW buffer \in Buffers, NEW line \in Buffers, Laid(buffer, line, e, s, d),
         NEW b \in Buffers, NEW l \in Buffers, SameStream(buffer, line, b, l)
  PROVE  Laid(b, l, e, s, d)
<1>1. ASSUME NEW i \in Nat, d <= i, i < Len(s)
      PROVE  StandsAt(b, l, e[i], s[i + 1].text)
  <2> DEFINE text == s[i + 1].text
  <2> SUFFICES ASSUME NEW k \in 1..Len(text)
               PROVE  \/ Cell(b, l, e[i] + k) = text[k]
                      \/ e[i] + k = 1 /\ Cell(b, l, e[i] + k) = Fix(text[k])
    BY DEF StandsAt
  <2>1. e[i] + k \in 1..(Len(buffer) + Len(line))
    BY <1>1, InStream
  <2>2. \/ Cell(buffer, line, e[i] + k) = text[k]
        \/ e[i] + k = 1 /\ Cell(buffer, line, e[i] + k) = Fix(text[k])
    <3>1. StandsAt(buffer, line, e[i], text)
      BY <1>1, Zenon DEF Laid
    <3>. QED  BY <3>1, Zenon DEF StandsAt
  <2>3. \/ Cell(b, l, e[i] + k) = Cell(buffer, line, e[i] + k)
        \/ e[i] + k = 1 /\ Cell(b, l, e[i] + k) = Fix(Cell(buffer, line, e[i] + k))
    BY <2>1, Zenon DEF SameStream
  <2>4. Fix(Fix(text[k])) = Fix(text[k])
    <3>1. LT # GT
      BY DEF LT, GT
    <3>. QED  BY <3>1, Zenon DEF Fix
  <2>. QED  BY <2>2, <2>3, <2>4, Zenon
<1>2. \A i \in Nat : d <= i /\ i < Len(s) => e[i + 1] = e[i] + Len(s[i + 1].text)
  BY Zenon DEF Laid
<1>3. e[Len(s)] = Len(b) + Len(l)
  BY Zenon DEF Laid, SameStream
<1>. QED  BY <1>1, <1>2, <1>3, Zenon DEF Laid

LEMMA HeadMended ==
  ASSUME NEW buffer \in Buffers, NEW line \in Buffers
  PROVE  SameStream(buffer, line, FixHead(buffer), line)
<1>1. /\ Len(FixHead(buffer)) = Len(buffer) /\ Len(buffer) \in Nat /\ Len(line) \in Nat
  BY FixedHead, BufferBytes
<1>2. ASSUME NEW i \in 1..(Len(buffer) + Len(line))
      PROVE  \/ Cell(FixHead(buffer), line, i) = Cell(buffer, line, i)
             \/ i = 1 /\ Cell(FixHead(buffer), line, i) = Fix(Cell(buffer, line, i))
  <2>1. CASE i > Len(buffer)
    <3>1. ~(i <= Len(buffer))
      BY <1>1, <2>1
    <3>. QED  BY <1>1, <3>1 DEF Cell
  <2>2. CASE i <= Len(buffer)
    <3>1. buffer # <<>>
      BY <1>1, <2>2
    <3>2. FixHead(buffer)[1] = Fix(buffer[1]) /\ \A j \in 2..Len(buffer) : FixHead(buffer)[j] = buffer[j]
      BY <3>1, FixedElements
    <3>3. i = 1 \/ i \in 2..Len(buffer)
      BY <1>1, <2>2
    <3>. QED  BY <1>1, <2>2, <3>2, <3>3 DEF Cell
  <2>. QED  BY <1>1, <2>1, <2>2
<1>. QED  BY <1>1, <1>2 DEF SameStream

LEMMA JoinedElements ==
  ASSUME NEW s \in Seq(Nat), NEW t \in Seq(Nat)
  PROVE  /\ Len(s \o t) = Len(s) + Len(t)
         /\ \A i \in 1..Len(s) : (s \o t)[i] = s[i]
         /\ \A i \in 1..Len(t) : (s \o t)[Len(s) + i] = t[i]
OBVIOUS

LEMMA DroppedElements ==
  ASSUME NEW s \in Buffers, NEW n \in 0..Len(s)
  PROVE  \A i \in 1..(Len(s) - n) : Drop(s, n)[i] = s[n + i]
<1>1. s \in Seq(Nat) /\ Len(s) \in Nat
  BY BufferBytes
<1>2. n + 1 \in Nat /\ 1 <= n + 1 /\ n + 1 <= Len(s) + 1 /\ Len(s) <= Len(s)
      /\ Len(s) + 1 - (n + 1) = Len(s) - n
  BY <1>1
<1>3. \A i \in 1..(Len(s) + 1 - (n + 1)) : SubSeq(s, n + 1, Len(s))[i] = s[n + 1 + i - 1]
  BY <1>1, <1>2, SliceElements, Zenon
<1>4. \A i \in 1..(Len(s) - n) : n + 1 + i - 1 = n + i
  BY <1>1
<1>. QED  BY <1>2, <1>3, <1>4 DEF Drop

LEMMA BytesRead ==
  ASSUME NEW buffer \in Buffers, NEW line \in Buffers, NEW n \in 1..Len(line)
  PROVE  /\ buffer \o SubSeq(line, 1, n) \in Buffers /\ Drop(line, n) \in Buffers
         /\ Len(buffer \o SubSeq(line, 1, n)) = Len(buffer) + n
         /\ SameStream(buffer, line, buffer \o SubSeq(line, 1, n), Drop(line, n))
<1> DEFINE bytes == SubSeq(line, 1, n)
           b == buffer \o bytes
           l == Drop(line, n)
<1>1. /\ buffer \in Seq(Nat) /\ line \in Seq(Nat) /\ Len(buffer) \in Nat /\ Len(line) \in Nat
      /\ n \in Nat /\ 1 <= n /\ n <= Len(line) /\ n \in 0..Len(line)
  BY BufferBytes
<1>2. bytes \in Seq(Nat) /\ Len(bytes) = n /\ \A i \in 1..n : bytes[i] = line[i]
  BY <1>1, HeadElements
<1>3. bytes \in Buffers
  BY <1>1, Parts
<1>4. b \in Buffers
  BY <1>3, Joined, Zenon DEF Buffers
<1>5. l \in Buffers /\ Len(l) = Len(line) - n /\ \A i \in 1..(Len(line) - n) : l[i] = line[n + i]
  BY <1>1, Dropped, DroppedElements, Zenon
<1> HIDE DEF bytes
<1>6. /\ Len(b) = Len(buffer) + Len(bytes)
      /\ \A i \in 1..Len(buffer) : b[i] = buffer[i]
      /\ \A i \in 1..Len(bytes) : b[Len(buffer) + i] = bytes[i]
  BY <1>1, <1>2, JoinedElements, Zenon
<1> HIDE DEF b, l
<1>7. Len(b) = Len(buffer) + n /\ Len(b) + Len(l) = Len(buffer) + Len(line)
  BY <1>1, <1>2, <1>5, <1>6
<1>8. ASSUME NEW i \in 1..(Len(buffer) + Len(line))
      PROVE  Cell(b, l, i) = Cell(buffer, line, i)
  <2>1. CASE i <= Len(buffer)
    <3>1. i \in 1..Len(buffer) /\ i <= Len(b)
      BY <1>1, <1>7, <2>1
    <3>. QED  BY <1>6, <2>1, <3>1, Zenon DEF Cell
  <2>2. CASE ~(i <= Len(buffer)) /\ i <= Len(b)
    <3>1. i - Len(buffer) \in 1..n /\ Len(buffer) + (i - Len(buffer)) = i
      BY <1>1, <1>7, <2>2
    <3>2. b[i] = line[i - Len(buffer)]
      BY <1>2, <1>6, <3>1
    <3>. QED  BY <2>2, <3>2, Zenon DEF Cell
  <2>3. CASE ~(i <= Len(buffer)) /\ ~(i <= Len(b))
    <3>1. i - Len(b) \in 1..(Len(line) - n) /\ n + (i - Len(b)) = i - Len(buffer)
      BY <1>1, <1>7, <2>3
    <3>2. l[i - Len(b)] = line[i - Len(buffer)]
      BY <1>5, <3>1
    <3>. QED  BY <2>3, <3>2, Zenon DEF Cell
  <2>. QED  BY <2>1, <2>2, <2>3
<1>9. SameStream(buffer, line, b, l)
  BY <1>7, <1>8, Zenon DEF SameStream
<1>. QED  BY <1>4, <1>5, <1>7, <1>9 DEF b, l, bytes

(* The first message is taken from the buffer.                             *)
LEMMA CellsDropped ==
  ASSUME NEW buffer \in Buffers, NEW line \in Buffers, NEW n \in 0..Len(buffer), NEW i \in Nat,
         1 <= i
  PROVE  Cell(Drop(buffer, n), line, i) = Cell(buffer, line, n + i)
<1> DEFINE b == Drop(buffer, n)
<1>1. Len(buffer) \in Nat /\ n \in Nat
  BY BufferBytes
<1>2. Len(b) = Len(buffer) - n /\ \A j \in 1..(Len(buffer) - n) : b[j] = buffer[n + j]
  BY Dropped, DroppedElements
<1> HIDE DEF b
<1>3. CASE i <= Len(b)
  <2>1. i \in 1..(Len(buffer) - n) /\ n + i <= Len(buffer)
    BY <1>1, <1>2, <1>3
  <2>2. b[i] = buffer[n + i]
    BY <1>2, <2>1
  <2>. QED  BY <1>3, <2>1, <2>2, Zenon DEF Cell, b
<1>4. CASE ~(i <= Len(b))
  <2>1. ~(n + i <= Len(buffer)) /\ i - Len(b) = (n + i) - Len(buffer)
    BY <1>1, <1>2, <1>4
  <2>2. Cell(b, line, i) = line[i - Len(b)] /\ Cell(buffer, line, n + i) = line[(n + i) - Len(buffer)]
    BY <1>4, <2>1, Zenon DEF Cell
  <2>. QED  BY <2>1, <2>2 DEF b
<1>. QED  BY <1>3, <1>4

LEMMA LaidDropped ==
  ASSUME NEW s \in Seq(DeviceMessages), NEW d \in Nat, d < Len(s), NEW e \in [Nat -> Nat],
         NEW buffer \in Buffers, NEW line \in Buffers, Laid(buffer, line, e, s, d),
         1 <= Len(s[d + 1].text), Len(s[d + 1].text) <= Len(buffer)
  PROVE  \E f \in [Nat -> Nat] : Laid(Drop(buffer, Len(s[d + 1].text)), line, f, s, d + 1)
<1> DEFINE n == Len(s)
           first == Len(s[d + 1].text)
           b == Drop(buffer, first)
           f == [i \in Nat |-> IF d + 1 <= i /\ i <= n THEN e[i] - first ELSE 0]
<1>1. n \in Nat
  BY LengthOf
<1> HIDE DEF n
<1>2. d < n /\ d \in 0..n /\ d <= d /\ d + 1 \in d..n /\ n \in d..n /\ d + 1 \in Nat
  <2>1. d < n
    BY DEF n
  <2>. QED  BY <1>1, <2>1
<1>3. first \in Nat /\ 1 <= first /\ first \in 0..Len(buffer) /\ Len(buffer) \in Nat /\ Len(line) \in Nat
  <2>1. first \in Nat
    BY <1>2, InStream DEF n
  <2>2. Len(buffer) \in Nat /\ Len(line) \in Nat
    BY BufferBytes
  <2> HIDE DEF first
  <2>3. 1 <= first /\ first <= Len(buffer)
    BY DEF first
  <2>. QED  BY <2>1, <2>2, <2>3
<1>4. e[d + 1] = first
  <2>1. e[d] = 0 /\ e[d + 1] = e[d] + first
    BY <1>2, Zenon DEF Laid, n
  <2> HIDE DEF first
  <2>. QED  BY <1>3, <2>1
<1> HIDE DEF first
<1>5. ASSUME NEW i \in (d + 1)..n
      PROVE  i \in Nat /\ e[i] \in Nat /\ first <= e[i] /\ f[i] = e[i] - first /\ f[i] \in Nat
  <2>1. i \in Nat /\ i \in d..n /\ d + 1 <= i /\ i <= n
    BY <1>1
  <2>2. e[i] \in Nat
    BY <2>1
  <2>3. e[d + 1] <= e[i]
    BY <1>2, <2>1, Zenon DEF Laid, n
  <2>4. f[i] = e[i] - first
    BY <2>1
  <2> HIDE DEF f
  <2>5. first <= e[i] /\ f[i] \in Nat
    <3> DEFINE x == e[i]  y == f[i]
    <3>1. x \in Nat /\ first <= x /\ y = x - first
      BY <1>4, <2>2, <2>3, <2>4
    <3> HIDE DEF x, y
    <3>2. first <= x /\ y \in Nat
      BY <1>3, <3>1
    <3>. QED  BY <3>2 DEF x, y
  <2>. QED  BY <2>1, <2>2, <2>4, <2>5, Zenon
<1>6. f \in [Nat -> Nat]
  <2>1. ASSUME NEW i \in Nat
        PROVE  (IF d + 1 <= i /\ i <= n THEN e[i] - first ELSE 0) \in Nat
    <3>1. CASE d + 1 <= i /\ i <= n
      <4>1. i \in (d + 1)..n
        BY <1>1, <3>1
      <4>2. f[i] \in Nat /\ f[i] = e[i] - first
        BY <1>5, <4>1, Zenon
      <4>. QED  BY <3>1, <4>2
    <3>2. CASE ~(d + 1 <= i /\ i <= n)
      BY <3>2
    <3>. QED  BY <3>1, <3>2
  <2>. QED  BY <2>1
<1> HIDE DEF f
<1>7. b \in Buffers /\ Len(b) = Len(buffer) - first
  BY <1>3, Dropped
<1>8. f[d + 1] = 0 /\ f[n] = Len(b) + Len(line)
  <2>1. e[n] = Len(buffer) + Len(line)
    BY DEF Laid, n
  <2>2. d + 1 \in (d + 1)..n /\ n \in (d + 1)..n
    BY <1>1, <1>2
  <2>3. f[d + 1] = e[d + 1] - first /\ f[n] = e[n] - first
    BY <1>5, <2>2, Zenon
  <2> HIDE DEF b
  <2>. QED  BY <1>3, <1>4, <1>7, <2>1, <2>3
<1>9. \A i \in (d + 1)..n : \A j \in (d + 1)..n : i <= j => f[i] <= f[j]
  <2> SUFFICES ASSUME NEW i \in (d + 1)..n, NEW j \in (d + 1)..n, i <= j
               PROVE  f[i] <= f[j]
    OBVIOUS
  <2>1. i \in d..n /\ j \in d..n
    BY <1>1
  <2>2. e[i] <= e[j]
    BY <2>1, Zenon DEF Laid, n
  <2>3. /\ e[i] \in Nat /\ f[i] = e[i] - first
        /\ e[j] \in Nat /\ f[j] = e[j] - first
    BY <1>5
  <2>. QED  BY <1>3, <2>2, <2>3
<1>10. ASSUME NEW i \in Nat, d + 1 <= i, i < n
       PROVE  f[i + 1] = f[i] + Len(s[i + 1].text) /\ StandsAt(b, line, f[i], s[i + 1].text)
  <2> DEFINE text == s[i + 1].text
  <2>1. d <= i /\ i < Len(s) /\ i \in (d + 1)..n /\ i + 1 \in (d + 1)..n
    <3>1. d <= i /\ i \in (d + 1)..n /\ i + 1 \in (d + 1)..n
      BY <1>1, <1>10
    <3>. QED  BY <1>10, <3>1 DEF n
  <2>2. /\ Len(text) \in Nat /\ text \in Buffers
        /\ \A k \in 1..Len(text) : e[i] + k \in 1..(Len(buffer) + Len(line))
    <3>1. d \in 0..Len(s)
      BY <1>2 DEF n
    <3>. QED  BY <2>1, <3>1, InStream
  <2>3. e[i + 1] = e[i] + Len(text) /\ StandsAt(buffer, line, e[i], text)
    BY <2>1, Zenon DEF Laid
  <2>4. /\ e[i] \in Nat /\ first <= e[i] /\ f[i] = e[i] - first
        /\ e[i + 1] \in Nat /\ f[i + 1] = e[i + 1] - first
    BY <1>5, <2>1, Zenon
  <2> HIDE DEF text
  <2>5. f[i + 1] = f[i] + Len(text)
    BY <1>3, <2>2, <2>3, <2>4
  <2>6. ASSUME NEW k \in 1..Len(text)
        PROVE  Cell(b, line, f[i] + k) = text[k]
    <3>1. f[i] + k \in Nat /\ 1 <= f[i] + k /\ first + (f[i] + k) = e[i] + k /\ e[i] + k # 1
      <4> DEFINE x == e[i]  y == f[i]
      <4>1. x \in Nat /\ first <= x /\ y = x - first
        BY <2>4
      <4> HIDE DEF x, y
      <4>2. y + k \in Nat /\ 1 <= y + k /\ first + (y + k) = x + k /\ x + k # 1
        BY <1>3, <2>2, <4>1
      <4>. QED  BY <4>2 DEF x, y
    <3>2. Cell(b, line, f[i] + k) = Cell(buffer, line, first + (f[i] + k))
      BY <1>3, <3>1, CellsDropped
    <3>3. Cell(buffer, line, e[i] + k) = text[k]
      BY <2>3, <3>1, Zenon DEF StandsAt
    <3>. QED  BY <3>1, <3>2, <3>3, Zenon
  <2>. QED  BY <2>5, <2>6, Zenon DEF StandsAt, text
<1>11. Laid(b, line, f, s, d + 1)
  BY <1>8, <1>9, <1>10, Zenon DEF Laid, n
<1>. QED  BY <1>6, <1>11 DEF b, first

(* A message more is sent.                                                 *)
LEMMA Appended ==
  ASSUME NEW S, NEW s \in Seq(S), NEW m \in S
  PROVE  /\ Append(s, m) \in Seq(S) /\ Len(Append(s, m)) = Len(s) + 1
         /\ Append(s, m)[Len(s) + 1] = m
         /\ \A i \in 1..Len(s) : Append(s, m)[i] = s[i]
OBVIOUS

LEMMA LaidSent ==
  ASSUME NEW s \in Seq(DeviceMessages), NEW d \in 0..Len(s), NEW e \in [Nat -> Nat],
         NEW buffer \in Buffers, NEW line \in Buffers, Laid(buffer, line, e, s, d),
         NEW m \in DeviceMessages
  PROVE  \E f \in [Nat -> Nat] : Laid(buffer, line \o m.text, f, Append(s, m), d)
<1> DEFINE n == Len(s)
           t == m.text
           more == Len(t)
           l == line \o t
           s1 == Append(s, m)
           f == [i \in Nat |-> IF i <= n THEN e[i] ELSE e[n] + more]
<1>1. n \in Nat
  BY LengthOf
<1>2. /\ s1 \in Seq(DeviceMessages) /\ Len(s1) = n + 1
      /\ s1[n + 1] = m
      /\ \A i \in 1..n : s1[i] = s[i]
  BY Appended
<1>3. t \in Buffers
  BY DEF DeviceMessages
<1> HIDE DEF n, s1, t
<1>4. /\ more \in Nat /\ t \in Seq(Nat) /\ Len(buffer) \in Nat /\ Len(line) \in Nat
      /\ line \in Seq(Nat)
  BY <1>3, BufferBytes
<1>5. /\ Len(l) = Len(line) + more
      /\ \A i \in 1..Len(line) : l[i] = line[i]
      /\ \A i \in 1..more : l[Len(line) + i] = t[i]
  BY <1>4, JoinedElements, Zenon
<1> HIDE DEF more, l
<1>6. d \in Nat /\ d <= n /\ d \in d..n /\ n \in d..n /\ n + 1 \in Nat /\ ~(n + 1 <= n)
  <2>1. d \in 0..n
    BY DEF n
  <2>. QED  BY <1>1, <2>1
<1>7. e[n] \in Nat /\ e[n] = Len(buffer) + Len(line) /\ e[d] = 0
  BY <1>1, Zenon DEF Laid, n
<1>8. \A i \in Nat : i <= n => f[i] = e[i]
  OBVIOUS
<1>9. f[n + 1] = e[n] + more
  BY <1>6
<1>10. f \in [Nat -> Nat]
  <2>1. ASSUME NEW i \in Nat PROVE (IF i <= n THEN e[i] ELSE e[n] + more) \in Nat
    <3>1. e[i] \in Nat /\ e[n] \in Nat
      BY <1>1
    <3>2. \A a, b \in Nat : a + b \in Nat
      OBVIOUS
    <3>. QED  BY <1>4, <3>1, <3>2, Zenon
  <2>. QED  BY <2>1
<1> HIDE DEF f
<1>11. f[d] = 0 /\ f[n + 1] = Len(buffer) + Len(l)
  <2>1. f[d] = e[d]
    BY <1>6, <1>8, Zenon
  <2>2. e[n] + more = Len(buffer) + Len(l)
    BY <1>4, <1>5, <1>7
  <2>. QED  BY <1>7, <1>9, <2>1, <2>2, Zenon
<1>12. \A i \in d..(n + 1) : \A j \in d..(n + 1) : i <= j => f[i] <= f[j]
  <2> SUFFICES ASSUME NEW i \in d..(n + 1), NEW j \in d..(n + 1), i <= j
               PROVE  f[i] <= f[j]
    OBVIOUS
  <2>1. i \in Nat /\ j \in Nat
    BY <1>6
  <2>2. f[i] \in Nat /\ f[j] \in Nat
    BY <1>10, <2>1
  <2>3. CASE j <= n
    <3>1. i \in d..n /\ j \in d..n /\ i <= n
      BY <1>1, <1>6, <2>3
    <3>2. e[i] <= e[j]
      BY <3>1, Zenon DEF Laid, n
    <3>3. f[i] = e[i] /\ f[j] = e[j]
      BY <1>8, <2>1, <2>3, <3>1
    <3>. QED  BY <3>2, <3>3
  <2>4. CASE j = n + 1 /\ i <= n
    <3>1. i \in d..n /\ n \in d..n /\ i <= n
      BY <1>1, <1>6, <2>4
    <3>2. e[i] <= e[n]
      BY <3>1, Zenon DEF Laid, n
    <3>3. f[i] = e[i] /\ f[j] = e[n] + more
      BY <1>8, <1>9, <2>1, <2>4
    <3>4. \A a, b, c \in Nat : a <= b => a <= b + c
      OBVIOUS
    <3>5. f[i] <= e[n] /\ f[i] \in Nat /\ e[n] \in Nat
      BY <1>7, <2>2, <3>2, <3>3, Zenon
    <3>6. f[i] <= e[n] + more
      BY <1>4, <3>4, <3>5, Zenon
    <3>. QED  BY <3>3, <3>6
  <2>5. CASE j = n + 1 /\ i = n + 1
    <3>1. i = j
      BY <2>5
    <3>2. \A a \in Nat : a <= a
      OBVIOUS
    <3>. QED  BY <2>2, <3>1, <3>2, Zenon
  <2>6. j <= n \/ (j = n + 1 /\ i <= n) \/ (j = n + 1 /\ i = n + 1)
    BY <1>1, <1>6
  <2>. QED  BY <2>3, <2>4, <2>5, <2>6, Zenon
<1>13. ASSUME NEW i \in Nat, d <= i, i < n + 1
       PROVE  f[i + 1] = f[i] + Len(s1[i + 1].text) /\ StandsAt(buffer, l, f[i], s1[i + 1].text)
  <2>1. CASE i < n
    <3> DEFINE u == s[i + 1].text
    <3>1. i + 1 \in 1..n /\ i <= n /\ i + 1 <= n /\ i + 1 \in Nat /\ i < Len(s)
      <4>1. i < Len(s)
        BY <2>1 DEF n
      <4>. QED  BY <1>1, <2>1, <4>1
    <3>2. s1[i + 1] = s[i + 1] /\ f[i] = e[i] /\ f[i + 1] = e[i + 1]
      BY <1>2, <1>8, <3>1
    <3>3. e[i + 1] = e[i] + Len(u) /\ StandsAt(buffer, line, e[i], u)
      BY <1>13, <3>1, Zenon DEF Laid
    <3>4. \A k \in 1..Len(u) : e[i] + k \in 1..(Len(buffer) + Len(line))
      BY <1>13, <3>1, InStream
    <3> HIDE DEF u
    <3>5. \A c \in 1..(Len(buffer) + Len(line)) : Cell(buffer, l, c) = Cell(buffer, line, c)
      <4> SUFFICES ASSUME NEW c \in 1..(Len(buffer) + Len(line)), ~(c <= Len(buffer))
                   PROVE  l[c - Len(buffer)] = line[c - Len(buffer)]
        BY DEF Cell
      <4>1. c - Len(buffer) \in 1..Len(line)
        BY <1>4
      <4>. QED  BY <1>5, <4>1
    <3>6. StandsAt(buffer, l, e[i], u)
      BY <3>3, <3>4, <3>5, Zenon DEF StandsAt
    <3>. QED  BY <3>2, <3>3, <3>6 DEF u
  <2>2. CASE i = n
    <3>1. s1[i + 1].text = t /\ f[i] = e[n] /\ f[i + 1] = e[n] + more
      <4>1. i <= n
        BY <2>2
      <4>2. f[i] = e[i]
        BY <1>8, <4>1, Zenon
      <4>. QED  BY <1>2, <1>9, <2>2, <4>2 DEF t
    <3>2. ASSUME NEW k \in 1..more
          PROVE  Cell(buffer, l, e[n] + k) = t[k]
      <4>1. ~(e[n] + k <= Len(buffer)) /\ (e[n] + k) - Len(buffer) = Len(line) + k
        BY <1>4, <1>7
      <4>2. l[Len(line) + k] = t[k]
        BY <1>5
      <4>. QED  BY <4>1, <4>2, Zenon DEF Cell
    <3>3. StandsAt(buffer, l, e[n], t)
      BY <3>2, Zenon DEF StandsAt, more
    <3>. QED  BY <3>1, <3>3, Zenon DEF more
  <2>. QED  BY <1>1, <1>13, <2>1, <2>2
<1>14. Laid(buffer, l, f, s1, d)
  BY <1>2, <1>11, <1>12, <1>13, Zenon DEF Laid
<1>. QED  BY <1>10, <1>14 DEF l, s1, t

-----------------------------------------------------------------------------
(* processAllMessages on messages that mark their own end.                 *)

LEMMA SameElements ==
  ASSUME NEW s \in Seq(Nat), NEW t \in Seq(Nat), Len(s) = Len(t), \A i \in 1..Len(t) : s[i] = t[i]
  PROVE  s = t
OBVIOUS

LEMMA HeadIsText ==
  ASSUME NEW b \in Seq(Nat), NEW t \in Seq(Nat), Agrees(b, t), Len(t) <= Len(b), 1 <= Len(t)
  PROVE  SubSeq(b, 1, Len(t)) = t
<1> DEFINE u == SubSeq(b, 1, Len(t))
<1>1. Len(t) \in Nat /\ Len(b) \in Nat /\ Len(t) \in 1..Len(b)
  OBVIOUS
<1>2. u \in Seq(Nat) /\ Len(u) = Len(t) /\ \A i \in 1..Len(t) : u[i] = b[i]
  BY <1>1, HeadElements
<1>3. \A i \in 1..Len(t) : b[i] = t[i]
  <2>1. \A i \in 1..Len(t) : i \in Nat /\ 1 <= i /\ i <= Len(b) /\ i <= Len(t)
    BY <1>1
  <2>. QED  BY <2>1, Zenon DEF Agrees
<1> HIDE DEF u
<1>4. \A i \in 1..Len(t) : u[i] = t[i]
  BY <1>2, <1>3, Zenon
<1>5. u = t
  BY <1>2, <1>4, SameElements, Zenon
<1>. QED  BY <1>5 DEF u

(* What a buffer without a whole message holds back.                       *)
HeldBack(d, buffer, s) == d < Len(s) => Len(buffer) < Len(s[d + 1].text)

LEMMA NothingTaken ==
  ASSUME NEW r, FixHead(r.buffer) = <<>>
  PROVE  TakeMessage(r) = r
BY DEF TakeMessage, Take

LEMMA TurnInOrder ==
  ASSUME NEW s \in Seq(DeviceMessages), \A i \in 1..Len(s) : Marked(s[i]),
         NEW first \in Nat, NEW line \in Buffers, NEW r \in Rounds, r.error = FALSE,
         Ordered(first, r.messages, r.buffer, line, s)
  PROVE  /\ TakeMessage(r).error = FALSE
         /\ Ordered(first, TakeMessage(r).messages, TakeMessage(r).buffer, line, s)
         /\ Ended(r) => HeldBack(first + Len(r.messages), r.buffer, s)
<1> DEFINE d == first + Len(r.messages)
           b == FixHead(r.buffer)
           c == parseData(b)
<1>1. /\ r.buffer \in Buffers /\ r.messages \in Seq(Messages) /\ Len(s) \in Nat
      /\ Len(r.messages) \in Nat /\ Len(line) \in Nat /\ Len(r.buffer) \in Nat
  BY LengthOf, BufferBytes DEF Rounds
<1>2. d \in Nat /\ d <= Len(s) /\ \A i \in 1..Len(r.messages) : r.messages[i] = Expected(s[first + i])
  <2>1. d \in Nat
    BY <1>1
  <2>. QED  BY <2>1, Zenon DEF Ordered
<1>3. PICK e \in [Nat -> Nat] : Laid(r.buffer, line, e, s, d)
  BY Zenon DEF Ordered
<1>4. b \in Buffers /\ Len(b) = Len(r.buffer) /\ (b = <<>> <=> r.buffer = <<>>)
  BY <1>1, FixedHead
<1> HIDE DEF d, b
<1>5. CASE b = <<>>
  <2>1. TakeMessage(r) = r
    BY <1>5, NothingTaken DEF b
  <2>2. Len(r.buffer) = 0
    BY <1>4, <1>5
  <2>3. HeldBack(d, r.buffer, s)
    <3> SUFFICES ASSUME d < Len(s) PROVE Len(r.buffer) < Len(s[d + 1].text)
      BY DEF HeldBack
    <3>1. d + 1 \in 1..Len(s)
      BY <1>1, <1>2
    <3>2. s[d + 1] \in DeviceMessages /\ Marked(s[d + 1])
      BY <3>1, SeqElements, Zenon
    <3>3. 1 <= Len(s[d + 1].text) /\ Len(s[d + 1].text) \in Nat
      BY <3>2, MarkedText, Zenon
    <3> DEFINE x == Len(s[d + 1].text)
    <3> HIDE DEF x
    <3>4. 0 < x
      <4>1. 1 <= x /\ x \in Nat
        BY <3>3 DEF x
      <4>. QED  BY <4>1
    <3>. QED  BY <2>2, <3>4 DEF x
  <2>. QED  BY <2>1, <2>3 DEF d
<1>6. CASE b # <<>>
  <2>1. d < Len(s)
    <3> SUFFICES ASSUME ~(d < Len(s)) PROVE FALSE
      OBVIOUS
    <3>1. d = Len(s)
      BY <1>1, <1>2
    <3>2. Len(r.buffer) + Len(line) = 0
      BY <1>3, <3>1 DEF Laid
    <3>3. Len(b) = 0
      <4>1. \A x, y \in Nat : x + y = 0 => x = 0
        OBVIOUS
      <4>2. Len(r.buffer) = 0
        BY <1>1, <3>2, <4>1, Zenon
      <4>. QED  BY <1>4, <4>2
    <3>4. b = <<>>
      BY <1>4, <3>3 DEF Buffers
    <3>. QED  BY <1>6, <3>4
  <2> DEFINE m == s[d + 1]
             t == FixHead(m.text)
             n == Len(m.text)
  <2>2. d + 1 \in 1..Len(s) /\ d \in 0..Len(s)
    BY <1>1, <1>2, <2>1
  <2>3. m \in DeviceMessages /\ Marked(m)
    BY <2>2, SeqElements, Zenon
  <2>4. t \in Buffers /\ m.text \in Buffers /\ Len(t) = n /\ n \in Nat /\ 1 <= n /\ Delimited(t, m.type)
    BY <2>3, MarkedText, Zenon
  <2>5. StandsAt(r.buffer, line, 0, m.text)
    BY <1>2, <1>3, <2>1 DEF Laid
  <2>6. Agrees(b, t)
    BY <1>1, <2>4, <2>5, HeadAgrees DEF b
  <2>7. Laid(b, line, e, s, d)
    <3>1. SameStream(r.buffer, line, b, line)
      BY <1>1, HeadMended DEF b
    <3>. QED  BY <1>1, <1>3, <1>4, <2>2, <3>1, LaidSame, Zenon
  <2>8. TakeMessage(r) = Take(r, b, c)
    BY DEF TakeMessage, b
  <2> HIDE DEF c, t, n
  <2>9. CASE Len(b) < n
    <3>1. c.resultType = "PARSE_NOT_COMPLETE"
      BY <1>4, <2>4, <2>6, <2>9, Zenon DEF Delimited, WaitsFor, c
    <3>2. TakeMessage(r) = [r EXCEPT !.buffer = b]
      BY <1>6, <2>8, <3>1 DEF Take
    <3>3. /\ TakeMessage(r).error = FALSE /\ TakeMessage(r).messages = r.messages
          /\ TakeMessage(r).buffer = b
      BY <1>1, <3>2 DEF Rounds
    <3>4. Ordered(first, r.messages, b, line, s)
      BY <2>7, Zenon DEF Ordered, d
    <3>5. HeldBack(d, r.buffer, s)
      BY <1>4, <2>9 DEF HeldBack, n
    <3>. QED  BY <3>3, <3>4, <3>5 DEF d
  <2>10. CASE ~(Len(b) < n)
    <3> DEFINE taken == [type |-> c.msgType, text |-> SubSeq(b, 1, c.lastPosition + 1)]
               ms == Append(r.messages, taken)
               l == Len(r.messages)
    <3>1. Len(t) <= Len(b)
      <4>1. \A x, y \in Nat : ~(x < y) => y <= x
        OBVIOUS
      <4>2. Len(b) \in Nat
        BY <1>4, BufferBytes
      <4>. QED  BY <2>4, <2>10, <4>1, <4>2, Zenon
    <3>2. c.resultType = "PARSE_OK" /\ c.msgType = m.type /\ c.lastPosition = n - 1
      BY <1>4, <2>4, <2>6, <3>1, Zenon DEF Delimited, Accepts, c
    <3>3. c.lastPosition + 1 = n
      BY <2>4, <3>2
    <3>4. SubSeq(b, 1, c.lastPosition + 1) = t
      <4>1. b \in Seq(Nat) /\ t \in Seq(Nat) /\ 1 <= Len(t)
        BY <1>4, <2>4, BufferBytes
      <4>2. SubSeq(b, 1, Len(t)) = t
        BY <2>6, <3>1, <4>1, HeadIsText, Zenon
      <4>. QED  BY <2>4, <3>3, <4>2
    <3>5. taken = Expected(m)
      <4>1. taken = [type |-> m.type, text |-> t]
        BY <3>2, <3>4
      <4>2. Expected(m) = [type |-> m.type, text |-> t]
        BY <2>3, SMTT(30) DEF Expected, DeviceMessages, t
      <4>. QED  BY <4>1, <4>2, Zenon
    <3>6. TakeMessage(r) = [r EXCEPT !.buffer = Drop(b, n), !.messages = ms]
      BY <1>6, <2>8, <3>2, <3>3 DEF Take
    <3>7. taken \in Messages
      BY <1>4, <3>2, AcceptedMessage DEF c
    <3> HIDE DEF taken
    <3>8. /\ ms \in Seq(Messages) /\ Len(ms) = l + 1
          /\ ms[l + 1] = taken
          /\ \A i \in 1..l : ms[i] = r.messages[i]
      <4>1. ASSUME NEW q \in Seq(Messages)
            PROVE  /\ Append(q, taken) \in Seq(Messages) /\ Len(Append(q, taken)) = Len(q) + 1
                   /\ Append(q, taken)[Len(q) + 1] = taken
                   /\ \A i \in 1..Len(q) : Append(q, taken)[i] = q[i]
        BY <3>7, Appended
      <4>. QED  BY <1>1, <4>1
    <3> HIDE DEF ms
    <3>9. /\ TakeMessage(r).error = FALSE /\ TakeMessage(r).messages = ms
          /\ TakeMessage(r).buffer = Drop(b, n)
      BY <1>1, <3>6 DEF Rounds
    <3> HIDE DEF l
    <3>10. /\ l \in Nat /\ d = first + l /\ first + (l + 1) = d + 1 /\ first + (l + 1) <= Len(s)
           /\ l + 1 # l
      <4>1. l \in Nat /\ d = first + l
        BY <1>1 DEF l, d
      <4>. QED  BY <1>1, <2>1, <4>1
    <3>11. \A i \in 1..(l + 1) : ms[i] = Expected(s[first + i])
      <4> SUFFICES ASSUME NEW i \in 1..(l + 1) PROVE ms[i] = Expected(s[first + i])
        OBVIOUS
      <4>1. CASE i = l + 1
        BY <3>5, <3>8, <3>10, <4>1
      <4>2. CASE i # l + 1
        <5>1. i \in 1..l
          BY <3>10, <4>2
        <5>. QED  BY <1>2, <3>8, <5>1, Zenon DEF l
      <4>. QED  BY <4>1, <4>2
    <3>12. \E f \in [Nat -> Nat] : Laid(Drop(b, n), line, f, s, d + 1)
      <4>1. 1 <= Len(s[d + 1].text) /\ Len(s[d + 1].text) <= Len(b)
        BY <2>4, <3>1 DEF n
      <4>. QED  BY <1>2, <1>4, <2>1, <2>7, <4>1, LaidDropped, Zenon DEF n
    <3>13. Ordered(first, ms, Drop(b, n), line, s)
      BY <3>8, <3>10, <3>11, <3>12, Zenon DEF Ordered
    <3>14. ~Ended(r)
      <4>1. TakeMessage(r).messages # r.messages
        BY <3>8, <3>9, <3>10 DEF l
      <4>. QED  BY <4>1 DEF Ended
    <3>. QED  BY <3>9, <3>13, <3>14, Zenon
  <2>. QED  BY <2>9, <2>10
<1>. QED  BY <1>5, <1>6

LEMMA RoundsInOrder ==
  ASSUME NEW s \in Seq(DeviceMessages), \A i \in 1..Len(s) : Marked(s[i]),
         NEW first \in Nat, NEW line \in Buffers, NEW r \in Rounds, r.error = FALSE,
         Ordered(first, r.messages, r.buffer, line, s)
  PROVE  \A n \in Nat :
           LET q == RoundsFrom(r)[n] IN
             q \in Rounds /\ q.error = FALSE /\ Ordered(first, q.messages, q.buffer, line, s)
<1> DEFINE g == RoundsFrom(r)
           InOrder(q) == q \in Rounds /\ q.error = FALSE
                           /\ Ordered(first, q.messages, q.buffer, line, s)
           S == {n \in Nat : InOrder(g[n])}
<1>1. g[0] = r /\ \A n \in Nat : g[n + 1] = TakeMessage(g[n])
  BY RoundsUnfold
<1>2. ASSUME NEW q, InOrder(q) PROVE InOrder(TakeMessage(q))
  <2>1. TakeMessage(q) \in Rounds
    BY <1>2, TurnOfRounds
  <2>2. /\ TakeMessage(q).error = FALSE
        /\ Ordered(first, TakeMessage(q).messages, TakeMessage(q).buffer, line, s)
    BY <1>2, TurnInOrder, Zenon
  <2>. QED  BY <2>1, <2>2
<1>3. InOrder(r)
  OBVIOUS
<1> HIDE DEF g, InOrder
<1>4. 0 \in S
  BY <1>1, <1>3
<1>5. ASSUME NEW n \in Nat, n \in S PROVE n + 1 \in S
  <2>1. InOrder(g[n + 1])
    BY <1>1, <1>2, <1>5
  <2>2. n + 1 \in Nat
    OBVIOUS
  <2>. QED  BY <2>1, <2>2
<1> HIDE DEF S
<1>6. Nat \subseteq S
  BY <1>4, <1>5, SetInduction, Zenon
<1>. QED  BY <1>6 DEF S, InOrder, g

(* What processAllMessages does with a buffer that holds messages one      *)
(* behind the other: it takes those that are whole, and refuses nothing.   *)
LEMMA ProcessedInOrder ==
  ASSUME NEW s \in Seq(DeviceMessages), \A i \in 1..Len(s) : Marked(s[i]),
         NEW first \in Nat, NEW line \in Buffers, NEW buffer \in Buffers,
         lastReceptionError = FALSE, Ordered(first, <<>>, buffer, line, s)
  PROVE  LET r == processAllMessages(buffer) IN
           /\ r \in Rounds /\ r.error = FALSE
           /\ Ordered(first, r.messages, r.buffer, line, s)
           /\ HeldBack(first + Len(r.messages), r.buffer, s)
<1> DEFINE q == FirstRound(buffer)
           r == processAllMessages(buffer)
<1>1. q \in Rounds /\ q.buffer = buffer
  BY FirstRoundFits
<1>2. q.messages = <<>> /\ q.error = FALSE
  BY DEF FirstRound
<1> HIDE DEF q
<1>3. Ordered(first, q.messages, q.buffer, line, s)
  BY <1>1, <1>2
<1>4. \A n \in Nat :
        LET p == RoundsFrom(q)[n] IN
          p \in Rounds /\ p.error = FALSE /\ Ordered(first, p.messages, p.buffer, line, s)
  BY <1>1, <1>2, <1>3, RoundsInOrder, Zenon
<1>5. r = RoundsFrom(q)[Len(buffer)]
  BY AllRounds DEF q
<1>6. Len(buffer) \in Nat
  BY BufferBytes
<1>7. Ended(r)
  BY ProcessingEnds DEF Ended
<1> HIDE DEF r
<1>8. r \in Rounds /\ r.error = FALSE /\ Ordered(first, r.messages, r.buffer, line, s)
  BY <1>4, <1>5, <1>6, Zenon
<1>9. HeldBack(first + Len(r.messages), r.buffer, s)
  BY <1>7, <1>8, TurnInOrder, Zenon
<1>. QED  BY <1>8, <1>9 DEF r

-----------------------------------------------------------------------------
(* The stream between the device and processMessage.                       *)

(* Every message the device may send marks its own end.                    *)
MarkTheirEnd == \A m \in Frames[platform] : Marked(m)

(* As long as nothing is lost, the delivered messages are the first ones   *)
(* sent; the buffer and the line hold the others, byte for byte, and the   *)
(* buffer less than the next one.                                          *)
OrderInv ==
  Undamaged /\ MarkTheirEnd =>
    /\ lastReceptionError = FALSE
    /\ Ordered(0, delivered, receivedBytes, wire, sent)
    /\ HeldBack(Len(delivered), receivedBytes, sent)

LEMMA SentAreMarked ==
  FramingInv /\ MarkTheirEnd =>
    /\ Frames[platform] \subseteq DeviceMessages
    /\ sent \in Seq(DeviceMessages) /\ \A i \in 1..Len(sent) : Marked(sent[i])
<1> SUFFICES ASSUME FramingInv, MarkTheirEnd
             PROVE  /\ Frames[platform] \subseteq DeviceMessages
                    /\ sent \in Seq(DeviceMessages) /\ \A i \in 1..Len(sent) : Marked(sent[i])
  OBVIOUS
<1>1. Frames[platform] \subseteq DeviceMessages
  BY FramesAssumption DEF FramingInv, DeviceMessages, Buffers
<1>2. sent \in Seq(Frames[platform])
  BY DEF FramingInv
<1>3. sent \in Seq(DeviceMessages) /\ \A i \in 1..Len(sent) : sent[i] \in Frames[platform]
  BY <1>1, <1>2, SeqElements, Zenon
<1>. QED  BY <1>1, <1>3 DEF MarkTheirEnd

LEMMA OrderInit == Init => OrderInv
<1> SUFFICES ASSUME Init PROVE OrderInv
  OBVIOUS
<1>1. sent = <<>> /\ wire = <<>> /\ receivedBytes = <<>> /\ delivered = <<>> /\ lastReceptionError = FALSE
  BY DEF Init
<1>2. Len(<<>>) = 0
  OBVIOUS
<1> DEFINE e == [i \in Nat |-> 0]
<1>3. Laid(<<>>, <<>>, e, <<>>, 0)
  BY <1>2 DEF Laid
<1>4. Ordered(0, <<>>, <<>>, <<>>, <<>>)
  <2>1. e \in [Nat -> Nat] /\ 0 + Len(<<>>) = 0 /\ 0 <= 0 /\ \A i \in 1..0 : FALSE
    OBVIOUS
  <2> HIDE DEF e
  <2>. QED  BY <1>2, <1>3, <2>1 DEF Ordered
<1>5. HeldBack(0, <<>>, <<>>)
  BY <1>2 DEF HeldBack
<1>. QED  BY <1>1, <1>2, <1>4, <1>5 DEF OrderInv

LEMMA OrderDeviceSends == FramingInv /\ OrderInv /\ DeviceSends => OrderInv'
<1> SUFFICES ASSUME FramingInv, OrderInv, DeviceSends, Undamaged', MarkTheirEnd'
             PROVE  /\ lastReceptionError' = FALSE
                    /\ Ordered(0, delivered', receivedBytes', wire', sent')
                    /\ HeldBack(Len(delivered'), receivedBytes', sent')
  BY DEF OrderInv, Ordered, HeldBack, Laid, StandsAt, Cell
<1>1. /\ UNCHANGED <<platform, losses, receivedBytes, delivered, lastReceptionError>>
  BY DEF DeviceSends
<1>2. Undamaged /\ MarkTheirEnd
  BY <1>1 DEF Undamaged, MarkTheirEnd, Marked
<1>3. PICK m \in Frames[platform] : sent' = Append(sent, m) /\ wire' = wire \o m.text
  BY DEF DeviceSends
<1>4. m \in DeviceMessages /\ sent \in Seq(DeviceMessages)
  BY <1>2, <1>3, SentAreMarked
<1>5. /\ Len(sent') = Len(sent) + 1
      /\ \A i \in 1..Len(sent) : sent'[i] = sent[i]
  BY <1>3, <1>4, Appended
<1> DEFINE d == Len(delivered)
<1>6. d \in Nat /\ Len(sent) \in Nat /\ wire \in Buffers /\ receivedBytes \in Buffers
  <2>1. delivered \in Seq(Messages)
    BY DEF FramingInv
  <2>. QED  BY <1>4, <2>1, LengthOf DEF FramingInv
<1>7. /\ 0 + d = d /\ d <= Len(sent)
      /\ \A i \in 1..d : delivered[i] = Expected(sent[0 + i])
  BY <1>2, <1>6 DEF OrderInv, Ordered
<1>8. PICK e \in [Nat -> Nat] : Laid(receivedBytes, wire, e, sent, d)
  BY <1>2, <1>7 DEF OrderInv, Ordered
<1>9. d \in 0..Len(sent)
  BY <1>6, <1>7
<1> HIDE DEF d
<1>10. \E f \in [Nat -> Nat] : Laid(receivedBytes, wire', f, sent', d)
  BY <1>3, <1>4, <1>6, <1>8, <1>9, LaidSent, Zenon
<1>11. \A i \in 1..d : delivered[i] = Expected(sent'[0 + i])
  <2>1. \A i \in 1..d : 0 + i = i /\ i \in 1..Len(sent)
    BY <1>6, <1>7
  <2>. QED  BY <1>5, <1>7, <2>1
<1>12. 0 + d <= Len(sent')
  BY <1>5, <1>6, <1>7
<1>13. Ordered(0, delivered, receivedBytes, wire', sent')
  BY <1>7, <1>10, <1>11, <1>12, Zenon DEF Ordered, d
<1>14. HeldBack(d, receivedBytes, sent')
  <2> SUFFICES ASSUME d < Len(sent') PROVE Len(receivedBytes) < Len(sent'[d + 1].text)
    BY DEF HeldBack
  <2>1. CASE d < Len(sent)
    <3>1. d + 1 \in 1..Len(sent)
      BY <1>6, <2>1
    <3>2. Len(receivedBytes) < Len(sent[d + 1].text)
      BY <1>2, <2>1, Zenon DEF OrderInv, HeldBack, d
    <3>. QED  BY <1>5, <3>1, <3>2
  <2>2. CASE ~(d < Len(sent))
    <3>1. d = Len(sent)
      BY <1>6, <1>7, <2>2
    <3>2. sent'[d + 1] = m
      BY <1>3, <1>4, <3>1, Appended
    <3>3. Len(receivedBytes) + Len(wire) = 0
      BY <1>8, <3>1 DEF Laid
    <3>4. Len(receivedBytes) \in Nat /\ Len(wire) \in Nat
      BY <1>6, BufferBytes
    <3>5. 1 <= Len(m.text) /\ Len(m.text) \in Nat
      <4>1. Marked(m)
        BY <1>2, <1>3 DEF MarkTheirEnd
      <4>. QED  BY <1>4, <4>1, MarkedText, Zenon
    <3>6. \A x, y, z \in Nat : x + y = 0 /\ 1 <= z => x < z
      OBVIOUS
    <3>. QED  BY <3>2, <3>3, <3>4, <3>5, <3>6
  <2>. QED  BY <2>1, <2>2
<1>15. lastReceptionError = FALSE
  BY <1>2 DEF OrderInv
<1>. QED  BY <1>1, <1>13, <1>14, <1>15 DEF d

(* What was read without a CR does not complete a message: the reader may  *)
(* wait for more before it looks (MessageEnd).                             *)
LEMMA NoEndRead ==
  ASSUME NEW s \in Seq(DeviceMessages), \A i \in 1..Len(s) : Marked(s[i]),
         NEW d \in 0..Len(s), NEW e \in [Nat -> Nat], NEW n \in ReadSizes,
         FramingInv, HeldBack(d, receivedBytes, s), wire # <<>>,
         Laid(receivedBytes \o SubSeq(wire, 1, n), Drop(wire, n), e, s, d),
         ~MessageEnd(SubSeq(wire, 1, n), receivedBytes \o SubSeq(wire, 1, n))
  PROVE  HeldBack(d, receivedBytes \o SubSeq(wire, 1, n), s)
<1> DEFINE bytes == SubSeq(wire, 1, n)
           buffer == receivedBytes \o bytes
           line == Drop(wire, n)
           text == s[d + 1].text
           l == Len(text)
<1> SUFFICES ASSUME d < Len(s), ~(Len(buffer) < l) PROVE FALSE
  BY DEF HeldBack
<1>1. d \in Nat /\ Len(s) \in Nat /\ d + 1 \in 1..Len(s) /\ d <= d
  <2>1. Len(s) \in Nat
    BY LengthOf
  <2>. QED  BY <2>1
<1>2. s[d + 1] \in DeviceMessages /\ Marked(s[d + 1])
  BY <1>1, SeqElements, Zenon
<1>3. text \in Buffers /\ l \in Nat /\ 1 <= l /\ text[l] = CR
  BY <1>2, MarkedText, Zenon
<1>4. receivedBytes \in Buffers /\ wire \in Buffers /\ Len(wire) \in Nat /\ Len(receivedBytes) \in Nat
  BY BufferBytes DEF FramingInv
<1>5. n \in 1..Len(wire) /\ (platform = "Windows" => n = 1)
  <2>1. Len(wire) >= 1
    BY <1>4 DEF Buffers
  <2>2. n \in IF platform = "Linux" THEN 1..Len(wire) ELSE {1}
    BY DEF ReadSizes
  <2>3. 1 \in 1..Len(wire) /\ "Windows" # "Linux"
    BY <1>4, <2>1
  <2>4. CASE platform = "Linux"
    BY <2>2, <2>3, <2>4, Zenon
  <2>5. CASE platform # "Linux"
    <3>1. n = 1
      BY <2>2, <2>5
    <3>. QED  BY <2>3, <3>1, Zenon
  <2>. QED  BY <2>4, <2>5
<1>6. buffer \in Buffers /\ Len(buffer) = Len(receivedBytes) + n
  BY <1>4, <1>5, BytesRead, Zenon
<1>7. StandsAt(buffer, line, 0, text)
  BY <1>1 DEF Laid
<1>8. Len(receivedBytes) < l
  BY Zenon DEF HeldBack
<1> HIDE DEF text, line, l
<1>9. l \in 1..Len(text) /\ 0 + l = l /\ l <= Len(buffer)
  <2>1. Len(buffer) \in Nat
    BY <1>6, BufferBytes
  <2> HIDE DEF buffer
  <2>2. ~(Len(buffer) < l)
    BY DEF l
  <2>3. l <= Len(buffer)
    BY <1>3, <2>1, <2>2
  <2>. QED  BY <1>3, <2>3 DEF l
<1>10. buffer[l] = CR
  <2> HIDE DEF buffer
  <2>1. Cell(buffer, line, l) = text[l] \/ Cell(buffer, line, l) = Fix(text[l])
    BY <1>7, <1>9 DEF StandsAt
  <2>2. Fix(CR) = CR
    BY DEF Fix, CR, GT
  <2>. QED  BY <1>3, <1>9, <2>1, <2>2 DEF Cell
<1>11. CASE platform = "Linux"
  <2>1. l \in DOMAIN buffer
    <3>1. DOMAIN buffer = 1..Len(buffer) /\ Len(buffer) \in Nat
      <4>1. \A b \in Buffers : DOMAIN b = 1..Len(b) /\ Len(b) \in Nat
        BY DEF Buffers
      <4>. QED  BY <1>6, <4>1, Zenon
    <3> HIDE DEF buffer
    <3>. QED  BY <1>3, <1>9, <3>1
  <2>2. CR \in Range(buffer)
    BY <1>10, <2>1, Zenon DEF Range
  <2>. QED  BY <1>11, <2>2 DEF MessageEnd
<1>12. CASE platform # "Linux"
  <2>1. n = 1
    BY <1>12, FramingAssumption, <1>5 DEF FramingInv
  <2>2. l = Len(receivedBytes) + 1
    <3> DEFINE x == Len(receivedBytes)  y == Len(buffer)
    <3>1. y = x + 1 /\ x < l /\ l <= y /\ x \in Nat
      BY <1>4, <1>6, <1>8, <1>9, <2>1
    <3> HIDE DEF x, y
    <3>2. l = x + 1
      BY <1>3, <3>1
    <3>. QED  BY <3>2 DEF x
  <2>3. bytes \in Seq(Nat) /\ Len(bytes) = 1
    <3>1. wire \in Seq(Nat)
      BY <1>4, BufferBytes
    <3>. QED  BY <1>5, <2>1, <3>1, HeadElements
  <2>4. buffer[Len(receivedBytes) + 1] = bytes[1]
    <3>1. receivedBytes \in Seq(Nat) /\ 1 \in 1..Len(bytes)
      BY <1>4, <2>3, BufferBytes
    <3> HIDE DEF bytes
    <3>. QED  BY <2>3, <3>1, JoinedElements
  <2>5. bytes[1] = CR
    BY <1>10, <2>2, <2>4
  <2>6. bytes = <<CR>>
    BY <2>3, <2>5, OneOf, Zenon
  <2>. QED  BY <1>12, <2>6, Zenon DEF MessageEnd
<1>. QED  BY <1>11, <1>12

(* What is delivered goes on where it stopped.                             *)
LEMMA OrderedOn ==
  ASSUME NEW s, NEW ms \in Seq(Messages), NEW more \in Seq(Messages), NEW buffer, NEW line,
         \A i \in 1..Len(ms) : ms[i] = Expected(s[0 + i]),
         Ordered(Len(ms), more, buffer, line, s)
  PROVE  Ordered(0, ms \o more, buffer, line, s) /\ Len(ms \o more) = Len(ms) + Len(more)
<1> DEFINE all == ms \o more
           a == Len(ms)
           b == Len(more)
<1>1. a \in Nat /\ b \in Nat
  BY LengthOf
<1>2. /\ Len(all) = a + b
      /\ \A i \in 1..a : all[i] = ms[i]
      /\ \A i \in 1..b : all[a + i] = more[i]
  OBVIOUS
<1>3. /\ a + b <= Len(s) /\ \A i \in 1..b : more[i] = Expected(s[a + i])
      /\ \E e \in [Nat -> Nat] : Laid(buffer, line, e, s, a + b)
  BY Zenon DEF Ordered
<1> HIDE DEF all, b
<1>4. 0 + Len(all) = a + b
  BY <1>1, <1>2
<1>5. ASSUME NEW i \in 1..Len(all) PROVE all[i] = Expected(s[0 + i])
  <2>1. CASE i \in 1..a
    BY <1>2, <2>1, Zenon
  <2>2. CASE i \notin 1..a
    <3> DEFINE j == i - a
    <3>1. j \in 1..b /\ a + j = i /\ 0 + i = i
      BY <1>1, <1>2, <2>2
    <3> HIDE DEF j
    <3>2. all[a + j] = more[j] /\ more[j] = Expected(s[a + j])
      BY <1>2, <1>3, <3>1, Zenon
    <3>. QED  BY <3>1, <3>2
  <2>. QED  BY <2>1, <2>2
<1>6. Ordered(0, all, buffer, line, s)
  BY <1>3, <1>4, <1>5 DEF Ordered
<1>. QED  BY <1>2, <1>6 DEF all, b

LEMMA OrderRead == FramingInv /\ OrderInv /\ Read => OrderInv'
<1> SUFFICES ASSUME FramingInv, OrderInv, Read, Undamaged', MarkTheirEnd'
             PROVE  /\ lastReceptionError' = FALSE
                    /\ Ordered(0, delivered', receivedBytes', wire', sent')
                    /\ HeldBack(Len(delivered'), receivedBytes', sent')
  BY DEF OrderInv, Ordered, HeldBack, Laid, StandsAt, Cell
<1>1. UNCHANGED <<platform, sent, losses>> /\ wire # <<>>
  BY DEF Read
<1>2. Undamaged /\ MarkTheirEnd
  BY <1>1 DEF Undamaged, MarkTheirEnd, Marked
<1>3. PICK n \in ReadSizes : /\ wire' = Drop(wire, n)
                             /\ Receive(SubSeq(wire, 1, n), receivedBytes \o SubSeq(wire, 1, n))
  BY DEF Read
<1>4. sent \in Seq(DeviceMessages) /\ \A i \in 1..Len(sent) : Marked(sent[i])
  BY <1>2, SentAreMarked
<1>5. wire \in Buffers /\ receivedBytes \in Buffers /\ delivered \in Seq(Messages)
  BY DEF FramingInv
<1>6. n \in 1..Len(wire)
  <2>1. Len(wire) \in Nat /\ Len(wire) >= 1
    BY <1>1, <1>5, BufferBytes DEF Buffers
  <2>. QED  BY <2>1 DEF ReadSizes
<1> DEFINE bytes == SubSeq(wire, 1, n)
           buffer == receivedBytes \o bytes
           d == Len(delivered)
<1>7. buffer \in Buffers /\ wire' \in Buffers /\ SameStream(receivedBytes, wire, buffer, wire')
  BY <1>3, <1>5, <1>6, BytesRead, Zenon
<1>8. d \in Nat /\ Len(sent) \in Nat /\ 0 + d = d /\ d + 0 = d
  BY <1>4, <1>5, LengthOf
<1>9. /\ lastReceptionError = FALSE /\ HeldBack(d, receivedBytes, sent)
      /\ Ordered(0, delivered, receivedBytes, wire, sent)
  BY <1>2 DEF OrderInv
<1>10. d <= Len(sent) /\ \A i \in 1..d : delivered[i] = Expected(sent[0 + i])
  BY <1>8, <1>9 DEF Ordered
<1>11. PICK e \in [Nat -> Nat] : Laid(receivedBytes, wire, e, sent, d)
  BY <1>8, <1>9 DEF Ordered
<1>12. d \in 0..Len(sent)
  BY <1>8, <1>10
<1>13. Laid(buffer, wire', e, sent, d)
  BY <1>4, <1>5, <1>7, <1>11, <1>12, LaidSame, Zenon
<1>14. CASE MessageEnd(bytes, buffer)
  <2> DEFINE r == processAllMessages(buffer)
  <2>1. Store(r)
    BY <1>3, <1>14 DEF Receive
  <2>2. Ordered(d, <<>>, buffer, wire', sent)
    <3>1. d + Len(<<>>) = d /\ \A i \in 1..Len(<<>>) : FALSE
      BY <1>8
    <3> HIDE DEF d, buffer
    <3>. QED  BY <1>10, <1>13, <3>1 DEF Ordered
  <2> HIDE DEF bytes, buffer
  <2>3. /\ r \in Rounds /\ r.error = FALSE /\ Ordered(d, r.messages, r.buffer, wire', sent)
        /\ HeldBack(d + Len(r.messages), r.buffer, sent)
    BY <1>4, <1>7, <1>8, <1>9, <2>2, ProcessedInOrder, Zenon
  <2> HIDE DEF r
  <2>4. r.messages \in Seq(Messages)
    BY <2>3 DEF Rounds
  <2>5. /\ Ordered(0, delivered \o r.messages, r.buffer, wire', sent)
        /\ Len(delivered \o r.messages) = d + Len(r.messages)
    BY <1>5, <1>10, <2>3, <2>4, OrderedOn, Zenon
  <2>. QED  BY <1>1, <2>1, <2>3, <2>5 DEF Store
<1>15. CASE ~MessageEnd(bytes, buffer)
  <2>1. receivedBytes' = buffer /\ UNCHANGED <<delivered, lastReceptionError>>
    BY <1>3, <1>15 DEF Receive
  <2>2. HeldBack(d, buffer, sent)
    BY <1>1, <1>3, <1>4, <1>9, <1>12, <1>13, <1>15, NoEndRead, Zenon
  <2>3. Ordered(0, delivered, buffer, wire', sent)
    <3> HIDE DEF buffer
    <3>. QED  BY <1>8, <1>10, <1>13 DEF Ordered
  <2>. QED  BY <1>1, <1>9, <2>1, <2>2, <2>3 DEF d
<1>. QED  BY <1>14, <1>15

LEMMA LossIsDamage == FramingInv /\ LineLosesByte => ~Undamaged'
<1> SUFFICES ASSUME FramingInv, LineLosesByte PROVE ~Undamaged'
  OBVIOUS
<1>1. losses \in Nat /\ losses' = losses + 1
  BY FramingAssumption DEF FramingInv, LineLosesByte
<1>. QED  BY <1>1 DEF Undamaged

LEMMA OrderInvariant == Spec => []OrderInv
<1>1. FramingInv /\ OrderInv /\ [Next]_vars => OrderInv'
  <2> SUFFICES ASSUME FramingInv, OrderInv, [Next]_vars PROVE OrderInv'
    OBVIOUS
  <2>1. CASE DeviceSends
    BY <2>1, OrderDeviceSends
  <2>2. CASE LineLosesByte
    BY <2>2, LossIsDamage DEF OrderInv
  <2>3. CASE Read
    BY <2>3, OrderRead
  <2>4. CASE UNCHANGED vars
    <3> SUFFICES ASSUME Undamaged', MarkTheirEnd'
                 PROVE  /\ lastReceptionError' = FALSE
                        /\ Ordered(0, delivered', receivedBytes', wire', sent')
                        /\ HeldBack(Len(delivered'), receivedBytes', sent')
      BY DEF OrderInv, Ordered, HeldBack, Laid, StandsAt, Cell
    <3>1. UNCHANGED <<platform, sent, wire, losses, receivedBytes, delivered, lastReceptionError>>
      BY <2>4 DEF vars
    <3>2. Undamaged /\ MarkTheirEnd
      BY <3>1 DEF Undamaged, MarkTheirEnd, Marked
    <3>. QED  BY <3>1, <3>2 DEF OrderInv
  <2>. QED  BY <2>1, <2>2, <2>3, <2>4 DEF Next
<1>. QED  BY <1>1, OrderInit, FramingInvariant, PTL DEF Spec

(* The messages sent, as processMessage should see them.                   *)
SentTexts == [i \in DOMAIN sent |-> Expected(sent[i])]

LEMMA SentTextsElements ==
  ASSUME NEW S, sent \in Seq(S)
  PROVE  /\ SentTexts \in Seq({Expected(m) : m \in S}) /\ Len(SentTexts) = Len(sent)
         /\ \A i \in 1..Len(sent) : SentTexts[i] = Expected(sent[i])
<1> DEFINE T == {Expected(m) : m \in S}
           n == Len(sent)
<1>1. DOMAIN sent = 1..n /\ n \in Nat /\ \A i \in 1..n : sent[i] \in S
  OBVIOUS
<1>2. \A i \in 1..n : Expected(sent[i]) \in T
  BY <1>1
<1> HIDE DEF n, T
<1>3. SentTexts = [i \in 1..n |-> Expected(sent[i])]
  BY <1>1 DEF SentTexts
<1>4. \A f, U : f \in [1..n -> U] => f \in Seq(U) /\ Len(f) = n
  BY <1>1
<1>5. SentTexts \in [1..n -> T] /\ \A i \in 1..n : SentTexts[i] = Expected(sent[i])
  BY <1>2, <1>3
<1>. QED  BY <1>4, <1>5 DEF n, T

LEMMA OrderFacts ==
  ASSUME FramingInv, OrderInv, Undamaged, MarkTheirEnd
  PROVE  /\ sent \in Seq(DeviceMessages) /\ delivered \in Seq(Messages)
         /\ lastReceptionError = FALSE /\ Len(delivered) \in Nat /\ Len(sent) \in Nat
         /\ Len(delivered) <= Len(sent)
         /\ \A i \in 1..Len(delivered) : delivered[i] = Expected(sent[i])
<1>1. sent \in Seq(DeviceMessages) /\ delivered \in Seq(Messages)
  BY SentAreMarked DEF FramingInv
<1>2. Len(delivered) \in Nat /\ Len(sent) \in Nat /\ 0 + Len(delivered) = Len(delivered)
  <2>1. Len(delivered) \in Nat /\ Len(sent) \in Nat
    BY <1>1, LengthOf
  <2>. QED  BY <2>1
<1>3. lastReceptionError = FALSE /\ Ordered(0, delivered, receivedBytes, wire, sent)
  BY DEF OrderInv
<1>4. \A i \in 1..Len(delivered) : delivered[i] = Expected(sent[i])
  <2>1. \A i \in 1..Len(delivered) : 0 + i = i
    BY <1>2
  <2>. QED  BY <1>3, <2>1 DEF Ordered
<1>. QED  BY <1>1, <1>2, <1>3, <1>4 DEF Ordered

(* Whatever the reads returned, once the line is empty every message has   *)
(* been handed on, with its type and its whole text, in order, and none    *)
(* twice (processAllMessages, CDCImpl.cpp:438): when the messages mark     *)
(* their own end and none of their bytes is lost.                          *)
THEOREM EveryMessageProcessed == Spec => [](MarkTheirEnd => AllMessagesProcessed)
<1>1. FramingInv /\ OrderInv => (MarkTheirEnd => AllMessagesProcessed)
  <2> SUFFICES ASSUME FramingInv, OrderInv, MarkTheirEnd, Undamaged, wire = <<>>
               PROVE  delivered = SentTexts
    BY DEF AllMessagesProcessed, SentTexts
  <2> DEFINE d == Len(delivered)
  <2>1. /\ sent \in Seq(DeviceMessages) /\ delivered \in Seq(Messages)
        /\ d \in Nat /\ Len(sent) \in Nat /\ d <= Len(sent)
        /\ \A i \in 1..d : delivered[i] = Expected(sent[i])
    BY OrderFacts, Zenon
  <2>2. d = Len(sent)
    <3> SUFFICES ASSUME d < Len(sent) PROVE FALSE
      BY <2>1
    <3>1. 0 + d = d /\ d <= d /\ d + 1 \in d..Len(sent) /\ Len(sent) \in d..Len(sent)
          /\ d + 1 <= Len(sent) /\ d + 1 \in Nat
      BY <2>1
    <3>2. HeldBack(d, receivedBytes, sent) /\ Ordered(0, delivered, receivedBytes, wire, sent)
      BY DEF OrderInv
    <3>3. PICK e \in [Nat -> Nat] : Laid(receivedBytes, wire, e, sent, d)
      BY <3>1, <3>2 DEF Ordered
    <3> HIDE DEF d
    <3>4. e[d] = 0 /\ e[d + 1] = e[d] + Len(sent[d + 1].text)
      BY <2>1, <3>1, <3>3, Zenon DEF Laid
    <3>5. e[d + 1] <= e[Len(sent)] /\ e[Len(sent)] = Len(receivedBytes) + Len(wire)
      BY <3>1, <3>3, Zenon DEF Laid
    <3>6. Len(receivedBytes) < Len(sent[d + 1].text)
      BY <3>2, Zenon DEF HeldBack
    <3>7. Len(sent[d + 1].text) \in Nat
      <4>1. d + 1 \in 1..Len(sent)
        BY <2>1
      <4>2. sent[d + 1] \in DeviceMessages
        BY <2>1, <4>1, SeqElements, Zenon
      <4>3. sent[d + 1].text \in Buffers
        BY <4>2, Zenon DEF DeviceMessages
      <4>. QED  BY <4>3, BufferBytes, Zenon
    <3>8. Len(receivedBytes) \in Nat /\ Len(wire) = 0
      BY BufferBytes DEF FramingInv
    <3>9. \A a, b, x, y, z \in Nat : a = 0 + x /\ a <= b /\ b = y + z /\ z = 0 /\ y < x => FALSE
      OBVIOUS
    <3>10. e[d + 1] \in Nat /\ e[Len(sent)] \in Nat /\ Len(wire) \in Nat
      BY <2>1, <3>1, <3>8
    <3>11. e[d + 1] = 0 + Len(sent[d + 1].text)
      BY <3>4
    <3>. QED  BY <3>5, <3>6, <3>7, <3>8, <3>9, <3>10, <3>11, Zenon
  <2>3. /\ SentTexts \in Seq({Expected(m) : m \in DeviceMessages}) /\ Len(SentTexts) = Len(sent)
        /\ \A i \in 1..Len(sent) : SentTexts[i] = Expected(sent[i])
    BY <2>1, SentTextsElements, Zenon
  <2>4. \A S, T : \A s \in Seq(S), t \in Seq(T) :
           Len(s) = Len(t) /\ (\A i \in 1..Len(s) : s[i] = t[i]) => s = t
    OBVIOUS
  <2>5. Len(delivered) = Len(SentTexts) /\ \A i \in 1..Len(delivered) : delivered[i] = SentTexts[i]
    BY <2>1, <2>2, <2>3
  <2>. QED  BY <2>1, <2>3, <2>4, <2>5, Zenon
<1>. QED  BY <1>1, FramingInvariant, OrderInvariant, PTL

(* "Bad message format" is recorded only after the line lost a byte        *)
(* (processAllMessages, CDCImpl.cpp:447), when the messages mark their own *)
(* end.                                                                    *)
THEOREM RefusalIsExplained == Spec => [](MarkTheirEnd => RefusalExplained)
<1>1. OrderInv => (MarkTheirEnd => RefusalExplained)
  BY DEF OrderInv, RefusalExplained
<1>. QED  BY <1>1, OrderInvariant, PTL

-----------------------------------------------------------------------------
(* The channel of whole messages.                                          *)

LEMMA PlatformStays == MarkTheirEnd /\ [Next]_vars => MarkTheirEnd'
BY DEF MarkTheirEnd, Marked, Next, DeviceSends, LineLosesByte, Read, vars

LEMMA ChannelSends ==
  ASSUME FramingInv, DeviceSends
  PROVE  Channel!Send
<1>1. PICK m \in Frames[platform] : sent' = Append(sent, m)
  BY DEF DeviceSends
<1> DEFINE S == Frames[platform]
           n == Len(sent)
<1>2. sent \in Seq(S) /\ n \in Nat /\ DOMAIN sent = 1..n
  BY DEF FramingInv
<1>3. /\ sent' \in Seq(S) /\ Len(sent') = n + 1 /\ sent'[n + 1] = m
      /\ \A i \in 1..n : sent'[i] = sent[i]
  BY <1>1, <1>2, Appended
<1>4. DOMAIN sent' = 1..(n + 1)
  BY <1>3
<1>5. [i \in DOMAIN sent' |-> Expected(sent'[i])]
        = Append([i \in DOMAIN sent |-> Expected(sent[i])], Expected(m))
  <2> DEFINE a == [i \in 1..n |-> Expected(sent[i])]
             b == [i \in 1..(n + 1) |-> Expected(sent'[i])]
             T == {Expected(q) : q \in S}
  <2>1. a \in Seq(T) /\ Len(a) = n /\ Expected(m) \in T /\ \A i \in 1..n : a[i] = Expected(sent[i])
    <3>1. SentTexts \in Seq(T) /\ Len(SentTexts) = n
      BY <1>2, SentTextsElements
    <3>2. SentTexts = a
      BY <1>2 DEF SentTexts
    <3>3. Expected(m) \in T
      OBVIOUS
    <3> HIDE DEF T
    <3>4. \A i \in 1..n : a[i] = Expected(sent[i])
      OBVIOUS
    <3> HIDE DEF a, n
    <3>. QED  BY <3>1, <3>2, <3>3, <3>4
  <2> HIDE DEF a
  <2>2. /\ Append(a, Expected(m)) \in Seq(T) /\ Len(Append(a, Expected(m))) = n + 1
        /\ Append(a, Expected(m))[n + 1] = Expected(m)
        /\ \A i \in 1..n : Append(a, Expected(m))[i] = a[i]
    <3> HIDE DEF T
    <3>. QED  BY <2>1, Appended
  <2> HIDE DEF T
  <2>3. ASSUME NEW i \in 1..(n + 1) PROVE b[i] = Append(a, Expected(m))[i]
    <3>1. b[i] = Expected(sent'[i])
      OBVIOUS
    <3> HIDE DEF b
    <3>2. CASE i = n + 1
      BY <1>3, <2>2, <3>1, <3>2
    <3>3. CASE i # n + 1
      <4>1. i \in 1..n
        BY <1>2, <3>3
      <4>. QED  BY <1>3, <2>1, <2>2, <3>1, <4>1
    <3>. QED  BY <3>2, <3>3
  <2>4. Append(a, Expected(m)) = [i \in 1..(n + 1) |-> Append(a, Expected(m))[i]]
    <3>1. \A U : \A s \in Seq(U) : s = [i \in 1..Len(s) |-> s[i]]
      OBVIOUS
    <3> DEFINE q == Append(a, Expected(m))
    <3>2. q \in Seq(T) /\ Len(q) = n + 1
      BY <2>2
    <3> HIDE DEF q, n
    <3>3. q = [i \in 1..Len(q) |-> q[i]]
      BY <3>1, <3>2, Zenon
    <3>4. q = [i \in 1..(n + 1) |-> q[i]]
      BY <3>2, <3>3
    <3>. QED  BY <3>4 DEF q
  <2>5. b = Append(a, Expected(m))
    <3> HIDE DEF n
    <3>. QED  BY <2>3, <2>4
  <2>. QED  BY <1>2, <1>4, <2>5 DEF a, b
<1>6. Expected(m) \in {Expected(q) : q \in UNION {Frames[p] : p \in Platforms}}
  BY <1>1 DEF FramingInv
<1>7. delivered' = delivered
  BY DEF DeviceSends
<1>. QED  BY <1>5, <1>6, <1>7, Zenon DEF Channel!Send

LEMMA ChannelDelivers ==
  ASSUME FramingInv, OrderInv, MarkTheirEnd, Read, FramingInv', OrderInv', Undamaged'
  PROVE  Channel!Deliver \/ UNCHANGED Channel!vars
<1> DEFINE d == Len(delivered)
           n == Len(delivered')
<1>1. UNCHANGED <<platform, sent, losses>>
  BY DEF Read
<1>2. Undamaged /\ MarkTheirEnd'
  BY <1>1 DEF Undamaged, MarkTheirEnd, Marked
<1>3. /\ sent \in Seq(DeviceMessages) /\ delivered \in Seq(Messages)
      /\ d \in Nat /\ Len(sent) \in Nat
      /\ \A i \in 1..d : delivered[i] = Expected(sent[i])
  BY <1>2, OrderFacts, Zenon
<1>4. delivered' \in Seq(Messages)
  BY DEF FramingInv
<1>5. /\ n \in Nat /\ n <= Len(sent)
      /\ \A i \in 1..n : delivered'[i] = Expected(sent[i])
  <2>1. Ordered(0, delivered', receivedBytes', wire', sent')
    BY <1>2 DEF OrderInv, Ordered, Laid, StandsAt, Cell
  <2>2. n \in Nat
    BY <1>4, LengthOf
  <2>3. 0 + n = n /\ \A i \in 1..n : 0 + i = i
    BY <2>2
  <2>. QED  BY <1>1, <2>1, <2>2, <2>3 DEF Ordered
<1>6. d <= n
  <2>1. PICK k \in ReadSizes : Receive(SubSeq(wire, 1, k), receivedBytes \o SubSeq(wire, 1, k))
    BY DEF Read
  <2> DEFINE buffer == receivedBytes \o SubSeq(wire, 1, k)
             r == processAllMessages(buffer)
  <2>2. CASE delivered' = delivered
    BY <1>3, <2>2
  <2>3. CASE delivered' # delivered
    <3>1. delivered' = delivered \o r.messages
      BY <2>1, <2>3 DEF Receive, Store
    <3>2. buffer \in Buffers
      <4>1. wire \in Buffers /\ receivedBytes \in Buffers
        BY DEF FramingInv
      <4>2. Len(wire) \in Nat /\ Len(wire) >= 1
        BY <4>1, BufferBytes DEF Read, Buffers
      <4>3. k \in 1..Len(wire)
        BY <4>2 DEF ReadSizes
      <4>. QED  BY <4>1, <4>3, BytesRead, Zenon
    <3> HIDE DEF buffer
    <3>3. r \in Rounds
      BY <3>2, ProcessingEnds DEF FramingInv
    <3> HIDE DEF r
    <3>4. r.messages \in Seq(Messages)
      BY <3>3 DEF Rounds
    <3>5. Len(r.messages) \in Nat /\ n = d + Len(r.messages)
      BY <1>3, <3>1, <3>4
    <3>. QED  BY <1>3, <3>5
  <2>. QED  BY <2>2, <2>3
<1>7. [i \in DOMAIN sent' |-> Expected(sent'[i])] = SentTexts
  BY <1>1 DEF SentTexts
<1>8. /\ SentTexts \in Seq({Expected(m) : m \in DeviceMessages}) /\ Len(SentTexts) = Len(sent)
      /\ \A i \in 1..Len(sent) : SentTexts[i] = Expected(sent[i])
  BY <1>3, SentTextsElements, Zenon
<1>9. CASE n = d
  <2>1. \A S : \A s \in Seq(S), t \in Seq(S) :
           Len(s) = Len(t) /\ (\A i \in 1..Len(s) : s[i] = t[i]) => s = t
    OBVIOUS
  <2>2. \A i \in 1..n : delivered'[i] = delivered[i]
    BY <1>3, <1>5, <1>9
  <2>3. delivered' = delivered
    BY <1>3, <1>4, <1>9, <2>1, <2>2, Zenon
  <2>. QED  BY <1>7, <2>3 DEF Channel!vars, SentTexts
<1>10. CASE n # d
  <2>1. n \in (d + 1)..Len(sent)
    BY <1>3, <1>5, <1>6, <1>10
  <2>2. delivered' = SubSeq(SentTexts, 1, n)
    <3> DEFINE u == SubSeq(SentTexts, 1, n)
               T == {Expected(m) : m \in DeviceMessages}
    <3>1. \A S : \A s \in Seq(S) : \A k \in Nat : k <= Len(s) =>
            SubSeq(s, 1, k) \in Seq(S) /\ Len(SubSeq(s, 1, k)) = k
              /\ \A i \in 1..k : SubSeq(s, 1, k)[i] = s[i]
      OBVIOUS
    <3> HIDE DEF T
    <3>2. n <= Len(SentTexts) /\ SentTexts \in Seq(T)
      BY <1>5, <1>8 DEF T
    <3>3. u \in Seq(T) /\ Len(u) = n /\ \A i \in 1..n : u[i] = SentTexts[i]
      BY <1>5, <3>1, <3>2, Zenon
    <3> HIDE DEF u
    <3>4. \A i \in 1..n : i \in 1..Len(sent)
      BY <1>3, <1>5
    <3>5. \A i \in 1..n : delivered'[i] = u[i]
      BY <1>5, <1>8, <3>3, <3>4
    <3>6. \A S, U : \A s \in Seq(S), t \in Seq(U) :
            Len(s) = Len(t) /\ (\A i \in 1..Len(s) : s[i] = t[i]) => s = t
      OBVIOUS
    <3>7. delivered' = u
      BY <1>4, <3>3, <3>5, <3>6, Zenon
    <3>. QED  BY <3>7 DEF u
  <2>3. n \in (Len(delivered) + 1)..Len(SentTexts)
    BY <1>8, <2>1
  <2>4. Channel!Deliver
    BY <1>7, <2>2, <2>3 DEF Channel!Deliver, SentTexts
  <2>. QED  BY <2>4
<1>. QED  BY <1>9, <1>10

(* The reading thread implements the channel of whole messages that the    *)
(* command/response cycle starts from, for every set of messages that mark *)
(* their own end and however the reads cut the stream, as long as the line *)
(* loses nothing (appendDataFromPort, processAllMessages).                 *)
THEOREM ImplementsChannel == Spec /\ MarkTheirEnd => ChannelSpec
<1>1. Init => Channel!Init
  <2> SUFFICES ASSUME Init PROVE Channel!Init
    OBVIOUS
  <2>1. sent = <<>> /\ delivered = <<>>
    BY DEF Init
  <2>2. [i \in DOMAIN <<>> |-> Expected(<<>>[i])] = <<>>
    OBVIOUS
  <2>. QED  BY <2>1, <2>2 DEF Channel!Init
<1>2. /\ FramingInv /\ FramingInv' /\ OrderInv /\ OrderInv' /\ MarkTheirEnd /\ [Next]_vars
      => [Undamaged' => Channel!Next]_(Channel!vars)
  <2> SUFFICES ASSUME FramingInv, FramingInv', OrderInv, OrderInv', MarkTheirEnd, [Next]_vars,
                      Undamaged'
               PROVE  Channel!Next \/ UNCHANGED Channel!vars
    OBVIOUS
  <2>1. CASE DeviceSends
    BY <2>1, ChannelSends DEF Channel!Next
  <2>2. CASE LineLosesByte
    BY <2>2, LossIsDamage
  <2>3. CASE Read
    BY <2>3, ChannelDelivers DEF Channel!Next
  <2>4. CASE UNCHANGED vars
    BY <2>4 DEF vars, Channel!vars
  <2>. QED  BY <2>1, <2>2, <2>3, <2>4 DEF Next
<1>. QED  BY <1>1, <1>2, PlatformStays, FramingInvariant, OrderInvariant, PTL DEF Spec, ChannelSpec
=============================================================================
