-------------------------- MODULE CDCParserBytesProofs --------------------------
(***************************************************************************)
(* The properties of parseData on a buffer that grows, for every stream of *)
(* bytes.                                                                  *)
(***************************************************************************)
EXTENDS CDCParserBytes, CDCGrammarProofs

(* What has arrived, and what is still to arrive, are bytes. *)
BytesInv == data \in Buffers /\ rest \in Buffers

LEMMA SeqParts ==
  ASSUME NEW S, NEW s \in Seq(S), s # <<>>
  PROVE  Head(s) \in S /\ Tail(s) \in Seq(S)
OBVIOUS

LEMMA BytesInvariant == Spec => []BytesInv
<1>1. Init => BytesInv
  BY StreamsAssumption DEF Init, BytesInv, Buffers
<1>2. BytesInv /\ [Next]_vars => BytesInv'
  <2> SUFFICES ASSUME BytesInv, [Next]_vars PROVE BytesInv'
    OBVIOUS
  <2>1. CASE ByteArrives
    <3>1. Head(rest) \in 0..255 /\ Tail(rest) \in Buffers
      BY <2>1, SeqParts, Zenon DEF ByteArrives, BytesInv, Buffers
    <3>. QED  BY <2>1, <3>1 DEF ByteArrives, BytesInv, Buffers
  <2>2. CASE UNCHANGED vars
    BY <2>2 DEF vars, BytesInv
  <2>. QED  BY <2>1, <2>2 DEF Next
<1>. QED  BY <1>1, <1>2, PTL DEF Spec

(* The loop of parseData ends, whatever bytes the port delivers and        *)
(* however many: each turn moves on in the buffer, or leaves a special     *)
(* state for good (the loop at CDCMessageParser.cpp:725).                  *)
THEOREM LoopAlwaysEnds == Spec => []LoopEnds
<1>1. BytesInv => LoopEnds
  BY LoopEndsAlways DEF BytesInv, LoopEnds
<1>. QED  BY <1>1, BytesInvariant, PTL

-----------------------------------------------------------------------------
(* One more byte.                                                          *)

LEMMA OneByteMore ==
  ASSUME NEW buffer \in Buffers, NEW b \in 0..255
  PROVE  /\ Append(buffer, b) \in Buffers
         /\ Len(buffer) \in Nat
         /\ Len(Append(buffer, b)) = Len(buffer) + 1
         /\ \A i \in 1..Len(buffer) : Append(buffer, b)[i] = buffer[i]
         /\ \A i \in 0..(Len(buffer) - 1) : At(Append(buffer, b), i) = At(buffer, i)
<1>1. /\ Append(buffer, b) \in Buffers
      /\ Len(buffer) \in Nat
      /\ Len(Append(buffer, b)) = Len(buffer) + 1
      /\ \A i \in 1..Len(buffer) : Append(buffer, b)[i] = buffer[i]
  BY DEF Buffers
<1>2. \A i \in 0..(Len(buffer) - 1) : i + 1 \in 1..Len(buffer)
  BY <1>1
<1>. QED  BY <1>1, <1>2, Zenon DEF At

(* The loop has read the whole buffer without a verdict. *)
Waits(buffer, c) == c.resultType = "PARSE_NOT_COMPLETE" /\ ~Looping(buffer, c)

(* What a special state's procedure returns for both buffers, or else the  *)
(* shorter one ends before it can tell.                                    *)
SameOrEnd(buffer, r, s) == s = r \/ (~r.formatError /\ r.newState \notin finiteStates
                                       /\ r.lastPosition + 1 >= Len(buffer))

LEMMA ReadsToEnd ==
  ASSUME NEW buffer, NEW state, state \notin finiteStates, NEW last, last + 1 >= Len(buffer),
         NEW s
  PROVE  SameOrEnd(buffer, StateProcResult(state, last), s)
BY Zenon DEF SameOrEnd, StateProcResult

LEMMA USBInfoMore ==
  ASSUME NEW buffer \in Buffers, NEW b \in 0..255, 3 < Len(buffer)
  PROVE  SameOrEnd(buffer, processUSBInfo(buffer, 3), processUSBInfo(Append(buffer, b), 3))
<1> DEFINE more  == Append(buffer, b)
           n     == Len(buffer)
           stops(d) == {i \in 3..(Len(d) - 1) : USBInfoError(d, 3, i) \/ USBInfoEnd(d, 3, i)}
<1>1. n \in Nat /\ Len(more) = n + 1 /\ \A i \in 0..(n - 1) : At(more, i) = At(buffer, i)
  BY OneByteMore
<1> HIDE DEF more, n
<1>2. ASSUME NEW i \in 3..(n - 1)
      PROVE  /\ USBInfoError(more, 3, i) <=> USBInfoError(buffer, 3, i)
             /\ USBInfoEnd(more, 3, i) <=> USBInfoEnd(buffer, 3, i)
  <2>1. At(more, i) = At(buffer, i)
    BY <1>1
  <2>2. {j \in 3..(i - 1) : At(more, j) = HASH} = {j \in 3..(i - 1) : At(buffer, j) = HASH}
    <3>1. \A j \in 3..(i - 1) : j \in 0..(n - 1)
      BY <1>1
    <3>. QED  BY <1>1, <3>1
  <2>3. Section(more, 3, i) = Section(buffer, 3, i)
    BY <2>2 DEF Section
  <2>. QED  BY <2>1, <2>3 DEF USBInfoError, USBInfoEnd
<1>3. CASE 3 = n - 1
  <2>1. processUSBInfo(buffer, 3) = StateProcResult(17, 3)
    BY <1>3 DEF processUSBInfo, n
  <2>2. 3 + 1 >= n
    <3>1. \A x \in Nat : 3 = x - 1 => 3 + 1 >= x
      OBVIOUS
    <3>. QED  BY <1>1, <1>3, <3>1
  <2>3. 17 \notin finiteStates
    BY DEF finiteStates
  <2>. QED  BY <2>1, <2>2, <2>3, ReadsToEnd DEF n
<1>4. CASE 3 # n - 1 /\ stops(buffer) = {}
  <2>1. processUSBInfo(buffer, 3) = StateProcResult(18, n - 1)
    BY <1>4 DEF processUSBInfo, USBInfoResult, n
  <2>2. (n - 1) + 1 >= n
    BY <1>1
  <2>3. 18 \notin finiteStates
    BY DEF finiteStates
  <2>. QED  BY <2>1, <2>2, <2>3, ReadsToEnd DEF n
<1>5. CASE 3 # n - 1 /\ stops(buffer) # {}
  <2> DEFINE m == Min(stops(buffer))
  <2>1. m \in stops(buffer) /\ \A i \in stops(buffer) : m <= i
    <3>1. stops(buffer) \in SUBSET Nat
      BY <1>1 DEF n
    <3> HIDE DEF stops
    <3>. QED  BY <1>5, <3>1, MinNat
  <2>2. m \in 3..(n - 1) /\ m \in Nat
    BY <1>1, <2>1 DEF n
  <2>3. stops(more) \in SUBSET Nat /\ m \in stops(more)
    BY <1>1, <1>2, <2>1, <2>2 DEF n
  <2>4. \A i \in stops(more) : m <= i
    <3> SUFFICES ASSUME NEW i \in stops(more), ~(m <= i) PROVE FALSE
      OBVIOUS
    <3>1. i \in 3..(n - 1)
      BY <1>1, <2>2
    <3>2. i \in stops(buffer)
      BY <1>2, <3>1 DEF n
    <3>. QED  BY <2>1, <3>2
  <2>5. Min(stops(more)) = m
    <3>1. stops(more) # {}
      BY <2>3
    <3> DEFINE M == Min(stops(more))
    <3>2. M \in stops(more) /\ M <= m /\ m <= M /\ M \in Nat
      <4> HIDE DEF stops, m
      <4>. QED  BY <2>3, <2>4, <3>1, MinNat
    <3> HIDE DEF stops, m, M
    <3>3. M = m
      BY <2>2, <3>2
    <3>. QED  BY <3>3 DEF M
  <2>6. 3 # Len(more) - 1
    <3>1. \A x \in Nat : 3 < x => 3 # (x + 1) - 1
      OBVIOUS
    <3>. QED  BY <1>1, <3>1 DEF n
  <2>7. processUSBInfo(buffer, 3) = USBInfoResult(buffer, 3, stops(buffer))
    BY <1>5 DEF processUSBInfo, n
  <2>8. processUSBInfo(more, 3) = USBInfoResult(more, 3, stops(more))
    BY <2>6 DEF processUSBInfo
  <2>9. USBInfoResult(more, 3, stops(more)) = USBInfoResult(buffer, 3, stops(buffer))
    <3>1. stops(more) # {} /\ stops(buffer) # {}
      BY <1>5, <2>3
    <3>2. /\ USBInfoEnd(more, 3, m) = USBInfoEnd(buffer, 3, m)
          /\ USBInfoError(more, 3, m) = USBInfoError(buffer, 3, m)
      <4>1. /\ USBInfoError(more, 3, m) <=> USBInfoError(buffer, 3, m)
            /\ USBInfoEnd(more, 3, m) <=> USBInfoEnd(buffer, 3, m)
        BY <1>2, <2>2
      <4>2. \A d : USBInfoError(d, 3, m) \in BOOLEAN /\ USBInfoEnd(d, 3, m) \in BOOLEAN
        BY DEF USBInfoError, USBInfoEnd
      <4> HIDE DEF m
      <4>. QED  BY <4>1, <4>2
    <3> HIDE DEF stops
    <3>. QED  BY <2>5, <3>1, <3>2, Zenon DEF USBInfoResult
  <2>. QED  BY <2>7, <2>8, <2>9 DEF SameOrEnd, more
<1>. QED  BY <1>3, <1>4, <1>5

LEMMA AsynDataMore ==
  ASSUME NEW buffer \in Buffers, NEW b \in 0..255, 5 < Len(buffer)
  PROVE  SameOrEnd(buffer, processAsynData(buffer, 5), processAsynData(Append(buffer, b), 5))
<1> DEFINE more == Append(buffer, b)
           n    == Len(buffer)
           len  == buffer[4]
<1>1. n \in Nat /\ Len(more) = n + 1 /\ more[4] = len /\ len \in Nat
  <2>1. n \in Nat
    BY BufferBytes
  <2>2. 4 \in 1..n
    BY <2>1
  <2>3. len \in Nat
    BY <2>2, BufferBytes, Zenon
  <2>. QED  BY <2>1, <2>2, <2>3, OneByteMore
<1> HIDE DEF more, n, len
<1>2. \A d : /\ 5 = Len(d) - 1 => processAsynData(d, 5) = StateProcResult(50, 5)
             /\ 5 # Len(d) - 1 => processAsynData(d, 5) =
                  StateProcResult(51, IF 5 + d[4] >= Len(d) THEN Len(d) - 1 ELSE 5 - 1 + d[4])
  BY DEF processAsynData, At
<1>3. 50 \notin finiteStates /\ 51 \notin finiteStates
  BY DEF finiteStates
<1>4. CASE 5 = n - 1
  <2>1. processAsynData(buffer, 5) = StateProcResult(50, 5)
    BY <1>2, <1>4 DEF n
  <2>2. 5 + 1 >= n
    <3>1. \A x \in Nat : 5 = x - 1 => 5 + 1 >= x
      OBVIOUS
    <3>. QED  BY <1>1, <1>4, <3>1
  <2>. QED  BY <1>3, <2>1, <2>2, ReadsToEnd DEF n
<1>5. CASE 5 # n - 1 /\ 5 + len >= n
  <2>1. processAsynData(buffer, 5) = StateProcResult(51, n - 1)
    BY <1>2, <1>5 DEF n, len
  <2>2. (n - 1) + 1 >= n
    BY <1>1
  <2>. QED  BY <1>3, <2>1, <2>2, ReadsToEnd DEF n
<1>6. CASE 5 # n - 1 /\ ~(5 + len >= n)
  <2>1. processAsynData(buffer, 5) = StateProcResult(51, 5 - 1 + len)
    BY <1>2, <1>6 DEF n, len
  <2>2. 5 # Len(more) - 1 /\ ~(5 + more[4] >= Len(more))
    <3>1. \A x, y \in Nat : 5 < x /\ ~(5 + y >= x) => 5 # (x + 1) - 1 /\ ~(5 + y >= x + 1)
      OBVIOUS
    <3>. QED  BY <1>1, <1>6, <3>1 DEF n
  <2>3. processAsynData(more, 5) = StateProcResult(51, 5 - 1 + len)
    BY <1>1, <1>2, <2>2
  <2>. QED  BY <2>1, <2>3 DEF SameOrEnd, more
<1>. QED  BY <1>4, <1>5, <1>6

LEMMA ProceedMore ==
  ASSUME NEW buffer \in Buffers, NEW c \in Configurations, c.resultType = "PARSE_NOT_COMPLETE",
         NEW r, NEW s, SameOrEnd(buffer, r, s), ProcResult(buffer, c.pos, r)
  PROVE  Proceed(c, s) = Proceed(c, r) \/ Waits(buffer, Proceed(c, r))
<1>1. CASE s = r
  BY <1>1
<1>2. CASE ~r.formatError /\ r.newState \notin finiteStates /\ r.lastPosition + 1 >= Len(buffer)
  <2> DEFINE last == r.lastPosition
             d    == [c EXCEPT !.state = r.newState, !.lastPosition = last, !.pos = last + 1]
  <2>1. Proceed(c, r) = d
    BY <1>2 DEF Proceed, Enter
  <2>2. d.pos = last + 1 /\ d.resultType = "PARSE_NOT_COMPLETE"
    BY DEF Configurations
  <2>3. last + 1 \in Nat /\ Len(buffer) \in Nat /\ last + 1 >= Len(buffer)
    BY <1>2, BufferBytes DEF ProcResult
  <2> HIDE DEF d, last
  <2>4. ~(d.pos < Len(buffer))
    BY <2>2, <2>3
  <2>5. Waits(buffer, d)
    BY <2>2, <2>4 DEF Waits, Looping
  <2>. QED  BY <2>1, <2>5
<1>. QED  BY <1>1, <1>2 DEF SameOrEnd

(* A turn is the same with one more byte in the buffer, unless the state   *)
(* looks at the size of the buffer, or the shorter buffer has no verdict.  *)
LEMMA TurnMore ==
  ASSUME NEW buffer \in Buffers, NEW b \in 0..255, NEW c, ConfInv(buffer, c),
         Looping(buffer, c), c.state \notin {21, 95}
  PROVE  \/ Step(Append(buffer, b), c) = Step(buffer, c)
         \/ Waits(buffer, Step(buffer, c))
<1> DEFINE more == Append(buffer, b)
<1>1. /\ c \in Configurations /\ c.pos \in Nat /\ c.pos < Len(buffer)
      /\ c.resultType = "PARSE_NOT_COMPLETE" /\ Shape(buffer, c.state, c.pos)
  BY DEF ConfInv, Configurations, Looping
<1>2. /\ Len(buffer) \in Nat /\ Len(more) = Len(buffer) + 1
      /\ \A i \in 0..(Len(buffer) - 1) : At(more, i) = At(buffer, i)
  BY OneByteMore
<1>3. Looping(more, c) /\ At(more, c.pos) = At(buffer, c.pos)
  BY <1>1, <1>2 DEF Looping
<1> HIDE DEF more
<1>4. CASE c.state \notin specialStates
  <2>1. Step(more, c) = TransitionStep(more, c) /\ Step(buffer, c) = TransitionStep(buffer, c)
    BY <1>3, <1>4 DEF Step
  <2>2. TransitionStep(more, c) = TransitionStep(buffer, c)
    BY <1>3 DEF TransitionStep
  <2>. QED  BY <2>1, <2>2 DEF more
<1>5. ASSUME NEW r, NEW s, SameOrEnd(buffer, r, s), ProcResult(buffer, c.pos, r),
             c.state \in specialStates,
             processSpecialState(c.state, buffer, c.pos) = r,
             processSpecialState(c.state, more, c.pos) = s
      PROVE  Step(more, c) = Step(buffer, c) \/ Waits(buffer, Step(buffer, c))
  <2>1. Step(buffer, c) = Proceed(c, r) /\ Step(more, c) = Proceed(c, s)
    BY <1>3, <1>5 DEF Step, SpecialStep
  <2>. QED  BY <1>1, <1>5, <2>1, ProceedMore
<1>6. CASE c.state = 17
  <2>1. Spells(buffer, 17, c.pos)
    BY <1>1, <1>6 DEF Shape, Spelled
  <2>2. c.pos = 3
    BY <2>1 DEF Spells
  <2>3. \A d : processSpecialState(c.state, d, c.pos) = processUSBInfo(d, 3)
    BY <1>6, <2>2 DEF processSpecialState
  <2>4. ProcResult(buffer, c.pos, processUSBInfo(buffer, 3))
    BY <1>1, <2>1, <2>2, USBInfoProc
  <2>5. SameOrEnd(buffer, processUSBInfo(buffer, 3), processUSBInfo(more, 3))
    BY <1>1, <2>2, USBInfoMore DEF more
  <2>6. c.state \in specialStates
    BY <1>6 DEF specialStates
  <2>. QED  BY <1>5, <2>3, <2>4, <2>5, <2>6 DEF more
<1>7. CASE c.state = 50
  <2>1. Spells(buffer, 50, c.pos)
    BY <1>1, <1>7 DEF Shape, Spelled
  <2>2. c.pos = 5
    BY <2>1 DEF Spells
  <2>3. \A d : processSpecialState(c.state, d, c.pos) = processAsynData(d, 5)
    BY <1>7, <2>2 DEF processSpecialState
  <2>4. ProcResult(buffer, c.pos, processAsynData(buffer, 5))
    BY <1>1, <2>1, <2>2, AsynDataProc
  <2>5. SameOrEnd(buffer, processAsynData(buffer, 5), processAsynData(more, 5))
    BY <1>1, <2>2, AsynDataMore DEF more
  <2>6. c.state \in specialStates
    BY <1>7 DEF specialStates
  <2>. QED  BY <1>5, <2>3, <2>4, <2>5, <2>6 DEF more
<1>. QED  BY <1>4, <1>6, <1>7 DEF specialStates, more

(* The loop that has stopped stays as it is. *)
LEMMA StoppedStays ==
  ASSUME NEW buffer \in Buffers, NEW n \in Nat, ~Looping(buffer, Iterations(buffer)[n])
  PROVE  \A m \in Nat : n <= m => Iterations(buffer)[m] = Iterations(buffer)[n]
<1> DEFINE g == Iterations(buffer)
           S == {m \in Nat : n <= m => g[m] = g[n]}
<1>1. /\ \A m \in Nat : g[m + 1] = Step(buffer, g[m])
      /\ ConfInv(buffer, g[n])
  BY IterationsUnfold, IterationsInv
<1>2. Step(buffer, g[n]) = g[n]
  BY <1>1, Turn
<1> HIDE DEF g
<1>3. 0 \in S
  BY DEF S
<1>4. ASSUME NEW m \in Nat, m \in S PROVE m + 1 \in S
  <2>1. CASE n <= m
    BY <1>1, <1>2, <1>4, <2>1
  <2>2. CASE n = m + 1
    BY <2>2
  <2>3. CASE ~(n <= m + 1)
    BY <2>3
  <2>. QED  BY <2>1, <2>2, <2>3
<1> HIDE DEF S
<1>5. Nat \subseteq S
  BY <1>3, <1>4, SetInduction, Zenon
<1>. QED  BY <1>5 DEF S, g

(* A buffer with a verdict is read turn by turn as with one more byte. *)
LEMMA IterationsMore ==
  ASSUME NEW buffer \in Buffers, NEW b \in 0..255, Decided(buffer),
         \A n \in Nat : Looping(buffer, Iterations(buffer)[n])
                          => Iterations(buffer)[n].state \notin {21, 95}
  PROVE  \A n \in Nat : n <= Len(buffer) + 1
                          => Iterations(Append(buffer, b))[n] = Iterations(buffer)[n]
<1> DEFINE more == Append(buffer, b)
           len  == Len(buffer)
           g    == Iterations(buffer)
           h    == Iterations(more)
           S    == {n \in Nat : n <= len + 1 => h[n] = g[n]}
<1>1. more \in Buffers /\ len \in Nat /\ Len(more) = len + 1
  BY OneByteMore
<1>2. /\ g[0] = Start /\ h[0] = Start
      /\ \A n \in Nat : g[n + 1] = Step(buffer, g[n])
      /\ \A n \in Nat : h[n + 1] = Step(more, h[n])
      /\ \A n \in Nat : ConfInv(buffer, g[n])
      /\ \A n \in Nat : ConfInv(more, h[n])
  BY <1>1, IterationsUnfold, IterationsInv
<1>3. g[len + 1].resultType # "PARSE_NOT_COMPLETE"
  BY DEF Decided, parseData
<1>4. \A n \in Nat : n <= len + 1 /\ ~Looping(buffer, g[n]) =>
                       g[n].resultType # "PARSE_NOT_COMPLETE"
  <2>1. len + 1 \in Nat
    BY <1>1
  <2>. QED  BY <1>3, <2>1, StoppedStays
<1>5. \A n \in Nat : Looping(buffer, g[n]) => g[n].state \notin {21, 95}
  OBVIOUS
<1> HIDE DEF g, h
<1>6. 0 \in S
  BY <1>2
<1>7. ASSUME NEW n \in Nat, n \in S PROVE n + 1 \in S
  <2> SUFFICES ASSUME n + 1 <= len + 1 PROVE h[n + 1] = g[n + 1]
    OBVIOUS
  <2>1. n <= len + 1 /\ h[n] = g[n]
    BY <1>1, <1>7
  <2>2. CASE ~Looping(buffer, g[n])
    <3>1. ~Looping(more, h[n])
      BY <1>4, <2>1, <2>2 DEF Looping
    <3>. QED  BY <1>1, <1>2, <2>1, <2>2, <3>1, Turn
  <2>3. CASE Looping(buffer, g[n])
    <3>1. \/ Step(more, g[n]) = Step(buffer, g[n])
          \/ Waits(buffer, Step(buffer, g[n]))
      BY <1>2, <1>5, <2>3, TurnMore
    <3>2. ~Waits(buffer, g[n + 1])
      BY <1>4 DEF Waits
    <3>. QED  BY <1>2, <2>1, <3>1, <3>2
  <2>. QED  BY <2>2, <2>3
<1> HIDE DEF S
<1>8. Nat \subseteq S
  BY <1>6, <1>7, SetInduction, Zenon
<1>. QED  BY <1>8 DEF S, g, h

LEMMA HeadOf ==
  ASSUME NEW buffer \in Seq(Nat), NEW h \in Seq(Nat), Len(h) = 4, 4 <= Len(buffer),
         \A i \in 1..4 : buffer[i] = h[i]
  PROVE  IsPrefix(h, buffer)
<1>1. SubSeq(h, 1, 4) = SubSeq(buffer, 1, 4)
  OBVIOUS
<1>. QED  BY <1>1 DEF IsPrefix

(* A state that looks at the size of the buffer is behind one of two heads. *)
LEMMA LookingAhead ==
  ASSUME NEW buffer \in Buffers, NEW c, ConfInv(buffer, c), Looping(buffer, c),
         c.state \in {21, 95}
  PROVE  LooksAhead(buffer)
<1>1. c.pos \in Nat /\ c.pos < Len(buffer) /\ Shape(buffer, c.state, c.pos)
  BY DEF ConfInv, Configurations, Looping
<1>2. buffer \in Seq(Nat) /\ Len(buffer) \in Nat
  BY BufferBytes
<1>3. CASE c.state = 21
  <2>1. Spells(buffer, 21, 4) /\ c.pos >= 4
    BY <1>1, <1>3 DEF Shape
  <2> DEFINE h == <<LT, ch.I, ch.T, COLON>>
  <2>2. h \in Seq(Nat) /\ Len(h) = 4 /\ h[1] = LT /\ h[2] = ch.I /\ h[3] = ch.T /\ h[4] = COLON
    BY DEF LT, ch, COLON
  <2>3. /\ buffer[1] = LT /\ buffer[2] = ch.I /\ buffer[3] = ch.T /\ buffer[4] = COLON
    BY <2>1 DEF Spells
  <2> HIDE DEF h
  <2>4. \A i \in 1..4 : buffer[i] = h[i]
    BY <2>2, <2>3
  <2>5. IsPrefix(h, buffer)
    <3>1. 4 <= Len(buffer)
      BY <1>1, <1>2, <2>1
    <3>. QED  BY <1>2, <2>2, <2>4, <3>1, HeadOf, Zenon
  <2>. QED  BY <2>5, Zenon DEF LooksAhead, h
<1>4. CASE c.state = 95
  <2>1. Spells(buffer, 95, c.pos)
    BY <1>1, <1>4 DEF Shape, Spelled
  <2> DEFINE h == <<LT, ch.P, ch.M, COLON>>
  <2>2. h \in Seq(Nat) /\ Len(h) = 4 /\ h[1] = LT /\ h[2] = ch.P /\ h[3] = ch.M /\ h[4] = COLON
    BY DEF LT, ch, COLON
  <2>3. /\ buffer[1] = LT /\ buffer[2] = ch.P /\ buffer[3] = ch.M /\ buffer[4] = COLON
        /\ c.pos = 4
    BY <2>1 DEF Spells
  <2> HIDE DEF h
  <2>4. \A i \in 1..4 : buffer[i] = h[i]
    BY <2>2, <2>3
  <2>5. IsPrefix(h, buffer)
    <3>1. 4 <= Len(buffer)
      BY <1>1, <1>2, <2>3
    <3>. QED  BY <1>2, <2>2, <2>4, <3>1, HeadOf, Zenon
  <2>. QED  BY <2>5, Zenon DEF LooksAhead, h
<1>. QED  BY <1>3, <1>4

LEMMA VerdictOfMore ==
  ASSUME NEW buffer \in Buffers, NEW b \in 0..255, Decided(buffer), ~LooksAhead(buffer)
  PROVE  parseData(Append(buffer, b)) = parseData(buffer)
<1> DEFINE more == Append(buffer, b)
           n    == Len(buffer) + 1
<1>1. n \in Nat /\ n <= Len(buffer) + 1 /\ Len(more) = n /\ more \in Buffers
  <2>1. Len(buffer) \in Nat /\ Len(more) = n /\ more \in Buffers
    BY OneByteMore, Zenon
  <2>. QED  BY <2>1
<1>2. \A k \in Nat : Looping(buffer, Iterations(buffer)[k])
                       => Iterations(buffer)[k].state \notin {21, 95}
  BY IterationsInv, LookingAhead
<1>3. Iterations(more)[n] = Iterations(buffer)[n]
  BY <1>1, <1>2, IterationsMore
<1>4. parseData(buffer) = Iterations(buffer)[n] /\ parseData(more) = Iterations(more)[n + 1]
  BY <1>1 DEF parseData
<1> HIDE DEF more, n
<1>5. ~Looping(more, Iterations(more)[n])
  BY <1>3, <1>4 DEF Decided, Looping
<1>6. Iterations(more)[n + 1] = Iterations(more)[n]
  BY <1>1, <1>5, IterationsUnfold, IterationsInv, Turn
<1>. QED  BY <1>3, <1>4, <1>6 DEF more

(* Bytes that follow do not change what parseData decided of a buffer,     *)
(* unless its head is one of the two whose special states look at the size *)
(* of the buffer (processTRInfo, processPMRespData).                       *)
THEOREM VerdictIsFinal == Spec => VerdictStands
<1>1. BytesInv /\ [Next]_vars
        => [Decided(data) /\ ~LooksAhead(data) => Verdict(data') = Verdict(data)]_vars
  <2> SUFFICES ASSUME BytesInv, ByteArrives, Decided(data), ~LooksAhead(data)
               PROVE  Verdict(data') = Verdict(data)
    BY DEF Next
  <2>1. Head(rest) \in 0..255 /\ data \in Buffers /\ data' = Append(data, Head(rest))
    BY SeqParts, Zenon DEF ByteArrives, BytesInv, Buffers
  <2>2. parseData(data') = parseData(data)
    BY <2>1, VerdictOfMore
  <2>. QED  BY <2>2 DEF Verdict
<1>. QED  BY <1>1, BytesInvariant, PTL DEF Spec, VerdictStands

(* What parseData accepts is a message of the type it reports, whole and   *)
(* inside the buffer, and its getter understands it (parseData,            *)
(* CDCMessageParser.cpp:719, with the getters from line 794): for every    *)
(* stream of bytes, wherever it is cut, and provided that what             *)
(* initStatesInfoMap reads behind its array does not name the state of     *)
(* downloaded data, which would be announced as a response.                *)
THEOREM AcceptedAreMessages ==
  ASSUME 97 \notin OverRead
  PROVE  Spec => []AcceptedIsMessage
<1>1. BytesInv => AcceptedIsMessage
  <2> DEFINE c == parseData(data)
  <2> SUFFICES ASSUME BytesInv, c.resultType = "PARSE_OK"
               PROVE  /\ c.lastPosition < Len(data)
                      /\ IsUnderstood(c.msgType, SubSeq(data, 1, c.lastPosition + 1))
    BY DEF AcceptedIsMessage, IsUnderstood
  <2>1. data \in Buffers /\ Len(data) \in Nat
    BY BufferBytes DEF BytesInv
  <2>2. ConfInv(data, c)
    BY <2>1, ParseDataInv
  <2> HIDE DEF c
  <2>3. /\ c.state \in finiteStates /\ c.msgType = statesInfoMap[c.state]
        /\ c.lastPosition \in 0..(Len(data) - 1) /\ data[c.lastPosition + 1] = CR
        /\ Shape(data, c.state, c.lastPosition + 1)
    BY <2>2 DEF ConfInv
  <2>4. c.lastPosition < Len(data) /\ c.lastPosition + 1 \in 1..Len(data)
    BY <2>1, <2>3
  <2>5. IsUnderstood(statesInfoMap[c.state], SubSeq(data, 1, c.lastPosition + 1))
    BY <2>1, <2>3, <2>4, AcceptedText
  <2>. QED  BY <2>3, <2>4, <2>5
<1>. QED  BY <1>1, BytesInvariant, PTL

-----------------------------------------------------------------------------
(* Messages that mark their own end.                                       *)

LEMMA StrictHead ==
  ASSUME NEW s \in Seq(Nat), NEW t \in Seq(Nat), IsStrictPrefix(s, t)
  PROVE  Len(s) < Len(t) /\ \A i \in 1..Len(s) : s[i] = t[i]
<1>1. /\ Len(s) <= Len(t) /\ SubSeq(s, 1, Len(s)) = SubSeq(t, 1, Len(s)) /\ s # t
      /\ Len(s) \in Nat /\ Len(t) \in Nat
  BY DEF IsStrictPrefix, IsPrefix
<1>2. \A i \in 1..Len(s) : s[i] = t[i]
  <2>1. /\ \A i \in 1..Len(s) : SubSeq(s, 1, Len(s))[i] = s[i]
        /\ \A i \in 1..Len(s) : SubSeq(t, 1, Len(s))[i] = t[i]
    BY <1>1
  <2>. QED  BY <1>1, <2>1, Zenon
<1>3. Len(s) # Len(t)
  BY <1>1, <1>2
<1>. QED  BY <1>1, <1>2, <1>3

(* The head of a message that marks its own end is never refused, however  *)
(* the reads cut the message (parseData returns PARSE_NOT_COMPLETE and the *)
(* reader waits, CDCImpl.cpp:482).                                         *)
THEOREM HeadsWait == Spec => []HeadNotRefused
<1>1. BytesInv => HeadNotRefused
  <2> SUFFICES ASSUME BytesInv, NEW m \in Samples, IsSelfDelimiting(m.text),
                      IsStrictPrefix(data, m.text)
               PROVE  ~Decided(data)
    BY DEF HeadNotRefused
  <2>1. m.text \in Buffers /\ data \in Buffers
    BY SamplesAssumption DEF BytesInv, Buffers
  <2>2. PICK t \in SelfDelimitingTypes : IsMessage(t, m.text)
    BY DEF IsSelfDelimiting
  <2>3. Delimited(m.text, t)
    BY <2>1, <2>2, SelfDelimiting DEF IsSelfDelimiting
  <2>4. m.text \in Seq(Nat) /\ data \in Seq(Nat) /\ Len(data) \in Nat
    BY <2>1, BufferBytes
  <2>5. Len(data) < Len(m.text) /\ \A i \in 1..Len(data) : data[i] = m.text[i]
    BY <2>4, StrictHead, Zenon
  <2>6. Agrees(data, m.text)
    BY <2>4, <2>5 DEF Agrees
  <2>7. parseData(data).resultType = "PARSE_NOT_COMPLETE"
    BY <2>1, <2>3, <2>5, <2>6, Zenon DEF Delimited, WaitsFor
  <2>. QED  BY <2>7 DEF Decided
<1>. QED  BY <1>1, BytesInvariant, PTL
=============================================================================
