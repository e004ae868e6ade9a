-------------------------- MODULE CDCCommandProofs --------------------------
(***************************************************************************)
(* What holds of CDCCommand for every set of operations, any number of     *)
(* calls and asynchronous messages, and both platforms.                    *)
(***************************************************************************)
EXTENDS CDCCommand, SequenceTheorems, TLAPS

(* A message that answers a command, intelligible or not. *)
IsAnswer(m) == m.type # "MSG_ASYNC"

(* The numbers of the answers in q grow, stay above lo and at or below hi.  *)
Ascending(q, lo, hi) ==
  /\ \A i \in 1 .. Len(q) : IsAnswer(q[i]) => lo < q[i].req /\ q[i].req <= hi
  /\ \A i, j \in 1 .. Len(q) :
       i < j /\ IsAnswer(q[i]) /\ IsAnswer(q[j]) => q[i].req < q[j].req

(* Every answer of p is to an older command than every entry of q. *)
AnswersBefore(p, q) ==
  \A i \in 1 .. Len(p), j \in 1 .. Len(q) :
    IsAnswer(p[i]) => p[i].req < q[j].req

(* The newest command that may be answered: the current call's is not yet  *)
(* written in the call's first steps.                                      *)
Unsent == appPc \in {"begin", "reset"} \/ (appPc = "send" /\ left > 0)
Newest == IF Unsent THEN calls - 1 ELSE calls

(* A call is under way. *)
InCall == appPc \notin {"idle", "joining", "gone"}

(* The reading thread is assigning lastResponse. *)
Storing == readPc \in {"storeMessage", "storing"}

(* Responses stay in the order of their commands, from the device to       *)
(* lastResponse, and none is to a command not yet written.                 *)
PipelineOrdered ==
  LET stored == lastResponse.parseResult.req IN
  /\ InCall => calls > 0
  /\ stored <= Newest
  /\ Ascending(receivedBytes, stored, Newest)
  /\ Ascending(line, stored, Newest)
  /\ \A i \in 1 .. Len(receivedBytes), j \in 1 .. Len(line) :
       IsAnswer(receivedBytes[i]) /\ IsAnswer(line[j])
         => receivedBytes[i].req < line[j].req
  /\ \A i \in 1 .. Len(devIn) : stored < devIn[i].req /\ devIn[i].req <= Newest
  /\ \A i, j \in 1 .. Len(devIn) : i < j => devIn[i].req < devIn[j].req
  /\ AnswersBefore(receivedBytes, devIn)
  /\ AnswersBefore(line, devIn)

(* lastResponse is whole except while it is assigned. *)
ResponseWhole ==
  IF Storing THEN lastResponse.message.req < lastResponse.parseResult.req
             ELSE lastResponse.message = lastResponse.parseResult

(* The command is written and its answer awaited. *)
Awaiting == appPc = "wait" \/ (appPc = "send" /\ left = 0)

(* All that is on its way answers the current command. *)
Current ==
  /\ \A i \in 1 .. Len(devIn) : devIn[i].req = calls
  /\ \A i \in 1 .. Len(line) : IsAnswer(line[i]) => line[i].req = calls
  /\ \A i \in 1 .. Len(receivedBytes) :
       IsAnswer(receivedBytes[i]) => receivedBytes[i].req = calls

SomethingComes ==
  \/ devIn # <<>>
  \/ \E i \in 1 .. Len(line) : IsAnswer(line[i])
  \/ \E i \in 1 .. Len(receivedBytes) : IsAnswer(receivedBytes[i])

(* While no answer is stray, what is on its way is the answer awaited, the *)
(* event says that it is stored, and a call that has seen the event finds  *)
(* its own answer in lastResponse.                                         *)
Synchronised ==
  ~stray =>
    /\ SomethingComes => Awaiting /\ newMsgEvent = 0
    /\ Current
    /\ readPc \in {"storeMessage", "storing", "signal"}
         => Awaiting /\ newMsgEvent = 0 /\ lastResponse.parseResult.req = calls
    /\ Awaiting /\ newMsgEvent > 0 => lastResponse.parseResult.req = calls
    /\ appPc = "send" /\ left > 0 => newMsgEvent = 0
    /\ Linux /\ ~Awaiting => newMsgEvent = 0
    /\ appPc \in {"check", "branch", "use"} => lastResponse.parseResult.req = calls
    /\ appPc = "branch" => op = "download" /\ Accepts(op, lastResponse.parseResult.type)
    /\ appPc = "use" => parseAs = lastResponse.parseResult.type

(* Once the current answer is stored, the event is set or about to be. *)
AnswerSignalled ==
  Awaiting /\ lastResponse.message.req = calls => newMsgEvent > 0 \/ readPc = "signal"

(* The error is recorded before the flag is set. *)
ErrorBeforeFlag ==
  /\ readPc \in {"stopping"} => lastReceptionError = "fatal"
  /\ receptionStopped => readPc = "exited" /\ lastReceptionError = "fatal"

(* The types of the responses nobody reads the text of. *)
SilentTypes == {CommandType[o] : o \in SilentOps}

(* lastResponse is not older than what the last value was taken from; its  *)
(* text alone may be, while it is assigned after a call that did not read  *)
(* it, and then no call that would read it accepts its type.               *)
AnswersKept ==
  /\ result.req <= lastResponse.parseResult.req
  /\ \/ result.req <= lastResponse.message.req
     \/ Storing /\ lastResponse.parseResult.type \in SilentTypes
  /\ appPc \in {"branch", "use"} => result.req <= lastResponse.message.req

(* A call begun after reception has stopped gets no further than its check. *)
StoppedAreRefused ==
  stoppedAtCall => receptionStopped /\ appPc \in {"idle", "begin", "joining", "gone"}

-----------------------------------------------------------------------------
(* The types of responses, by name: neither an asynchronous message nor    *)
(* spoilt bytes are among them.                                            *)
LEMMA ResponseTypes ==
  /\ \A o \in AllOps : CommandType[o] \in ResponseType
  /\ "MSG_ERROR" \in ResponseType /\ "MSG_DOWNLOAD_DATA" \in ResponseType
  /\ "MSG_UPLOAD_DOWNLOAD" \in ResponseType
  /\ "MSG_ASYNC" \notin ResponseType /\ "BAD" \notin ResponseType
  /\ "none" \notin ResponseType
<1>1. AllOps = {"test", "resetUSBDevice", "resetTRModule", "indicateConnectivity",
                "getUSBDeviceInfo", "getTRModuleInfo", "getStatus", "sendData",
                "switchToCustom", "enterProgrammingMode",
                "terminateProgrammingMode", "upload", "download"}
  BY DEF AllOps, CommandType
<1>2. \A o \in AllOps : CommandType[o] \in ResponseType
  BY DEF ResponseType
<1>3. CommandType["upload"] = "MSG_UPLOAD_DOWNLOAD"
  BY DEF CommandType
<1>4. \A o \in AllOps : CommandType[o] \notin {"MSG_ASYNC", "BAD", "none"}
  BY <1>1 DEF CommandType
<1> QED
  BY <1>1, <1>2, <1>3, <1>4 DEF ResponseType

LEMMA TypeInit == Init => TypeOK
<1> SUFFICES ASSUME Init PROVE TypeOK
  OBVIOUS
<1>1. AppTypeOK
  <2>1. result \in [id : Nat, kind : Outcome, req : Nat, stray : BOOLEAN]
    BY DEF Init, Outcome
  <2>2. calls \in 0 .. MaxCalls /\ left \in 0 .. CmdLen
    BY BoundsAssumption DEF Init
  <2> QED
    BY <2>1, <2>2 DEF Init, AppTypeOK
<1>2. SharedTypeOK
  BY ResponseTypes DEF Init, SharedTypeOK, NoResponse, Response
<1>3. ReaderTypeOK
  BY EmptySeq DEF Init, ReaderTypeOK
<1>4. DeviceTypeOK
  <2>1. asyncs \in 0 .. MaxAsync
    BY BoundsAssumption DEF Init
  <2> QED
    BY <2>1, EmptySeq DEF Init, DeviceTypeOK
<1> QED
  BY <1>1, <1>2, <1>3, <1>4 DEF TypeOK

(* The two sides have their own variables, and a step that leaves them     *)
(* alone leaves their types alone.                                         *)
LEMMA TypeFrame ==
  ASSUME TypeOK
  PROVE  /\ UNCHANGED appVars => AppTypeOK'
         /\ UNCHANGED sharedVars => SharedTypeOK'
         /\ UNCHANGED readVars => ReaderTypeOK'
         /\ UNCHANGED devVars => DeviceTypeOK'
<1>1. UNCHANGED appVars => AppTypeOK'
  BY DEF TypeOK, AppTypeOK, appVars, callVars, localVars
<1>2. UNCHANGED sharedVars => SharedTypeOK'
  BY DEF TypeOK, SharedTypeOK, sharedVars
<1>3. UNCHANGED readVars => ReaderTypeOK'
  BY DEF TypeOK, ReaderTypeOK, readVars
<1>4. UNCHANGED devVars => DeviceTypeOK'
  BY DEF TypeOK, DeviceTypeOK, devVars
<1> QED
  BY <1>1, <1>2, <1>3, <1>4

(* How a call ends, typed. *)
LEMMA AnsweredType ==
  ASSUME AppTypeOK, NEW kind \in Outcome, NEW req \in Nat,
         Answered(kind, req), UNCHANGED callVars, stray' \in BOOLEAN
  PROVE  AppTypeOK'
<1>1. calls \in Nat
  BY BoundsAssumption DEF AppTypeOK
<1>2. result' \in [id : Nat, kind : Outcome, req : Nat, stray : BOOLEAN]
  BY <1>1 DEF Answered, AppTypeOK
<1>3. left' \in 0 .. CmdLen
  BY BoundsAssumption DEF Answered
<1> QED
  BY <1>2, <1>3 DEF Answered, AppTypeOK, callVars

LEMMA FailsType ==
  ASSUME AppTypeOK, NEW kind \in Outcome,
         Fails(kind), UNCHANGED callVars, stray' \in BOOLEAN
  PROVE  AppTypeOK'
<1>1. result.req \in Nat
  BY DEF AppTypeOK
<1> QED
  BY <1>1, AnsweredType DEF Fails

LEMMA TypeCallSteps ==
  ASSUME TypeOK, Call \/ RejectTarget \/ CheckStopped \/ ResetEvent \/ RejectData
  PROVE  TypeOK'
<1> USE DEF TypeOK
<1>1. CASE Call
  <2>1. calls' \in 0 .. MaxCalls
    BY <1>1, BoundsAssumption DEF Call, AppTypeOK
  <2>2. AppTypeOK'
    BY <1>1, <2>1 DEF Call, AppTypeOK, SharedTypeOK, localVars
  <2> QED
    BY <1>1, <2>2, TypeFrame DEF Call
<1>2. CASE RejectTarget
  <2>1. AppTypeOK'
    BY <1>2, FailsType DEF RejectTarget, Outcome, AppTypeOK
  <2> QED
    BY <1>2, <2>1, TypeFrame DEF RejectTarget
<1>3. CASE CheckStopped
  <2>1. CASE receptionStopped
    <3>1. AppTypeOK'
      BY <1>3, <2>1, FailsType DEF CheckStopped, Outcome, AppTypeOK
    <3> QED
      BY <1>3, <3>1, TypeFrame DEF CheckStopped
  <2>2. CASE ~receptionStopped
    <3>1. AppTypeOK'
      BY <1>3, <2>2 DEF CheckStopped, AppTypeOK, callVars, localVars
    <3> QED
      BY <1>3, <3>1, TypeFrame DEF CheckStopped
  <2> QED
    BY <2>1, <2>2
<1>4. CASE ResetEvent
  <2>1. left' \in 0 .. CmdLen
    BY <1>4, BoundsAssumption DEF ResetEvent
  <2>2. AppTypeOK'
    BY <1>4, <2>1 DEF ResetEvent, AppTypeOK, callVars
  <2>3. SharedTypeOK'
    BY <1>4 DEF ResetEvent, SharedTypeOK
  <2> QED
    BY <1>4, <2>2, <2>3, TypeFrame DEF ResetEvent
<1>5. CASE RejectData
  <2>1. AppTypeOK'
    BY <1>5, FailsType DEF RejectData, Outcome, AppTypeOK
  <2> QED
    BY <1>5, <2>1, TypeFrame DEF RejectData
<1> QED
  BY <1>1, <1>2, <1>3, <1>4, <1>5

(* What the device gets is a command. *)
LEMMA DeviceGetsType ==
  ASSUME AppTypeOK, DeviceTypeOK
  PROVE  DeviceGets \in Seq(Command)
<1>1. [req |-> calls, op |-> op, garbled |-> halfCommand] \in Command
  BY OpsAssumption, BoundsAssumption DEF AppTypeOK, DeviceTypeOK, Command
<1> QED
  BY <1>1, AppendProperties DEF DeviceGets, DeviceTypeOK

LEMMA TypeSendSteps ==
  ASSUME TypeOK, WriteSome \/ WriteFail \/ SendDone \/ Awake \/ Timeout \/ WaitError
  PROVE  TypeOK'
<1> USE DEF TypeOK
<1>1. CASE WriteSome
  <2>1. left' \in 0 .. CmdLen
    BY <1>1, BoundsAssumption DEF WriteSome, AppTypeOK
  <2>2. AppTypeOK'
    BY <1>1, <2>1 DEF WriteSome, AppTypeOK, callVars
  <2>3. DeviceTypeOK'
    BY <1>1, DeviceGetsType DEF WriteSome, DeviceTypeOK
  <2> QED
    BY <1>1, <2>2, <2>3, TypeFrame DEF WriteSome, readVars
<1>2. CASE WriteFail
  <2>1. stray' \in BOOLEAN
    BY <1>2 DEF WriteFail, AppTypeOK
  <2>2. AppTypeOK'
    BY <1>2, <2>1, FailsType DEF WriteFail, Outcome
  <2>3. DeviceTypeOK'
    BY <1>2, DeviceGetsType DEF WriteFail, DeviceTypeOK
  <2> QED
    BY <1>2, <2>2, <2>3, TypeFrame DEF WriteFail, readVars
<1>3. CASE SendDone
  <2>1. AppTypeOK'
    BY <1>3 DEF SendDone, AppTypeOK, callVars, localVars
  <2> QED
    BY <1>3, <2>1, TypeFrame DEF SendDone
<1>4. CASE Awake
  <2>1. AppTypeOK'
    BY <1>4 DEF Awake, AppTypeOK, callVars, localVars
  <2>2. SharedTypeOK'
    BY <1>4 DEF Awake, SharedTypeOK
  <2> QED
    BY <1>4, <2>1, <2>2, TypeFrame DEF Awake
<1>5. CASE Timeout
  <2>1. AppTypeOK'
    BY <1>5, FailsType DEF Timeout, Outcome
  <2> QED
    BY <1>5, <2>1, TypeFrame DEF Timeout
<1>6. CASE WaitError
  <2>1. AppTypeOK'
    BY <1>6, FailsType DEF WaitError, Outcome
  <2> QED
    BY <1>6, <2>1, TypeFrame DEF WaitError
<1> QED
  BY <1>1, <1>2, <1>3, <1>4, <1>5, <1>6

(* How the parser of one type ends on the text of another. *)
LEMMA MisparseKinds ==
  ASSUME NEW type, NEW kind \in Misparse(type)
  PROVE  kind \in {"ok", "CDCMessageParserException", "bad_alloc", "CDCReceiveException"}
<1>1. CASE type \in {"MSG_DATA_SEND", "MSG_MODE_PROGRAM", "MSG_MODE_NORMAL",
                    "MSG_UPLOAD_DOWNLOAD"}
  BY <1>1 DEF Misparse
<1>2. CASE type = "MSG_USB_INFO"
  BY <1>2 DEF Misparse
<1>3. CASE type = "MSG_DOWNLOAD_DATA"
  BY <1>3 DEF Misparse
<1>4. CASE type \notin {"MSG_DATA_SEND", "MSG_MODE_PROGRAM", "MSG_MODE_NORMAL",
                       "MSG_UPLOAD_DOWNLOAD", "MSG_USB_INFO", "MSG_DOWNLOAD_DATA"}
  BY <1>4 DEF Misparse
<1> QED
  BY <1>1, <1>2, <1>3, <1>4

LEMMA TypeResponseSteps ==
  ASSUME TypeOK, Check \/ Branch \/ Use \/ Destroy \/ Join
  PROVE  TypeOK'
<1> USE DEF TypeOK
<1>1. CASE Check
  <2> DEFINE r == lastResponse.parseResult
  <2>1. r.req \in Nat
    BY DEF SharedTypeOK, Response
  <2>2. CASE \E kind \in Outcome : Answered(kind, r.req)
    BY <1>1, <2>1, <2>2, AnsweredType, TypeFrame DEF Check, AppTypeOK
  <2>3. CASE /\ appPc' = IF op = "download" THEN "branch" ELSE "use"
             /\ parseAs' = CommandType[op]
             /\ UNCHANGED <<left, result>>
    <3>1. parseAs' \in ResponseType
      BY <2>3, ResponseTypes, OpsAssumption DEF AppTypeOK
    <3>2. AppTypeOK'
      BY <1>1, <2>3, <3>1 DEF Check, AppTypeOK, callVars
    <3> QED
      BY <1>1, <3>2, TypeFrame DEF Check
  <2>4. {"ok", "CDCReceiveException"} \subseteq Outcome
    BY DEF Outcome
  <2> QED
    BY <1>1, <2>2, <2>3, <2>4 DEF Check
<1>2. CASE Branch
  <2>1. parseAs' \in ResponseType
    BY <1>2, ResponseTypes DEF Branch
  <2>2. AppTypeOK'
    BY <1>2, <2>1 DEF Branch, AppTypeOK, callVars
  <2> QED
    BY <1>2, <2>2, TypeFrame DEF Branch
<1>3. CASE Use
  <2>1. lastResponse.message.req \in Nat /\ result.req \in Nat
    BY DEF SharedTypeOK, Response, AppTypeOK
  <2>2. \A kind \in Misparse(parseAs) : kind \in Outcome
    BY MisparseKinds DEF Outcome
  <2>3. {"ok", "CDCReceiveException", "undefined"} \subseteq Outcome
    BY DEF Outcome
  <2>4. \E kind \in Outcome, req \in Nat : Answered(kind, req)
    BY <1>3, <2>1, <2>2, <2>3 DEF Use, Fails
  <2> QED
    BY <1>3, <2>4, AnsweredType, TypeFrame DEF Use, AppTypeOK
<1>4. CASE Destroy
  <2>1. AppTypeOK'
    BY <1>4 DEF Destroy, AppTypeOK, callVars, localVars
  <2>2. SharedTypeOK'
    BY <1>4 DEF Destroy, SharedTypeOK
  <2> QED
    BY <1>4, <2>1, <2>2, TypeFrame DEF Destroy
<1>5. CASE Join
  <2>1. AppTypeOK'
    BY <1>5 DEF Join, AppTypeOK, callVars, localVars
  <2> QED
    BY <1>5, <2>1, TypeFrame DEF Join
<1> QED
  BY <1>1, <1>2, <1>3, <1>4, <1>5

(* Reading moves the head of line to the end of receivedBytes. *)
LEMMA ReadMoves ==
  ASSUME TypeOK, ReaderSelect
  PROVE  \E k \in 0 .. Len(line) :
           /\ receivedBytes' \in Seq(Message) /\ line' \in Seq(Message)
           /\ Len(receivedBytes') = Len(receivedBytes) + k
           /\ Len(line') = Len(line) - k
           /\ \A i \in 1 .. Len(receivedBytes) : receivedBytes'[i] = receivedBytes[i]
           /\ \A i \in 1 .. k : receivedBytes'[Len(receivedBytes) + i] = line[i]
           /\ \A i \in 1 .. Len(line) - k : line'[i] = line[k + i]
<1>1. line \in Seq(Message) /\ receivedBytes \in Seq(Message)
  BY DEF TypeOK, ReaderTypeOK, DeviceTypeOK
<1>2. PICK k \in 0 .. Len(line) :
        /\ receivedBytes' = receivedBytes \o SubSeq(line, 1, k)
        /\ line' = SubSeq(line, k + 1, Len(line))
  BY DEF ReaderSelect
<1> DEFINE head == SubSeq(line, 1, k)
<1>3. Len(line) \in Nat /\ k \in Nat /\ k <= Len(line)
  BY <1>1, <1>2, LenProperties
<1>4. \A i \in 1 .. Len(line) : line[i] \in Message
  BY <1>1, ElementOfSeq
<1>5. /\ head \in Seq(Message) /\ Len(head) = k
      /\ \A i \in 1 .. k : head[i] = line[i]
  <2>1. \A i \in 1 .. k : line[i] \in Message
    BY <1>3, <1>4
  <2> QED
    BY <1>3, <2>1, SubSeqProperties
<1>6. /\ line' \in Seq(Message) /\ Len(line') = Len(line) - k
      /\ \A i \in 1 .. Len(line) - k : line'[i] = line[k + i]
  <2>1. \A i \in k + 1 .. Len(line) : line[i] \in Message
    BY <1>3, <1>4
  <2> QED
    BY <1>2, <1>3, <2>1, SubSeqProperties
<1>7. Len(receivedBytes) \in Nat
  BY <1>1, LenProperties
<1> HIDE DEF head
<1>8. /\ receivedBytes' \in Seq(Message)
      /\ Len(receivedBytes') = Len(receivedBytes) + k
      /\ \A i \in 1 .. Len(receivedBytes) + k : receivedBytes'[i] =
           IF i <= Len(receivedBytes) THEN receivedBytes[i]
                                      ELSE head[i - Len(receivedBytes)]
  BY <1>1, <1>2, <1>5, ConcatProperties DEF head
<1>9. \A i \in 1 .. Len(receivedBytes) : receivedBytes'[i] = receivedBytes[i]
  BY <1>3, <1>7, <1>8
<1>10. \A i \in 1 .. k : receivedBytes'[Len(receivedBytes) + i] = line[i]
  BY <1>3, <1>5, <1>7, <1>8
<1> QED
  BY <1>6, <1>8, <1>9, <1>10

LEMMA TypeReaderSteps ==
  ASSUME TypeOK, ReaderStep \/ ReaderFail
  PROVE  TypeOK'
<1> USE DEF TypeOK
<1>1. CASE ReaderSelect
  <2>1. receivedBytes' \in Seq(Message) /\ line' \in Seq(Message)
    BY <1>1, ReadMoves
  <2>2. endSeen' \in BOOLEAN /\ readPc' = "process"
    BY <1>1 DEF ReaderSelect
  <2>3. ReaderTypeOK'
    BY <2>1, <2>2 DEF ReaderTypeOK
  <2>4. DeviceTypeOK'
    BY <1>1, <2>1 DEF ReaderSelect, DeviceTypeOK
  <2> QED
    BY <1>1, <2>3, <2>4, TypeFrame DEF ReaderSelect
<1>2. CASE ReaderNextRound
  <2>1. ReaderTypeOK'
    BY <1>2 DEF ReaderNextRound, ReaderTypeOK
  <2> QED
    BY <1>2, <2>1, TypeFrame DEF ReaderNextRound
<1>3. CASE ReaderBadFormat
  <2>1. ReaderTypeOK'
    BY <1>3, HeadTailProperties DEF ReaderBadFormat, ReaderTypeOK
  <2>2. SharedTypeOK'
    BY <1>3 DEF ReaderBadFormat, SharedTypeOK
  <2> QED
    BY <1>3, <2>1, <2>2, TypeFrame DEF ReaderBadFormat
<1>4. CASE ReaderAsync
  <2>1. ReaderTypeOK'
    BY <1>4, HeadTailProperties DEF ReaderAsync, ReaderTypeOK
  <2> QED
    BY <1>4, <2>1, TypeFrame DEF ReaderAsync
<1>5. CASE ReaderStoreResult
  <2>1. ReaderTypeOK'
    BY <1>5, HeadTailProperties DEF ReaderStoreResult, ReaderTypeOK
  <2>2. Head(receivedBytes) \in Message
    BY <1>5, HeadTailProperties DEF ReaderStoreResult, ReaderTypeOK
  <2>3. Head(receivedBytes) \in Response
    BY <1>5, <2>2, ResponseTypes DEF ReaderStoreResult, Message, Async, Response
  <2>4. SharedTypeOK'
    BY <1>5, <2>3 DEF ReaderStoreResult, SharedTypeOK
  <2> QED
    BY <1>5, <2>1, <2>4, TypeFrame DEF ReaderStoreResult
<1>6. CASE ReaderStoreBegin
  <2>1. ReaderTypeOK'
    BY <1>6 DEF ReaderStoreBegin, ReaderTypeOK
  <2> QED
    BY <1>6, <2>1, TypeFrame DEF ReaderStoreBegin
<1>7. CASE ReaderStoreEnd
  <2>1. ReaderTypeOK' /\ SharedTypeOK'
    BY <1>7 DEF ReaderStoreEnd, ReaderTypeOK, SharedTypeOK
  <2> QED
    BY <1>7, <2>1, TypeFrame DEF ReaderStoreEnd
<1>8. CASE ReaderSignal
  <2>1. ReaderTypeOK' /\ SharedTypeOK'
    BY <1>8 DEF ReaderSignal, ReaderTypeOK, SharedTypeOK
  <2> QED
    BY <1>8, <2>1, TypeFrame DEF ReaderSignal
<1>9. CASE ReaderFail
  <2>1. ReaderTypeOK'
    BY <1>9 DEF ReaderFail, ReaderTypeOK
  <2> QED
    BY <1>9, <2>1, TypeFrame DEF ReaderFail
<1>10. CASE ReaderRecordError
  <2>1. ReaderTypeOK' /\ SharedTypeOK'
    BY <1>10 DEF ReaderRecordError, ReaderTypeOK, SharedTypeOK
  <2> QED
    BY <1>10, <2>1, TypeFrame DEF ReaderRecordError
<1>11. CASE ReaderSetStopped
  <2>1. ReaderTypeOK' /\ SharedTypeOK'
    BY <1>11 DEF ReaderSetStopped, ReaderTypeOK, SharedTypeOK
  <2> QED
    BY <1>11, <2>1, TypeFrame DEF ReaderSetStopped
<1> QED
  BY <1>1, <1>2, <1>3, <1>4, <1>5, <1>6, <1>7, <1>8, <1>9, <1>10, <1>11
     DEF ReaderStep, ReaderHangUp

(* What the device sends are messages. *)
LEMMA AnswersType ==
  ASSUME NEW cmd \in Command, NEW type \in Answers(cmd)
  PROVE  /\ [type |-> type, req |-> cmd.req] \in Message
         /\ IsAnswer([type |-> type, req |-> cmd.req])
<1>1. cmd.op \in AllOps /\ cmd.req \in Nat
  BY DEF Command
<1>2. type = "BAD" \/ type \in ResponseType
  BY <1>1, ResponseTypes DEF Answers
<1> QED
  BY <1>1, <1>2, ResponseTypes DEF Message, Response, IsAnswer

LEMMA TypeDeviceSteps ==
  ASSUME TypeOK, Device
  PROVE  TypeOK'
<1> USE DEF TypeOK
<1>1. CASE DeviceAnswer
  <2>1. Head(devIn) \in Command /\ Tail(devIn) \in Seq(Command)
    BY <1>1, HeadTailProperties DEF DeviceAnswer, DeviceTypeOK
  <2>2. line' \in Seq(Message)
    BY <1>1, <2>1, AnswersType, AppendProperties DEF DeviceAnswer, DeviceTypeOK
  <2>3. DeviceTypeOK'
    BY <1>1, <2>1, <2>2 DEF DeviceAnswer, DeviceTypeOK
  <2> QED
    BY <1>1, <2>3, TypeFrame DEF DeviceAnswer
<1>2. CASE DeviceDrop
  <2>1. DeviceTypeOK'
    BY <1>2, HeadTailProperties DEF DeviceDrop, DeviceTypeOK
  <2> QED
    BY <1>2, <2>1, TypeFrame DEF DeviceDrop
<1>3. CASE DeviceAsync
  <2>1. Async \in Message
    BY DEF Message
  <2>2. line' \in Seq(Message)
    BY <1>3, <2>1, AppendProperties DEF DeviceAsync, DeviceTypeOK
  <2>3. asyncs' \in 0 .. MaxAsync
    BY <1>3, BoundsAssumption DEF DeviceAsync, DeviceTypeOK
  <2>4. DeviceTypeOK'
    BY <1>3, <2>2, <2>3 DEF DeviceAsync, DeviceTypeOK
  <2> QED
    BY <1>3, <2>4, TypeFrame DEF DeviceAsync
<1>4. CASE HangUp
  <2>1. DeviceTypeOK'
    BY <1>4 DEF HangUp, DeviceTypeOK
  <2> QED
    BY <1>4, <2>1, TypeFrame DEF HangUp
<1> QED
  BY <1>1, <1>2, <1>3, <1>4 DEF Device

LEMMA TypeStep == TypeOK /\ [Next]_vars => TypeOK'
<1> SUFFICES ASSUME TypeOK, [Next]_vars PROVE TypeOK'
  OBVIOUS
<1>1. CASE UNCHANGED vars
  BY <1>1, TypeFrame DEF vars, TypeOK
<1>2. CASE Next
  BY <1>1, <1>2, TypeCallSteps, TypeSendSteps, TypeResponseSteps,
     TypeReaderSteps, TypeDeviceSteps
  DEF Next, AppStep, Gone
<1> QED
  BY <1>1, <1>2

(* Every variable keeps its type, for any operations, bounds and platform. *)
THEOREM TypeCorrect == Spec => []TypeOK
<1> QED
  BY TypeInit, TypeStep, PTL DEF Spec

-----------------------------------------------------------------------------
(* The order of the responses.                                             *)

(* What the order is of: numbers, and entries with numbers. *)
LEMMA PipelineTypes ==
  ASSUME TypeOK
  PROVE  /\ calls \in Nat /\ left \in Nat
         /\ lastResponse.parseResult.req \in Nat
         /\ lastResponse.message.req \in Nat
         /\ Len(devIn) \in Nat /\ Len(line) \in Nat /\ Len(receivedBytes) \in Nat
         /\ \A i \in 1 .. Len(devIn) : devIn[i].req \in Nat
         /\ \A i \in 1 .. Len(line) : IsAnswer(line[i]) => line[i].req \in Nat
         /\ \A i \in 1 .. Len(receivedBytes) :
              IsAnswer(receivedBytes[i]) => receivedBytes[i].req \in Nat
<1>1. calls \in Nat /\ left \in Nat
  BY BoundsAssumption DEF TypeOK, AppTypeOK
<1>2. lastResponse.parseResult.req \in Nat /\ lastResponse.message.req \in Nat
  BY DEF TypeOK, SharedTypeOK, Response
<1>3. devIn \in Seq(Command) /\ line \in Seq(Message) /\ receivedBytes \in Seq(Message)
  BY DEF TypeOK, DeviceTypeOK, ReaderTypeOK
<1>4. Len(devIn) \in Nat /\ Len(line) \in Nat /\ Len(receivedBytes) \in Nat
  BY <1>3, LenProperties
<1>5. \A c \in Command : c.req \in Nat
  BY DEF Command
<1>6. \A m \in Message : IsAnswer(m) => m.req \in Nat
  BY DEF Message, Response, Async, IsAnswer
<1>7. \A i \in 1 .. Len(devIn) : devIn[i] \in Command
  BY <1>3, ElementOfSeq
<1>8. \A i \in 1 .. Len(line) : line[i] \in Message
  BY <1>3, ElementOfSeq
<1>9. \A i \in 1 .. Len(receivedBytes) : receivedBytes[i] \in Message
  BY <1>3, ElementOfSeq
<1> QED
  BY <1>1, <1>2, <1>4, <1>5, <1>6, <1>7, <1>8, <1>9

(* A step that moves no response keeps the order, *)
LEMMA OrderFrame ==
  ASSUME TypeOK, TypeOK', PipelineOrdered,
         UNCHANGED <<devIn, line, receivedBytes>>,
         lastResponse'.parseResult.req = lastResponse.parseResult.req,
         Newest' >= Newest, InCall' => calls' > 0
  PROVE  PipelineOrdered'
<1>1. Newest \in Int /\ Newest' \in Int
  BY PipelineTypes DEF Newest, TypeOK, AppTypeOK
<1> QED
  BY <1>1, PipelineTypes, SMTT(60) DEF PipelineOrdered, Ascending, AnswersBefore

(* nor does one that writes the current command. *)
LEMMA OrderWritten ==
  ASSUME TypeOK, TypeOK', PipelineOrdered, Unsent, ~Unsent', calls' = calls,
         devIn' = DeviceGets, UNCHANGED <<line, receivedBytes, lastResponse>>
  PROVE  PipelineOrdered'
<1> DEFINE new == [req |-> calls, op |-> op, garbled |-> halfCommand]
<1>1. calls > 0 /\ Newest = calls - 1 /\ Newest' = calls /\ calls \in Nat
  BY PipelineTypes DEF PipelineOrdered, Unsent, InCall, Newest
<1>2. /\ Len(devIn') = Len(devIn) + 1
      /\ \A i \in 1 .. Len(devIn) : devIn'[i] = devIn[i]
      /\ devIn'[Len(devIn) + 1].req = calls
  <2>1. devIn \in Seq(Command) /\ new \in Command
    BY OpsAssumption, <1>1
    DEF TypeOK, AppTypeOK, DeviceTypeOK, Command
  <2>2. devIn' = Append(devIn, new)
    BY DEF DeviceGets
  <2> QED
    BY <2>1, <2>2, AppendProperties
<1>3. \A i \in 1 .. Len(devIn') : i \in 1 .. Len(devIn) \/ i = Len(devIn) + 1
  BY <1>2, PipelineTypes
<1>4. \A i \in 1 .. Len(devIn) : devIn[i].req <= calls - 1
  BY <1>1 DEF PipelineOrdered
<1>5. \A i \in 1 .. Len(devIn') :
        /\ lastResponse.parseResult.req < devIn'[i].req /\ devIn'[i].req <= calls
  BY <1>1, <1>2, <1>3, <1>4, PipelineTypes, SMTT(60) DEF PipelineOrdered
<1>6. \A i, j \in 1 .. Len(devIn') : i < j => devIn'[i].req < devIn'[j].req
  BY <1>1, <1>2, <1>3, <1>4, PipelineTypes, SMTT(60) DEF PipelineOrdered
<1>7. Ascending(line, lastResponse.parseResult.req, calls)
      /\ Ascending(receivedBytes, lastResponse.parseResult.req, calls)
  BY <1>1, PipelineTypes DEF PipelineOrdered, Ascending
<1>8. ASSUME NEW q, q \in {line, receivedBytes}
      PROVE  AnswersBefore(q, devIn')
  <2>1. AnswersBefore(q, devIn)
    BY <1>8 DEF PipelineOrdered
  <2>2. \A i \in 1 .. Len(q) : IsAnswer(q[i]) => q[i].req <= calls - 1 /\ q[i].req \in Nat
    BY <1>1, <1>8, PipelineTypes DEF PipelineOrdered, Ascending
  <2> QED
    BY <1>1, <1>2, <1>3, <2>1, <2>2 DEF AnswersBefore
<1>9. /\ lastResponse.parseResult.req \in Nat
      /\ lastResponse.parseResult.req <= calls
      /\ lastResponse'.parseResult.req = lastResponse.parseResult.req
  BY <1>1, PipelineTypes DEF PipelineOrdered
<1>10. \A i \in 1 .. Len(receivedBytes), j \in 1 .. Len(line) :
         IsAnswer(receivedBytes[i]) /\ IsAnswer(line[j])
           => receivedBytes[i].req < line[j].req
  BY DEF PipelineOrdered
<1>11. AnswersBefore(line, devIn') /\ AnswersBefore(receivedBytes, devIn')
  BY <1>8
<1>12. line' = line /\ receivedBytes' = receivedBytes
  OBVIOUS
<1> QED
  BY <1>1, <1>5, <1>6, <1>7, <1>9, <1>10, <1>11, <1>12 DEF PipelineOrdered

LEMMA OrderAppSteps ==
  ASSUME TypeOK, TypeOK', PipelineOrdered, Call \/ AppStep \/ WaitError \/ Destroy
  PROVE  PipelineOrdered'
<1>1. calls \in Nat /\ left \in Nat /\ Newest \in Int
  BY PipelineTypes DEF Newest
<1>2. InCall => calls > 0
  BY DEF PipelineOrdered
<1>3. CASE Call
  BY <1>1, <1>3, OrderFrame
  DEF Call, Newest, Unsent, InCall, sharedVars, readVars, devVars
<1>4. CASE ResetEvent
  <2>1. Unsent /\ Unsent' /\ calls' = calls
    BY <1>4, BoundsAssumption DEF ResetEvent, Unsent, callVars
  <2>2. UNCHANGED <<devIn, line, receivedBytes, lastResponse>>
    BY <1>4 DEF ResetEvent, readVars, devVars
  <2>3. InCall
    BY <1>4 DEF ResetEvent, InCall
  <2> QED
    BY <1>1, <1>2, <2>1, <2>2, <2>3, OrderFrame DEF Newest
<1>5. CASE WriteSome
  <2>1. /\ Unsent /\ InCall /\ calls' = calls /\ appPc' = appPc /\ appPc = "send"
        /\ UNCHANGED <<line, receivedBytes, lastResponse>>
    BY <1>5 DEF WriteSome, Unsent, InCall, callVars, readVars, sharedVars
  <2>2. CASE left' = 0
    BY <1>5, <2>1, <2>2, OrderWritten DEF WriteSome, Unsent
  <2>3. CASE left' # 0
    <3>1. left' > 0
      BY <2>3, BoundsAssumption DEF TypeOK, AppTypeOK
    <3> QED
      BY <1>1, <1>2, <1>5, <2>1, <2>3, <3>1, OrderFrame
      DEF WriteSome, Newest, Unsent
  <2> QED
    BY <2>2, <2>3
<1>6. CASE WriteFail
  <2>1. /\ Unsent /\ InCall /\ calls' = calls /\ appPc' = "idle"
        /\ UNCHANGED <<line, receivedBytes, lastResponse>>
    BY <1>6 DEF WriteFail, Unsent, InCall, callVars, readVars, sharedVars,
       Fails, Answered
  <2>2. ~Unsent' /\ ~InCall'
    BY <2>1 DEF Unsent, InCall
  <2>3. CASE devIn' = DeviceGets
    BY <2>1, <2>2, <2>3, OrderWritten
  <2>4. CASE devIn' = devIn
    BY <1>1, <2>1, <2>2, <2>4, OrderFrame DEF Newest
  <2> QED
    BY <1>6, <2>3, <2>4 DEF WriteFail
<1>7. CASE RejectTarget \/ RejectData \/ Timeout \/ WaitError \/ Use
  <2>1. /\ calls' = calls /\ appPc' = "idle"
        /\ UNCHANGED <<devIn, line, receivedBytes, lastResponse>>
    BY <1>7 DEF RejectTarget, RejectData, Timeout, WaitError, Use, Fails,
       Answered, callVars, sharedVars, readVars, devVars
  <2>2. ~Unsent' /\ ~InCall'
    BY <2>1 DEF Unsent, InCall
  <2> QED
    BY <1>1, <2>1, <2>2, OrderFrame DEF Newest
<1>8. CASE CheckStopped \/ SendDone \/ Awake \/ Check \/ Branch
  <2>1. /\ calls' = calls /\ InCall
        /\ UNCHANGED <<devIn, line, receivedBytes, lastResponse>>
    BY <1>8 DEF CheckStopped, SendDone, Awake, Check, Branch, callVars,
       sharedVars, readVars, devVars, InCall
  <2>2. Unsent' => Unsent
    BY <1>8 DEF CheckStopped, SendDone, Awake, Check, Branch, Unsent, Fails, Answered
  <2> QED
    BY <1>1, <1>2, <2>1, <2>2, OrderFrame DEF Newest
<1>9. CASE Destroy \/ Join
  <2>1. /\ calls' = calls /\ ~Unsent' /\ ~InCall'
        /\ UNCHANGED <<devIn, line, receivedBytes, lastResponse>>
    BY <1>9 DEF Destroy, Join, callVars, sharedVars, readVars, devVars,
       Unsent, InCall
  <2> QED
    BY <1>1, <2>1, OrderFrame DEF Newest
<1> QED
  BY <1>3, <1>4, <1>5, <1>6, <1>7, <1>8, <1>9 DEF AppStep

(* The application's place does not change in a step of the other sides. *)
LEMMA OtherSides ==
  ASSUME TypeOK, PipelineOrdered, UNCHANGED appVars
  PROVE  /\ Newest' = Newest /\ Newest \in Int /\ calls' = calls
         /\ Unsent' = Unsent /\ Awaiting' = Awaiting /\ stray' = stray
         /\ appPc' = appPc /\ op' = op /\ parseAs' = parseAs /\ left' = left
         /\ InCall' => calls' > 0
  BY PipelineTypes
  DEF appVars, callVars, localVars, Newest, Unsent, Awaiting, InCall, PipelineOrdered

(* A tail of an ascending sequence is ascending; so is one of devIn. *)
LEMMA AscendingTail ==
  ASSUME NEW q, NEW r, NEW d \in Nat, NEW lo, NEW hi,
         Len(q) \in Nat, Len(r) \in Nat, Ascending(q, lo, hi),
         \A i \in 1 .. Len(r) : d + i \in 1 .. Len(q) /\ r[i] = q[d + i]
  PROVE  Ascending(r, lo, hi)
<1>1. ASSUME NEW i \in 1 .. Len(r), IsAnswer(r[i])
      PROVE  lo < r[i].req /\ r[i].req <= hi
  BY <1>1 DEF Ascending
<1>2. ASSUME NEW i \in 1 .. Len(r), NEW j \in 1 .. Len(r),
             i < j, IsAnswer(r[i]), IsAnswer(r[j])
      PROVE  r[i].req < r[j].req
  <2>1. d + i \in 1 .. Len(q) /\ d + j \in 1 .. Len(q) /\ d + i < d + j
    BY <1>2
  <2>2. r[i] = q[d + i] /\ r[j] = q[d + j]
    OBVIOUS
  <2> QED
    BY <1>2, <2>1, <2>2 DEF Ascending
<1> QED
  BY <1>1, <1>2 DEF Ascending

LEMMA CommandsTail ==
  ASSUME TypeOK, PipelineOrdered, devIn # <<>>, devIn' = Tail(devIn)
  PROVE  /\ 1 \in 1 .. Len(devIn) /\ Head(devIn) = devIn[1]
         /\ \A i \in 1 .. Len(devIn') :
              /\ i + 1 \in 1 .. Len(devIn) /\ devIn'[i] = devIn[i + 1]
              /\ devIn[1].req < devIn'[i].req
         /\ \A i \in 1 .. Len(devIn') :
              lastResponse.parseResult.req < devIn'[i].req /\ devIn'[i].req <= Newest
         /\ \A i, j \in 1 .. Len(devIn') : i < j => devIn'[i].req < devIn'[j].req
<1>1. Len(devIn) \in Nat
  BY PipelineTypes
<1>2. /\ 1 \in 1 .. Len(devIn) /\ Head(devIn) = devIn[1]
      /\ Len(devIn') = Len(devIn) - 1
      /\ \A i \in 1 .. Len(devIn') :
           i + 1 \in 1 .. Len(devIn) /\ devIn'[i] = devIn[i + 1]
  BY <1>1, HeadTailProperties, EmptySeq DEF TypeOK, DeviceTypeOK
<1>3. ASSUME NEW i \in 1 .. Len(devIn')
      PROVE  /\ lastResponse.parseResult.req < devIn'[i].req /\ devIn'[i].req <= Newest
             /\ devIn[1].req < devIn'[i].req
  <2>1. i + 1 \in 1 .. Len(devIn) /\ 1 < i + 1 /\ devIn'[i] = devIn[i + 1]
    BY <1>2
  <2> QED
    BY <1>2, <2>1 DEF PipelineOrdered
<1>4. ASSUME NEW i \in 1 .. Len(devIn'), NEW j \in 1 .. Len(devIn'), i < j
      PROVE  devIn'[i].req < devIn'[j].req
  <2>1. /\ i + 1 \in 1 .. Len(devIn) /\ devIn'[i] = devIn[i + 1]
        /\ j + 1 \in 1 .. Len(devIn) /\ devIn'[j] = devIn[j + 1]
        /\ i + 1 < j + 1
    BY <1>2, <1>4
  <2> QED
    BY <2>1 DEF PipelineOrdered
<1> QED
  BY <1>2, <1>3, <1>4

(* Reading keeps the order. *)
LEMMA OrderRead ==
  ASSUME TypeOK, PipelineOrdered, ReaderSelect
  PROVE  PipelineOrdered'
<1> DEFINE lr == Len(receivedBytes)
           stored == lastResponse.parseResult.req
<1>1. UNCHANGED <<devIn, lastResponse>> /\ UNCHANGED appVars
  BY DEF ReaderSelect, sharedVars
<1>2. PICK k \in 0 .. Len(line) :
           /\ Len(receivedBytes') = lr + k
           /\ Len(line') = Len(line) - k
           /\ \A i \in 1 .. lr : receivedBytes'[i] = receivedBytes[i]
           /\ \A i \in 1 .. k : receivedBytes'[lr + i] = line[i]
           /\ \A i \in 1 .. Len(line) - k : line'[i] = line[k + i]
  BY ReadMoves
<1>3. lr \in Nat /\ Len(line) \in Nat /\ k \in Nat /\ k <= Len(line)
  BY <1>2, PipelineTypes
<1>4. \A i \in 1 .. Len(receivedBytes') :
        \/ i \in 1 .. lr /\ receivedBytes'[i] = receivedBytes[i]
        \/ i - lr \in 1 .. k /\ i > lr /\ receivedBytes'[i] = line[i - lr]
  <2> SUFFICES ASSUME NEW i \in 1 .. Len(receivedBytes'), i > lr
               PROVE  i - lr \in 1 .. k /\ receivedBytes'[i] = line[i - lr]
    BY <1>2, <1>3
  <2>1. i - lr \in 1 .. k /\ lr + (i - lr) = i
    BY <1>2, <1>3
  <2> QED
    BY <1>2, <2>1
<1>5. \A i \in 1 .. Len(line') : k + i \in 1 .. Len(line) /\ line'[i] = line[k + i]
  BY <1>2, <1>3
<1>6. \A i \in 1 .. k : i \in 1 .. Len(line)
  BY <1>3
<1> HIDE DEF lr
<1>7. Ascending(receivedBytes', stored, Newest)
  <2>1. ASSUME NEW i \in 1 .. Len(receivedBytes'), IsAnswer(receivedBytes'[i])
        PROVE  stored < receivedBytes'[i].req /\ receivedBytes'[i].req <= Newest
    BY <1>4, <1>6, <2>1 DEF PipelineOrdered, Ascending, lr
  <2>2. ASSUME NEW i \in 1 .. Len(receivedBytes'), NEW j \in 1 .. Len(receivedBytes'),
               i < j, IsAnswer(receivedBytes'[i]), IsAnswer(receivedBytes'[j])
        PROVE  receivedBytes'[i].req < receivedBytes'[j].req
    <3>1. CASE i \in 1 .. lr /\ j \in 1 .. lr
      BY <1>2, <2>2, <3>1 DEF PipelineOrdered, Ascending, lr
    <3>2. CASE i \in 1 .. lr /\ ~(j \in 1 .. lr)
      BY <1>2, <1>4, <1>6, <2>2, <3>2 DEF PipelineOrdered, lr
    <3>3. CASE ~(i \in 1 .. lr)
      <4>1. i > lr /\ ~(j \in 1 .. lr)
        BY <1>3, <1>4, <2>2, <3>3
      <4>2. /\ i - lr \in 1 .. Len(line) /\ receivedBytes'[i] = line[i - lr]
            /\ j - lr \in 1 .. Len(line) /\ receivedBytes'[j] = line[j - lr]
            /\ i - lr < j - lr
        BY <1>3, <1>4, <1>6, <2>2, <3>3, <4>1
      <4> QED
        BY <2>2, <4>2 DEF PipelineOrdered, Ascending
    <3> QED
      BY <3>1, <3>2, <3>3
  <2> QED
    BY <2>1, <2>2 DEF Ascending
<1>8. Ascending(line', stored, Newest)
  <2>1. Len(line') \in Nat
    BY <1>2, <1>3
  <2> QED
    BY <1>3, <1>5, <2>1, AscendingTail DEF PipelineOrdered
<1>9. ASSUME NEW i \in 1 .. Len(receivedBytes'), NEW j \in 1 .. Len(line'),
             IsAnswer(receivedBytes'[i]), IsAnswer(line'[j])
      PROVE  receivedBytes'[i].req < line'[j].req
  <2>1. k + j \in 1 .. Len(line) /\ line'[j] = line[k + j]
    BY <1>5
  <2>2. CASE i \in 1 .. lr
    BY <1>2, <1>9, <2>1, <2>2 DEF PipelineOrdered, lr
  <2>3. CASE ~(i \in 1 .. lr)
    <3>1. /\ i - lr \in 1 .. Len(line) /\ receivedBytes'[i] = line[i - lr]
          /\ i - lr < k + j
      BY <1>3, <1>4, <1>6, <2>3
    <3> QED
      BY <1>9, <2>1, <3>1 DEF PipelineOrdered, Ascending
  <2> QED
    BY <2>2, <2>3
<1>10. AnswersBefore(receivedBytes', devIn)
  BY <1>4, <1>6 DEF PipelineOrdered, AnswersBefore, lr
<1>11. AnswersBefore(line', devIn)
  BY <1>5 DEF PipelineOrdered, AnswersBefore
<1> QED
  BY <1>1, <1>7, <1>8, <1>9, <1>10, <1>11, OtherSides DEF PipelineOrdered

(* Taking the oldest message out of the buffer keeps the order, whether it *)
(* is forgotten or becomes the stored response.                            *)
LEMMA OrderTaken ==
  ASSUME TypeOK, PipelineOrdered, receivedBytes # <<>>,
         receivedBytes' = Tail(receivedBytes),
         UNCHANGED appVars, UNCHANGED devVars,
         \/ lastResponse'.parseResult.req = lastResponse.parseResult.req
         \/ /\ IsAnswer(Head(receivedBytes))
            /\ lastResponse'.parseResult.req = Head(receivedBytes).req
  PROVE  PipelineOrdered'
<1> DEFINE stored == lastResponse'.parseResult.req
           lr == Len(receivedBytes)
<1>1. UNCHANGED <<devIn, line>>
  BY DEF devVars
<1>2. /\ lr > 0 /\ lr \in Nat /\ Head(receivedBytes) = receivedBytes[1]
      /\ Len(receivedBytes') = lr - 1
      /\ \A i \in 1 .. lr - 1 : receivedBytes'[i] = receivedBytes[i + 1]
  BY HeadTailProperties, EmptySeq, PipelineTypes DEF TypeOK, ReaderTypeOK
<1>3. \A i \in 1 .. Len(receivedBytes') :
        i + 1 \in 1 .. lr /\ receivedBytes'[i] = receivedBytes[i + 1]
  BY <1>2
<1>4. 1 \in 1 .. lr
  BY <1>2
<1>5. stored \in Nat /\ stored <= Newest /\ Newest \in Int
  BY <1>2, <1>4, PipelineTypes, OtherSides DEF PipelineOrdered, Ascending
<1>6. Ascending(receivedBytes', stored, Newest)
  BY <1>2, <1>3, <1>4 DEF PipelineOrdered, Ascending
<1>7. Ascending(line, stored, Newest)
  BY <1>2, <1>4 DEF PipelineOrdered, Ascending
<1>8. \A i \in 1 .. Len(devIn) : stored < devIn[i].req /\ devIn[i].req <= Newest
  BY <1>2, <1>4 DEF PipelineOrdered, AnswersBefore
<1>9. \A i \in 1 .. Len(receivedBytes'), j \in 1 .. Len(line) :
        IsAnswer(receivedBytes'[i]) /\ IsAnswer(line[j])
          => receivedBytes'[i].req < line[j].req
  BY <1>3 DEF PipelineOrdered
<1>10. AnswersBefore(receivedBytes', devIn)
  BY <1>3 DEF PipelineOrdered, AnswersBefore
<1> QED
  BY <1>1, <1>5, <1>6, <1>7, <1>8, <1>9, <1>10, OtherSides DEF PipelineOrdered

LEMMA OrderReaderSteps ==
  ASSUME TypeOK, TypeOK', PipelineOrdered, ReaderStep \/ ReaderFail
  PROVE  PipelineOrdered'
<1>1. CASE ReaderSelect
  BY <1>1, OrderRead
<1>2. CASE ReaderBadFormat \/ ReaderAsync
  BY <1>2, OrderTaken DEF ReaderBadFormat, ReaderAsync, sharedVars
<1>3. CASE ReaderStoreResult
  <2>1. IsAnswer(Head(receivedBytes))
    BY <1>3, ResponseTypes DEF ReaderStoreResult, IsAnswer
  <2>2. lastResponse'.parseResult = Head(receivedBytes)
    BY <1>3 DEF ReaderStoreResult, TypeOK, SharedTypeOK
  <2> QED
    BY <1>3, <2>1, <2>2, OrderTaken DEF ReaderStoreResult
<1>4. CASE \/ ReaderNextRound \/ ReaderStoreBegin \/ ReaderStoreEnd \/ ReaderSignal
           \/ ReaderFail \/ ReaderRecordError \/ ReaderSetStopped
  <2>1. UNCHANGED appVars /\ UNCHANGED <<devIn, line, receivedBytes>>
    BY <1>4 DEF ReaderNextRound, ReaderStoreBegin, ReaderStoreEnd, ReaderSignal,
       ReaderFail, ReaderRecordError, ReaderSetStopped, devVars
  <2>2. lastResponse'.parseResult = lastResponse.parseResult
    BY <1>4 DEF ReaderNextRound, ReaderStoreBegin, ReaderStoreEnd, ReaderSignal,
       ReaderFail, ReaderRecordError, ReaderSetStopped, sharedVars,
       TypeOK, SharedTypeOK
  <2> QED
    BY <2>1, <2>2, OtherSides, OrderFrame
<1> QED
  BY <1>1, <1>2, <1>3, <1>4 DEF ReaderStep, ReaderHangUp

LEMMA OrderDeviceSteps ==
  ASSUME TypeOK, TypeOK', PipelineOrdered, Device
  PROVE  PipelineOrdered'
<1> DEFINE stored == lastResponse.parseResult.req
<1>1. UNCHANGED <<receivedBytes, lastResponse>> /\ UNCHANGED appVars
  BY DEF Device, DeviceAnswer, DeviceDrop, DeviceAsync, HangUp, sharedVars, readVars
<1>2. Newest \in Int /\ stored \in Nat /\ Len(line) \in Nat /\ Len(devIn) \in Nat
  BY <1>1, PipelineTypes, OtherSides
<1>4. ASSUME NEW m \in Message, line' = Append(line, m)
      PROVE  \A i \in 1 .. Len(line') :
               \/ i \in 1 .. Len(line) /\ line'[i] = line[i]
               \/ i = Len(line) + 1 /\ line'[i] = m
  BY <1>2, <1>4, AppendProperties DEF TypeOK, DeviceTypeOK
<1>5. CASE DeviceAnswer
  <2>1. PICK type \in Answers(Head(devIn)) :
          line' = Append(line, [type |-> type, req |-> Head(devIn).req])
    BY <1>5 DEF DeviceAnswer
  <2> DEFINE m == [type |-> type, req |-> Head(devIn).req]
  <2>2. Head(devIn) \in Command
    BY <1>5, HeadTailProperties DEF DeviceAnswer, TypeOK, DeviceTypeOK
  <2>3. m \in Message /\ IsAnswer(m) /\ m.req = Head(devIn).req
    BY <2>2, AnswersType
  <2> HIDE DEF m
  <2>4. \A i \in 1 .. Len(line') :
               \/ i \in 1 .. Len(line) /\ line'[i] = line[i]
               \/ i = Len(line) + 1 /\ line'[i] = m
    BY <1>4, <2>1, <2>3 DEF m
  <2>5. /\ 1 \in 1 .. Len(devIn) /\ m.req = devIn[1].req
        /\ \A i \in 1 .. Len(devIn') : m.req < devIn'[i].req
        /\ \A i \in 1 .. Len(devIn') :
             i + 1 \in 1 .. Len(devIn) /\ devIn'[i] = devIn[i + 1]
    BY <1>5, <2>3, CommandsTail DEF DeviceAnswer
  <2>6. Ascending(line', stored, Newest)
    <3>1. stored < m.req /\ m.req <= Newest
      BY <2>5 DEF PipelineOrdered
    <3>2. \A i \in 1 .. Len(line) : IsAnswer(line[i]) => line[i].req < m.req
      BY <2>5 DEF PipelineOrdered, AnswersBefore
    <3>3. \A i, j \in 1 .. Len(line') :
            i < j => i \in 1 .. Len(line) /\ line'[i] = line[i]
      BY <1>2, <2>4
    <3> QED
      BY <2>4, <3>1, <3>2, <3>3 DEF PipelineOrdered, Ascending
  <2>7. \A i \in 1 .. Len(receivedBytes), j \in 1 .. Len(line') :
          IsAnswer(receivedBytes[i]) /\ IsAnswer(line'[j])
            => receivedBytes[i].req < line'[j].req
    BY <2>3, <2>4, <2>5 DEF PipelineOrdered, AnswersBefore
  <2>8. AnswersBefore(line', devIn') /\ AnswersBefore(receivedBytes, devIn')
    BY <2>4, <2>5 DEF PipelineOrdered, AnswersBefore
  <2> QED
    BY <1>1, <1>5, <2>6, <2>7, <2>8, OtherSides, CommandsTail
    DEF PipelineOrdered, DeviceAnswer
<1>6. CASE DeviceDrop
  <2>1. /\ line' = line
        /\ \A i \in 1 .. Len(devIn') :
             i + 1 \in 1 .. Len(devIn) /\ devIn'[i] = devIn[i + 1]
    BY <1>6, CommandsTail DEF DeviceDrop
  <2>2. AnswersBefore(line, devIn') /\ AnswersBefore(receivedBytes, devIn')
    BY <2>1 DEF PipelineOrdered, AnswersBefore
  <2> QED
    BY <1>1, <1>6, <2>1, <2>2, OtherSides, CommandsTail
    DEF PipelineOrdered, DeviceDrop
<1>7. CASE DeviceAsync
  <2>1. /\ devIn' = devIn
        /\ \A i \in 1 .. Len(line') :
             \/ i \in 1 .. Len(line) /\ line'[i] = line[i]
             \/ ~IsAnswer(line'[i])
    BY <1>4, <1>7 DEF DeviceAsync, Message, IsAnswer, Async
  <2>2. Ascending(line', stored, Newest)
    BY <2>1 DEF PipelineOrdered, Ascending
  <2>3. AnswersBefore(line', devIn)
    BY <2>1 DEF PipelineOrdered, AnswersBefore
  <2>4. \A i \in 1 .. Len(receivedBytes), j \in 1 .. Len(line') :
          IsAnswer(receivedBytes[i]) /\ IsAnswer(line'[j])
            => receivedBytes[i].req < line'[j].req
    BY <2>1 DEF PipelineOrdered
  <2> QED
    BY <1>1, <2>1, <2>2, <2>3, <2>4, OtherSides DEF PipelineOrdered
<1>8. CASE HangUp
  BY <1>1, <1>8, OtherSides, OrderFrame DEF HangUp
<1> QED
  BY <1>5, <1>6, <1>7, <1>8 DEF Device

LEMMA OrderStep ==
  TypeOK /\ TypeOK' /\ PipelineOrdered /\ [Next]_vars => PipelineOrdered'
<1> SUFFICES ASSUME TypeOK, TypeOK', PipelineOrdered, [Next]_vars
             PROVE  PipelineOrdered'
  OBVIOUS
<1>1. CASE UNCHANGED vars
  <2>1. UNCHANGED appVars /\ UNCHANGED <<devIn, line, receivedBytes, lastResponse>>
    BY <1>1 DEF vars, readVars, devVars, sharedVars
  <2> QED
    BY <2>1, OtherSides, OrderFrame
<1>2. CASE Next
  BY <1>1, <1>2, OrderAppSteps, OrderReaderSteps, OrderDeviceSteps DEF Next, Gone
<1> QED
  BY <1>1, <1>2

LEMMA OrderInit == Init => PipelineOrdered
<1> SUFFICES ASSUME Init PROVE PipelineOrdered
  OBVIOUS
<1>1. Newest = 0 /\ ~InCall /\ lastResponse.parseResult.req = 0
  BY DEF Init, Newest, Unsent, InCall, NoResponse
<1>2. /\ devIn = <<>> /\ line = <<>> /\ receivedBytes = <<>> /\ Len(<<>>) = 0
  BY EmptySeq DEF Init
<1> QED
  BY <1>1, <1>2 DEF PipelineOrdered, Ascending, AnswersBefore

(* The device, the port, the buffer and lastResponse keep the responses in *)
(* the order of their commands.                                            *)
THEOREM ResponsesInOrder == Spec => []PipelineOrdered
<1> QED
  BY TypeCorrect, OrderInit, OrderStep, PTL DEF Spec

-----------------------------------------------------------------------------
(* lastResponse is read and written without a lock.                        *)

LEMMA WholeStep ==
  TypeOK /\ PipelineOrdered /\ ResponseWhole /\ [Next]_vars => ResponseWhole'
<1> SUFFICES ASSUME TypeOK, PipelineOrdered, ResponseWhole, [Next]_vars
             PROVE  ResponseWhole'
  OBVIOUS
<1> USE DEF ResponseWhole, Storing
<1>1. CASE \/ UNCHANGED vars
           \/ Call \/ Destroy \/ AppStep \/ WaitError \/ Device \/ Gone
  <2>1. readPc' = readPc /\ lastResponse' = lastResponse
    BY <1>1
    DEF vars, readVars, sharedVars, Call, Destroy, AppStep, WaitError, RejectTarget,
        CheckStopped, ResetEvent, RejectData, WriteSome, WriteFail, SendDone,
        Awake, Timeout, Check, Branch, Use, Join, Device, DeviceAnswer,
        DeviceDrop, DeviceAsync, HangUp, Gone
  <2> QED
    BY <2>1
<1>2. CASE \/ ReaderSelect \/ ReaderNextRound \/ ReaderBadFormat \/ ReaderAsync
           \/ ReaderStoreBegin \/ ReaderSignal \/ ReaderFail
           \/ ReaderRecordError \/ ReaderSetStopped
  BY <1>2
  DEF ReaderSelect, ReaderNextRound, ReaderBadFormat, ReaderAsync,
      ReaderStoreBegin, ReaderSignal, ReaderFail, ReaderRecordError,
      ReaderSetStopped, sharedVars
<1>3. CASE ReaderStoreResult
  <2>1. /\ lastResponse'.parseResult = Head(receivedBytes)
        /\ lastResponse'.message = lastResponse.parseResult
        /\ readPc' = "storeMessage"
    BY <1>3 DEF ReaderStoreResult, TypeOK, SharedTypeOK
  <2>2. IsAnswer(Head(receivedBytes))
    BY <1>3, ResponseTypes DEF ReaderStoreResult, IsAnswer
  <2>3. 1 \in 1 .. Len(receivedBytes) /\ Head(receivedBytes) = receivedBytes[1]
    BY <1>3, EmptySeq DEF ReaderStoreResult, TypeOK, ReaderTypeOK
  <2>4. lastResponse.parseResult.req < Head(receivedBytes).req
    BY <2>2, <2>3 DEF PipelineOrdered, Ascending
  <2> QED
    BY <2>1, <2>4
<1>4. CASE ReaderStoreEnd
  <2>1. /\ lastResponse'.parseResult = lastResponse.parseResult
        /\ lastResponse'.message = lastResponse.parseResult
        /\ readPc' = "signal"
    BY <1>4 DEF ReaderStoreEnd, TypeOK, SharedTypeOK
  <2> QED
    BY <2>1
<1> QED
  BY <1>1, <1>2, <1>3, <1>4 DEF Next, ReaderStep, ReaderHangUp

(* An answer on its way while the stored one is already the current call's *)
(* would be out of order.                                                  *)
LEMMA StoredIsLast ==
  ASSUME TypeOK, PipelineOrdered, ~Unsent,
         lastResponse.parseResult.req = calls
  PROVE  ~SomethingComes
<1>1. \A i \in 1 .. Len(devIn) : FALSE
  BY PipelineTypes DEF PipelineOrdered, Newest
<1>2. \A i \in 1 .. Len(line) : ~IsAnswer(line[i])
  BY PipelineTypes DEF PipelineOrdered, Newest, Ascending
<1>3. \A i \in 1 .. Len(receivedBytes) : ~IsAnswer(receivedBytes[i])
  BY PipelineTypes DEF PipelineOrdered, Newest, Ascending
<1>4. devIn = <<>>
  BY <1>1, EmptySeq DEF TypeOK, DeviceTypeOK
<1> QED
  BY <1>2, <1>3, <1>4 DEF SomethingComes

(* A step of the application that sends and receives nothing. *)
LEMMA SyncQuiet ==
  ASSUME TypeOK, Synchronised, ~stray, ~Awaiting, calls' \in Nat,
         UNCHANGED <<devIn, line, receivedBytes, readPc>>
  PROVE  ~SomethingComes' /\ Current'
         /\ readPc' \notin {"storeMessage", "storing", "signal"}
<1>1. ~SomethingComes /\ readPc \notin {"storeMessage", "storing", "signal"}
  BY DEF Synchronised
<1>2. Len(devIn) = 0
  BY <1>1, EmptySeq DEF SomethingComes
<1> QED
  BY <1>1, <1>2 DEF SomethingComes, Current

LEMMA SyncAppSteps ==
  ASSUME TypeOK, TypeOK', PipelineOrdered, PipelineOrdered', ResponseWhole, Synchronised,
         Call \/ AppStep \/ WaitError \/ Destroy
  PROVE  Synchronised'
<1> SUFFICES ASSUME ~stray' PROVE Synchronised'
  BY DEF Synchronised
<1>1. calls \in Nat /\ calls' \in Nat /\ left \in Nat
  BY BoundsAssumption DEF TypeOK, AppTypeOK
<1>2. newMsgEvent \in Nat /\ newMsgEvent' \in Nat
  BY DEF TypeOK, SharedTypeOK
<1>3. CASE Call \/ RejectTarget \/ CheckStopped \/ RejectData \/ Destroy \/ Join
  <2>1. /\ ~Awaiting /\ ~Awaiting' /\ stray' = stray
        /\ newMsgEvent' = newMsgEvent
        /\ UNCHANGED <<devIn, line, receivedBytes, readPc>>
        /\ appPc' \in {"begin", "idle", "reset", "joining", "gone"}
    BY <1>3, BoundsAssumption
    DEF Call, RejectTarget, CheckStopped, RejectData, Destroy, Join, Awaiting,
        Fails, Answered, sharedVars, readVars, devVars
  <2> QED
    BY <1>1, <2>1, SyncQuiet DEF Synchronised
<1>4. CASE ResetEvent
  <2>1. /\ ~Awaiting /\ ~Awaiting' /\ appPc' = "send" /\ left' > 0
        /\ UNCHANGED <<devIn, line, receivedBytes, readPc>>
    BY <1>4, BoundsAssumption DEF ResetEvent, Awaiting, readVars, devVars
  <2>2. newMsgEvent' = 0
    BY <1>4, <2>1 DEF ResetEvent, Synchronised
  <2>3. ~SomethingComes' /\ Current'
        /\ readPc' \notin {"storeMessage", "storing", "signal"}
    <3>1. CASE ~stray
      BY <1>1, <2>1, <3>1, SyncQuiet
    <3>2. CASE Quiet
      BY <2>1, <3>2, EmptySeq DEF Quiet, SomethingComes, Current
    <3> QED
      BY <1>4, <3>1, <3>2 DEF ResetEvent
  <2> QED
    BY <2>1, <2>2, <2>3 DEF Synchronised
<1>5. CASE WriteSome
  <2>1. /\ ~Awaiting /\ stray' = stray /\ appPc = "send" /\ left > 0
        /\ appPc' = "send" /\ calls' = calls
        /\ newMsgEvent' = newMsgEvent /\ newMsgEvent = 0
        /\ UNCHANGED <<line, receivedBytes, readPc>>
    BY <1>5 DEF WriteSome, Awaiting, sharedVars, readVars, callVars, Synchronised
  <2>2. /\ ~SomethingComes /\ readPc \notin {"storeMessage", "storing", "signal"}
    BY <2>1 DEF Synchronised
  <2>3. CASE left' = 0
    <3>1. Awaiting'
      BY <2>1, <2>3 DEF Awaiting
    <3>2. devIn' = Append(<<>>, [req |-> calls, op |-> op, garbled |-> halfCommand])
      BY <1>5, <2>2, <2>3 DEF WriteSome, DeviceGets, SomethingComes
    <3>3. [req |-> calls, op |-> op, garbled |-> halfCommand] \in Command
      BY <1>1, OpsAssumption DEF TypeOK, AppTypeOK, DeviceTypeOK, Command
    <3>4. Len(devIn') = 1 /\ devIn'[1].req = calls
      BY <3>2, <3>3, EmptySeq, AppendProperties
    <3>5. Current'
      BY <2>1, <2>2, <3>4 DEF Current, SomethingComes
    <3> QED
      BY <2>1, <2>2, <2>3, <3>1, <3>5 DEF Synchronised
  <2>4. CASE left' # 0
    <3>1. devIn' = devIn /\ ~Awaiting'
      BY <1>5, <2>1, <2>4 DEF WriteSome, Awaiting
    <3>2. ~SomethingComes' /\ Current'
          /\ readPc' \notin {"storeMessage", "storing", "signal"}
      BY <1>1, <2>1, <3>1, SyncQuiet
    <3> QED
      BY <2>1, <3>1, <3>2 DEF Synchronised
  <2> QED
    BY <2>3, <2>4
<1>6. CASE WriteFail
  <2>1. /\ ~Awaiting /\ ~Awaiting' /\ stray' = stray /\ appPc' = "idle"
        /\ newMsgEvent' = newMsgEvent /\ newMsgEvent = 0
        /\ UNCHANGED <<devIn, line, receivedBytes, readPc>>
    BY <1>6 DEF WriteFail, Fails, Answered, Awaiting, sharedVars, readVars, Synchronised
  <2> QED
    BY <1>1, <2>1, SyncQuiet DEF Synchronised
<1>7. CASE SendDone
  <2>1. /\ Awaiting /\ Awaiting' /\ appPc' = "wait" /\ stray' = stray /\ calls' = calls
        /\ UNCHANGED <<devIn, line, receivedBytes, readPc, newMsgEvent, lastResponse>>
    BY <1>7 DEF SendDone, Awaiting, callVars, sharedVars, readVars, devVars
  <2> QED
    BY <2>1 DEF Synchronised, SomethingComes, Current
<1>8. CASE Awake
  <2>1. /\ Awaiting /\ ~Awaiting' /\ appPc' = "check" /\ stray' = stray
        /\ calls' = calls /\ newMsgEvent > 0 /\ (Linux => newMsgEvent' = 0)
        /\ UNCHANGED <<devIn, line, receivedBytes, readPc, lastResponse>>
    BY <1>8 DEF Awake, Awaiting, callVars, readVars, devVars
  <2>2. /\ ~SomethingComes /\ readPc \notin {"storeMessage", "storing", "signal"}
        /\ lastResponse.parseResult.req = calls
    BY <1>2, <2>1 DEF Synchronised
  <2> QED
    BY <2>1, <2>2 DEF Synchronised, SomethingComes, Current
<1>9. CASE Timeout \/ WaitError
  BY <1>9 DEF Timeout, WaitError
<1>10. CASE Check \/ Branch \/ Use
  <2>1. /\ ~Awaiting /\ ~Awaiting' /\ stray' = stray /\ calls' = calls /\ op' = op
        /\ appPc' \in {"idle", "branch", "use"}
        /\ UNCHANGED <<devIn, line, receivedBytes, readPc, newMsgEvent, lastResponse>>
    BY <1>10 DEF Check, Branch, Use, Fails, Answered, Awaiting, callVars, sharedVars,
       readVars, devVars
  <2>2. appPc' \in {"branch", "use"} => lastResponse.parseResult.req = calls
    BY <1>10, <2>1 DEF Check, Branch, Use, Fails, Answered, Synchronised
  <2>3. appPc' = "branch" => op = "download" /\ Accepts(op, lastResponse.parseResult.type)
    BY <1>10 DEF Check, Branch, Use, Fails, Answered
  <2>4. appPc' = "use" => parseAs' = lastResponse.parseResult.type
    <3>1. CommandType["download"] = "MSG_UPLOAD_DOWNLOAD"
      BY DEF CommandType
    <3>2. CASE Check
      BY <3>2 DEF Check, Accepts, Answered
    <3>3. CASE Branch
      BY <2>1, <3>1, <3>3 DEF Branch, Accepts, Synchronised
    <3>4. CASE Use
      BY <3>4 DEF Use, Fails, Answered
    <3> QED
      BY <1>10, <3>2, <3>3, <3>4
  <2> QED
    BY <1>1, <2>1, <2>2, <2>3, <2>4, SyncQuiet DEF Synchronised
<1> QED
  BY <1>3, <1>4, <1>5, <1>6, <1>7, <1>8, <1>9, <1>10 DEF AppStep

LEMMA SyncReaderSteps ==
  ASSUME TypeOK, TypeOK', PipelineOrdered, Synchronised, ReaderStep \/ ReaderFail
  PROVE  Synchronised'
<1> SUFFICES ASSUME ~stray' PROVE Synchronised'
  BY DEF Synchronised
<1>1. UNCHANGED appVars
  BY DEF ReaderStep, ReaderFail, ReaderSelect, ReaderNextRound, ReaderBadFormat,
     ReaderAsync, ReaderStoreResult, ReaderStoreBegin, ReaderStoreEnd, ReaderSignal,
     ReaderHangUp, ReaderRecordError, ReaderSetStopped
<1>2. /\ calls' = calls /\ Unsent' = Unsent /\ Awaiting' = Awaiting
      /\ stray' = stray /\ ~stray
      /\ appPc' = appPc /\ op' = op /\ parseAs' = parseAs /\ left' = left
  BY <1>1, OtherSides
<1>3. Awaiting => ~Unsent
  BY DEF Awaiting, Unsent
<1>4. CASE ReaderSelect
  <2>1. /\ readPc' = "process"
        /\ UNCHANGED <<devIn, newMsgEvent, lastResponse>>
    BY <1>4 DEF ReaderSelect, sharedVars
  <2>2. PICK k \in 0 .. Len(line) :
           /\ Len(receivedBytes') = Len(receivedBytes) + k
           /\ Len(line') = Len(line) - k
           /\ \A i \in 1 .. Len(receivedBytes) : receivedBytes'[i] = receivedBytes[i]
           /\ \A i \in 1 .. k : receivedBytes'[Len(receivedBytes) + i] = line[i]
           /\ \A i \in 1 .. Len(line) - k : line'[i] = line[k + i]
    BY <1>4, ReadMoves
  <2>3. k \in Nat /\ k <= Len(line) /\ Len(line) \in Nat /\ Len(receivedBytes) \in Nat
    BY <2>2, PipelineTypes
  <2>4. ASSUME NEW i \in 1 .. Len(receivedBytes')
        PROVE  \/ i \in 1 .. Len(receivedBytes) /\ receivedBytes'[i] = receivedBytes[i]
               \/ \E j \in 1 .. Len(line) : receivedBytes'[i] = line[j]
    <3>1. CASE i <= Len(receivedBytes)
      BY <2>2, <2>3, <3>1
    <3>2. CASE i > Len(receivedBytes)
      <4>1. /\ i - Len(receivedBytes) \in 1 .. k
            /\ Len(receivedBytes) + (i - Len(receivedBytes)) = i
        BY <2>2, <2>3, <3>2
      <4>2. receivedBytes'[i] = line[i - Len(receivedBytes)]
        BY <2>2, <4>1
      <4> QED
        BY <2>3, <4>1, <4>2
    <3> QED
      BY <2>2, <2>3, <3>1, <3>2
  <2>5. \A i \in 1 .. Len(line') : \E j \in 1 .. Len(line) : line'[i] = line[j]
    <3>1. \A i \in 1 .. Len(line') : k + i \in 1 .. Len(line) /\ line'[i] = line[k + i]
      BY <2>2, <2>3
    <3> QED
      BY <3>1
  <2>6. SomethingComes' => SomethingComes
    BY <2>1, <2>4, <2>5 DEF SomethingComes
  <2>7. Current'
    BY <1>2, <2>1, <2>4, <2>5 DEF Current, Synchronised
  <2> QED
    BY <1>2, <2>1, <2>6, <2>7 DEF Synchronised
<1>5. CASE ReaderBadFormat \/ ReaderAsync \/ ReaderStoreResult
  <2>1. /\ receivedBytes # <<>> /\ receivedBytes' = Tail(receivedBytes)
        /\ readPc = "process" /\ UNCHANGED <<devIn, line, newMsgEvent>>
    BY <1>5 DEF ReaderBadFormat, ReaderAsync, ReaderStoreResult, sharedVars, devVars
  <2>2. /\ 1 \in 1 .. Len(receivedBytes) /\ Head(receivedBytes) = receivedBytes[1]
        /\ \A i \in 1 .. Len(receivedBytes') :
             i + 1 \in 1 .. Len(receivedBytes) /\ receivedBytes'[i] = receivedBytes[i + 1]
    BY <2>1, HeadTailProperties, EmptySeq, PipelineTypes DEF TypeOK, ReaderTypeOK
  <2>3. SomethingComes' => SomethingComes
    BY <2>1, <2>2 DEF SomethingComes
  <2>4. Current'
    BY <1>2, <2>1, <2>2 DEF Current, Synchronised
  <2>5. CASE ReaderBadFormat \/ ReaderAsync
    <3>1. lastResponse' = lastResponse /\ readPc' = "process"
      BY <2>1, <2>5 DEF ReaderBadFormat, ReaderAsync, sharedVars
    <3> QED
      BY <1>2, <2>1, <2>3, <2>4, <3>1 DEF Synchronised
  <2>6. CASE ReaderStoreResult
    <3>1. /\ lastResponse'.parseResult = Head(receivedBytes)
          /\ IsAnswer(Head(receivedBytes)) /\ readPc' = "storeMessage"
      BY <2>6, ResponseTypes DEF ReaderStoreResult, IsAnswer, TypeOK, SharedTypeOK
    <3>2. SomethingComes /\ Head(receivedBytes).req = calls
      BY <1>2, <2>2, <3>1 DEF SomethingComes, Current, Synchronised
    <3>3. Awaiting /\ newMsgEvent = 0
      BY <1>2, <3>2 DEF Synchronised
    <3>4. appPc \notin {"check", "branch", "use"}
      BY <3>3 DEF Awaiting
    <3> QED
      BY <1>2, <2>1, <2>4, <3>1, <3>2, <3>3, <3>4 DEF Synchronised
  <2> QED
    BY <1>5, <2>5, <2>6
<1>6. CASE ReaderSignal
  <2>1. /\ Awaiting /\ lastResponse.parseResult.req = calls
        /\ readPc' = "process"
        /\ UNCHANGED <<devIn, line, receivedBytes, lastResponse>>
    BY <1>2, <1>6 DEF ReaderSignal, Synchronised, devVars
  <2>2. ~SomethingComes
    BY <1>2, <1>3, <2>1, StoredIsLast
  <2>3. appPc \notin {"check", "branch", "use"} /\ ~(appPc = "send" /\ left > 0)
    BY <2>1 DEF Awaiting
  <2> QED
    BY <1>2, <2>1, <2>2, <2>3 DEF Synchronised, SomethingComes, Current
<1>7. CASE ReaderStoreBegin \/ ReaderStoreEnd
  <2>1. /\ UNCHANGED <<devIn, line, receivedBytes, newMsgEvent>>
        /\ lastResponse'.parseResult = lastResponse.parseResult
        /\ readPc \in {"storeMessage", "storing"}
    BY <1>7 DEF ReaderStoreBegin, ReaderStoreEnd, sharedVars, devVars, TypeOK, SharedTypeOK
  <2> QED
    BY <1>2, <2>1 DEF Synchronised, SomethingComes, Current
<1>8. CASE ReaderNextRound \/ ReaderFail \/ ReaderRecordError \/ ReaderSetStopped
  <2>1. /\ UNCHANGED <<devIn, line, receivedBytes, newMsgEvent, lastResponse>>
        /\ readPc' \notin {"storeMessage", "storing", "signal"}
    BY <1>8 DEF ReaderNextRound, ReaderFail, ReaderRecordError, ReaderSetStopped,
       sharedVars, devVars
  <2> QED
    BY <1>2, <2>1 DEF Synchronised, SomethingComes, Current
<1> QED
  BY <1>4, <1>5, <1>6, <1>7, <1>8 DEF ReaderStep, ReaderHangUp

LEMMA SyncDeviceSteps ==
  ASSUME TypeOK, TypeOK', PipelineOrdered, Synchronised, Device
  PROVE  Synchronised'
<1> SUFFICES ASSUME ~stray' PROVE Synchronised'
  BY DEF Synchronised
<1>1. UNCHANGED appVars /\ UNCHANGED <<receivedBytes, readPc, newMsgEvent, lastResponse>>
  BY DEF Device, DeviceAnswer, DeviceDrop, DeviceAsync, HangUp, sharedVars, readVars
<1>2. /\ calls' = calls /\ Awaiting' = Awaiting /\ stray' = stray /\ ~stray
      /\ appPc' = appPc /\ op' = op /\ parseAs' = parseAs /\ left' = left
  BY <1>1, OtherSides
<1>3. SUFFICES (SomethingComes' => SomethingComes) /\ Current'
  BY <1>1, <1>2 DEF Synchronised
<1>4. ASSUME NEW m \in Message, line' = Append(line, m)
      PROVE  \A i \in 1 .. Len(line') :
               \/ i \in 1 .. Len(line) /\ line'[i] = line[i]
               \/ i = Len(line) + 1 /\ line'[i] = m
  BY <1>4, AppendProperties, PipelineTypes DEF TypeOK, DeviceTypeOK
<1>5. ASSUME devIn # <<>>, devIn' = Tail(devIn)
      PROVE  \A i \in 1 .. Len(devIn') : devIn'[i].req = calls
  BY <1>2, <1>5, CommandsTail DEF Synchronised, Current
<1>6. CASE DeviceAnswer
  <2>1. PICK type \in Answers(Head(devIn)) :
          line' = Append(line, [type |-> type, req |-> Head(devIn).req])
    BY <1>6 DEF DeviceAnswer
  <2>2. Head(devIn) \in Command
    BY <1>6, HeadTailProperties DEF DeviceAnswer, TypeOK, DeviceTypeOK
  <2>3. Head(devIn).req = calls
    BY <1>2, <1>6, CommandsTail DEF DeviceAnswer, Synchronised, Current
  <2>4. \A i \in 1 .. Len(line') : IsAnswer(line'[i]) => line'[i].req = calls
    BY <1>2, <1>4, <2>1, <2>2, <2>3, AnswersType DEF Synchronised, Current
  <2> QED
    BY <1>1, <1>2, <1>5, <1>6, <2>4 DEF DeviceAnswer, SomethingComes, Current, Synchronised
<1>7. CASE DeviceDrop
  BY <1>1, <1>2, <1>5, <1>7 DEF DeviceDrop, SomethingComes, Current, Synchronised
<1>8. CASE DeviceAsync
  <2>1. /\ devIn' = devIn
        /\ \A i \in 1 .. Len(line') :
             \/ i \in 1 .. Len(line) /\ line'[i] = line[i]
             \/ ~IsAnswer(line'[i])
    BY <1>4, <1>8 DEF DeviceAsync, Message, IsAnswer, Async
  <2> QED
    BY <1>1, <1>2, <2>1 DEF SomethingComes, Current, Synchronised
<1>9. CASE HangUp
  BY <1>1, <1>2, <1>9 DEF HangUp, SomethingComes, Current, Synchronised
<1> QED
  BY <1>6, <1>7, <1>8, <1>9 DEF Device

LEMMA SyncStep ==
  /\ TypeOK /\ TypeOK' /\ PipelineOrdered /\ PipelineOrdered'
  /\ ResponseWhole /\ Synchronised /\ [Next]_vars
  => Synchronised'
<1> SUFFICES ASSUME TypeOK, TypeOK', PipelineOrdered, PipelineOrdered',
                    ResponseWhole, Synchronised, [Next]_vars
             PROVE  Synchronised'
  OBVIOUS
<1>1. CASE UNCHANGED vars
  BY <1>1 DEF vars, appVars, callVars, localVars, sharedVars, readVars, devVars,
     Synchronised, SomethingComes, Current, Awaiting
<1>2. CASE Next
  BY <1>1, <1>2, SyncAppSteps, SyncReaderSteps, SyncDeviceSteps DEF Next, Gone
<1> QED
  BY <1>1, <1>2

LEMMA InSyncStep ==
  TypeOK /\ ResponseWhole /\ Synchronised /\ InSync /\ [Next]_vars => InSync'
<1> SUFFICES ASSUME TypeOK, ResponseWhole, Synchronised, InSync, [Next]_vars
             PROVE  InSync'
  OBVIOUS
<1>1. CASE result' = result
  BY <1>1 DEF InSync
<1>2. CASE \/ Fails("CDCSendException") \/ Fails("CDCReceiveException")
           \/ \E req \in Nat : Answered("CDCReceiveException", req)
  BY <1>2 DEF Fails, Answered, InSync
<1>3. CASE Check /\ result' # result
  <2>1. lastResponse.parseResult.req \in Nat
    BY DEF TypeOK, SharedTypeOK, Response
  <2>2. ~stray => lastResponse.parseResult.req = calls
    BY <1>3 DEF Check, Synchronised
  <2> QED
    BY <1>2, <1>3, <2>1, <2>2 DEF Check, Answered, InSync
<1>4. CASE Use
  <2>1. lastResponse.message.req \in Nat
    BY DEF TypeOK, SharedTypeOK, Response
  <2>2. CASE stray
    BY <1>4, <2>2 DEF Use, Fails, Answered, InSync
  <2>3. CASE ~stray
    <3>1. ~Storing
      BY <1>4, <2>3 DEF Use, Synchronised, Storing, Awaiting
    <3>2. lastResponse.message.req = calls /\ lastResponse.message.type = parseAs
      BY <1>4, <2>3, <3>1 DEF Use, Synchronised, ResponseWhole
    <3> QED
      BY <1>2, <1>4, <2>1, <3>1, <3>2 DEF Use, Storing, Answered, InSync
  <2> QED
    BY <2>2, <2>3
<1>5. CASE RejectTarget \/ CheckStopped \/ RejectData \/ WriteFail \/ Timeout \/ WaitError
  BY <1>1, <1>2, <1>5
  DEF RejectTarget, CheckStopped, RejectData, WriteFail, Timeout, WaitError
<1>6. CASE \/ UNCHANGED vars \/ Call \/ ResetEvent \/ WriteSome \/ SendDone \/ Awake
           \/ Branch \/ Destroy \/ Join \/ ReaderStep \/ ReaderFail \/ Device \/ Gone
  BY <1>1, <1>6
  DEF vars, appVars, Call, ResetEvent, WriteSome, SendDone, Awake, Branch, Destroy,
      Join, ReaderStep, ReaderFail, ReaderSelect, ReaderNextRound, ReaderBadFormat,
      ReaderAsync, ReaderStoreResult, ReaderStoreBegin, ReaderStoreEnd, ReaderSignal,
      ReaderHangUp, ReaderRecordError, ReaderSetStopped, Device, DeviceAnswer,
      DeviceDrop, DeviceAsync, HangUp, Gone
<1> QED
  BY <1>1, <1>3, <1>4, <1>5, <1>6 DEF Next, AppStep

LEMMA SyncInit == Init => ResponseWhole /\ Synchronised /\ InSync
<1> SUFFICES ASSUME Init PROVE ResponseWhole /\ Synchronised /\ InSync
  OBVIOUS
<1>1. /\ devIn = <<>> /\ line = <<>> /\ receivedBytes = <<>> /\ Len(<<>>) = 0
      /\ readPc = "select" /\ appPc = "idle" /\ newMsgEvent = 0
  BY EmptySeq DEF Init
<1>2. ResponseWhole
  BY <1>1 DEF Init, ResponseWhole, Storing
<1>3. Synchronised
  BY <1>1 DEF Synchronised, SomethingComes, Current, Awaiting
<1>4. InSync
  BY DEF Init, InSync
<1> QED
  BY <1>2, <1>3, <1>4

(* Unless an answer to an abandoned call may still be about, a call that   *)
(* returns a value returns the answer to its own command, and no call      *)
(* reads lastResponse while it is assigned (processCommand and             *)
(* processMessage, on both platforms).                                     *)
THEOREM CallsInSync == Spec => []InSync
<1>1. Spec => [](ResponseWhole /\ Synchronised)
  <2>1. Spec => []ResponseWhole
    BY TypeCorrect, ResponsesInOrder, SyncInit, WholeStep, PTL DEF Spec
  <2> QED
    BY <2>1, TypeCorrect, ResponsesInOrder, SyncInit, SyncStep, PTL DEF Spec
<1> QED
  BY <1>1, TypeCorrect, SyncInit, InSyncStep, PTL DEF Spec

-----------------------------------------------------------------------------
(* The event, the error and the end of the reading thread.                 *)

LEMMA SignalledStep ==
  TypeOK /\ TypeOK' /\ PipelineOrdered /\ ResponseWhole /\ AnswerSignalled /\ [Next]_vars
    => AnswerSignalled'
<1> SUFFICES ASSUME TypeOK, TypeOK', PipelineOrdered, ResponseWhole,
                    AnswerSignalled, [Next]_vars,
                    Awaiting', lastResponse'.message.req = calls'
             PROVE  newMsgEvent' > 0 \/ readPc' = "signal"
  BY DEF AnswerSignalled
<1>1. newMsgEvent \in Nat /\ newMsgEvent' \in Nat
  BY DEF TypeOK, SharedTypeOK
<1>2. CASE WriteSome
  <2>1. /\ calls' = calls /\ lastResponse' = lastResponse /\ Unsent
    BY <1>2 DEF WriteSome, callVars, sharedVars, Unsent
  <2>2. lastResponse.message.req <= lastResponse.parseResult.req
    BY PipelineTypes DEF ResponseWhole
  <2>3. lastResponse.parseResult.req < calls
    BY <2>1, PipelineTypes DEF PipelineOrdered, Newest
  <2> QED
    BY <2>1, <2>2, <2>3, PipelineTypes
<1>3. CASE ReaderStoreEnd
  BY <1>3 DEF ReaderStoreEnd
<1>4. CASE ReaderSignal
  BY <1>1, <1>4 DEF ReaderSignal
<1>5. CASE ReaderStoreResult
  <2>1. Awaiting /\ calls' = calls /\ lastResponse'.message = lastResponse.message
        /\ readPc = "process" /\ newMsgEvent' = newMsgEvent
    BY <1>5 DEF ReaderStoreResult, Awaiting, appVars, callVars, localVars,
       TypeOK, SharedTypeOK
  <2> QED
    BY <2>1 DEF AnswerSignalled
<1>6. CASE \/ ReaderSelect \/ ReaderNextRound \/ ReaderBadFormat \/ ReaderAsync
           \/ ReaderStoreBegin \/ ReaderFail \/ ReaderRecordError
           \/ ReaderSetStopped \/ Device \/ Gone \/ UNCHANGED vars
  <2>1. /\ Awaiting /\ calls' = calls
        /\ UNCHANGED <<lastResponse, newMsgEvent>>
        /\ readPc = "signal" => readPc' = readPc
    BY <1>6
    DEF ReaderSelect, ReaderNextRound, ReaderBadFormat, ReaderAsync, ReaderStoreBegin,
        ReaderFail, ReaderRecordError, ReaderSetStopped, Device, DeviceAnswer,
        DeviceDrop, DeviceAsync, HangUp, Gone, Awaiting, vars, appVars, callVars,
        localVars, sharedVars, readVars
  <2> QED
    BY <2>1 DEF AnswerSignalled
<1>7. CASE SendDone
  BY <1>7 DEF SendDone, Awaiting, AnswerSignalled, callVars, sharedVars, readVars
<1>8. CASE Call \/ Destroy \/ ResetEvent
  BY <1>8, BoundsAssumption DEF Call, Destroy, ResetEvent, Awaiting
<1>9. CASE \/ RejectTarget \/ CheckStopped \/ RejectData \/ WriteFail \/ Awake
           \/ Timeout \/ WaitError \/ Check \/ Branch \/ Use \/ Join
  BY <1>9
  DEF RejectTarget, CheckStopped, RejectData, WriteFail, Awake, Timeout, WaitError,
      Check, Branch, Use, Join, Fails, Answered, Awaiting
<1> QED
  BY <1>2, <1>3, <1>4, <1>5, <1>6, <1>7, <1>8, <1>9
  DEF Next, AppStep, ReaderStep, ReaderHangUp

(* A stored answer to the current command is never missed by the waiting   *)
(* application (setMyEvent, resetMyEvent and waitForMyEvent).              *)
THEOREM WakeupsNotLost == Spec => []NoLostWakeup
<1>1. Init => AnswerSignalled
  BY DEF Init, AnswerSignalled, Awaiting
<1>2. AnswerSignalled => NoLostWakeup
  BY DEF AnswerSignalled, NoLostWakeup, Awaiting
<1>3. Spec => []ResponseWhole
  BY TypeCorrect, ResponsesInOrder, SyncInit, WholeStep, PTL DEF Spec
<1> QED
  BY <1>1, <1>2, <1>3, TypeCorrect, ResponsesInOrder, SignalledStep, PTL DEF Spec

LEMMA ErrorStep == ErrorBeforeFlag /\ [Next]_vars => ErrorBeforeFlag'
<1> SUFFICES ASSUME ErrorBeforeFlag, [Next]_vars PROVE ErrorBeforeFlag'
  OBVIOUS
<1> USE DEF ErrorBeforeFlag
<1>1. CASE \/ UNCHANGED vars
           \/ Call \/ Destroy \/ AppStep \/ WaitError \/ Device \/ Gone
  <2>1. UNCHANGED <<readPc, receptionStopped, lastReceptionError>>
    BY <1>1
    DEF vars, readVars, sharedVars, Call, Destroy, AppStep, WaitError, RejectTarget,
        CheckStopped, ResetEvent, RejectData, WriteSome, WriteFail, SendDone,
        Awake, Timeout, Check, Branch, Use, Join, Device, DeviceAnswer,
        DeviceDrop, DeviceAsync, HangUp, Gone
  <2> QED
    BY <2>1
<1>2. CASE ReaderStep \/ ReaderFail
  BY <1>2
  DEF ReaderStep, ReaderFail, ReaderSelect, ReaderNextRound, ReaderBadFormat,
      ReaderAsync, ReaderStoreResult, ReaderStoreBegin, ReaderStoreEnd, ReaderSignal,
      ReaderHangUp, ReaderRecordError, ReaderSetStopped, sharedVars
<1> QED
  BY <1>1, <1>2 DEF Next

(* A stopped reception is always explained by its fatal error              *)
(* (readMsgThread's handler of CDCReceiveException).                       *)
THEOREM StopsExplained == Spec => []StopExplained
<1>1. Init => ErrorBeforeFlag
  BY DEF Init, ErrorBeforeFlag
<1>2. ErrorBeforeFlag => StopExplained
  BY DEF ErrorBeforeFlag, StopExplained
<1> QED
  BY <1>1, <1>2, ErrorStep, PTL DEF Spec

(* The destructor waits for the thread. *)
ThreadEnded == appPc = "gone" => readPc = "exited"

LEMMA EndedStep ==
  ThreadEnded /\ [Next]_vars
    => ThreadEnded' /\ (appPc = "gone" => UNCHANGED <<readVars, sharedVars>>)
<1> SUFFICES ASSUME ThreadEnded, [Next]_vars
             PROVE  ThreadEnded' /\ (appPc = "gone" => UNCHANGED <<readVars, sharedVars>>)
  OBVIOUS
<1> USE DEF ThreadEnded
<1>1. CASE Call \/ Destroy \/ AppStep \/ WaitError
  <2>1. appPc # "gone" /\ (appPc' = "gone" => readPc' = "exited")
    BY <1>1
    DEF readVars, Call, Destroy, AppStep, WaitError, RejectTarget,
        CheckStopped, ResetEvent, RejectData, WriteSome, WriteFail, SendDone,
        Awake, Timeout, Check, Branch, Use, Join, Fails, Answered
  <2> QED
    BY <2>1
<1>2. CASE ReaderStep \/ ReaderFail
  <2>1. readPc # "exited" /\ appPc' = appPc
    BY <1>2
    DEF ReaderStep, ReaderFail, ReaderSelect, ReaderNextRound, ReaderBadFormat,
        ReaderAsync, ReaderStoreResult, ReaderStoreBegin, ReaderStoreEnd, ReaderSignal,
        ReaderHangUp, ReaderRecordError, ReaderSetStopped, appVars
  <2> QED
    BY <2>1
<1>3. CASE Device \/ Gone \/ UNCHANGED vars
  <2>1. UNCHANGED <<readVars, sharedVars>> /\ UNCHANGED <<appPc, readPc>>
    BY <1>3
    DEF vars, appVars, readVars, sharedVars, Device, DeviceAnswer, DeviceDrop,
        DeviceAsync, HangUp, Gone
  <2> QED
    BY <2>1
<1> QED
  BY <1>1, <1>2, <1>3 DEF Next

(* Nothing touches the events, lastResponse or the buffer once the         *)
(* destructor has returned.                                                *)
THEOREM DestroyedIsAlone == Spec => DestroyedAlone
<1>1. Init => ThreadEnded
  BY DEF Init, ThreadEnded
<1> QED
  BY <1>1, EndedStep, PTL DEF Spec, DestroyedAlone

-----------------------------------------------------------------------------
(* The order of the answers that calls return.                             *)

(* Whoever reads the text accepts no type of those who do not. *)
LEMMA TypesApart ==
  ASSUME NEW o \in AllOps, NEW type \in SilentTypes, Accepts(o, type)
  PROVE  o \in SilentOps
<1>1. AllOps = {"test", "resetUSBDevice", "resetTRModule", "indicateConnectivity",
                "getUSBDeviceInfo", "getTRModuleInfo", "getStatus", "sendData",
                "switchToCustom", "enterProgrammingMode",
                "terminateProgrammingMode", "upload", "download"}
  BY DEF AllOps, CommandType
<1>2. type \in {"MSG_TEST", "MSG_RES_USB", "MSG_RES_TR", "MSG_USB_CONN", "MSG_SWITCH"}
  BY DEF SilentTypes, SilentOps, CommandType
<1> QED
  BY <1>1, <1>2 DEF Accepts, CommandType, SilentOps

LEMMA KeptAppSteps ==
  ASSUME TypeOK, TypeOK', ResponseWhole, AnswersKept,
         Call \/ AppStep \/ WaitError \/ Destroy
  PROVE  AnswersKept' /\ result'.req >= result.req
<1>1. /\ lastResponse.parseResult.req \in Nat /\ lastResponse.message.req \in Nat
      /\ result.req \in Nat /\ lastResponse.message.req <= lastResponse.parseResult.req
  BY PipelineTypes DEF TypeOK, AppTypeOK, ResponseWhole
<1>2. UNCHANGED <<lastResponse, readPc>>
  BY DEF Call, AppStep, WaitError, Destroy, RejectTarget, CheckStopped, ResetEvent,
     RejectData, WriteSome, WriteFail, SendDone, Awake, Timeout, Check, Branch, Use,
     Join, sharedVars, readVars
<1>3. CASE \/ Call \/ RejectTarget \/ CheckStopped \/ ResetEvent \/ RejectData
           \/ WriteSome \/ WriteFail \/ SendDone \/ Awake \/ Timeout \/ WaitError
           \/ Join \/ Destroy
  <2>1. result'.req = result.req /\ appPc' \notin {"branch", "use"}
    BY <1>3
    DEF Call, RejectTarget, CheckStopped, ResetEvent, RejectData, WriteSome, WriteFail,
        SendDone, Awake, Timeout, WaitError, Join, Destroy, Fails, Answered, localVars
  <2> QED
    BY <1>1, <1>2, <2>1 DEF AnswersKept, Storing
<1>4. CASE Check
  <2> DEFINE r == lastResponse.parseResult
  <2>1. op \in AllOps
    BY OpsAssumption DEF TypeOK, AppTypeOK
  <2>2. CASE Fails("CDCReceiveException")
    <3>1. result'.req = result.req /\ appPc' = "idle"
      BY <2>2 DEF Fails, Answered
    <3> QED
      BY <1>1, <1>2, <3>1 DEF AnswersKept, Storing
  <2>3. CASE Accepts(op, r.type) /\ op \in SilentOps /\ Answered("ok", r.req)
    <3>1. result'.req = r.req /\ appPc' = "idle"
      BY <2>3 DEF Answered
    <3>2. r.type \in SilentTypes
      BY <2>3 DEF SilentTypes, SilentOps, Accepts
    <3> QED
      BY <1>1, <1>2, <3>1, <3>2 DEF AnswersKept, Storing, ResponseWhole
  <2>4. CASE Accepts(op, r.type) /\ op \notin SilentOps /\ UNCHANGED result
    <3>1. r.type \notin SilentTypes
      BY <2>1, <2>4, TypesApart
    <3> QED
      BY <1>1, <1>2, <2>4, <3>1 DEF AnswersKept, Storing
  <2>5. \/ Fails("CDCReceiveException")
        \/ Accepts(op, r.type) /\ op \in SilentOps /\ Answered("ok", r.req)
        \/ Accepts(op, r.type) /\ op \notin SilentOps /\ UNCHANGED result
    BY <1>4 DEF Check, Fails, Answered
  <2> QED
    BY <2>2, <2>3, <2>4, <2>5
<1>5. CASE Branch
  BY <1>1, <1>2, <1>5 DEF Branch, AnswersKept, Storing
<1>6. CASE Use
  <2>1. /\ result'.req \in {result.req, lastResponse.message.req} /\ appPc' = "idle"
        /\ appPc = "use"
    BY <1>6 DEF Use, Fails, Answered
  <2> QED
    BY <1>1, <1>2, <2>1 DEF AnswersKept, Storing
<1> QED
  BY <1>3, <1>4, <1>5, <1>6 DEF AppStep

LEMMA KeptReaderSteps ==
  ASSUME TypeOK, PipelineOrdered, ResponseWhole, AnswersKept, ReaderStep \/ ReaderFail
  PROVE  AnswersKept' /\ result' = result
<1>1. UNCHANGED <<result, appPc>>
  BY DEF ReaderStep, ReaderFail, ReaderSelect, ReaderNextRound, ReaderBadFormat,
     ReaderAsync, ReaderStoreResult, ReaderStoreBegin, ReaderStoreEnd, ReaderSignal,
     ReaderHangUp, ReaderRecordError, ReaderSetStopped, appVars
<1>2. CASE \/ ReaderSelect \/ ReaderNextRound \/ ReaderBadFormat \/ ReaderAsync
           \/ ReaderStoreBegin \/ ReaderSignal \/ ReaderFail
           \/ ReaderRecordError \/ ReaderSetStopped
  <2>1. lastResponse' = lastResponse /\ (Storing => Storing')
    BY <1>2
    DEF ReaderSelect, ReaderNextRound, ReaderBadFormat, ReaderAsync, ReaderStoreBegin,
        ReaderSignal, ReaderFail, ReaderRecordError, ReaderSetStopped, sharedVars, Storing
  <2> QED
    BY <1>1, <2>1 DEF AnswersKept
<1>3. CASE ReaderStoreResult
  <2>1. /\ lastResponse'.parseResult = Head(receivedBytes)
        /\ lastResponse'.message = lastResponse.message
        /\ ~Storing
    BY <1>3 DEF ReaderStoreResult, TypeOK, SharedTypeOK, Storing
  <2>2. IsAnswer(Head(receivedBytes))
    BY <1>3, ResponseTypes DEF ReaderStoreResult, IsAnswer
  <2>3. 1 \in 1 .. Len(receivedBytes) /\ Head(receivedBytes) = receivedBytes[1]
    BY <1>3, EmptySeq DEF ReaderStoreResult, TypeOK, ReaderTypeOK
  <2>4. /\ lastResponse.parseResult.req < Head(receivedBytes).req
        /\ Head(receivedBytes).req \in Nat
    BY <2>2, <2>3, PipelineTypes DEF PipelineOrdered, Ascending
  <2>5. result.req \in Nat /\ lastResponse.parseResult.req \in Nat
    BY PipelineTypes DEF TypeOK, AppTypeOK
  <2> QED
    BY <1>1, <2>1, <2>4, <2>5 DEF AnswersKept
<1>4. CASE ReaderStoreEnd
  <2>1. /\ lastResponse'.parseResult = lastResponse.parseResult
        /\ lastResponse'.message = lastResponse.parseResult
    BY <1>4 DEF ReaderStoreEnd, TypeOK, SharedTypeOK
  <2> QED
    BY <1>1, <2>1 DEF AnswersKept
<1> QED
  BY <1>2, <1>3, <1>4 DEF ReaderStep, ReaderHangUp

LEMMA KeptStep ==
  TypeOK /\ PipelineOrdered /\ ResponseWhole /\ AnswersKept /\ [Next]_vars
    => AnswersKept' /\ result'.req >= result.req
<1> SUFFICES ASSUME TypeOK, PipelineOrdered, ResponseWhole, AnswersKept, [Next]_vars
             PROVE  AnswersKept' /\ result'.req >= result.req
  OBVIOUS
<1>1. TypeOK'
  BY TypeStep
<1>2. result.req \in Nat
  BY DEF TypeOK, AppTypeOK
<1>3. CASE Device \/ Gone \/ UNCHANGED vars
  <2>1. UNCHANGED <<result, appPc, readPc, lastResponse>>
    BY <1>3 DEF vars, appVars, readVars, sharedVars, Device, DeviceAnswer, DeviceDrop,
                DeviceAsync, HangUp, Gone
  <2> QED
    BY <1>2, <2>1 DEF AnswersKept, Storing
<1> QED
  BY <1>1, <1>2, <1>3, KeptAppSteps, KeptReaderSteps DEF Next

(* Calls never return an older answer than was returned before: not one    *)
(* that was late, and not while the reading thread is assigning            *)
(* lastResponse (processCommand, processMessage).                          *)
THEOREM AnswersInOrder == Spec => AnswersNeverGoBack
<1>1. Init => AnswersKept
  BY DEF Init, NoResponse, AnswersKept
<1>2. Spec => []ResponseWhole
  BY TypeCorrect, ResponsesInOrder, SyncInit, WholeStep, PTL DEF Spec
<1>3. TypeOK /\ PipelineOrdered /\ ResponseWhole /\ AnswersKept /\ [Next]_vars
        => [result'.req >= result.req]_result
  BY KeptStep
<1> QED
  BY <1>1, <1>2, <1>3, KeptStep, TypeCorrect, ResponsesInOrder, PTL
  DEF Spec, AnswersNeverGoBack

-----------------------------------------------------------------------------
(* The object keeps the promises of CDCService.                            *)

LEMMA RefusedStep ==
  StoppedAreRefused /\ [Next]_vars => StoppedAreRefused'
<1> SUFFICES ASSUME StoppedAreRefused, [Next]_vars PROVE StoppedAreRefused'
  OBVIOUS
<1> USE DEF StoppedAreRefused
<1>1. CASE Call \/ CheckStopped
  BY <1>1 DEF Call, CheckStopped, Fails, Answered, sharedVars, callVars
<1>2. CASE \/ RejectTarget \/ ResetEvent \/ RejectData \/ WriteSome \/ WriteFail
           \/ SendDone \/ Awake \/ Timeout \/ WaitError \/ Check \/ Branch \/ Use
           \/ Join \/ Destroy
  BY <1>2
  DEF RejectTarget, ResetEvent, RejectData, WriteSome, WriteFail, SendDone, Awake,
      Timeout, WaitError, Check, Branch, Use, Join, Destroy, Fails, Answered,
      callVars, sharedVars
<1>3. CASE ReaderStep \/ ReaderFail
  BY <1>3
  DEF ReaderStep, ReaderFail, ReaderSelect, ReaderNextRound, ReaderBadFormat,
      ReaderAsync, ReaderStoreResult, ReaderStoreBegin, ReaderStoreEnd, ReaderSignal,
      ReaderHangUp, ReaderRecordError, ReaderSetStopped, appVars, callVars, sharedVars
<1>4. CASE Device \/ Gone \/ UNCHANGED vars
  BY <1>4 DEF vars, appVars, callVars, sharedVars, Device, DeviceAnswer, DeviceDrop,
              DeviceAsync, HangUp, Gone
<1> QED
  BY <1>1, <1>2, <1>3, <1>4 DEF Next, AppStep

LEMMA ServiceInit == Init => Service!Init
BY DEF Init, Service!Init, Phase

(* A call that fails. *)
LEMMA ServiceFail ==
  ASSUME NEW kind \in Service!Documented, Fails(kind), UNCHANGED receptionStopped,
         UNCHANGED callVars, stray => stray', Phase = "busy",
         stoppedAtCall => kind = "CDCSendException"
  PROVE  Service!Fail
<1>1. /\ Phase' = "idle" /\ UNCHANGED <<calls, receptionStopped, stoppedAtCall>>
      /\ result'.kind = kind /\ result'.req = result.req
  BY DEF Fails, Answered, Phase, callVars, Service!Documented
<1> QED
  BY <1>1 DEF Service!Fail, Service!Ends

LEMMA ServiceAppSteps ==
  ASSUME TypeOK, PipelineOrdered, ResponseWhole, InSync', StoppedAreRefused,
         result'.req >= result.req, AppStep \/ WaitError
  PROVE  Service!Next \/ UNCHANGED Service!vars
<1> USE DEF Service!Next
<1>1. UNCHANGED receptionStopped
  BY DEF AppStep, WaitError, RejectTarget, CheckStopped, ResetEvent, RejectData,
     WriteSome, WriteFail, SendDone, Awake, Timeout, Check, Branch, Use, Join, sharedVars
<1>2. {"CDCSendException", "CDCReceiveException"} = Service!Documented
  BY DEF Service!Documented
<1>3. CASE RejectTarget \/ RejectData \/ WriteFail \/ (CheckStopped /\ appPc' = "idle")
  <2>1. Fails("CDCSendException") /\ UNCHANGED callVars /\ (stray => stray')
        /\ Phase = "busy"
    BY <1>3 DEF RejectTarget, RejectData, WriteFail, CheckStopped, Phase
  <2> QED
    BY <1>1, <1>2, <2>1, ServiceFail
<1>4. CASE Timeout \/ WaitError \/ (Check /\ Fails("CDCReceiveException"))
           \/ (Use /\ Fails("CDCReceiveException"))
  <2>1. Fails("CDCReceiveException") /\ UNCHANGED callVars /\ (stray => stray')
        /\ Phase = "busy" /\ ~stoppedAtCall
    BY <1>4 DEF Timeout, WaitError, Check, Use, Phase, StoppedAreRefused
  <2> QED
    BY <1>1, <1>2, <2>1, ServiceFail
<1>5. CASE ResetEvent
  <2>1. Phase = "busy" /\ Phase' = "busy"
        /\ UNCHANGED <<calls, receptionStopped, stoppedAtCall, result>>
        /\ (stray' => stray) /\ stray' \in BOOLEAN /\ stray \in BOOLEAN
    BY <1>1, <1>5 DEF ResetEvent, Phase, callVars, TypeOK, AppTypeOK
  <2> QED
    BY <2>1 DEF Service!Settle, Service!vars
<1>6. CASE \/ CheckStopped /\ appPc' = "reset"
           \/ WriteSome \/ SendDone \/ Awake \/ Branch
           \/ Check /\ appPc' \in {"branch", "use"}
  <2>1. Phase = "busy" /\ Phase' = "busy"
        /\ UNCHANGED <<calls, receptionStopped, stoppedAtCall, stray, result>>
    BY <1>1, <1>6 DEF CheckStopped, WriteSome, SendDone, Awake, Branch, Check, Phase,
                      callVars, Fails, Answered
  <2> QED
    BY <2>1 DEF Service!vars
<1>7. CASE Join
  BY <1>1, <1>7 DEF Join, Phase, callVars, Service!Close
<1>8. CASE \E req \in {lastResponse.parseResult.req, lastResponse.message.req} :
             (Check \/ Use) /\ Answered("ok", req)
  <2>1. PICK req \in {lastResponse.parseResult.req, lastResponse.message.req} :
          (Check \/ Use) /\ Answered("ok", req)
    BY <1>8
  <2>2. /\ Phase = "busy" /\ Phase' = "idle" /\ ~stoppedAtCall
        /\ UNCHANGED <<calls, receptionStopped, stoppedAtCall, stray>>
        /\ result' = [id |-> calls, kind |-> "ok", stray |-> stray, req |-> req]
    BY <1>1, <2>1 DEF Check, Use, Phase, Answered, Fails, callVars, StoppedAreRefused
  <2>3. stray \/ req = calls
    BY <2>2 DEF InSync
  <2>4. req \in result.req .. calls
    <3>1. /\ lastResponse.parseResult.req <= calls
          /\ lastResponse.message.req <= lastResponse.parseResult.req
          /\ lastResponse.parseResult.req \in Nat /\ lastResponse.message.req \in Nat
          /\ calls \in Nat /\ result.req \in Nat
      BY PipelineTypes DEF PipelineOrdered, Newest, ResponseWhole, TypeOK, AppTypeOK
    <3>2. req \in Nat /\ req <= calls
      BY <2>1, <3>1
    <3>3. result.req <= req
      BY <2>2, <3>1, <3>2
    <3> QED
      BY <3>1, <3>2, <3>3
  <2> QED
    BY <2>2, <2>3, <2>4 DEF Service!Answer, Service!Ends
<1>9. CASE Use /\ \E kind \in {"CDCMessageParserException", "bad_alloc", "undefined"},
                      req \in {result.req, lastResponse.message.req} : Answered(kind, req)
  <2>1. PICK kind \in {"CDCMessageParserException", "bad_alloc", "undefined"},
             req \in {result.req, lastResponse.message.req} : Answered(kind, req)
    BY <1>9
  <2>2. /\ Phase = "busy" /\ Phase' = "idle" /\ ~stoppedAtCall
        /\ UNCHANGED <<calls, receptionStopped, stoppedAtCall, stray>>
        /\ result' = [id |-> calls, kind |-> kind, stray |-> stray, req |-> result.req]
    BY <1>1, <1>9, <2>1 DEF Use, Phase, Answered, callVars, StoppedAreRefused
  <2>3. stray
    BY <2>2 DEF InSync
  <2> QED
    BY <2>2, <2>3 DEF Service!Misread, Service!Ends
<1>10. CASE Check
  <2>1. \/ Fails("CDCReceiveException")
        \/ Answered("ok", lastResponse.parseResult.req)
        \/ appPc' \in {"branch", "use"}
    BY <1>10 DEF Check, Fails, Answered
  <2> QED
    BY <1>4, <1>6, <1>8, <1>10, <2>1
<1>11. CASE Use
  <2>1. \/ Fails("CDCReceiveException")
        \/ Answered("ok", lastResponse.message.req)
        \/ \E kind \in {"CDCMessageParserException", "bad_alloc", "undefined"},
               req \in {result.req, lastResponse.message.req} : Answered(kind, req)
    BY <1>11, MisparseKinds DEF Use, Fails, Answered
  <2> QED
    BY <1>4, <1>8, <1>9, <1>11, <2>1
<1>12. CASE CheckStopped
  BY <1>3, <1>6, <1>12 DEF CheckStopped, Fails, Answered
<1> QED
  BY <1>3, <1>4, <1>5, <1>6, <1>7, <1>10, <1>11, <1>12 DEF AppStep

LEMMA ServiceOtherSteps ==
  ASSUME TypeOK, ErrorBeforeFlag,
         \/ Call \/ Destroy \/ ReaderStep \/ ReaderFail \/ Device \/ Gone
         \/ UNCHANGED vars
  PROVE  Service!Next \/ UNCHANGED Service!vars
<1>1. CASE Call
  BY <1>1 DEF Call, Phase, sharedVars, Service!Next, Service!Call
<1>2. CASE Destroy
  BY <1>2 DEF Destroy, Phase, callVars, Service!Next, Service!Close
<1>3. CASE ReaderSetStopped
  <2>1. ~receptionStopped /\ receptionStopped' /\ UNCHANGED <<Phase, appVars>>
    BY <1>3 DEF ReaderSetStopped, ErrorBeforeFlag, appVars, Phase
  <2> QED
    BY <2>1 DEF appVars, callVars, Service!Next, Service!Stop
<1>4. CASE \/ UNCHANGED vars \/ Device \/ Gone \/ ReaderFail
           \/ (ReaderStep /\ ~ReaderSetStopped)
  <2>1. UNCHANGED <<receptionStopped, appVars>>
    BY <1>4
    DEF vars, sharedVars, Device, DeviceAnswer, DeviceDrop, DeviceAsync, HangUp, Gone,
        ReaderStep, ReaderFail, ReaderSelect, ReaderNextRound, ReaderBadFormat,
        ReaderAsync, ReaderStoreResult, ReaderStoreBegin, ReaderStoreEnd, ReaderSignal,
        ReaderHangUp, ReaderRecordError
  <2> QED
    BY <2>1 DEF appVars, callVars, Phase, Service!vars
<1> QED
  BY <1>1, <1>2, <1>3, <1>4

LEMMA ServiceStep ==
  TypeOK /\ PipelineOrdered /\ ResponseWhole /\ Synchronised /\ InSync /\
  AnswersKept /\ StoppedAreRefused /\ ErrorBeforeFlag /\ [Next]_vars
    => [Service!Next]_(Service!vars)
<1>1. ASSUME TypeOK, PipelineOrdered, ResponseWhole, Synchronised, InSync,
             AnswersKept, StoppedAreRefused, ErrorBeforeFlag, [Next]_vars
      PROVE  Service!Next \/ UNCHANGED Service!vars
  <2>1. InSync' /\ result'.req >= result.req
    BY <1>1, InSyncStep, KeptStep
  <2>2. CASE AppStep \/ WaitError
    BY <1>1, <2>1, <2>2, ServiceAppSteps
  <2>3. CASE \/ Call \/ Destroy \/ ReaderStep \/ ReaderFail \/ Device \/ Gone
             \/ UNCHANGED vars
    BY <1>1, <2>3, ServiceOtherSteps
  <2> QED
    BY <1>1, <2>2, <2>3 DEF Next
<1> QED
  BY <1>1

(* What the two threads, their event and the device do together is, seen   *)
(* by the application, the abstract service: this is the public interface  *)
(* of CDCImpl.                                                             *)
THEOREM ImplementsService == Spec => ServiceSpec
<1>1. Init => AnswersKept /\ StoppedAreRefused /\ ErrorBeforeFlag
  BY DEF Init, NoResponse, AnswersKept, StoppedAreRefused, ErrorBeforeFlag
<1>2. Spec => [](ResponseWhole /\ Synchronised)
  <2>1. Spec => []ResponseWhole
    BY TypeCorrect, ResponsesInOrder, SyncInit, WholeStep, PTL DEF Spec
  <2> QED
    BY <2>1, TypeCorrect, ResponsesInOrder, SyncInit, SyncStep, PTL DEF Spec
<1>3. Spec => [](AnswersKept /\ StoppedAreRefused /\ ErrorBeforeFlag)
  BY <1>1, <1>2, TypeCorrect, ResponsesInOrder, KeptStep, RefusedStep, ErrorStep, PTL
  DEF Spec
<1> QED
  BY <1>2, <1>3, ServiceStep, TypeCorrect, ResponsesInOrder, CallsInSync, ServiceInit, PTL
  DEF Spec, ServiceSpec, Service!Spec
=============================================================================
