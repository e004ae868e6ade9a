----------------------------- MODULE CDCCommand -----------------------------
(***************************************************************************)
(* The command/response cycle of CDCImpl: the application thread, which    *)
(* calls the public interface and runs processCommand, the reading thread, *)
(* which runs readMsgThread and processMessage, and the two things they    *)
(* share, newMsgEvent and lastResponse.  The device at the other end of    *)
(* the COM port is external: it answers each command at most once and in   *)
(* order, and may be late, silent or unplugged.                            *)
(*                                                                         *)
(* Messages are whole here (module CDCFraming splits the byte stream into  *)
(* them).  A message is its type and the number of the call it answers.    *)
(***************************************************************************)
EXTENDS Naturals, Sequences, FiniteSets

CONSTANTS Platform,    \* "Linux" (CDCImpl_Lin.cpp) or "Windows" (CDCImpl_Win.cpp)
          Ops,         \* the operations the application calls
          MaxCalls,    \* bound on the number of calls
          MaxAsync,    \* bound on the number of asynchronous messages
          CmdLen,      \* the units a command is written in
          CanHangUp    \* whether the device may be unplugged

(* The type processCommand expects, by public operation of CDCImpl. *)
CommandType ==
  [ test                     |-> "MSG_TEST",
    resetUSBDevice           |-> "MSG_RES_USB",
    resetTRModule            |-> "MSG_RES_TR",
    indicateConnectivity     |-> "MSG_USB_CONN",
    getUSBDeviceInfo         |-> "MSG_USB_INFO",
    getTRModuleInfo          |-> "MSG_TR_INFO",
    getStatus                |-> "MSG_SPI_STAT",
    sendData                 |-> "MSG_DATA_SEND",
    switchToCustom           |-> "MSG_SWITCH",
    enterProgrammingMode     |-> "MSG_MODE_PROGRAM",
    terminateProgrammingMode |-> "MSG_MODE_NORMAL",
    upload                   |-> "MSG_UPLOAD_DOWNLOAD",
    download                 |-> "MSG_UPLOAD_DOWNLOAD" ]

AllOps == DOMAIN CommandType

(* Operations that return without looking at the text of the response. *)
SilentOps == {"test", "resetUSBDevice", "resetTRModule",
              "indicateConnectivity", "switchToCustom"}

(* Operations whose data may be longer than UCHAR_MAX (commandToBuffer). *)
DataOps == {"sendData", "upload", "download"}

ASSUME PlatformAssumption == Platform \in {"Linux", "Windows"}
ASSUME OpsAssumption == Ops \subseteq AllOps /\ Ops # {}
ASSUME BoundsAssumption == /\ MaxCalls \in Nat \ {0}
                           /\ MaxAsync \in Nat
                           /\ CmdLen \in Nat \ {0}
                           /\ CanHangUp \in BOOLEAN

Linux == Platform = "Linux"

ResponseType == {CommandType[o] : o \in AllOps}
                  \cup {"MSG_ERROR", "MSG_DOWNLOAD_DATA"}

(* A parsed response.  req numbers the call it answers, 0 for none. *)
Response == [type : ResponseType, req : Nat]
Async    == [type |-> "MSG_ASYNC", req |-> 0]
Message  == Response \cup {Async} \cup [type : {"BAD"}, req : Nat]
Command  == [req : Nat, op : AllOps, garbled : BOOLEAN]

(* How a call can end: with a value, with one of the exceptions, among     *)
(* them that of an allocation (bad_alloc), or with the undefined value of  *)
(* a string read while it was being assigned.                              *)
Outcome == {"none", "ok", "CDCSendException", "CDCReceiveException",
            "CDCMessageParserException", "bad_alloc", "undefined"}

VARIABLES
  (* the application thread *)
  appPc,              \* where the application is in a call or the destructor
  op,                 \* the operation of the current (or last) call
  calls,              \* number of calls made; the current call's number
  left,               \* units of the command still to be written
  parseAs,            \* the type whose parser is applied to the response
  result,             \* how the last call ended
  stoppedAtCall,      \* history: reception was stopped when the call began
  stray,              \* history: an answer nobody waits for may be about
  (* shared by the two threads *)
  newMsgEvent,        \* eventfd counter (Linux) or manual-reset event (Windows)
  lastResponse,       \* parse result and text, written without a lock
  receptionStopped,
  lastReceptionError,
  readEndEvent,
  (* the reading thread *)
  readPc,
  receivedBytes,      \* messages in the buffer, not yet processed
  endSeen,            \* readEndEvent was seen by this round's wait
  (* the port and the device *)
  devIn,              \* commands that have reached the device
  halfCommand,        \* the device holds the head of an abandoned command
  line,               \* messages on their way to the host
  asyncs,             \* asynchronous messages sent so far
  hungUp              \* the device is unplugged

callVars   == <<op, calls, stoppedAtCall>>
localVars  == <<left, parseAs>>
sharedVars == <<newMsgEvent, lastResponse, receptionStopped,
                lastReceptionError, readEndEvent>>
readVars   == <<readPc, receivedBytes, endSeen>>
devVars    == <<devIn, halfCommand, line, asyncs, hungUp>>
appVars    == <<appPc, callVars, localVars, result, stray>>
vars       == <<appVars, sharedVars, readVars, devVars>>

-----------------------------------------------------------------------------
(* The state after a successful constructor: the reading thread runs.      *)

NoResponse == [type |-> "MSG_ERROR", req |-> 0]     \* initLastResponse

Init ==
  /\ appPc = "idle" /\ op \in Ops /\ calls = 0 /\ left = 0
  /\ parseAs = "none"
  /\ result = [id |-> 0, kind |-> "none", req |-> 0, stray |-> FALSE]
  /\ stoppedAtCall = FALSE /\ stray = FALSE
  /\ newMsgEvent = 0
  /\ lastResponse = [parseResult |-> NoResponse, message |-> NoResponse]
  /\ receptionStopped = FALSE /\ lastReceptionError = "none"
  /\ readEndEvent = FALSE
  /\ readPc = "select" /\ receivedBytes = <<>> /\ endSeen = FALSE
  /\ devIn = <<>> /\ halfCommand = FALSE /\ line = <<>>
  /\ asyncs = 0 /\ hungUp = FALSE

-----------------------------------------------------------------------------
(* The application thread.                                                 *)

(* The call ends after it has looked at the response to call req; its      *)
(* local variables are no more.  result.req is the newest answer a value   *)
(* was taken from: a call that throws takes none.                          *)
Answered(kind, req) ==
  /\ appPc' = "idle" /\ left' = 0 /\ parseAs' = "none"
  /\ result' = [id |-> calls, kind |-> kind, stray |-> stray,
                req |-> IF kind = "ok" THEN req ELSE result.req]

(* The call ends without a response. *)
Fails(kind) == Answered(kind, result.req)

(* A public operation is called. *)
Call ==
  /\ appPc = "idle" /\ calls < MaxCalls
  /\ appPc' = "begin"
  /\ op' \in Ops
  /\ calls' = calls + 1
  /\ stoppedAtCall' = receptionStopped
  /\ UNCHANGED <<localVars, result, stray, sharedVars, readVars, devVars>>

(* verifyUpload and verifyDownload refuse a target of the other direction. *)
RejectTarget ==
  /\ appPc = "begin" /\ op \in {"upload", "download"}
  /\ Fails("CDCSendException")
  /\ UNCHANGED <<callVars, stray, sharedVars, readVars, devVars>>

(* Fault: processCommand without its first check. *)
FaultStoppedUnchecked ==
  /\ appPc = "begin"
  /\ appPc' = "reset"
  /\ UNCHANGED <<callVars, localVars, result, stray, sharedVars, readVars, devVars>>

(* processCommand: "Reading is actually stopped". *)
CheckStopped ==
  /\ appPc = "begin"
  /\ IF receptionStopped
       THEN Fails("CDCSendException")
       ELSE appPc' = "reset" /\ UNCHANGED <<localVars, result>>
  /\ UNCHANGED <<callVars, stray, sharedVars, readVars, devVars>>

(* Nothing is on its way to lastResponse. *)
Quiet == /\ devIn = <<>> /\ line = <<>> /\ receivedBytes = <<>>
         /\ readPc \notin {"storeMessage", "storing", "signal"}

(* Fault: Windows does not reset the event either. *)
FaultNoReset ==
  /\ appPc = "reset"
  /\ stray' = (stray /\ ~(Quiet /\ newMsgEvent = 0))
  /\ left' = CmdLen
  /\ appPc' = "send"
  /\ UNCHANGED <<callVars, parseAs, result, sharedVars, readVars, devVars>>

(* sendCommand begins: Windows resets newMsgEvent, Linux does not.  The    *)
(* history variable forgets past failures once nothing is left of them.    *)
ResetEvent ==
  /\ appPc = "reset"
  /\ newMsgEvent' = IF Linux THEN newMsgEvent ELSE 0
  /\ stray' = (stray /\ ~(Quiet /\ newMsgEvent' = 0))
  /\ left' = CmdLen
  /\ appPc' = "send"
  /\ UNCHANGED <<callVars, parseAs, result, lastResponse, receptionStopped,
                 lastReceptionError, readEndEvent, readVars, devVars>>

(* commandToBuffer: "Data size too large". *)
RejectData ==
  /\ appPc = "send" /\ left = CmdLen /\ op \in DataOps
  /\ Fails("CDCSendException")
  /\ UNCHANGED <<callVars, stray, sharedVars, readVars, devVars>>

(* The whole command has reached the device.  After an abandoned head it   *)
(* is the tail of a line the device cannot make sense of.                  *)
DeviceGets == Append(devIn, [req |-> calls, op |-> op, garbled |-> halfCommand])

(* One pass of the write loop (Linux), or the one WriteFile (Windows). *)
WriteSome ==
  /\ appPc = "send" /\ left > 0 /\ ~hungUp
  /\ \E n \in 1 .. left : /\ Linux \/ n = left
                          /\ left' = left - n
  /\ IF left' = 0
       THEN devIn' = DeviceGets /\ halfCommand' = FALSE
       ELSE UNCHANGED <<devIn, halfCommand>>
  /\ UNCHANGED <<appPc, callVars, parseAs, result, stray, sharedVars,
                 readVars, line, asyncs, hungUp>>

(* Writing fails or takes longer than TM_SEND_MSG.  What was written stays *)
(* written; on Windows the pending WriteFile is not cancelled, and the     *)
(* command may still reach the device.                                     *)
WriteFail ==
  /\ appPc = "send" /\ left > 0
  /\ Fails("CDCSendException")
  /\ \/ /\ halfCommand' = (halfCommand \/ left < CmdLen)
        /\ UNCHANGED <<devIn, stray>>
     \/ /\ ~Linux /\ ~hungUp
        /\ devIn' = DeviceGets
        /\ halfCommand' = FALSE
        /\ stray' = TRUE
  /\ UNCHANGED <<callVars, sharedVars, readVars, line, asyncs, hungUp>>

(* Fault: the event is reset after the command is written. *)
FaultResetAfterWrite ==
  /\ appPc = "send" /\ left = 0
  /\ newMsgEvent' = 0
  /\ appPc' = "wait"
  /\ UNCHANGED <<callVars, localVars, result, stray, lastResponse,
                 receptionStopped, lastReceptionError, readEndEvent,
                 readVars, devVars>>

(* Nothing is left to write: processCommand goes on to wait. *)
SendDone ==
  /\ appPc = "send" /\ left = 0
  /\ appPc' = "wait"
  /\ UNCHANGED <<callVars, localVars, result, stray, sharedVars, readVars, devVars>>

(* Fault: the eventfd is not read, so its counter stays. *)
FaultEventStays ==
  /\ appPc = "wait" /\ newMsgEvent > 0
  /\ appPc' = "check"
  /\ UNCHANGED <<callVars, localVars, result, stray, sharedVars, readVars, devVars>>

(* waitForMyEvent returns: Linux reads the eventfd counter back to zero,   *)
(* Windows leaves the event set.                                           *)
Awake ==
  /\ appPc = "wait" /\ newMsgEvent > 0
  /\ newMsgEvent' = IF Linux THEN 0 ELSE newMsgEvent
  /\ appPc' = "check"
  /\ UNCHANGED <<callVars, localVars, result, stray, lastResponse,
                 receptionStopped, lastReceptionError, readEndEvent,
                 readVars, devVars>>

(* Fault: the wait has no time limit. *)
FaultNoTimeout == FALSE

(* TM_WAIT_RESP passes without the event. *)
Timeout ==
  /\ appPc = "wait" /\ newMsgEvent = 0
  /\ Fails("CDCReceiveException")
  /\ stray' = TRUE
  /\ UNCHANGED <<callVars, sharedVars, readVars, devVars>>

(* The wait itself fails (a signal interrupts select, WAIT_FAILED). *)
WaitError ==
  /\ appPc = "wait"
  /\ Fails("CDCReceiveException")
  /\ stray' = TRUE
  /\ UNCHANGED <<callVars, sharedVars, readVars, devVars>>

(* The types processCommand lets through: the command's own and, for a     *)
(* download, MSG_DOWNLOAD_DATA.                                            *)
Accepts(o, type) ==
  \/ type = CommandType[o]
  \/ o = "download" /\ type = "MSG_DOWNLOAD_DATA"

(* The check at the end of processCommand. *)
Check ==
  /\ appPc = "check"
  /\ LET r == lastResponse.parseResult IN
       \/ ~Accepts(op, r.type) /\ Answered("CDCReceiveException", r.req)
       \/ Accepts(op, r.type) /\ op \in SilentOps /\ Answered("ok", r.req)
       \/ /\ Accepts(op, r.type) /\ op \notin SilentOps
          /\ appPc' = IF op = "download" THEN "branch" ELSE "use"
          /\ parseAs' = CommandType[op]
          /\ UNCHANGED <<left, result>>
  /\ UNCHANGED <<callVars, stray, sharedVars, readVars, devVars>>

(* download reads the type a second time to choose the parser. *)
Branch ==
  /\ appPc = "branch"
  /\ parseAs' = IF lastResponse.parseResult.type = "MSG_DOWNLOAD_DATA"
                  THEN "MSG_DOWNLOAD_DATA" ELSE "MSG_UPLOAD_DOWNLOAD"
  /\ appPc' = "use"
  /\ UNCHANGED <<callVars, left, result, stray, sharedVars, readVars, devVars>>

(* What the parser of a type makes of the text of another one.  The bodies *)
(* may coincide ("OK"), and those that compare the body throw when it is   *)
(* none they know.  The device information ends at a '#' each, and without *)
(* one its size is npos - 3: more than can be allocated.  Any text may be  *)
(* too long for the caller's buffer.  The others find what they need in    *)
(* the shortest of texts.                                                  *)
Misparse(type) ==
  {"ok"} \cup
  CASE type \in {"MSG_DATA_SEND", "MSG_MODE_PROGRAM", "MSG_MODE_NORMAL",
                 "MSG_UPLOAD_DOWNLOAD"} -> {"CDCMessageParserException"}
    [] type = "MSG_USB_INFO"            -> {"bad_alloc"}
    [] type = "MSG_DOWNLOAD_DATA"       -> {"CDCReceiveException"}
    [] OTHER                            -> {}

(* getParsed...(lastResponse.message).  Download data may be too long for  *)
(* the caller's buffer.                                                    *)
Use ==
  /\ appPc = "use"
  /\ LET m == lastResponse.message IN
       IF readPc = "storing" THEN Fails("undefined")
       ELSE IF m.type # parseAs
         THEN \E kind \in Misparse(parseAs) : Answered(kind, m.req)
       ELSE \/ Answered("ok", m.req)
            \/ /\ parseAs = "MSG_DOWNLOAD_DATA"
               /\ Answered("CDCReceiveException", m.req)
  /\ UNCHANGED <<callVars, stray, sharedVars, readVars, devVars>>

(* The destructor tells the reading thread to end and joins it. *)
Destroy ==
  /\ appPc = "idle"
  /\ appPc' = "joining"
  /\ readEndEvent' = TRUE
  /\ UNCHANGED <<callVars, localVars, result, stray, newMsgEvent, lastResponse,
                 receptionStopped, lastReceptionError, readVars, devVars>>

(* Fault: the destructor does not join the thread. *)
FaultNoJoin ==
  /\ appPc = "joining"
  /\ appPc' = "gone"
  /\ UNCHANGED <<callVars, localVars, result, stray, sharedVars, readVars, devVars>>

(* The events, the parser and the port are gone afterwards. *)
Join ==
  /\ appPc = "joining" /\ readPc = "exited"
  /\ appPc' = "gone"
  /\ UNCHANGED <<callVars, localVars, result, stray, sharedVars, readVars, devVars>>

-----------------------------------------------------------------------------
(* The reading thread.                                                     *)

(* The wait on the port and readEndEvent, and the read.  A read takes any  *)
(* part of what has arrived, on Windows one message at a time.  At a       *)
(* hang-up Linux reads zero bytes.  Windows looks at readEndEvent only     *)
(* when no data wait.                                                      *)
ReaderSelect ==
  /\ readPc = "select"
  /\ \E k \in 0 .. Len(line) :
       /\ k > 0 \/ readEndEvent \/ (Linux /\ hungUp)
       /\ Linux \/ k <= 1
       /\ receivedBytes' = receivedBytes \o SubSeq(line, 1, k)
       /\ line' = SubSeq(line, k + 1, Len(line))
       /\ endSeen' = (readEndEvent /\ (Linux \/ k = 0))
  /\ readPc' = "process"
  /\ UNCHANGED <<appVars, sharedVars, devIn, halfCommand, asyncs, hungUp>>

(* Fault: the end of the round forgets readEndEvent. *)
FaultEndForgotten ==
  /\ readPc = "process" /\ receivedBytes = <<>>
  /\ readPc' = "select"
  /\ UNCHANGED <<appVars, sharedVars, receivedBytes, endSeen, devVars>>

(* processAllMessages has emptied the buffer. *)
ReaderNextRound ==
  /\ readPc = "process" /\ receivedBytes = <<>>
  /\ readPc' = IF endSeen THEN "exited" ELSE "select"
  /\ UNCHANGED <<appVars, sharedVars, receivedBytes, endSeen, devVars>>

(* PARSE_BAD_FORMAT: the message is thrown away. *)
ReaderBadFormat ==
  /\ readPc = "process" /\ receivedBytes # <<>>
  /\ Head(receivedBytes).type = "BAD"
  /\ receivedBytes' = Tail(receivedBytes)
  /\ lastReceptionError' = "format"
  /\ UNCHANGED <<appVars, newMsgEvent, lastResponse, receptionStopped,
                 readEndEvent, readPc, endSeen, devVars>>

(* An asynchronous message goes to the listener and nowhere else. *)
ReaderAsync ==
  /\ readPc = "process" /\ receivedBytes # <<>>
  /\ Head(receivedBytes).type = "MSG_ASYNC"
  /\ receivedBytes' = Tail(receivedBytes)
  /\ UNCHANGED <<appVars, sharedVars, readPc, endSeen, devVars>>

(* Fault: asynchronous messages are stored as responses. *)
FaultAsyncStored ==
  /\ readPc = "process" /\ receivedBytes # <<>>
  /\ Head(receivedBytes).type # "BAD"
  /\ receivedBytes' = Tail(receivedBytes)
  /\ lastResponse' = [lastResponse EXCEPT !.parseResult = Head(receivedBytes)]
  /\ readPc' = "storeMessage"
  /\ UNCHANGED <<appVars, newMsgEvent, receptionStopped, lastReceptionError,
                 readEndEvent, endSeen, devVars>>

(* Fault: the newest message of the buffer is taken first. *)
FaultNewestFirst ==
  LET last == Len(receivedBytes) IN
  /\ readPc = "process" /\ receivedBytes # <<>>
  /\ receivedBytes[last].type \in ResponseType
  /\ receivedBytes' = SubSeq(receivedBytes, 1, last - 1)
  /\ lastResponse' = [lastResponse EXCEPT !.parseResult = receivedBytes[last]]
  /\ readPc' = "storeMessage"
  /\ UNCHANGED <<appVars, newMsgEvent, receptionStopped, lastReceptionError,
                 readEndEvent, endSeen, devVars>>

(* A response: its parse result is stored, *)
ReaderStoreResult ==
  /\ readPc = "process" /\ receivedBytes # <<>>
  /\ Head(receivedBytes).type \in ResponseType
  /\ receivedBytes' = Tail(receivedBytes)
  /\ lastResponse' = [lastResponse EXCEPT !.parseResult = Head(receivedBytes)]
  /\ readPc' = "storeMessage"
  /\ UNCHANGED <<appVars, newMsgEvent, receptionStopped, lastReceptionError,
                 readEndEvent, endSeen, devVars>>

(* then its text, which takes time, *)
ReaderStoreBegin ==
  /\ readPc = "storeMessage"
  /\ readPc' = "storing"
  /\ UNCHANGED <<appVars, sharedVars, receivedBytes, endSeen, devVars>>

ReaderStoreEnd ==
  /\ readPc = "storing"
  /\ lastResponse' = [lastResponse EXCEPT !.message = lastResponse.parseResult]
  /\ readPc' = "signal"
  /\ UNCHANGED <<appVars, newMsgEvent, receptionStopped, lastReceptionError,
                 readEndEvent, receivedBytes, endSeen, devVars>>

(* and the application is told. *)
ReaderSignal ==
  /\ readPc = "signal"
  /\ newMsgEvent' = IF Linux THEN newMsgEvent + 1 ELSE 1
  /\ readPc' = "process"
  /\ UNCHANGED <<appVars, lastResponse, receptionStopped, lastReceptionError,
                 readEndEvent, receivedBytes, endSeen, devVars>>

(* Waiting or reading fails. *)
ReaderFail ==
  /\ readPc = "select"
  /\ readPc' = "failed"
  /\ UNCHANGED <<appVars, sharedVars, receivedBytes, endSeen, devVars>>

(* Fault: an unplugged device is taken for a silent one. *)
FaultHangUpUnseen == FALSE

(* On Windows reading from an unplugged device fails. *)
ReaderHangUp == ~Linux /\ hungUp /\ line = <<>> /\ ReaderFail

(* Fault: the flag is set before the error is recorded. *)
FaultFlagFirst ==
  /\ readPc = "failed"
  /\ receptionStopped' = TRUE
  /\ readPc' = "stopping"
  /\ UNCHANGED <<appVars, newMsgEvent, lastResponse, lastReceptionError,
                 readEndEvent, receivedBytes, endSeen, devVars>>

(* The handler of CDCReceiveException: first the error, then the flag. *)
ReaderRecordError ==
  /\ readPc = "failed"
  /\ lastReceptionError' = "fatal"
  /\ readPc' = "stopping"
  /\ UNCHANGED <<appVars, newMsgEvent, lastResponse, receptionStopped,
                 readEndEvent, receivedBytes, endSeen, devVars>>

ReaderSetStopped ==
  /\ readPc = "stopping"
  /\ receptionStopped' = TRUE
  /\ readPc' = "exited"
  /\ UNCHANGED <<appVars, newMsgEvent, lastResponse, lastReceptionError,
                 readEndEvent, receivedBytes, endSeen, devVars>>

-----------------------------------------------------------------------------
(* The device (external).                                                  *)

(* The types a device answers a command with: an error message is always   *)
(* possible, and "BAD" stands for bytes spoilt on the way.                 *)
Answers(cmd) ==
  {"MSG_ERROR", "BAD"} \cup
  IF cmd.garbled THEN {}
  ELSE {CommandType[cmd.op]} \cup
       IF cmd.op = "download" THEN {"MSG_DOWNLOAD_DATA"} ELSE {}

DeviceAnswer ==
  /\ ~hungUp /\ devIn # <<>>
  /\ \E type \in Answers(Head(devIn)) :
       line' = Append(line, [type |-> type, req |-> Head(devIn).req])
  /\ devIn' = Tail(devIn)
  /\ UNCHANGED <<appVars, sharedVars, readVars, halfCommand, asyncs, hungUp>>

(* A command is lost, or never answered. *)
DeviceDrop ==
  /\ devIn # <<>>
  /\ devIn' = Tail(devIn)
  /\ UNCHANGED <<appVars, sharedVars, readVars, halfCommand, line, asyncs, hungUp>>

DeviceAsync ==
  /\ ~hungUp /\ asyncs < MaxAsync
  /\ asyncs' = asyncs + 1
  /\ line' = Append(line, Async)
  /\ UNCHANGED <<appVars, sharedVars, readVars, devIn, halfCommand, hungUp>>

HangUp ==
  /\ CanHangUp /\ ~hungUp
  /\ hungUp' = TRUE
  /\ UNCHANGED <<appVars, sharedVars, readVars, devIn, halfCommand, line, asyncs>>

-----------------------------------------------------------------------------
(* What the application thread does of itself once a call, or the          *)
(* destructor, has begun (a wait that fails is not something it does).     *)
AppStep ==
  \/ RejectTarget \/ CheckStopped \/ ResetEvent \/ RejectData
  \/ WriteSome \/ WriteFail \/ SendDone
  \/ Awake \/ Timeout \/ Check \/ Branch \/ Use
  \/ Join

(* What the reading thread does of itself while its system calls succeed.  *)
ReaderStep ==
  \/ ReaderSelect \/ ReaderNextRound \/ ReaderBadFormat \/ ReaderAsync
  \/ ReaderStoreResult \/ ReaderStoreBegin \/ ReaderStoreEnd \/ ReaderSignal
  \/ ReaderHangUp \/ ReaderRecordError \/ ReaderSetStopped

Device == DeviceAnswer \/ DeviceDrop \/ DeviceAsync \/ HangUp

(* The object is destroyed: the end of the history. *)
Gone == appPc = "gone" /\ UNCHANGED vars

Next == \/ Call \/ Destroy \/ AppStep \/ WaitError
        \/ ReaderStep \/ ReaderFail
        \/ Device \/ Gone

Spec == Init /\ [][Next]_vars

(* Both threads are scheduled; nothing is assumed of the device, nor that  *)
(* the application ever calls anything.                                    *)
Fairness == WF_vars(AppStep) /\ WF_vars(ReaderStep)

FairSpec == Spec /\ Fairness

-----------------------------------------------------------------------------
(* Type invariant: what the variables of each side may hold; in particular *)
(* only responses reach lastResponse, and the Windows event is two-valued. *)
AppTypeOK ==
  /\ appPc \in {"idle", "begin", "reset", "send", "wait", "check", "branch",
                "use", "joining", "gone"}
  /\ op \in Ops /\ calls \in 0 .. MaxCalls /\ stoppedAtCall \in BOOLEAN
  /\ left \in 0 .. CmdLen /\ parseAs \in ResponseType \cup {"none"}
  /\ result \in [id : Nat, kind : Outcome, req : Nat, stray : BOOLEAN]
  /\ stray \in BOOLEAN

SharedTypeOK ==
  /\ newMsgEvent \in IF Linux THEN Nat ELSE {0, 1}
  /\ lastResponse \in [parseResult : Response, message : Response]
  /\ receptionStopped \in BOOLEAN
  /\ lastReceptionError \in {"none", "format", "fatal"}
  /\ readEndEvent \in BOOLEAN

ReaderTypeOK ==
  /\ readPc \in {"select", "process", "storeMessage", "storing", "signal",
                 "failed", "stopping", "exited"}
  /\ receivedBytes \in Seq(Message)
  /\ endSeen \in BOOLEAN

DeviceTypeOK ==
  /\ devIn \in Seq(Command) /\ halfCommand \in BOOLEAN
  /\ line \in Seq(Message)
  /\ asyncs \in 0 .. MaxAsync /\ hungUp \in BOOLEAN

TypeOK == AppTypeOK /\ SharedTypeOK /\ ReaderTypeOK /\ DeviceTypeOK

(* While no earlier call was abandoned with its answer still to come, a    *)
(* call that returns a value returns the answer to its own command, and no *)
(* call reads lastResponse.message while it is assigned or as a message of *)
(* another type.  The two threads share lastResponse without a lock and    *)
(* nothing but newMsgEvent (processCommand, processMessage) keeps this.    *)
InSync ==
  ~result.stray =>
    /\ result.kind = "ok" => result.req = result.id
    /\ result.kind \notin {"undefined", "CDCMessageParserException", "bad_alloc"}

(* Whatever was lost, late or abandoned: no call returns a value taken     *)
(* from the answer to an older command than an earlier call returned (the  *)
(* port, the buffer and lastResponse keep the order of the responses).     *)
AnswersNeverGoBack == [][result'.req >= result.req]_result

(* An answer to the current command is never missed: once it is stored,    *)
(* the waiting application finds the event set, or the reading thread is   *)
(* about to set it.  sendCommand may therefore reset the event only before *)
(* the command is written.                                                 *)
NoLostWakeup ==
  appPc = "wait" /\ lastResponse.message.req = calls
    => newMsgEvent > 0 \/ readPc = "signal"

(* Whoever sees isReceptionStopped finds the fatal error, never an earlier *)
(* format error or none, in getLastReceptionError.                         *)
StopExplained == receptionStopped => lastReceptionError = "fatal"

(* The destructor frees the events, the parser and lastResponse only after *)
(* the reading thread's last step.                                         *)
DestroyedAlone == [][appPc = "gone" => UNCHANGED <<readVars, sharedVars>>]_vars

(* Every call returns, however the device behaves. *)
CallReturns == (appPc = "begin") ~> (appPc = "idle")

(* The destructor returns. *)
DestroyReturns == (appPc = "joining") ~> (appPc = "gone")

(* "If some serious error occurs during reading from COM-port, the reading *)
(* thread is automatically stopped" (CDCImpl.h): unplugging the device is  *)
(* one.                                                                    *)
HangUpStops == hungUp ~> (receptionStopped \/ appPc \in {"joining", "gone"})

(* The object keeps the promises of CDCService: how its calls end, whose   *)
(* answers they are given, what is refused once reception has stopped, and *)
(* that nothing changes once it is closed.                                 *)
Phase == CASE appPc = "idle" -> "idle" [] appPc = "joining" -> "closing"
           [] appPc = "gone" -> "closed" [] OTHER -> "busy"

Service == INSTANCE CDCService WITH
             phase <- Phase, call <- calls, stopped <- receptionStopped,
             stoppedBefore <- stoppedAtCall, abandoned <- stray,
             last <- [kind |-> result.kind, answers |-> result.req]

ServiceSpec == Service!Spec

(* "Sends command, waits for response a checks the response"               *)
(* (processCommand): what a call returns answers that call's command.      *)
OwnResponse == result.kind = "ok" => result.req = result.id

(* "@throw CDCSendException ... @throw CDCReceiveException" (CdcInterface  *)
(* and CDCImpl): a call throws nothing else.                               *)
DocumentedExceptions == result.kind \notin {"CDCMessageParserException", "bad_alloc"}
=============================================================================
