------------------------------ MODULE CDCParser ------------------------------
(***************************************************************************)
(* CDCMessageParserPrivate: the automaton that finds one message at the    *)
(* head of a buffer.  A byte is a number, a buffer a sequence of bytes,    *)
(* and positions count from 0 as in the code.                              *)
(***************************************************************************)
EXTENDS Naturals, Sequences, FiniteSets, FiniteSetsExt, Functions

CONSTANT OverRead   \* what initStatesInfoMap reads behind resUploadDownload

(* insertStatesInfo is told 17 elements of an array of 14 (line 286).      *)
ASSUME OverReadAssumption == /\ OverRead \subseteq Nat
                             /\ IsFiniteSet(OverRead) /\ Cardinality(OverRead) <= 3

-----------------------------------------------------------------------------
(* Bytes.                                                                  *)

CR    == 13
HASH  == 35
DOT   == 46
COLON == 58
LT    == 60
GT    == 62

ch == [B |-> 66, D |-> 68, E |-> 69, I |-> 73, K |-> 75, M |-> 77, O |-> 79,
       P |-> 80, R |-> 82, S |-> 83, T |-> 84, U |-> 85, Y |-> 89]

Digits == 48..57

Ok      == <<ch.O, ch.K, CR>>
Err     == <<ch.E, ch.R, ch.R>>
Err1    == Err \o <<49, CR>>
Busy    == <<ch.B, ch.U, ch.S, ch.Y, CR>>

At(data, i) == data[i + 1]

-----------------------------------------------------------------------------
(* The automaton.                                                          *)

INITIAL_STATE == 0
NO_TRANSITION == 65535
INPUT_ALL     == 1000

(* The transitions that follow states with the inputs in turn. *)
Path(states, inputs) ==
  {<<states[i], inputs[i], states[i + 1]>> : i \in DOMAIN inputs}

Transitions == UNION {
  Path(<<0, 1>>, <<LT>>),
  Path(<<1, 2, 3, 4, 5>>, Err \o <<CR>>),
  Path(<<1, 6, 7, 8>>, Ok),
  Path(<<1, 9, 10, 101, 102, 103>>, <<ch.R, COLON>> \o Ok),
  Path(<<9, 11, 12, 13, 14, 15>>, <<ch.T, COLON>> \o Ok),
  Path(<<1, 16, 17>>, <<ch.I, COLON>>),                 Path(<<18, 19>>, <<CR>>),
  Path(<<16, 20, 21>>, <<ch.T, COLON>>),                Path(<<22, 23>>, <<CR>>),
  Path(<<1, 24, 25, 26, 27, 28>>, <<ch.B, COLON>> \o Ok),
  Path(<<1, 29, 30, 31, 32>>, <<ch.S, COLON, INPUT_ALL, CR>>),
  Path(<<1, 33, 34, 35, 36, 37, 38>>, <<ch.D, ch.S, COLON>> \o Ok),
  Path(<<35, 39, 40, 41, 42>>, Err \o <<CR>>),
  Path(<<35, 43, 44, 45, 46, 47>>, Busy),
  Path(<<33, 48, 49, 50>>, <<ch.R, INPUT_ALL, COLON>>), Path(<<51, 52>>, <<CR>>),
  Path(<<1, 53, 54, 55, 56, 57>>, <<ch.U, COLON>> \o Ok),
  Path(<<1, 58, 59, 60, 61, 62, 63>>, <<ch.P, ch.E, COLON>> \o Ok),
  Path(<<60, 64, 65, 66, 67, 68>>, Err1),
  Path(<<58, 69, 70, 71, 72, 73>>, <<ch.T, COLON>> \o Ok),
  Path(<<70, 74, 75, 76, 77, 78>>, Err1),
  Path(<<58, 79, 95>>, <<ch.M, COLON>>),
  Path(<<80, 81, 82, 83>>, Ok),
  Path(<<80, 84, 85, 86>>, Err), {<<86, d, 87>> : d \in 50..55}, Path(<<87, 88>>, <<CR>>),
  Path(<<80, 89, 90, 91, 92, 93>>, Busy),
  Path(<<96, 97>>, <<CR>>) }

transitionMap ==
  [from \in {<<t[1], t[2]>> : t \in Transitions} |->
     CHOOSE s \in 0..103 : <<from[1], from[2], s>> \in Transitions]

Successor(map, state, input) ==
  CASE <<state, input>> \in DOMAIN map     -> map[<<state, input>>]
    [] <<state, input>> \notin DOMAIN map
         /\ <<state, INPUT_ALL>> \in DOMAIN map -> map[<<state, INPUT_ALL>>]
    [] OTHER                               -> NO_TRANSITION

doTransition(state, input) == Successor(transitionMap, state, input)

finiteStates == {5, 8, 15, 19, 23, 28, 32, 38, 42, 47, 52, 57, 103, 63, 68,
                 73, 78, 83, 88, 93, 97}

specialStates == {17, 21, 50, 95}

(* The message type of a finite state; that of the others is never read.   *)
(* The states of insertStatesInfo's first call that names them win, so the *)
(* numbers read behind resUploadDownload can only retype state 97.         *)
statesInfoMap ==
  [s \in finiteStates |->
     CASE s = 5               -> "MSG_ERROR"
       [] s = 8               -> "MSG_TEST"
       [] s = 103             -> "MSG_RES_USB"
       [] s = 15              -> "MSG_RES_TR"
       [] s = 19              -> "MSG_USB_INFO"
       [] s = 23              -> "MSG_TR_INFO"
       [] s = 28              -> "MSG_USB_CONN"
       [] s = 32              -> "MSG_SPI_STAT"
       [] s \in {38, 42, 47}  -> "MSG_DATA_SEND"
       [] s = 52              -> "MSG_ASYNC"
       [] s = 57              -> "MSG_SWITCH"
       [] s \in {73, 78}      -> "MSG_MODE_NORMAL"
       [] s \in {63, 68}      -> "MSG_MODE_PROGRAM"
       [] s \in {83, 88, 93}  -> "MSG_UPLOAD_DOWNLOAD"
       [] s = 97 -> IF 97 \in OverRead THEN "MSG_UPLOAD_DOWNLOAD"
                                       ELSE "MSG_DOWNLOAD_DATA"]

-----------------------------------------------------------------------------
(* The states with a procedure of their own.  Each returns the state and   *)
(* the last position it has read, or a format error.                       *)

StateProcResult(newState, lastPosition) ==
  [newState |-> newState, lastPosition |-> lastPosition, formatError |-> FALSE]

checkUSBDeviceVersion(byte) == byte \in Digits \cup {DOT}
checkUSBDeviceId(byte)      == byte \in Digits \cup 65..72

(* The sections type#version#id: 0, 1 or 2 by the number of # before i. *)
Section(data, pos, i) ==
  Min({2, Cardinality({j \in pos..(i - 1) : At(data, j) = HASH})})

USBInfoError(data, pos, i) ==
  LET byte == At(data, i)  section == Section(data, pos, i) IN
    \/ section = 1 /\ byte # HASH /\ ~checkUSBDeviceVersion(byte)
    \/ section = 2 /\ byte # CR /\ ~checkUSBDeviceId(byte)

USBInfoEnd(data, pos, i) == Section(data, pos, i) = 2 /\ At(data, i) = CR

(* The loop stops at the first of stops, or at the end of the buffer. *)
USBInfoResult(data, pos, stops) ==
  IF stops = {} THEN StateProcResult(18, Len(data) - 1)
  ELSE [newState     |-> IF USBInfoEnd(data, pos, Min(stops)) THEN 19 ELSE 18,
        lastPosition |-> Min(stops),
        formatError  |-> USBInfoError(data, pos, Min(stops))]

processUSBInfo(data, pos) ==
  IF pos = Len(data) - 1 THEN StateProcResult(17, pos)
  ELSE USBInfoResult(data, pos, {i \in pos..(Len(data) - 1) :
                                   USBInfoError(data, pos, i) \/ USBInfoEnd(data, pos, i)})

STANDARD_IDF_SIZE == 21
EXTENDED_IDF_SIZE == 37

(* Plausible slips, each in place of the definition it precedes: the byte   *)
(* is given back while the state stays; the whole buffer is the message.   *)
FaultTRByteGivenBack(data, pos) == StateProcResult(21, pos - 1)

FaultTRToEnd(data, pos) ==
  IF Len(data) < STANDARD_IDF_SIZE THEN StateProcResult(21, pos)
                                   ELSE StateProcResult(22, Len(data) - 2)

processTRInfo(data, pos) ==
  LET size    == Len(data)
      tooFew  == /\ size <= EXTENDED_IDF_SIZE
                 /\ size # EXTENDED_IDF_SIZE
                 /\ size = STANDARD_IDF_SIZE => At(data, STANDARD_IDF_SIZE - 1) # CR
  IN  CASE pos = size - 1 \/ tooFew -> StateProcResult(21, pos)
        [] OTHER -> StateProcResult(22, IF size - 1 > pos + 32 THEN pos - 1 + 32
                                                               ELSE size - 2)

(* The length counts one byte too many, or is not looked at. *)
FaultAsynLength(data, pos) == StateProcResult(51, pos + At(data, pos - 2))

FaultAsynToEnd(data, pos) ==
  IF pos = Len(data) - 1 THEN StateProcResult(50, pos) ELSE StateProcResult(51, Len(data) - 2)

processAsynData(data, pos) ==
  LET dataLength == At(data, pos - 2) IN
    CASE pos = Len(data) - 1 -> StateProcResult(50, pos)
      [] OTHER -> StateProcResult(51, IF pos + dataLength >= Len(data)
                                      THEN Len(data) - 1 ELSE pos - 1 + dataLength)

(* Whether this is a response to an upload or downloaded data is guessed   *)
(* from the number of bytes in the whole buffer.                           *)
processPMRespData(data, pos) ==
  CASE pos = Len(data) - 1                        -> StateProcResult(95, pos)
    [] pos # Len(data) - 1 /\ Len(data) \in {7, 9} -> StateProcResult(80, pos - 1)
    [] OTHER                                      -> StateProcResult(96, Len(data) - 2)

processSpecialState(state, data, pos) ==
  CASE state = 17 -> processUSBInfo(data, pos)
    [] state = 21 -> processTRInfo(data, pos)
    [] state = 50 -> processAsynData(data, pos)
    [] state = 95 -> processPMRespData(data, pos)

-----------------------------------------------------------------------------
(* The loop of parseData.  A configuration is its local state and the      *)
(* ParseResult it has so far; the loop goes on while the result is         *)
(* PARSE_NOT_COMPLETE and there are bytes left.                            *)

Start == [state |-> INITIAL_STATE, pos |-> 0,
          resultType |-> "PARSE_NOT_COMPLETE", msgType |-> "MSG_ERROR", lastPosition |-> 0]

Looping(data, c) == c.pos < Len(data) /\ c.resultType = "PARSE_NOT_COMPLETE"

BadFormat(c, last) ==
  [c EXCEPT !.resultType = "PARSE_BAD_FORMAT", !.lastPosition = last]

Enter(c, state, last) ==
  IF state \in finiteStates
  THEN [c EXCEPT !.state = state, !.lastPosition = last,
                 !.resultType = "PARSE_OK", !.msgType = statesInfoMap[state]]
  ELSE [c EXCEPT !.state = state, !.lastPosition = last, !.pos = last + 1]

Proceed(c, r) ==
  IF r.formatError THEN BadFormat(c, r.lastPosition) ELSE Enter(c, r.newState, r.lastPosition)

SpecialStep(data, c) == Proceed(c, processSpecialState(c.state, data, c.pos))

Move(c, next) ==
  IF next = NO_TRANSITION THEN BadFormat(c, c.pos) ELSE Enter(c, next, c.pos)

TransitionStep(data, c) == Move(c, doTransition(c.state, At(data, c.pos)))

Step(data, c) ==
  CASE ~Looping(data, c)                                   -> c
    [] Looping(data, c) /\ c.state \in specialStates       -> SpecialStep(data, c)
    [] Looping(data, c) /\ c.state \notin specialStates    -> TransitionStep(data, c)

(* The configuration after n iterations.  Every iteration but one (the     *)
(* special state's) moves pos on, so Len(data) + 1 of them end the loop.   *)
Iterations(data) ==
  LET loop[n \in Nat] == IF n = 0 THEN Start ELSE Step(data, loop[n - 1])
  IN  loop

parseData(data) == Iterations(data)[Len(data) + 1]

-----------------------------------------------------------------------------
(* Reading an accepted message.  The text of a response is what is between *)
(* its header and the closing CR.                                          *)

EXCEPTION == "CDCMessageParserException"

Body(data, from) == SubSeq(data, from + 1, Len(data) - 1)

getParsedDRData(data) == Body(data, 5)

getParsedPMData(data) == Body(data, 4)

getParsedDSResponse(data) ==
  CASE Body(data, 4) \o <<CR>> = Ok   -> "OK"
    [] Body(data, 4) = Err            -> "ERR"
    [] Body(data, 4) \o <<CR>> = Busy -> "BUSY"
    [] OTHER                          -> EXCEPTION

(* getParsedPEResponse and getParsedPTResponse are the same code. *)
getParsedPTEResponse(data) ==
  CASE Body(data, 4) \o <<CR>> = Ok   -> "OK"
    [] Body(data, 4) \o <<CR>> = Err1 -> "ERR1"
    [] OTHER                          -> EXCEPTION

PMErrors == [d \in 50..55 |-> CASE d = 50 -> "ERR2" [] d = 51 -> "ERR3" [] d = 52 -> "ERR4"
                                [] d = 53 -> "ERR5" [] d = 54 -> "ERR6" [] d = 55 -> "ERR7"]

getParsedPMResponse(data) ==
  CASE Body(data, 4) \o <<CR>> = Ok   -> "OK"
    [] Body(data, 4) \o <<CR>> = Busy -> "BUSY"
    [] \E d \in DOMAIN PMErrors : Body(data, 4) = Append(Err, d)
                                     -> PMErrors[data[Len(data) - 1]]
    [] OTHER                          -> EXCEPTION

spiModes == {0, 7, 63, 62, 128, 129, 130, 131, 255}

getParsedSPIStatus(data) ==
  [isDataReady |-> At(data, 3) \notin spiModes, value |-> At(data, 3)]

(* The identification, with the bonding key of the extended form, or NULL. *)
NULL == [identification |-> <<>>, ibk |-> <<>>]

getParsedModuleInfo(data) ==
  IF Len(data) \notin {STANDARD_IDF_SIZE, EXTENDED_IDF_SIZE} THEN NULL
  ELSE [identification |-> SubSeq(data, 5, 20),
        ibk |-> IF Len(data) = EXTENDED_IDF_SIZE THEN SubSeq(data, 21, 36)
                                                 ELSE [i \in 1..16 |-> 0]]

getParsedDeviceInfo(data) ==
  LET next(byte, from) == Min({i \in from..(Len(data) - 1) : At(data, i) = byte})
      hash1 == next(HASH, 3)
      hash2 == next(HASH, hash1 + 1)
      end   == next(CR, hash2 + 1)
  IN  [type            |-> SubSeq(data, 4, hash1),
       firmwareVersion |-> SubSeq(data, hash1 + 2, hash2),
       serialNumber    |-> SubSeq(data, hash2 + 2, end)]
=============================================================================
