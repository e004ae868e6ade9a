# clibcdc: specifications of the CDC communication library

`clibcdc` talks to an IQRF USB device in CDC mode over a COM port. An application
calls the public operations of `CDCImpl`; each one writes a command, waits for the
response that a reading thread takes from the port, and interprets it. This directory
holds TLA+ modules that model the library, the TLC configurations that check them, and
proofs of the properties of its core that matter most.

## 1. Inventory

| part | state it keeps | operations | talks to |
|---|---|---|---|
| **Public interface, command/response cycle** (`CDCImpl.cpp`, `sendCommand` and `waitForMyEvent` in `CDCImpl_Lin.cpp`, `CDCImpl_Win.cpp`) | the command being written; `newMsgEvent`, `lastResponse`, `receptionStopped`, `lastReceptionError` | thirteen operations (`test` ... `download`), `processCommand`, `isReceptionStopped`, `getLastReceptionError` | writes the port; waits for the reading thread |
| **Reading thread** (`readMsgThread` per platform, `processAllMessages`, `parseNextMessage`, `processMessage`) | `receivedBytes`; the event that ends it | read, cut, dispatch, stop on an error | reads the port; stores `lastResponse`, sets `newMsgEvent`, calls the listener |
| **Message parser** (`CDCMessageParser.cpp`) | constant tables; the last result | `parseData`, nine getters | called by both threads under one lock |
| **Asynchronous listener** (`setAsyncListener`, `processMessage`) | the registered function, under `csAsyncListener` | register, unregister, call | called from the reading thread with the lock held |
| **Construction and destruction** (`init`, `~CDCImplPrivate`) | the port, four events, the thread | open, start and wait for the thread; signal, join, free | the reading thread |
| **Port configuration** (`openPort`, `closePort`, `selectEvents`) | none | calls of the operating system | - |
| **Java stub** (`cdc_javastub`) | `jvm`, one global reference `jCDC`, the cache of classes | the same operations from Java, `stubListener` | the public interface; the Java virtual machine |
| **PgmHex** (`examples/PgmHex`) | `PrepareMemBlock`: the image of a memory block and what it waits for; the line buffer | read a line, put it in the image, upload the image in packets, enter and leave the programming mode | the public interface; a file |
| **Other examples** (`examples/`) | none shared | programs that upload, download and print | the public interface |

The platforms differ where it matters:

* Linux's `newMsgEvent` is an eventfd that counts and is read back to zero by the wait;
  `resetMyEvent` does nothing. Windows uses a manual-reset event that is reset before
  each command and never by the wait.
* Linux writes a command in as many pieces as the port takes, Windows with one
  overlapped write that is not cancelled when its wait times out.
* Linux reads whatever has arrived (up to 1024 bytes) and looks for a CR anywhere in its
  buffer; Windows reads byte by byte and looks at the byte it has read.
* An unplugged device makes reading fail on Windows; on Linux it reads zero bytes.

### What is hard

1. **Answers have no identity.** A response is matched with a command by its type only.
   A late answer, a timeout and a retry are enough to put the two out of step.
2. **`lastResponse` has no lock.** The reading thread assigns its two parts; the
   application reads the first twice and the second once.
3. **The event carries all the synchronisation**: reset, written, set, waited for.
4. **Errors race with calls**: the flag and the text of a stop are set by one thread and
   read by the other, a call may pass its check just before the stop.
5. **The stream has no frames.** A message ends at CR, but data may contain CR; two special
   states decide by the number of bytes in the whole buffer.
6. **Stopping**: the destructor must get the thread out of a wait, or out of a round.
7. **Callbacks under a lock**: a listener that registers, destroys or throws.
8. **Constructor failures**: no destructor runs, and after the thread has started its
   `std::thread` is joinable.
9. **Globals of the Java stub** shared by all objects, and used from their reading threads.
10. **An image that is uploaded late**: PgmHex keeps lines, overflows and blocks from one call
   of `iqrfPgmPrepareMemBlock` to the next.

`PROJECT.json` lists each of these at its line under `hazards`.

### What would make each part correct

* Cycle: while no call was abandoned, a call returns its own answer; a stored answer is
  always signalled; no call hangs; nothing older is returned after something newer; a stop
  is seen by later calls and is explained; the destructor returns and is alone afterwards.
* Framing: every message is delivered once, whole, in order, however reads cut the stream;
  damage to one message costs a bounded number of others.
* Parser: accepts exactly the messages of the protocol, never refuses the head of one, and
  does not change its mind when more bytes arrive.
* Listener: is called for every asynchronous message while registered, never after
  `unregister` has returned.
* Construction: either a usable object, or an exception and nothing left running; the
  destructor returns, after the thread, and leaves no handle open (on Windows it does: the
  event of every command that failed, section 4).
* Java stub: a message reaches the listener of the object that received it; a failure is
  never taken for a value; a destroyed object is quiet.
* PgmHex: what it says it has programmed is in the device, at its place; it gives up only
  for a reason; the session ends whatever fails.

## 2. Modules

```
CDCService  <== implemented by == CDCCommand  <-- CDCCommandProofs
   (one call at a time)                 :
                                        : a reader of whole messages
                                        :
CDCChannel  <== implemented by == CDCFraming <-- MCFraming
   (messages in order)                  |    <-- CDCFramingProofs
                                        |
          CDCParser <------------- CDCGrammar <------- CDCParserBytes <-- MCParser
              ^                         ^                     ^
       CDCParserProofs <------- CDCGrammarProofs <--- CDCParserBytesProofs

CDCLifecycle <-- CDCLifecycleProofs     constructor, listener, destructor
CDCJavaStub <-- CDCJavaStubProofs       the stub over several CDCImpl objects
PgmHex <-- PgmHexProofs                 a program over one CDCImpl object
       <-- MCPgmHex
```

### CDCCommand - the cycle

One action per step that another thread can see. The application's position in a call is
`appPc`, the reading thread's `readPc`.

| code | model |
|---|---|
| a public operation is called; its command type | `Call`, `CommandType` |
| `verifyUpload`/`verifyDownload`; "Data size too large" | `RejectTarget`, `RejectData` |
| `processCommand`: stopped?; reset; write; wait; check | `CheckStopped`, `ResetEvent`, `WriteSome`/`WriteFail`/`SendDone`, `Awake`/`Timeout`/`WaitError`, `Check` |
| `download`: second look at the type | `Branch` |
| `getParsed...(lastResponse.message)` | `Use` (with `Misparse` when the text is of another type) |
| destructor | `Destroy`, `Join` |
| `readMsgThread` round | `ReaderSelect`, `ReaderNextRound` |
| `processAllMessages` on bad format; `processMessage` | `ReaderBadFormat`, `ReaderAsync`, `ReaderStoreResult`, `ReaderStoreBegin`/`ReaderStoreEnd`, `ReaderSignal` |
| the handler of `CDCReceiveException` | `ReaderRecordError`, `ReaderSetStopped` |
| device (external) | `DeviceAnswer`, `DeviceDrop`, `DeviceAsync`, `HangUp` |

A message is its type and the number of the call it answers. That number is not in the
code: it is there so that properties can speak of whose answer was returned, and no guard
of the library reads it. `result`, `stoppedAtCall` and `stray` are history variables;
`stray` is set when a call is abandoned with its answer possibly still to come, and
cleared when a later command is sent and nothing of the old is left anywhere.
The text of `lastResponse` is a string that takes time to assign; a read during the
assignment is undefined behaviour and gives the outcome `"undefined"`. A text of another type than
the one checked is a value to some parsers and none they know to others (`Misparse`); to
`getParsedDeviceInfo`, which does not find its `#`, it is a size near 2^64 and the exception of an
allocation (`"bad_alloc"`). `result.req` is the
call whose answer was *returned* last: a response that is refused (bad type, data longer than
the buffer) is not returned and leaves it alone.

### CDCService - what an object promises

The abstract specification of `CDCCommand`: calls one at a time, with a documented exception or a
value; the value answers that call unless an answer of an abandoned call may still come, and
never an older call than the value before; after a stop calls are refused. It has no threads,
events or device. `Service` in `CDCCommand` is the refinement mapping, `ServiceSpec` the property.

### CDCParser - the parser

`Transitions` is the automaton as chains of states and inputs, `processUSBInfo`,
`processTRInfo`, `processAsynData` and `processPMRespData` are its special states,
`Step` is one turn of the loop of `parseData`. Bytes are numbers and positions count from
0, as in the code. `OverRead` stands for the three words that `initStatesInfoMap` reads
behind an array; only the number 97 among them would change anything (downloaded data would
be announced as a response to an upload). With gcc at -O0, -O2 and -O3 state 97 keeps its type, and the
runs use that value. `CDCGrammar` says what messages look like without an automaton, and which getter reads which;
`CDCParserBytes` lets a buffer grow byte by byte along a stream; `MCParser` has the streams.
On all 25019 buffers of the run the model's verdict was compared with that of the compiled
`CDCMessageParser.cpp`: they are equal.

### CDCFraming - from bytes to messages

`Read` is one round of the reader with everything it calls: it appends bytes to
`receivedBytes` and, when there is a message end, runs `processAllMessages` to its end
(`TakeMessage` is one turn of that loop, with `parseNextMessage`). The device sends
messages of `Frames`; the line may lose bytes. `CDCChannel` is the abstract promise: what
is sent is delivered in order, each message once, several at a time.

### CDCLifecycle - from constructor to destructor

The application's `appPc` walks through `init` (`OpenPort`, `Configure`, `CreateEvent` four
times, `StartThread`, `Constructed`), and every step has its failure. `InitThrows` is what C++
makes of an exception there: members are destroyed, handles are plain values and stay open
(`abandoned`). After `StartThread` an exception meets a joinable `std::thread`: the process
ends (`StartTimeout`, `StartWaitError`). The reading thread prepares (Windows), signals, reads,
calls the listener with `csAsyncListener` held (`ReaderCalls`), fails and stops. Of the commands only
`SendFails` is here: on Windows a `sendCommand` that fails throws past the only `CloseHandle` of the
event it has created for its `OVERLAPPED`, and nobody else knows that event. What a listener
does is external; what the library makes of it is `ListenerReturns`, `ListenerThrowsReceive`,
`ListenerThrowsOther`, `ListenerRegisters` and `ListenerDestroys`. Linux looks at `readEndEvent`
in every round, Windows only when no data wait.

### CDCJavaStub - objects, their reading threads and one set of globals

`InitStub` stops at the first reference it cannot get. `Create` ... `NewGlobalRef` are the parts of
`createCDCImpl`; a call of `CDCImpl` ends in one of `Outcomes` (what `CDCCommand` and `CDCParser`
say it can), and `ReturnPlain`, `ReturnResponse`, `ReturnStatus` and `ReturnInfo` are what the stubs
make of it. `stubListener` runs on the reading thread of its object in four steps. A JNI
call with a reference that is missing ends the virtual machine (`Needs`).

### PgmHex - from lines to packets

A line is what its bytes decode to; a data byte carries the address the file gives it, so that
one in the wrong place is recognised. `block` is `PrepareMemBlock` with its image of 68 bytes.
`Prepare`, `ReadLine`, `ProcessSerialEEPROM`, `ProcessFlash` ... are the branches of
`iqrfPgmPrepareMemBlock`, with `MoveOverflowedData`; `Returns` goes back to `main`, whose loop is
`Upload` or `UploadFails`. Addresses, packets and areas are the program's own numbers.
`MCPgmHex` chooses records at every edge: of a block, of half a block, of an area; one is not of
whole words. The length byte of a line is taken to count its data, which the program does not check.

## 3. Runs

| run | question | bounds |
|---|---|---|
| `command_linux` | does the cycle keep its properties, and the promises of `CDCService`, with three calls, partial writes, failures, hang-up and destruction? | ops `resetTRModule`, `download`, `getUSBDeviceInfo`; 3 calls; a command of 2 units |
| `command_windows` | the same with the manual-reset event, asynchronous messages, and is a stop reported when the device is unplugged? | ops `getUSBDeviceInfo`, `download`, `switchToCustom`; 2 calls; 1 asynchronous message |
| `command_linux_late` | *(violated)* does a call always return its own answer? | 2 calls |
| `command_windows_race` | *(violated)* are the documented exceptions the only ones? | 2 calls |
| `command_linux_hangup` | *(violated)* does unplugging stop the reading thread on Linux? | 2 calls, 1 asynchronous message |
| `parser` | does `parseData` agree with the grammar and with itself as bytes arrive? | 1748 streams of one or two messages |
| `framing` | is every message delivered for every way of cutting the stream on Linux (self-delimiting kinds, one lost byte) and byte by byte on Windows (all kinds), as the abstract channel says, and what does a lost byte cost? | 3 messages of 3 or 6 kinds |
| `framing_data` | *(violated)* is a message with a CR in downloaded data delivered whole? | 1 message |
| `lifecycle` | does the listener that runs stay the registered one, has the thread what it uses, do only failed constructors and commands leave handles open, do constructor and destructor return? | 2 objects one after the other, 2 listeners that may do anything, 2 messages waiting, both platforms |
| `init_terminates` | *(violated)* is an error of the constructor an exception to its caller? | 1 object |
| `java_stub` | does a message reach its own listener, is no failure taken for a value, is a destroyed object quiet? | 2 Java objects, 2 calls, 2 messages |
| `pgm_hex` | is what the program reports as programmed in the device, is nothing misplaced, does the session end? | files of 3 lines out of 18, 1 failing call |

**Why the bounds are enough.** The cycle has no memory that outlives two neighbouring
calls, apart from the order of the answers: two calls show a late answer taken for the next
one, a third shows an answer two calls late and a counter above one on Linux. One operation
that ignores the text, one that reads it once and one that reads the type twice have all the
control of the thirteen; the one that reads it once, `getUSBDeviceInfo`, and `download` have between
them the ways in which a text of another type is misread: an exception of the parser, of the
allocation, of the size of the buffer. (`NoLostWakeup` is checked on
Linux and proved for both.) Two units of a command are the
least with a partial write; one asynchronous message is enough to arrive at every place
between two responses. In the framing the buffer holds at most the tail of one message and
what follows it: three messages give a damaged one, the one it takes with it and one that
must survive. Data bytes are chosen to be the dangerous ones: CR, `<`, `#`, and bytes equal
to a length.

Three calls are *not* enough for one interleaving of Linux: with five, a call may be refused over
the newest response and the next be woken by an older signal of the eventfd, and read the
older text while the newest is being assigned. What is refused is not returned, so
`AnswersNeverGoBack` and `ServiceSpec` hold there too (with `MaxCalls = 5`, a command of one
unit, no hang-up and the operations `resetTRModule` and `download`: ten million states, over two
minutes); the theorems cover every number
of calls, and the run stays at three.

A second object in `lifecycle` is there for what the first one left: an open port of a
constructor that failed blocks it on Windows. Two listeners tell a replaced one from a removed one,
two messages let one wait while another is processed. Two Java objects are the least that share
the globals. Three lines of a file are enough for a line that waits, one that overflows and one
that ends in another block: `block` remembers nothing else of the lines before.

**Fairness.** `FairSpec` assumes only that each of the two threads takes steps when it can
(they are scheduled by the operating system, and the timeouts are finite). Nothing is assumed of the device or of the
application: every call returns because `waitForMyEvent` has a time limit, not because
answers arrive. A wait or a read that fails is never something the fairness forces.
`CDCLifecycle` adds that a listener ends *somehow* (it may also block for ever on the lock, and then
the properties say so); its `DestroyReturns` holds on Windows only if messages stop coming, and
is stated so. `PgmHex` runs by itself: each of its steps is a return from a call of
`CDCImpl`, which `CallReturns` gives it. `CDCJavaStub` has no liveness of its own.
`Gone` and `Rest` let the behaviour stutter where the application is done, so deadlock is checked
in these runs. The parser and framing runs stop when the stream ends and say `CHECK_DEADLOCK FALSE`.

### What the violated runs show

* `command_linux_late`: call 1 times out, its answer arrives, sets the event, and call 2
  returns it (the event is not reset on Linux, and the type fits). Every call after it is
  one answer behind until an answer is lost.
* `command_windows_race`: call 1 fails (its write is not cancelled, or it times out), and its answer
  comes while call 2 waits: call 2 is woken before its own response has come. While it looks at
  `lastResponse` its own response is being stored: the parse result is already the new one and passes
  the type check, the text is still the old one, and the parser of the new type throws
  `CDCMessageParserException` at it. (It is the answer of the call itself that is read half stored. With
  two calls and a device that answers in order nothing later can replace it.)
* `command_linux_hangup`: `read` returns 0, which is not -1; the loop goes on for ever.
* `framing_data`: `<PM:` data with a byte 0x0D inside is a complete message to the parser
  as soon as that byte arrives; the caller gets the first part, the rest is thrown away with
  "Bad message format". (A buffer of exactly 7 or 9 bytes at that moment is taken for a
  malformed response instead.)
* `init_terminates`: the thread does not signal its start in five seconds; `init` throws with
  `readMsgHandle` joinable, and `std::terminate` ends the process before any caller sees the
  exception that `CDCImpl.h` documents.

Three more places where the size of the buffer decides are known and kept out of the
passing runs: on Linux a response to an upload that is read together with another message
is not recognised, nor is a module identification of 21 bytes that is read together with
another message; and an asynchronous message without data is recognised only when a byte
follows it. Their conditions are visible in `IsSelfDelimiting` and in the sets of
`MCFraming`.

## 4. Properties

| part | safety | actions and refinement | liveness |
|---|---|---|---|
| cycle | `InSync`, `NoLostWakeup`, `StopExplained` | `AnswersNeverGoBack`, `DestroyedAlone`, `ServiceSpec` | `CallReturns`, `DestroyReturns`, `HangUpStops` (Windows) |
| parser | `LoopEnds`, `AcceptedIsMessage` (what is accepted is a message of the reported type and its getter understands it), `MessageAccepted` (and reads what was put in), `HeadNotRefused` | `VerdictStands` | |
| framing | `DeliveredAreMessages` (what is handed on is a message of its type that its getter understands, even beside damage), `AllMessagesProcessed`, `RefusalExplained`, `LossBounded` | `ChannelSpec` | |
| life cycle | `CalledWhileRegistered`, `ReaderHasResources`, `OnlyFailuresLeak`, `NeverStopsSilently` | | `ConstructorReturns`, `DestroyReturns` |
| Java stub | `OwnListenerCalled`, `FailuresReported`, `QuietAfterDestroy` | | |
| PgmHex | `TypeOK`, `ProgrammedWhole`, `NothingMisplaced`, `StopExplained` | | `SessionEnds` |

Each has a mutant: a plausible slip in the code, written as an operator `Fault...` before the
definition it would replace, that breaks the property.

Some properties are conditional because the code is. `OwnListenerCalled` speaks of objects that
do not overlap: of two alive at once, the messages of both go to the listener of the last.
`OnlyFailuresLeak` leaves out what constructors that threw and, on Windows, commands that failed
have left open. `FailuresReported` allows the end of the virtual machine: after an exception
`getUSBDeviceInfo` and `getTRModuleInfo` go on with the NULL they have, and nobody catches the
exception of an allocation. `ProgrammedWhole` and
`NothingMisplaced` leave out the records of `Unhandled` (not of whole words, which the program halves
to other words; across the middle of a flash block, whose second address is overwritten; over the
end of an area; beyond 16 bits of address), and `Kept` the last word of a flash area, which a comparison drops. `ProgrammedWhole` asks for a sorted file: a block begun twice
is written over with empty words.

Seen while modelling, and no property: `CDCImpl.h:85` says the destructor "frees all needed resources",
but on Windows a command that fails after the event of its write was created (too long, not written,
not written in time) leaves `sendCommand` before its `CloseHandle`, and that event stays open after the
destructor: `SendFails` is the step, and `OnlyFailuresLeak` says that nothing else is lost. Linux has no
such event. `CDCImpl.h:63` says an asynchronous listener is called
with NULL after an error of reception, which no line does; `PgmHex.cpp:446` promises an error code
where `main` returns 0 whatever failed (line 603).

## 5. Proofs

No proof assumes anything but the constants' named assumptions.

`CDCCommandProofs` proves, for every platform, set of operations, number of calls and of
asynchronous messages and length of commands (the constants' three assumptions are all it uses):

| theorem | statement |
|---|---|
| `TypeCorrect` | `Spec => []TypeOK` |
| `ResponsesInOrder` | `Spec => []PipelineOrdered` |
| `CallsInSync` | `Spec => []InSync` |
| `WakeupsNotLost` | `Spec => []NoLostWakeup` |
| `StopsExplained` | `Spec => []StopExplained` |
| `DestroyedIsAlone` | `Spec => DestroyedAlone` |
| `AnswersInOrder` | `Spec => AnswersNeverGoBack` |
| `ImplementsService` | `Spec => ServiceSpec` |

The argument for `InSync`. `InSync` speaks of the moment a call returns, and is not
inductive. Three invariants carry it:

* `PipelineOrdered`: commands at the device, messages on the line and in the buffer, and
  `lastResponse` form one queue whose call numbers do not decrease, the commands' strictly
  increase, and none is newer than the newest command sent.
* `ResponseWhole`: outside the reading thread's store the two parts of `lastResponse` are
  the same message.
* `Synchronised`: if the current call is not `stray`, then as long as its command is
  unsent nothing is under way and the event is clear; once it is sent, everything under way
  answers it, at most one thing at a time; and when the wait is over, the answer is in
  `lastResponse`, whole, and nothing more will come to overwrite it.

`NoLostWakeup` needs `AnswerSignalled` beside the order, `StopExplained` needs
`ErrorBeforeFlag`. Each invariant was checked with TLC before it was proved. The proofs
have one lemma per group of actions (call, send, response, reader, device) and one step per action.

`AnswersInOrder`. `AnswersKept` is inductive beside the order: `lastResponse` is not older than
the answer returned last. Its text alone may be older, while it is being assigned after
a call that did not read it; and then no operation that would read the text accepts
its type (`TypesApart`: no type of response is accepted both by an operation that ignores the
text and by one that reads it). Without that fact the property would be false on Linux.

`ImplementsService`. Initial states map to initial states; every step of `CDCCommand` maps
to a step of `CDCService` or to a stutter. `Settle` is a command sent with nothing left of the abandoned
call; `Answer` needs `InSync` (its own answer) and `AnswersKept` (never an older one);
`Fail` after a stop needs `StoppedAreRefused`; `Misread` is possible only while
`abandoned`, which is `InSync` again.

`CDCLifecycleProofs` proves, for every set of platforms, listeners and what they may do, and every
number of objects and messages:

| theorem | statement |
|---|---|
| `LifeIsOrdered` | `Spec => []LifeInv` |
| `LifecycleTypeCorrect` | `Spec => []TypeOK` |
| `ListenersCalledWhileRegistered` | `Spec => []CalledWhileRegistered` |
| `ReaderAlwaysHasResources` | `Spec => []ReaderHasResources` |
| `OnlyFailuresLeakHandles` | `Spec => []OnlyFailuresLeak` |
| `StopsAreReported` | `Spec => []NeverStopsSilently` |

`LifeInv` is the conjunction of `TypeOK` and: `ThreadPhases` (in which phase of the object the
thread may be where), `HandlesHeld` (which handles are open in each phase), `SendEventsLost` (the event
of a failed command is nobody's), `CalledLocked` (in the listener the lock is held, and the listener is
the registered one), `EndIsAsked` (the thread has seen the end only if the destructor asked),
`StopIsReported` and `OnlyFailuresLeak`. `ReaderHasResources`
follows from the first two and is not inductive alone: the events are freed in a phase in
which only `ThreadPhases` knows the thread has exited.

`CDCJavaStubProofs` proves, for any Java objects and any number of calls and messages:

| theorem | statement |
|---|---|
| `StubIsOrdered` | `Spec => []StubInv` |
| `StubTypeCorrect` | `Spec => []TypeOK` |
| `MessagesReachOwner` | `Spec => []OwnListenerCalled` |
| `DestroyedAreQuiet` | `Spec => []QuietAfterDestroy` |
| `FailuresAreReported` | `Spec => []FailuresReported` |

`StubInv` adds to `TypeOK` that whoever is in `stubListener` is alive and listening (`StubAlive`: the
listener's lock and the join make registration and destruction wait), that an object being
created is alive and has no handle yet (`CreatingAlive`), and that without overlapping there is one
living object and `jvm` and `jCDC` are its own from the moment it has a handle (`GlobalsOwned`).
`FailuresReported` is inductive once `createCDCImpl` is known to remember how its constructor
ended (`Reported`).

`PgmHexProofs` proves, for any lines, any length of the file and any number of failing calls:

| theorem | statement |
|---|---|
| `HexTypes` | `Spec => []TypeOK` |
| `StopIsExplained` | `Spec => []StopExplained` |
| `NothingIsMisplaced` | `Spec => []NothingMisplaced` |
| `WholeIsProgrammed` | `Spec => []ProgrammedWhole` |

The one assumption beside the bounds is on `Lines`: a line is data, an address or something else,
its offset has 16 bits, and its data fit the line buffer. The run's three lines are what a file may
do to one image; that no later line undoes what an earlier one did is what the theorems add.

Four invariants, each on top of the ones before, carry them.

* `HexInv`: `TypeOK`; the line in the buffer is the record read last (`BufferInv`); what is uploaded
  has a packet to upload (`PacketInv`).
* `ImageInv`: while all records are handled ones, the image is empty, or the head of the next block
  of the serial EEPROM (`OverflowImage`), or that of one block of an area, and every data byte in it
  is at the index of its address (`Covers`). `NothingMisplaced` follows for each upload
  (`WrittenPlaces`). Alone it is not inductive: `Upload` needs to know what is in all 68 bytes.
* `StoredInv`: of a sorted file without failures, every byte taken from a line either waits, at a
  known index of the image (`Waiting`), or is `Gone`: it is in the device, and the file has passed
  its block. The second half is what keeps it there: no later image of the same block, full of empty
  words, can be written over it.
* `ReachedInv`: the image being filled is of the block the records have come to, and the one being
  uploaded is behind them. That the file is sorted is used here only (`ReachedBefore`).

`ProgrammedWhole` is then the case in which the file has ended with nothing waiting. Each action has a
lemma for each invariant; `SerialImaged`, `PutSerialStored` and their like split the record into the
bytes that were in the image, the new ones, and those that overflow.

`CDCParserProofs`, `CDCGrammarProofs`, `CDCParserBytesProofs` and `CDCFramingProofs` prove, for every
buffer of bytes, every stream, every set of messages a device may send, any number of them and of
bytes lost, and wherever the reads cut the stream:

| theorem | statement |
|---|---|
| `LoopEndsAlways` | `\A data \in Buffers : ~Looping(data, parseData(data))` |
| `ParseDataInv` | `\A data \in Buffers : ConfInv(data, parseData(data))` |
| `LoopAlwaysEnds` | `Spec => []LoopEnds` |
| `VerdictIsFinal` | `Spec => VerdictStands` |
| `SelfDelimiting` | a message that marks its own end is waited for, then accepted, whatever follows |
| `HeadsWait` | `Spec => []HeadNotRefused` |
| `AcceptedAreMessages` | `97 \notin OverRead` proves `Spec => []AcceptedIsMessage` |
| `ProcessingEnds` | `processAllMessages` ends, and what it took are messages |
| `FramingTypeCorrect` | `Spec => []TypeOK` |
| `WholeMessagesDelivered` | `97 \notin OverRead` proves `Spec => []DeliveredAreMessages` |
| `EveryMessageProcessed` | `Spec => [](MarkTheirEnd => AllMessagesProcessed)` |
| `RefusalIsExplained` | `Spec => [](MarkTheirEnd => RefusalExplained)` |
| `ImplementsChannel` | `Spec /\ MarkTheirEnd => ChannelSpec` |

`StreamsAssumption`, `SamplesAssumption` and `FramesAssumption` say that what the port delivers are
bytes, and that a frame's type is one of the parser's. `MarkTheirEnd` says that every message the
device may send on this platform is a message of the grammar (after its head has been mended) of
a kind that marks its own end, and not the asynchronous message without data, which is recognised
only when a byte follows it. The device's messages of the `framing` run on Linux are of that kind;
without the hypothesis the three statements are false (`framing_data`). The hypothesis
`97 \notin OverRead` is what the builds give (section 2, CDCParser); without it the two statements are false, since
downloaded data would be announced as a response to an upload. The other theorems hold for any
`OverRead`.

Both loops, `parseData`'s and `processAllMessages`'s, are recursive functions. `Recursion` shows that
what starts in a set and is moved inside it by one turn can be iterated for ever, so the function is
what its definition says; `SetInduction` is induction with a set in the place of a predicate, from the
least element of a set of numbers (`LeastNat`).

The automaton is a tree: one text leads to each state, but for the states behind a special state.
`Spells` writes that text down place by place, `TransitionsFit` compares it with all of
`Transitions`, and `Shape` adds what the four special states leave behind (three sections, 21 or 37
bytes, the length byte, all but one byte of the buffer). `ConfInv`, the invariant of a turn, says that
what has been read has the `Shape` of the state, that a verdict lies inside the buffer, and that what
is accepted ends in CR. `AcceptedIsMessage` alone is not inductive: it says nothing of the states on
the way. The loop ends because a turn `Advances`: it reads a byte, or it gives one
back and leaves a special state for states from which none is reached again (`Behind`); so `Len(data) + 1` turns are
enough, which is what `parseData` iterates. `VerdictStands` compares two runs turn by turn: a buffer
and the same with one byte more are in the same configuration until the shorter one has its verdict
(`IterationsMore`), because only the states 21 and 95 look at the size when they are not at its end.
`CDCGrammarProofs` then puts the places together: each accepted text is the concatenation that
`CDCGrammar` gives for its type, and the getter's comparison succeeds on it. `processAllMessages`
ends because a turn erases a message or a refused head, each a byte at least, or finds a buffer from
which nothing can be taken (`TurnOfRounds`).

The other half of the automaton drives it forward. `TransitionOf` and its like say which state a
byte leads to, `Reached` in which configuration the loop is after so many turns, and one
`...Delimits` lemma per kind of message follows its text to the end: before its last byte the loop
runs out of buffer in a state that waits (`WaitsFor`), at its last byte it accepts (`Accepts`),
and no byte behind is looked at. `CDCGrammarProofs` shows of each concatenation of the grammar
that it spells such a text (`SelfDelimiting`), and `HeadsWait` is `WaitsFor` of the samples that are
such messages, since a strict head is shorter and agrees byte for byte (`StrictHead`).

From there the framing. `OrderInv` is what `AllMessagesProcessed` lacks to be inductive: as long as
nothing is lost, no error is recorded, the delivered messages are the first ones sent
(`Expected`), and the buffer with the line behind it holds the others, one behind the other
and byte for byte, except that the very first byte may already be mended (`Laid`, with a
function that gives the place where each message ends); and the buffer is shorter than the next
message (`HeldBack`). The last part is the one a test would hardly reach: it says that a round leaves
no whole message behind, on Linux when `Read` finds a CR anywhere in the buffer and on Windows
when the byte just read is one. A read moves the border between buffer and line (`Laid` does not
see it); a turn of `processAllMessages` either takes exactly the next message, by
`SelfDelimiting`, or stops with too few bytes for it (`TurnInOrder`); a whole round is `SetInduction`
over turns. When the line is empty and the buffer shorter than the next message, there is
no next message, which is `EveryMessageProcessed`. `ImplementsChannel` maps a read to the delivery of
the messages it completes, and everything else to sending or a stutter.

Only model-checked:

* liveness (`CallReturns`, `DestroyReturns`, `ConstructorReturns`, `HangUpStops`, `SessionEnds`):
  fairness and ENABLED are out of the prover's reach;
* the parser's `MessageAccepted`: that a self-delimiting message is accepted, with its type and length,
  is `SelfDelimiting`; the run adds the kinds whose end depends on the size of the buffer, and
  what each getter makes of the text;
* the framing of the messages that do not mark their own end (the Windows half of `framing`), which
  holds byte by byte for data without CR and not for every set;
* the framing's `LossBounded`: it is a statement about the messages of the run and not about
  every set. When the length byte of asynchronous data is lost and the data begin with a colon, the
  colon of the head is taken for the length, 58, and the parser waits for so many bytes with several
  whole messages held back.

## 6. Plan

1. The kinds of messages that do not mark their own end: which data and which cuts of the stream
   make the framing lose them, as a condition in the place of `MarkTheirEnd`.
2. PgmIqrf and PgmTrcnfg, which share PgmHex's session around files without a block image; the
   readers as sequences of calls.
3. Pure operators for `commandToBuffer` (length byte, 255 limit) and the boundary of `download`.

## 7. Not modelled

* The parameters of the port (`openPort` beyond its failures), the text of exceptions and logs,
  allocation and freeing of buffers and of the getters' results, the lock around the parser
  (its operations are already single steps), and the payloads of `sendData` and `upload`.
* The values the Java stub converts; `isReceptionStopped` and `getLastReceptionError` there, which
  only convert one. Java's own threads: one of them calls the stub.
* PgmHex's hexadecimal digits and check sum: a line decodes or does not. A length byte that counts
  more data than the line has.
* PgmIqrf, PgmTrcnfg, ReadMemory, ReadTemperature and ReadTrIdf: sequences of calls, planned in part;
  the build files.
* Events that exist are taken to be set and reset: the exceptions of `setMyEvent` and `resetMyEvent`
  have no step.
* The type in `lastResponse` is read in one step (`Check`, `Branch`): it is one word, though C++ calls
  reading it beside its assignment a data race too. The text is where the race has outcomes.
* A zero byte between the lines of a file is the end of the file to PgmHex (`iqrfReadByteFromFile`), and
  the lines behind it are read if the program asks again: the files of the model have none.
* Interrupted writes on Windows keep a stack `OVERLAPPED` and a shared buffer in use; the model
  keeps only their effect that the command may still be sent.
* `upload` with a pointer makes a string of it up to a NUL (`CDCImpl.cpp:165`): memory behind the
  caller's data is not part of any model.
* Constructors that overlap in time: `CDCLifecycle` has one object at a time, `CDCJavaStub` several
  without their constructors' steps.
