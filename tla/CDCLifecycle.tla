---------------------------- MODULE CDCLifecycle ----------------------------
(***************************************************************************)
(* The life of a CDCImpl object: its constructor (init), which opens the   *)
(* port, creates the events, starts the reading thread and waits for it;   *)
(* the listener of asynchronous messages, which the reading thread calls   *)
(* with csAsyncListener held; and the destructor.  Every step of the       *)
(* constructor can fail, and a failing constructor runs no destructor.     *)
(*                                                                         *)
(* An application may construct one object after another on the same port. *)
(* Commands and responses are left to CDCCommand; of a command only what   *)
(* it may leave open is here.  External are the operating system, the      *)
(* device, which sends asynchronous messages, and the application's        *)
(* listeners.                                                              *)
(***************************************************************************)
EXTENDS Naturals, Sequences

CONSTANTS Platforms,      \* "Linux", "Windows", or both
          Listeners,      \* the functions the application may register
          ListenerDoes,   \* what a listener may do when it is called
          MaxObjects,     \* bound on the number of constructors called
          MaxPending      \* bound on the messages that wait to be read

AllListenerDoes == {"return", "throw", "register", "destroy"}

ASSUME LifecyclePlatforms == Platforms \subseteq {"Linux", "Windows"}
ASSUME LifecycleListeners == "none" \notin Listeners
ASSUME LifecycleListenerDoes == ListenerDoes \subseteq AllListenerDoes
ASSUME LifecycleBounds == MaxObjects \in Nat /\ MaxPending \in Nat

VARIABLES
  platform,           \* where the library runs
  process,            \* "terminated" once std::terminate was called
  (* the application thread *)
  appPc,              \* where it is in the constructor or the destructor
  object,             \* the number of constructors called
  wanted,             \* the listener registerAsyncMsgListener was called with
  initResult,         \* history: how the last constructor ended
  abandoned,          \* history: handles left by what failed
  (* the object *)
  handles,            \* open handles of all objects, <<object, name>>
  created,            \* number of events created by this constructor
  readStartEvent, readEndEvent,
  asyncListener,      \* the registered listener, under
  csAsyncListener,    \* the mutex, "free" or held by "reader"
  receptionStopped,
  (* the reading thread *)
  readPc,
  endSeen,            \* this round's wait has seen readEndEvent
  called,             \* the listener being called
  (* the port *)
  pending             \* asynchronous messages not read yet

initVars   == <<object, initResult, abandoned, created>>
eventVars  == <<readStartEvent, readEndEvent>>
listenVars == <<asyncListener, csAsyncListener>>
readVars   == <<readPc, endSeen, called>>
vars == <<platform, process, appPc, wanted, initVars, handles, eventVars,
          listenVars, receptionStopped, readVars, pending>>

Linux == platform = "Linux"

(* The events in the order init creates them. *)
Events == <<"newMsgEvent", "readEndEvent", "readStartEvent", "readEndResponse">>

Names == {"port"} \cup {Events[i] : i \in DOMAIN Events}

Own(names) == {object} \X names

Running == process = "running"

(* An exception nobody catches, or one thrown past a joinable std::thread. *)
Terminate == process' = "terminated"

Init ==
  /\ platform \in Platforms /\ process = "running"
  /\ appPc = "none" /\ object = 0 /\ wanted = "none"
  /\ initResult = "none" /\ abandoned = {}
  /\ handles = {} /\ created = 0
  /\ readStartEvent = FALSE /\ readEndEvent = FALSE
  /\ asyncListener = "none" /\ csAsyncListener = "free"
  /\ receptionStopped = FALSE
  /\ readPc = "none" /\ endSeen = FALSE /\ called = "none"
  /\ pending = 0

-----------------------------------------------------------------------------
(* The constructor.                                                        *)

Construct ==
  /\ Running /\ appPc = "none" /\ object < MaxObjects
  /\ appPc' = "opening"
  /\ object' = object + 1
  /\ created' = 0
  /\ readStartEvent' = FALSE /\ readEndEvent' = FALSE
  /\ asyncListener' = "none" /\ csAsyncListener' = "free"
  /\ receptionStopped' = FALSE
  /\ readPc' = "none" /\ endSeen' = FALSE /\ called' = "none"
  /\ pending' = 0
  /\ UNCHANGED <<platform, process, wanted, initResult, abandoned, handles>>

(* init throws before the reading thread exists.  The members are          *)
(* destroyed, but the handles are plain values: they stay open.            *)
InitThrows(exception) ==
  /\ appPc' = "none"
  /\ initResult' = exception
  /\ abandoned' = abandoned \cup {h \in handles : h[1] = object}
  /\ UNCHANGED <<platform, process, wanted, object, created, handles, eventVars,
                 listenVars, receptionStopped, readVars, pending>>

Advance(to) ==
  /\ appPc' = to
  /\ UNCHANGED <<platform, process, wanted, object, initResult, abandoned,
                 listenVars, receptionStopped, endSeen, called, pending>>

(* openPort.  On Windows the port is opened for exclusive access, and an   *)
(* open handle of an earlier object makes it fail.                         *)
OpenPort ==
  /\ Running /\ appPc = "opening"
  /\ Linux \/ \A h \in handles : h[2] # "port"
  /\ handles' = handles \cup Own({"port"})
  /\ Advance("configuring")
  /\ UNCHANGED <<created, eventVars, readPc>>

OpenFails ==
  /\ Running /\ appPc = "opening"
  /\ InitThrows("CDCImplException")

(* The port's parameters are set and, on Linux, its buffers flushed. *)
Configure ==
  /\ Running /\ appPc = "configuring"
  /\ Advance("events")
  /\ UNCHANGED <<handles, created, eventVars, readPc>>

ConfigureFails ==
  /\ Running /\ appPc = "configuring"
  /\ InitThrows("CDCImplException")

CreateEvent ==
  /\ Running /\ appPc = "events" /\ created < Len(Events)
  /\ handles' = handles \cup Own({Events[created + 1]})
  /\ created' = created + 1
  /\ Advance("events")
  /\ UNCHANGED <<eventVars, readPc>>

CreateEventFails ==
  /\ Running /\ appPc = "events" /\ created < Len(Events)
  /\ InitThrows("CDCImplException")

(* Fault: the reading thread starts before its last event exists. *)
FaultThreadEarly ==
  /\ Running /\ appPc = "events" /\ created >= 3
  /\ readPc' = "starting"
  /\ Advance("awaitStart")
  /\ UNCHANGED <<handles, created, eventVars>>

(* receptionStopped is cleared, readStartEvent reset, the thread started. *)
StartThread ==
  /\ Running /\ appPc = "events" /\ created = Len(Events)
  /\ readPc' = "starting"
  /\ Advance("awaitStart")
  /\ UNCHANGED <<handles, created, eventVars>>

(* std::thread may throw an exception of its own. *)
StartThreadFails ==
  /\ Running /\ appPc = "events" /\ created = Len(Events)
  /\ InitThrows("system_error")

(* waitForMyEvent(readStartEvent): Linux reads the event back to zero. *)
Constructed ==
  /\ Running /\ appPc = "awaitStart" /\ readStartEvent
  /\ appPc' = "ready"
  /\ readStartEvent' = ~Linux
  /\ initResult' = "ok"
  /\ UNCHANGED <<platform, process, wanted, object, abandoned, created,
                 handles, readEndEvent, listenVars, receptionStopped,
                 readVars, pending>>

(* Fault: init waits for the reading thread without a time limit. *)
FaultNoStartTimeout == FALSE

(* TM_START_READ passes, or the wait fails.  The exception destroys        *)
(* readMsgHandle, a std::thread that is still joinable.                    *)
StartTimeout ==
  /\ Running /\ appPc = "awaitStart" /\ ~readStartEvent
  /\ Terminate
  /\ UNCHANGED <<platform, appPc, wanted, initVars, handles, eventVars,
                 listenVars, receptionStopped, readVars, pending>>

StartWaitError ==
  /\ Running /\ appPc = "awaitStart"
  /\ Terminate
  /\ UNCHANGED <<platform, appPc, wanted, initVars, handles, eventVars,
                 listenVars, receptionStopped, readVars, pending>>

-----------------------------------------------------------------------------
(* The listener and the destructor.                                        *)

(* registerAsyncMsgListener, or unregisterAsyncMsgListener with no         *)
(* listener, is called,                                                    *)
Register ==
  /\ Running /\ appPc = "ready"
  /\ wanted' \in Listeners \cup {"none"}
  /\ appPc' = "setting"
  /\ UNCHANGED <<platform, process, initVars, handles, eventVars, listenVars,
                 receptionStopped, readVars, pending>>

(* A command fails in sendCommand, called by the application or in a       *)
(* listener.  Windows creates an event for each write, every failure after *)
(* that throws before CloseHandle, and nothing else knows the event.  One  *)
(* name stands for all the events an object has lost.                      *)
SendFails ==
  /\ Running /\ ~Linux /\ ~receptionStopped
  /\ appPc = "ready" \/ readPc = "inListener"
  /\ handles' = handles \cup Own({"sendEvent"})
  /\ abandoned' = abandoned \cup Own({"sendEvent"})
  /\ UNCHANGED <<platform, process, appPc, wanted, object, initResult, created,
                 eventVars, listenVars, receptionStopped, readVars, pending>>

(* Fault: setAsyncListener without its lock. *)
FaultSetUnlocked ==
  /\ Running /\ appPc = "setting"
  /\ asyncListener' = wanted
  /\ appPc' = "ready"
  /\ UNCHANGED <<platform, process, wanted, initVars, handles, eventVars,
                 csAsyncListener, receptionStopped, readVars, pending>>

(* Fault: setAsyncListener keeps its lock. *)
FaultSetKeepsLock ==
  /\ Running /\ appPc = "setting" /\ csAsyncListener = "free"
  /\ asyncListener' = wanted /\ csAsyncListener' = "application"
  /\ appPc' = "ready"
  /\ UNCHANGED <<platform, process, wanted, initVars, handles, eventVars,
                 receptionStopped, readVars, pending>>

(* and setAsyncListener gets the lock, assigns and releases it. *)
SetListener ==
  /\ Running /\ appPc = "setting" /\ csAsyncListener = "free"
  /\ asyncListener' = wanted
  /\ appPc' = "ready"
  /\ UNCHANGED <<platform, process, wanted, initVars, handles, eventVars,
                 csAsyncListener, receptionStopped, readVars, pending>>

Destroy ==
  /\ Running /\ appPc = "ready"
  /\ readEndEvent' = TRUE
  /\ appPc' = "joining"
  /\ UNCHANGED <<platform, process, wanted, initVars, handles, readStartEvent,
                 listenVars, receptionStopped, readVars, pending>>

(* Fault: the destructor only detaches the thread. *)
FaultDetach ==
  /\ Running /\ appPc = "joining"
  /\ appPc' = "freeing"
  /\ UNCHANGED <<platform, process, wanted, initVars, handles, eventVars,
                 listenVars, receptionStopped, readVars, pending>>

Join ==
  /\ Running /\ appPc = "joining" /\ readPc = "exited"
  /\ appPc' = "freeing"
  /\ UNCHANGED <<platform, process, wanted, initVars, handles, eventVars,
                 listenVars, receptionStopped, readVars, pending>>

(* The events of the object are destroyed one by one and the port is       *)
(* closed.                                                                 *)
Free ==
  /\ Running /\ appPc = "freeing"
  /\ handles' = handles \ Own(Names)
  /\ appPc' = "none"
  /\ UNCHANGED <<platform, process, wanted, initVars, eventVars, listenVars,
                 receptionStopped, readVars, pending>>

-----------------------------------------------------------------------------
(* The reading thread.                                                     *)

readerFrame == <<platform, appPc, wanted, initVars, readEndEvent, asyncListener>>

(* Windows: SetCommMask and the event of the overlapped operations. *)
ReaderPrepare ==
  /\ Running /\ readPc = "starting" /\ ~Linux
  /\ handles' = handles \cup Own({"overlap"})
  /\ readPc' = "prepared"
  /\ UNCHANGED <<readerFrame, process, readStartEvent, csAsyncListener,
                 receptionStopped, endSeen, called, pending>>

ReaderPrepareFails ==
  /\ Running /\ readPc = "starting" /\ ~Linux
  /\ readPc' = "failed"
  /\ UNCHANGED <<readerFrame, process, handles, readStartEvent, csAsyncListener,
                 receptionStopped, endSeen, called, pending>>

ReaderSignalsStart ==
  /\ Running /\ readPc = (IF Linux THEN "starting" ELSE "prepared")
  /\ readStartEvent' = TRUE
  /\ readPc' = "loop"
  /\ UNCHANGED <<readerFrame, process, handles, csAsyncListener,
                 receptionStopped, endSeen, called, pending>>

(* A message is read.  Linux looks at readEndEvent in the same round,      *)
(* Windows only in a round without a message.                              *)
ReaderReads ==
  /\ Running /\ readPc = "loop" /\ pending > 0
  /\ pending' = pending - 1
  /\ endSeen' = (Linux /\ readEndEvent)
  /\ readPc' = "dispatch"
  /\ UNCHANGED <<readerFrame, process, handles, readStartEvent,
                 csAsyncListener, receptionStopped, called>>

(* Fault: the thread keeps its own event. *)
FaultExitsOpen ==
  /\ readPc' = "exited"
  /\ UNCHANGED <<readerFrame, handles, process, readStartEvent, endSeen, pending>>

(* The thread ends, and on Windows closes its own event. *)
ReaderExits ==
  /\ readPc' = "exited"
  /\ handles' = handles \ Own({"overlap"})
  /\ UNCHANGED <<readerFrame, process, readStartEvent, endSeen, pending>>

ReaderEnds ==
  /\ Running /\ readPc = "loop" /\ pending = 0 /\ readEndEvent
  /\ ReaderExits
  /\ UNCHANGED <<csAsyncListener, receptionStopped, called>>

(* The wait or the read fails. *)
ReaderFails ==
  /\ Running /\ readPc = "loop"
  /\ readPc' = "failed"
  /\ UNCHANGED <<readerFrame, process, handles, readStartEvent,
                 csAsyncListener, receptionStopped, endSeen, called, pending>>

(* processMessage, with the lock: without a listener it returns, *)
ReaderSkips ==
  /\ Running /\ readPc = "dispatch" /\ csAsyncListener = "free"
  /\ asyncListener = "none"
  /\ readPc' = "next"
  /\ UNCHANGED <<readerFrame, process, handles, readStartEvent,
                 csAsyncListener, receptionStopped, endSeen, called, pending>>

(* Fault: the lock is released before the listener is called. *)
FaultCallsUnlocked ==
  /\ Running /\ readPc = "dispatch" /\ csAsyncListener = "free"
  /\ asyncListener # "none"
  /\ called' = asyncListener
  /\ readPc' = "inListener"
  /\ UNCHANGED <<readerFrame, process, handles, readStartEvent,
                 csAsyncListener, receptionStopped, endSeen, pending>>

(* else it calls the listener and keeps the lock. *)
ReaderCalls ==
  /\ Running /\ readPc = "dispatch" /\ csAsyncListener = "free"
  /\ asyncListener # "none"
  /\ csAsyncListener' = "reader"
  /\ called' = asyncListener
  /\ readPc' = "inListener"
  /\ UNCHANGED <<readerFrame, process, handles, readStartEvent,
                 receptionStopped, endSeen, pending>>

(* Fault: Linux forgets that it has seen readEndEvent. *)
FaultNextForgets ==
  /\ Running /\ readPc = "next"
  /\ readPc' = "loop"
  /\ UNCHANGED <<readerFrame, process, handles, readStartEvent,
                 csAsyncListener, receptionStopped, endSeen, called, pending>>

(* The round is over. *)
ReaderNextRound ==
  /\ Running /\ readPc = "next"
  /\ IF endSeen
       THEN ReaderExits
       ELSE /\ readPc' = "loop"
            /\ UNCHANGED <<readerFrame, handles, process, readStartEvent,
                           endSeen, pending>>
  /\ UNCHANGED <<csAsyncListener, receptionStopped, called>>

(* Fault: the handler forgets the flag. *)
FaultStopsSilently ==
  /\ Running /\ readPc = "failed"
  /\ ReaderExits
  /\ UNCHANGED <<csAsyncListener, receptionStopped, called>>

(* The handlers of readMsgThread: error and flag are set, the thread ends. *)
ReaderStops ==
  /\ Running /\ readPc = "failed"
  /\ receptionStopped' = TRUE
  /\ ReaderExits
  /\ UNCHANGED <<csAsyncListener, called>>

-----------------------------------------------------------------------------
(* What a listener does (external), as the library lets it.                *)

InListener == Running /\ readPc = "inListener"

ListenerReturns ==
  /\ InListener /\ "return" \in ListenerDoes
  /\ csAsyncListener' = "free" /\ called' = "none"
  /\ readPc' = "next"
  /\ UNCHANGED <<readerFrame, process, handles, readStartEvent,
                 receptionStopped, endSeen, pending>>

(* A command called in a listener waits for an answer only its own thread  *)
(* could read, and throws CDCReceiveException.  Both platforms catch that  *)
(* around the reading loop; the guard releases the lock on the way.        *)
ListenerThrowsReceive ==
  /\ InListener /\ "throw" \in ListenerDoes
  /\ csAsyncListener' = "free" /\ called' = "none"
  /\ readPc' = "failed"
  /\ UNCHANGED <<readerFrame, process, handles, readStartEvent,
                 receptionStopped, endSeen, pending>>

(* Any other CDCImplException, as the CDCSendException of a command that   *)
(* cannot be written (SendFails), is caught on Windows only; one of the    *)
(* application's own nowhere.                                              *)
ListenerThrowsOther ==
  /\ InListener /\ "throw" \in ListenerDoes
  /\ \/ Terminate /\ UNCHANGED <<csAsyncListener, called, readPc>>
     \/ /\ ~Linux
        /\ csAsyncListener' = "free" /\ called' = "none"
        /\ readPc' = "failed"
        /\ UNCHANGED process
  /\ UNCHANGED <<readerFrame, handles, readStartEvent, receptionStopped,
                 endSeen, pending>>

(* A listener that registers or unregisters locks a std::mutex its thread  *)
(* holds, which is undefined: it blocks for ever or throws a system_error  *)
(* that nobody catches.                                                    *)
ListenerRegisters ==
  /\ InListener /\ "register" \in ListenerDoes
  /\ \/ readPc' = "selfLocked" /\ UNCHANGED process
     \/ Terminate /\ UNCHANGED readPc
  /\ UNCHANGED <<readerFrame, handles, readStartEvent, csAsyncListener,
                 receptionStopped, endSeen, called, pending>>

(* A listener that destroys the object joins its own thread: join throws   *)
(* in a destructor.                                                        *)
ListenerDestroys ==
  /\ InListener /\ "destroy" \in ListenerDoes
  /\ Terminate
  /\ UNCHANGED <<readerFrame, handles, readStartEvent, csAsyncListener,
                 receptionStopped, readVars, pending>>

-----------------------------------------------------------------------------
(* The device sends an asynchronous message (external). *)
DeviceSends ==
  /\ Running /\ readPc \notin {"none", "exited"} /\ pending < MaxPending
  /\ pending' = pending + 1
  /\ UNCHANGED <<platform, process, appPc, wanted, initVars, handles,
                 eventVars, listenVars, receptionStopped, readVars>>

AppStep ==
  \/ OpenPort \/ Configure \/ CreateEvent \/ StartThread \/ Constructed
  \/ OpenFails \/ ConfigureFails \/ CreateEventFails \/ StartThreadFails
  \/ StartTimeout \/ SetListener \/ Join \/ Free

ReaderStep ==
  \/ ReaderPrepare \/ ReaderPrepareFails \/ ReaderSignalsStart \/ ReaderReads
  \/ ReaderEnds \/ ReaderSkips \/ ReaderCalls \/ ReaderNextRound \/ ReaderStops

ListenerStep ==
  \/ ListenerReturns \/ ListenerThrowsReceive \/ ListenerThrowsOther
  \/ ListenerRegisters \/ ListenerDestroys

(* The application may leave it at that; a deadlocked one cannot go on. *)
Rest ==
  /\ \/ ~Running
     \/ appPc \in {"none", "ready"}
     \/ readPc = "selfLocked"
  /\ UNCHANGED vars

Next == \/ Construct \/ Register \/ SendFails \/ Destroy \/ AppStep
        \/ StartWaitError \/ ReaderStep \/ ReaderFails \/ ListenerStep
        \/ DeviceSends \/ Rest

Spec == Init /\ [][Next]_vars

(* Both threads are scheduled, timeouts are finite, and a listener ends    *)
(* somehow.  Nothing is assumed of the device.                             *)
FairSpec == Spec /\ WF_vars(AppStep) /\ WF_vars(ReaderStep) /\ WF_vars(ListenerStep)

-----------------------------------------------------------------------------
TypeOK ==
  /\ platform \in Platforms /\ process \in {"running", "terminated"}
  /\ appPc \in {"none", "opening", "configuring", "events", "awaitStart",
                "ready", "setting", "joining", "freeing"}
  /\ object \in 0 .. MaxObjects /\ wanted \in Listeners \cup {"none"}
  /\ initResult \in {"none", "ok", "CDCImplException", "system_error"}
  /\ handles \subseteq (1 .. MaxObjects) \X (Names \cup {"overlap", "sendEvent"})
  /\ abandoned \subseteq (1 .. MaxObjects) \X (Names \cup {"overlap", "sendEvent"})
  /\ created \in 0 .. Len(Events)
  /\ readStartEvent \in BOOLEAN /\ readEndEvent \in BOOLEAN
  /\ asyncListener \in Listeners \cup {"none"}
  /\ csAsyncListener \in {"free", "reader"} /\ receptionStopped \in BOOLEAN
  /\ readPc \in {"none", "starting", "prepared", "loop", "dispatch", "inListener",
                 "next", "failed", "selfLocked", "exited"}
  /\ endSeen \in BOOLEAN /\ called \in Listeners \cup {"none"}
  /\ pending \in 0 .. MaxPending

(* While a listener runs it is the registered one.  Once unregister-, or   *)
(* register-AsyncMsgListener with another, has returned, the listener that *)
(* was registered is neither running nor called again (processMessage and  *)
(* setAsyncListener).                                                      *)
CalledWhileRegistered == readPc = "inListener" => called = asyncListener

(* The reading thread never works with an event, a port or a parser that   *)
(* is not there yet, or not any more (init and ~CDCImplPrivate).           *)
ReaderHasResources == readPc \notin {"none", "exited"} => Own(Names) \subseteq handles

(* The destructor closes what the object has collected (~CDCImplPrivate,   *)
(* readMsgThread): every open handle is the living object's, or was left   *)
(* by a constructor that threw or, on Windows, by a failed sendCommand.    *)
OnlyFailuresLeak ==
  \A h \in handles : h \in abandoned \/ (h[1] = object /\ appPc # "none")

(* A thread that has ended while the object is in use has said so: the     *)
(* application never waits for messages that nobody reads, whatever ended  *)
(* the thread, a failed read or an exception out of a listener             *)
(* (isReceptionStopped, readMsgThread).                                    *)
NeverStopsSilently ==
  readPc = "exited" /\ appPc \in {"ready", "setting"} => receptionStopped

(* The constructor ends: with an object, with an exception, or with the    *)
(* process (init, TM_START_READ).                                          *)
ConstructorReturns ==
  (appPc = "opening") ~> (appPc \in {"none", "ready"} \/ ~Running)

(* The destructor ends unless a listener has blocked the reading thread.   *)
(* On Windows only if messages stop coming: there the reading loop looks   *)
(* at readEndEvent only when none waits.                                   *)
DestroyReturns ==
  (Linux \/ <>[](pending = 0)) =>
    ((appPc = "joining") ~> (appPc = "none" \/ ~Running \/ readPc = "selfLocked"))

(* "@throw CDCImplException if some error occurs during initialization"    *)
(* (CDCImpl.h): errors of the constructor are exceptions to its caller.    *)
InitErrorsThrow == appPc = "awaitStart" => Running
=============================================================================
