------------------------- MODULE CDCLifecycleProofs -------------------------
(***************************************************************************)
(* What holds of CDCLifecycle for any listeners, whatever they do, any     *)
(* number of objects and messages, and both platforms.                     *)
(***************************************************************************)
EXTENDS CDCLifecycle, TLAPS

(* The constructor before it starts the thread, and the object after. *)
Opening == appPc \in {"opening", "configuring", "events"}
Started == appPc \in {"awaitStart", "ready", "setting", "joining"}

ThreadAlive == readPc \notin {"none", "exited"}

(* The thread lives only between its start and its join. *)
ThreadPhases ==
  /\ Opening => readPc = "none"
  /\ Started => readPc # "none"
  /\ appPc = "none" => ~ThreadAlive
  /\ appPc = "freeing" => readPc = "exited"

(* The constructor collects what the thread will use, and the object keeps *)
(* it; the thread alone has an event for overlapped operations.            *)
HandlesHeld ==
  /\ appPc \in {"opening", "configuring"} => created = 0
  /\ appPc \in {"configuring", "events"} => <<object, "port">> \in handles
  /\ appPc = "events" => \A i \in 1 .. created : <<object, Events[i]>> \in handles
  /\ Started => Own(Names) \subseteq handles
  /\ \A h \in handles : h[1] <= object
  /\ appPc # "none" \/ readPc # "none" => object > 0
  /\ <<object, "overlap">> \in handles => ThreadAlive

(* Nothing but the command that failed knew the event of its write. *)
SendEventsLost == \A h \in handles : h[2] = "sendEvent" => h \in abandoned

(* The lock is held from the choice of the listener to its return. *)
CalledLocked ==
  readPc \in {"inListener", "selfLocked"} =>
    csAsyncListener = "reader" /\ called = asyncListener

(* Only the destructor tells the thread to end. *)
EndIsAsked ==
  /\ readEndEvent => appPc \in {"joining", "freeing", "none"}
  /\ endSeen => readEndEvent

StopIsReported ==
  readPc = "exited" /\ appPc \in {"awaitStart", "ready", "setting"} => receptionStopped

LifeInv == /\ TypeOK /\ ThreadPhases /\ HandlesHeld /\ SendEventsLost
           /\ CalledLocked /\ EndIsAsked /\ StopIsReported /\ OnlyFailuresLeak

-----------------------------------------------------------------------------
LEMMA EventNames ==
  /\ Len(Events) = 4 /\ DOMAIN Events = 1 .. 4
  /\ "port" \in Names /\ "overlap" \notin Names /\ "sendEvent" \notin Names
  /\ \A i \in 1 .. 4 : Events[i] \in Names
  /\ \A n \in Names : n = "port" \/ \E i \in 1 .. 4 : n = Events[i]
BY DEF Events, Names

(* A constructor that throws opens nothing and starts no thread. *)
LEMMA ThrowingSteps ==
  ASSUME OpenFails \/ ConfigureFails \/ CreateEventFails \/ StartThreadFails
  PROVE  /\ Opening
         /\ \E exception \in {"CDCImplException", "system_error"} :
              InitThrows(exception)
BY DEF OpenFails, ConfigureFails, CreateEventFails, StartThreadFails, Opening

(* A command is of a living object. *)
LEMMA SendingObject ==
  ASSUME ThreadPhases, HandlesHeld, SendFails
  PROVE  object > 0 /\ appPc # "none"
BY DEF SendFails, ThreadPhases, HandlesHeld, ThreadAlive

LEMMA TypeInit == Init => TypeOK
<1> SUFFICES ASSUME Init PROVE TypeOK
  OBVIOUS
<1>1. object \in 0 .. MaxObjects /\ pending \in 0 .. MaxPending /\ created \in 0 .. Len(Events)
  BY LifecycleBounds, EventNames DEF Init
<1> QED
  BY <1>1 DEF Init, TypeOK

LEMMA TypeAppSteps ==
  ASSUME TypeOK, ThreadPhases, HandlesHeld,
         Construct \/ Register \/ SendFails \/ Destroy \/ AppStep \/ StartWaitError
  PROVE  TypeOK'
<1>1. CASE Construct
  <2>1. object' \in 0 .. MaxObjects /\ pending' \in 0 .. MaxPending
    BY <1>1, LifecycleBounds DEF Construct, TypeOK
  <2>2. created' \in 0 .. Len(Events)
    BY <1>1, EventNames DEF Construct
  <2> QED
    BY <1>1, <2>1, <2>2 DEF Construct, TypeOK
<1>2. CASE OpenPort
  BY <1>2, EventNames DEF OpenPort, Advance, Own, TypeOK, HandlesHeld, listenVars, eventVars
<1>3. CASE Configure
  BY <1>3 DEF Configure, Advance, TypeOK, listenVars, eventVars
<1>4. CASE CreateEvent
  BY <1>4, EventNames DEF CreateEvent, Advance, Own, TypeOK, HandlesHeld, listenVars, eventVars
<1>5. CASE StartThread
  BY <1>5 DEF StartThread, Advance, TypeOK, listenVars, eventVars
<1>6. CASE OpenFails \/ ConfigureFails \/ CreateEventFails \/ StartThreadFails
  BY <1>6, ThrowingSteps DEF InitThrows, TypeOK, listenVars, eventVars, readVars
<1>7. CASE Constructed
  BY <1>7 DEF Constructed, TypeOK, listenVars, readVars
<1>8. CASE StartTimeout \/ StartWaitError
  BY <1>8 DEF StartTimeout, StartWaitError, Terminate, TypeOK, initVars, listenVars,
              eventVars, readVars
<1>9. CASE Register \/ SetListener \/ Destroy \/ Join
  BY <1>9 DEF Register, SetListener, Destroy, Join, TypeOK, initVars, listenVars,
              eventVars, readVars
<1>10. CASE Free
  BY <1>10 DEF Free, TypeOK, initVars, listenVars, eventVars, readVars
<1>11. CASE SendFails
  <2>1. object \in 1 .. MaxObjects
    BY <1>11, SendingObject DEF TypeOK
  <2> QED
    BY <1>11, <2>1 DEF SendFails, Own, TypeOK, listenVars, eventVars, readVars
<1> QED
  BY <1>1, <1>2, <1>3, <1>4, <1>5, <1>6, <1>7, <1>8, <1>9, <1>10, <1>11 DEF AppStep

LEMMA TypeReaderSteps ==
  ASSUME TypeOK, HandlesHeld,
         ReaderStep \/ ReaderFails \/ ListenerStep \/ DeviceSends \/ UNCHANGED vars
  PROVE  TypeOK'
<1> USE DEF readerFrame, initVars, listenVars, eventVars, readVars
<1>1. CASE ReaderPrepare
  BY <1>1 DEF ReaderPrepare, Own, TypeOK, HandlesHeld
<1>2. CASE ReaderPrepareFails \/ ReaderSignalsStart \/ ReaderFails
  BY <1>2 DEF ReaderPrepareFails, ReaderSignalsStart, ReaderFails, TypeOK
<1>3. CASE ReaderReads
  <2>1. endSeen' \in BOOLEAN
    BY <1>3 DEF ReaderReads
  <2>2. pending' \in 0 .. MaxPending
    BY <1>3, LifecycleBounds DEF ReaderReads, TypeOK
  <2> QED
    BY <1>3, <2>1, <2>2 DEF ReaderReads, TypeOK
<1>4. CASE ReaderEnds \/ ReaderStops
  BY <1>4 DEF ReaderEnds, ReaderStops, ReaderExits, TypeOK
<1>5. CASE ReaderSkips \/ ReaderCalls
  BY <1>5 DEF ReaderSkips, ReaderCalls, TypeOK
<1>6. CASE ReaderNextRound
  BY <1>6 DEF ReaderNextRound, ReaderExits, TypeOK
<1>7. CASE ListenerStep
  BY <1>7 DEF ListenerStep, ListenerReturns, ListenerThrowsReceive, ListenerThrowsOther,
              ListenerRegisters, ListenerDestroys, InListener, Terminate, TypeOK
<1>8. CASE DeviceSends
  BY <1>8, LifecycleBounds DEF DeviceSends, TypeOK
<1>9. CASE UNCHANGED vars
  BY <1>9 DEF vars, TypeOK
<1> QED
  BY <1>1, <1>2, <1>3, <1>4, <1>5, <1>6, <1>7, <1>8, <1>9 DEF ReaderStep

LEMMA TypeStep == TypeOK /\ ThreadPhases /\ HandlesHeld /\ [Next]_vars => TypeOK'
BY TypeAppSteps, TypeReaderSteps DEF Next, Rest

-----------------------------------------------------------------------------
(* The thread's steps leave the application's place alone, and only one of *)
(* them, its start, needs the application to have put it there.            *)
LEMMA ReaderSide ==
  ASSUME ReaderStep \/ ReaderFails \/ ListenerStep \/ DeviceSends
  PROVE  /\ UNCHANGED <<platform, appPc, wanted, initVars, readEndEvent, asyncListener>>
         /\ ThreadAlive
         /\ readPc' # "none"
<1> USE DEF readerFrame, initVars, listenVars, eventVars, readVars, ThreadAlive
<1>1. CASE ReaderStep \/ ReaderFails
  BY <1>1 DEF ReaderStep, ReaderFails, ReaderPrepare, ReaderPrepareFails,
              ReaderSignalsStart, ReaderReads, ReaderEnds, ReaderSkips, ReaderCalls,
              ReaderNextRound, ReaderStops, ReaderExits
<1>2. CASE ListenerStep
  BY <1>2 DEF ListenerStep, ListenerReturns, ListenerThrowsReceive, ListenerThrowsOther,
              ListenerRegisters, ListenerDestroys, InListener, Terminate
<1>3. CASE DeviceSends
  BY <1>3 DEF DeviceSends
<1> QED
  BY <1>1, <1>2, <1>3

(* What the thread does to the open handles: its own event comes and goes. *)
LEMMA ReaderHandles ==
  ASSUME ReaderStep \/ ReaderFails \/ ListenerStep \/ DeviceSends
  PROVE  \/ readPc' # "exited" /\ handles' \in {handles, handles \cup Own({"overlap"})}
         \/ readPc' = "exited" /\ handles' = handles \ Own({"overlap"})
<1> USE DEF readerFrame, initVars, listenVars, eventVars, readVars, ThreadAlive
<1>1. CASE ReaderStep \/ ReaderFails
  BY <1>1 DEF ReaderStep, ReaderFails, ReaderPrepare, ReaderPrepareFails,
              ReaderSignalsStart, ReaderReads, ReaderEnds, ReaderSkips, ReaderCalls,
              ReaderNextRound, ReaderStops, ReaderExits
<1>2. CASE ListenerStep
  BY <1>2 DEF ListenerStep, ListenerReturns, ListenerThrowsReceive, ListenerThrowsOther,
              ListenerRegisters, ListenerDestroys, InListener, Terminate
<1>3. CASE DeviceSends
  BY <1>3 DEF DeviceSends
<1> QED
  BY <1>1, <1>2, <1>3

LEMMA PhasesStep == ThreadPhases /\ [Next]_vars => ThreadPhases'
<1> SUFFICES ASSUME ThreadPhases, [Next]_vars PROVE ThreadPhases'
  OBVIOUS
<1> USE DEF ThreadPhases, Opening, Started, ThreadAlive, initVars, readVars
<1>1. CASE Construct \/ Register \/ SendFails \/ Destroy \/ StartWaitError
  BY <1>1 DEF Construct, Register, SendFails, Destroy, StartWaitError
<1>2. CASE OpenPort \/ Configure \/ CreateEvent \/ StartThread
  BY <1>2 DEF OpenPort, Configure, CreateEvent, StartThread, Advance
<1>3. CASE OpenFails \/ ConfigureFails \/ CreateEventFails \/ StartThreadFails
  BY <1>3, ThrowingSteps DEF InitThrows
<1>4. CASE Constructed \/ StartTimeout \/ SetListener \/ Join \/ Free
  BY <1>4 DEF Constructed, StartTimeout, SetListener, Join, Free
<1>5. CASE ReaderStep \/ ReaderFails \/ ListenerStep \/ DeviceSends
  BY <1>5, ReaderSide
<1>6. CASE UNCHANGED vars
  BY <1>6 DEF vars
<1> QED
  BY <1>1, <1>2, <1>3, <1>4, <1>5, <1>6 DEF Next, AppStep, Rest

LEMMA HandlesStep ==
  TypeOK /\ ThreadPhases /\ HandlesHeld /\ [Next]_vars => HandlesHeld'
<1> SUFFICES ASSUME TypeOK, ThreadPhases, HandlesHeld, [Next]_vars PROVE HandlesHeld'
  OBVIOUS
<1> USE DEF HandlesHeld, ThreadPhases, Opening, Started, ThreadAlive, Own, initVars, readVars
<1>1. CASE Construct
  BY <1>1 DEF Construct, TypeOK
<1>2. CASE Register \/ Destroy \/ StartWaitError \/ Constructed \/ StartTimeout
             \/ SetListener \/ Join
  BY <1>2 DEF Register, Destroy, StartWaitError, Constructed, StartTimeout, SetListener, Join
<1>3. CASE OpenPort
  BY <1>3, EventNames DEF OpenPort, Advance, TypeOK
<1>10. CASE Configure
  BY <1>10 DEF Configure, Advance
<1>4. CASE CreateEvent
  BY <1>4, EventNames DEF CreateEvent, Advance, TypeOK
<1>5. CASE StartThread
  BY <1>5, EventNames DEF StartThread, Advance
<1>6. CASE OpenFails \/ ConfigureFails \/ CreateEventFails \/ StartThreadFails
  BY <1>6, ThrowingSteps DEF InitThrows
<1>7. CASE Free
  BY <1>7 DEF Free
<1>8. CASE ReaderStep \/ ReaderFails \/ ListenerStep \/ DeviceSends
  <2>1. UNCHANGED <<appPc, object, created>> /\ ThreadAlive /\ readPc' # "none"
    BY <1>8, ReaderSide
  <2>2. object > 0
    BY <2>1
  <2>3. \A n \in Names \cup {Events[i] : i \in 1 .. 4} : n # "overlap"
    BY EventNames
  <2>4. \/ readPc' # "exited" /\ handles' \in {handles, handles \cup Own({"overlap"})}
        \/ readPc' = "exited" /\ handles' = handles \ Own({"overlap"})
    BY <1>8, ReaderHandles
  <2>5. \A h \in handles' : h[1] <= object
    BY <2>4, <2>2 DEF TypeOK
  <2>6. \A n \in Names : <<object, n>> \in handles => <<object, n>> \in handles'
    BY <2>4, <2>3
  <2>7. created \in 0 .. 4
    BY EventNames DEF TypeOK
  <2> QED
    BY <2>1, <2>2, <2>4, <2>5, <2>6, <2>7, EventNames
<1>9. CASE UNCHANGED vars
  BY <1>9 DEF vars
<1>11. CASE SendFails
  <2>1. object > 0 /\ object \in Nat
    BY <1>11, SendingObject DEF TypeOK
  <2>2. /\ handles' = handles \cup Own({"sendEvent"})
        /\ UNCHANGED <<appPc, object, created, readPc>>
    BY <1>11 DEF SendFails
  <2>3. \A h \in handles' : h[1] <= object
    BY <2>1, <2>2
  <2> QED
    BY <2>2, <2>3, <2>1
<1> QED
  BY <1>1, <1>2, <1>3, <1>4, <1>5, <1>6, <1>7, <1>8, <1>9, <1>10, <1>11
     DEF Next, AppStep, Rest

LEMMA CalledStep == TypeOK /\ CalledLocked /\ [Next]_vars => CalledLocked'
<1> SUFFICES ASSUME TypeOK, CalledLocked, [Next]_vars PROVE CalledLocked'
  OBVIOUS
<1> USE DEF CalledLocked, initVars, listenVars, readVars
<1>1. CASE Construct \/ Register \/ SendFails \/ Destroy \/ StartWaitError
  BY <1>1 DEF Construct, Register, SendFails, Destroy, StartWaitError
<1>2. CASE OpenPort \/ Configure \/ CreateEvent \/ StartThread
  BY <1>2 DEF OpenPort, Configure, CreateEvent, StartThread, Advance
<1>3. CASE OpenFails \/ ConfigureFails \/ CreateEventFails \/ StartThreadFails
  BY <1>3, ThrowingSteps DEF InitThrows
<1>4. CASE Constructed \/ StartTimeout \/ SetListener \/ Join \/ Free
  BY <1>4 DEF Constructed, StartTimeout, SetListener, Join, Free
<1>5. CASE ReaderStep \/ ReaderFails
  BY <1>5 DEF ReaderStep, ReaderFails, ReaderPrepare, ReaderPrepareFails,
              ReaderSignalsStart, ReaderReads, ReaderEnds, ReaderSkips, ReaderCalls,
              ReaderNextRound, ReaderStops, ReaderExits, readerFrame
<1>6. CASE ListenerStep
  BY <1>6 DEF ListenerStep, ListenerReturns, ListenerThrowsReceive, ListenerThrowsOther,
              ListenerRegisters, ListenerDestroys, InListener, Terminate, readerFrame
<1>7. CASE DeviceSends \/ UNCHANGED vars
  BY <1>7 DEF DeviceSends, vars
<1> QED
  BY <1>1, <1>2, <1>3, <1>4, <1>5, <1>6, <1>7 DEF Next, AppStep, Rest

LEMMA EndStep == EndIsAsked /\ [Next]_vars => EndIsAsked'
<1> SUFFICES ASSUME EndIsAsked, [Next]_vars PROVE EndIsAsked'
  OBVIOUS
<1> USE DEF EndIsAsked, initVars, eventVars, readVars
<1>1. CASE Construct \/ Register \/ SendFails \/ Destroy \/ StartWaitError
  BY <1>1 DEF Construct, Register, SendFails, Destroy, StartWaitError
<1>2. CASE OpenPort \/ Configure \/ CreateEvent \/ StartThread
  BY <1>2 DEF OpenPort, Configure, CreateEvent, StartThread, Advance
<1>3. CASE OpenFails \/ ConfigureFails \/ CreateEventFails \/ StartThreadFails
  BY <1>3, ThrowingSteps DEF InitThrows, Opening
<1>4. CASE Constructed \/ StartTimeout \/ SetListener \/ Join \/ Free
  BY <1>4 DEF Constructed, StartTimeout, SetListener, Join, Free
<1>5. CASE ReaderStep \/ ReaderFails
  <2>1. CASE ReaderReads
    <3>1. endSeen' => readEndEvent
      BY <2>1 DEF ReaderReads
    <3> QED
      BY <2>1, <3>1 DEF ReaderReads, readerFrame
  <2> QED
    BY <1>5, <2>1 DEF ReaderStep, ReaderFails, ReaderPrepare, ReaderPrepareFails,
                ReaderSignalsStart, ReaderEnds, ReaderSkips, ReaderCalls,
                ReaderNextRound, ReaderStops, ReaderExits, readerFrame
<1>6. CASE ListenerStep
  BY <1>6 DEF ListenerStep, ListenerReturns, ListenerThrowsReceive, ListenerThrowsOther,
              ListenerRegisters, ListenerDestroys, InListener, Terminate, readerFrame
<1>7. CASE DeviceSends \/ UNCHANGED vars
  BY <1>7 DEF DeviceSends, vars
<1> QED
  BY <1>1, <1>2, <1>3, <1>4, <1>5, <1>6, <1>7 DEF Next, AppStep, Rest

(* A thread that ends unasked has reported it. *)
LEMMA StopStep ==
  ThreadPhases /\ EndIsAsked /\ StopIsReported /\ [Next]_vars => StopIsReported'
<1> SUFFICES ASSUME ThreadPhases, EndIsAsked, StopIsReported, [Next]_vars
             PROVE  StopIsReported'
  OBVIOUS
<1> USE DEF StopIsReported, initVars, eventVars, readVars
<1>1. CASE Construct \/ Register \/ SendFails \/ Destroy \/ StartWaitError
  BY <1>1 DEF Construct, Register, SendFails, Destroy, StartWaitError
<1>2. CASE OpenPort \/ Configure \/ CreateEvent \/ StartThread
  BY <1>2 DEF OpenPort, Configure, CreateEvent, StartThread, Advance
<1>3. CASE OpenFails \/ ConfigureFails \/ CreateEventFails \/ StartThreadFails
  BY <1>3, ThrowingSteps DEF InitThrows
<1>4. CASE Constructed \/ StartTimeout \/ SetListener \/ Join \/ Free
  BY <1>4 DEF Constructed, StartTimeout, SetListener, Join, Free
<1>5. CASE ReaderStep \/ ReaderFails
  <2>1. CASE ReaderEnds \/ ReaderNextRound
    BY <2>1 DEF ReaderEnds, ReaderNextRound, ReaderExits, readerFrame, EndIsAsked
  <2>2. CASE ReaderStops
    BY <2>2 DEF ReaderStops, ReaderExits, readerFrame
  <2> QED
    BY <1>5, <2>1, <2>2 DEF ReaderStep, ReaderFails, ReaderPrepare, ReaderPrepareFails,
                ReaderSignalsStart, ReaderReads, ReaderSkips, ReaderCalls
<1>6. CASE ListenerStep
  BY <1>6 DEF ListenerStep, ListenerReturns, ListenerThrowsReceive, ListenerThrowsOther,
              ListenerRegisters, ListenerDestroys, InListener, Terminate, readerFrame
<1>7. CASE DeviceSends \/ UNCHANGED vars
  BY <1>7 DEF DeviceSends, vars
<1> QED
  BY <1>1, <1>2, <1>3, <1>4, <1>5, <1>6, <1>7 DEF Next, AppStep, Rest

(* What is lost stays so, and no other step opens such an event. *)
LEMMA LostStep == TypeOK /\ SendEventsLost /\ [Next]_vars => SendEventsLost'
<1> SUFFICES ASSUME TypeOK, SendEventsLost, [Next]_vars PROVE SendEventsLost'
  OBVIOUS
<1> USE DEF SendEventsLost, Own, initVars, readVars
<1>1. CASE Construct \/ Register \/ SendFails \/ Destroy \/ StartWaitError
             \/ Constructed \/ StartTimeout \/ SetListener \/ Join \/ Free
  BY <1>1 DEF Construct, Register, SendFails, Destroy, StartWaitError, Constructed,
              StartTimeout, SetListener, Join, Free
<1>2. CASE OpenPort \/ Configure \/ StartThread
  BY <1>2 DEF OpenPort, Configure, StartThread, Advance
<1>3. CASE CreateEvent
  <2>1. created + 1 \in 1 .. 4
    BY <1>3, EventNames DEF CreateEvent, TypeOK
  <2>2. Events[created + 1] # "sendEvent"
    BY <2>1, EventNames
  <2> QED
    BY <1>3, <2>2 DEF CreateEvent, Advance
<1>4. CASE OpenFails \/ ConfigureFails \/ CreateEventFails \/ StartThreadFails
  BY <1>4, ThrowingSteps DEF InitThrows
<1>5. CASE ReaderStep \/ ReaderFails \/ ListenerStep \/ DeviceSends
  BY <1>5, ReaderSide, ReaderHandles
<1>6. CASE UNCHANGED vars
  BY <1>6 DEF vars
<1> QED
  BY <1>1, <1>2, <1>3, <1>4, <1>5, <1>6 DEF Next, AppStep, Rest

(* No step opens a handle for another object, and those that lose one, or  *)
(* finish with an object, record what they leave.                          *)
LEMMA LeakStep ==
  TypeOK /\ ThreadPhases /\ HandlesHeld /\ SendEventsLost /\ OnlyFailuresLeak /\ [Next]_vars
    => OnlyFailuresLeak'
<1> SUFFICES ASSUME TypeOK, ThreadPhases, HandlesHeld, SendEventsLost, OnlyFailuresLeak,
                    [Next]_vars
             PROVE  OnlyFailuresLeak'
  OBVIOUS
<1> USE DEF OnlyFailuresLeak, Own, initVars, readVars
<1>1. CASE Construct \/ Register \/ SendFails \/ Destroy \/ StartWaitError
             \/ Constructed \/ StartTimeout \/ SetListener \/ Join
  BY <1>1 DEF Construct, Register, SendFails, Destroy, StartWaitError, Constructed,
              StartTimeout, SetListener, Join
<1>2. CASE OpenPort \/ Configure \/ CreateEvent \/ StartThread
  BY <1>2 DEF OpenPort, Configure, CreateEvent, StartThread, Advance
<1>3. CASE OpenFails \/ ConfigureFails \/ CreateEventFails \/ StartThreadFails
  BY <1>3, ThrowingSteps DEF InitThrows
<1>4. CASE Free
  <2>1. \A h \in handles : h[1] = object => h[2] \in Names \/ h \in abandoned
    <3>1. <<object, "overlap">> \notin handles
      BY <1>4 DEF Free, ThreadPhases, HandlesHeld, ThreadAlive
    <3> QED
      BY <3>1 DEF TypeOK, SendEventsLost
  <2>2. \A h \in handles : h[1] = object => h \in Own(Names) \/ h \in abandoned
    BY <2>1 DEF TypeOK
  <2> QED
    BY <1>4, <2>2 DEF Free
<1>5. CASE ReaderStep \/ ReaderFails \/ ListenerStep \/ DeviceSends
  <2>1. UNCHANGED <<appPc, object, abandoned>> /\ appPc # "none"
    BY <1>5, ReaderSide DEF ThreadPhases
  <2> QED
    BY <1>5, <2>1, ReaderHandles
<1>6. CASE UNCHANGED vars
  BY <1>6 DEF vars
<1> QED
  BY <1>1, <1>2, <1>3, <1>4, <1>5, <1>6 DEF Next, AppStep, Rest

-----------------------------------------------------------------------------
LEMMA LifeInvInit == Init => LifeInv
BY TypeInit DEF Init, LifeInv, ThreadPhases, Opening, Started, ThreadAlive, HandlesHeld,
                SendEventsLost, CalledLocked, EndIsAsked, StopIsReported, OnlyFailuresLeak

LEMMA LifeInvStep == LifeInv /\ [Next]_vars => LifeInv'
BY TypeStep, PhasesStep, HandlesStep, LostStep, CalledStep, EndStep, StopStep, LeakStep
   DEF LifeInv

(* The invariant behind the theorems below, of every reachable state.      *)
THEOREM LifeIsOrdered == Spec => []LifeInv
BY LifeInvInit, LifeInvStep, PTL DEF Spec

(* The variables of both threads keep to their types (init, readMsgThread  *)
(* and the destructor).                                                    *)
THEOREM LifecycleTypeCorrect == Spec => []TypeOK
<1>1. LifeInv => TypeOK
  BY DEF LifeInv
<1> QED
  BY <1>1, LifeIsOrdered, PTL

(* A listener that runs is the registered one: setAsyncListener returns    *)
(* only when the one before it runs no more.                               *)
THEOREM ListenersCalledWhileRegistered == Spec => []CalledWhileRegistered
<1>1. LifeInv => CalledWhileRegistered
  BY DEF LifeInv, CalledLocked, CalledWhileRegistered
<1> QED
  BY <1>1, LifeIsOrdered, PTL

(* The reading thread never outlives what it uses (init, ~CDCImplPrivate). *)
THEOREM ReaderAlwaysHasResources == Spec => []ReaderHasResources
<1>1. LifeInv => ReaderHasResources
  BY DEF LifeInv, TypeOK, ThreadPhases, Opening, Started, ThreadAlive, HandlesHeld,
         ReaderHasResources
<1> QED
  BY <1>1, LifeIsOrdered, PTL

(* The destructor closes every handle of its object but those a failed     *)
(* sendCommand has lost (~CDCImplPrivate, sendCommand of Windows).         *)
THEOREM OnlyFailuresLeakHandles == Spec => []OnlyFailuresLeak
<1>1. LifeInv => OnlyFailuresLeak
  BY DEF LifeInv
<1> QED
  BY <1>1, LifeIsOrdered, PTL

(* A reading thread that ends under a living object has reported it        *)
(* (the handlers of readMsgThread).                                        *)
THEOREM StopsAreReported == Spec => []NeverStopsSilently
<1>1. LifeInv => NeverStopsSilently
  BY DEF LifeInv, StopIsReported, NeverStopsSilently
<1> QED
  BY <1>1, LifeIsOrdered, PTL
=============================================================================
