-------------------------- MODULE CDCJavaStubProofs --------------------------
(***************************************************************************)
(* What holds of CDCJavaStub for any Java objects, calls and messages.     *)
(***************************************************************************)
EXTENDS CDCJavaStub, TLAPS

(* A reading thread is in stubListener only while its object is alive and  *)
(* listening: registration and destruction wait for it.                    *)
StubAlive ==
  \A j \in JavaObjects : stubPc[j] # "idle" => Alive(j) /\ j \in listening

(* The object being created is alive, but nobody has its handle yet.       *)
CreatingAlive ==
  /\ appPc \in {"getJavaVM", "newGlobalRef"} =>
       self \in JavaObjects /\ Alive(self) /\ self \notin cdcRef
  /\ appPc = "newGlobalRef" => jvm
  /\ appPc = "joining" => self \in cdcRef

(* Unless objects have overlapped there is at most one, and the globals    *)
(* are its own.                                                            *)
GlobalsOwned ==
  ~overlapped =>
    /\ \A i, j \in JavaObjects : Alive(i) /\ Alive(j) => i = j
    /\ \A j \in cdcRef : jvm /\ jCDC = j
    /\ \A j \in JavaObjects : stubPc[j] = "callListener" => jListObj[j] = j

StubInv == TypeOK /\ StubAlive /\ CreatingAlive /\ GlobalsOwned

-----------------------------------------------------------------------------
LEMMA StubInvInit == Init => StubInv
<1> SUFFICES ASSUME Init PROVE StubInv
  OBVIOUS
<1> USE JavaStubAssumption DEF Init
<1>1. TypeOK
  <2>1. outcome \in {"none", "CDCImplException"} \cup UNION {Outcomes(m) : m \in Methods}
    OBVIOUS
  <2>2. /\ cached \in 0 .. Constructors
        /\ calls \in 0 .. MaxCalls /\ messages \in 0 .. MaxMessages
    BY DEF Constructors
  <2>3. /\ cdcImp \in [JavaObjects -> {"none", "alive", "failed", "deleted"}]
        /\ stubPc \in [JavaObjects -> {"idle", "attach", "getListener", "callListener",
                                       "detach"}]
        /\ jListObj \in [JavaObjects -> JavaObjects \cup {NULL}]
    OBVIOUS
  <2> QED
    BY <2>1, <2>2, <2>3 DEF TypeOK
<1>2. StubAlive /\ CreatingAlive
  BY DEF StubAlive, CreatingAlive
<1>3. GlobalsOwned
  BY DEF GlobalsOwned, Alive
<1> QED
  BY <1>1, <1>2, <1>3 DEF StubInv

(* However a call of CDCImpl ends, the native method returns.              *)
LEMMA StubReturns ==
  ASSUME NEW j, NEW method \in Methods, Running, Stub(j, method)
  PROVE  /\ appPc = "idle" /\ j \in cdcRef
         /\ process' \in {"running", "crashed"}
         /\ appPc' = "idle" /\ self' = NULL
         /\ result' \in {"none", "value", "exception"}
         /\ outcome' \in Outcomes(method)
         /\ Running' /\ result' = "value" => outcome' = "ok"
         /\ calls < MaxCalls /\ calls' = calls + 1
         /\ UNCHANGED <<cached, jvm, jCDC, cdcRef, cdcImp, listening, stubVars,
                        messages, overlapped>>
<1>1. CASE method = "plain"
  BY <1>1 DEF Stub, ReturnPlain, Needs, Return, Idle, Running, Outcomes, Caught
<1>2. CASE method = "sendData"
  BY <1>2 DEF Stub, ReturnResponse, Needs, Return, Idle, Running, Outcomes, Caught
<1>3. CASE method = "getStatus"
  BY <1>3 DEF Stub, ReturnStatus, Needs, Return, Idle, Running, Outcomes, Caught
<1>4. CASE method \in {"getUSBDeviceInfo", "getTRModuleInfo"}
  BY <1>4 DEF Stub, ReturnInfo, Needs, Return, Idle, Running, Outcomes, Caught
<1> QED
  BY <1>1, <1>2, <1>3, <1>4 DEF Methods

LEMMA TypeSteps == TypeOK /\ CreatingAlive /\ [Next]_vars => TypeOK'
<1> SUFFICES ASSUME TypeOK, CreatingAlive, [Next]_vars PROVE TypeOK'
  OBVIOUS
<1> USE JavaStubAssumption DEF TypeOK, CreatingAlive, Alive, callVars, stubVars
<1>0. "ok" \in UNION {Outcomes(m) : m \in Methods}
  BY DEF Methods, Outcomes
<1>1. CASE InitStub
  <2>1. appPc' \in {"idle", "unusable"} /\ cached' \in 0 .. Constructors
    BY <1>1 DEF InitStub
  <2>2. self = NULL
    BY <1>1 DEF InitStub
  <2> QED
    BY <1>1, <2>1, <2>2 DEF InitStub
<1>2. CASE GetJavaVM \/ NewGlobalRef
  BY <1>2 DEF GetJavaVM, NewGlobalRef, Return
<1>3. CASE DestroyReturn
  BY <1>0, <1>3 DEF DestroyReturn, Return
<1>4. ASSUME NEW j \in JavaObjects, Create(j) \/ CreateFails(j)
      PROVE  TypeOK'
  BY <1>0, <1>4 DEF Create, CreateFails, Return, Idle, Needs
<1>5. ASSUME NEW j \in JavaObjects,
             DestroyCall(j) \/ RegisterAsyncListener(j) \/ UnregisterAsyncListener(j)
      PROVE  TypeOK'
  BY <1>5 DEF DestroyCall, RegisterAsyncListener, UnregisterAsyncListener, Idle
<1>6. ASSUME NEW j \in JavaObjects, Message(j) \/ ListenerStep(j)
      PROVE  TypeOK'
  BY <1>6 DEF Message, ListenerStep, AttachCurrentThread, GetObjectField, CallVoidMethod,
              DetachCurrentThread, StubAt, GoTo, stubFrame
<1>7. ASSUME NEW j \in JavaObjects, NEW method \in Methods, Stub(j, method)
      PROVE  TypeOK'
  <2>1. Running
    BY <1>7 DEF Stub, Idle
  <2> QED
    BY <1>7, <2>1, StubReturns
<1>8. CASE UNCHANGED vars
  BY <1>8 DEF vars
<1> QED
  BY <1>1, <1>2, <1>3, <1>4, <1>5, <1>6, <1>7, <1>8 DEF Next, Rest

(* Nobody leaves stubListener behind: who destroys or unregisters waits.   *)
LEMMA AliveSteps == StubInv /\ [Next]_vars => StubAlive' /\ CreatingAlive'
<1> SUFFICES ASSUME StubInv, [Next]_vars PROVE StubAlive' /\ CreatingAlive'
  OBVIOUS
<1> USE JavaStubAssumption DEF StubInv, TypeOK, StubAlive, CreatingAlive, Alive, callVars, stubVars
<1>1. CASE InitStub
  BY <1>1 DEF InitStub
<1>2. CASE GetJavaVM \/ NewGlobalRef
  BY <1>2 DEF GetJavaVM, NewGlobalRef, Return
<1>3. CASE DestroyReturn
  BY <1>3 DEF DestroyReturn, Return
<1>4. ASSUME NEW j \in JavaObjects, Create(j) \/ CreateFails(j)
      PROVE  StubAlive' /\ CreatingAlive'
  BY <1>4 DEF Create, CreateFails, Return, Idle
<1>5. ASSUME NEW j \in JavaObjects,
             DestroyCall(j) \/ RegisterAsyncListener(j) \/ UnregisterAsyncListener(j)
      PROVE  StubAlive' /\ CreatingAlive'
  BY <1>5 DEF DestroyCall, RegisterAsyncListener, UnregisterAsyncListener, Idle
<1>6. ASSUME NEW j \in JavaObjects, Message(j) \/ ListenerStep(j)
      PROVE  StubAlive' /\ CreatingAlive'
  BY <1>6 DEF Message, ListenerStep, AttachCurrentThread, GetObjectField, CallVoidMethod,
              DetachCurrentThread, StubAt, GoTo, stubFrame
<1>7. ASSUME NEW j \in JavaObjects, NEW method \in Methods, Stub(j, method)
      PROVE  StubAlive' /\ CreatingAlive'
  <2>1. Running
    BY <1>7 DEF Stub, Idle
  <2> QED
    BY <1>7, <2>1, StubReturns
<1>8. CASE UNCHANGED vars
  BY <1>8 DEF vars
<1> QED
  BY <1>1, <1>2, <1>3, <1>4, <1>5, <1>6, <1>7, <1>8 DEF Next, Rest

(* Only createCDCImpl moves the globals, and it then has the one object    *)
(* that is alive.                                                          *)
LEMMA GlobalsSteps == StubInv /\ [Next]_vars => GlobalsOwned'
<1> SUFFICES ASSUME StubInv, [Next]_vars, ~overlapped' PROVE GlobalsOwned'
  BY DEF GlobalsOwned
<1> USE JavaStubAssumption DEF StubInv, TypeOK, StubAlive, CreatingAlive, GlobalsOwned, Alive,
                               callVars, stubVars
<1>1. CASE InitStub
  BY <1>1 DEF InitStub
<1>2. CASE GetJavaVM \/ NewGlobalRef
  BY <1>2 DEF GetJavaVM, NewGlobalRef, Return
<1>3. CASE DestroyReturn
  BY <1>3 DEF DestroyReturn, Return
<1>4. ASSUME NEW j \in JavaObjects, Create(j) \/ CreateFails(j)
      PROVE  GlobalsOwned'
  <2>1. CASE CreateFails(j)
    BY <2>1 DEF CreateFails, Return
  <2>2. CASE Create(j)
    <3>1. ~overlapped /\ \A i \in JavaObjects : ~Alive(i)
      BY <2>2 DEF Create
    <3>2. cdcRef = {} /\ cdcRef' = {}
      BY <2>2, <3>1 DEF Create
    <3>3. \A i \in JavaObjects : Alive(i)' => i = j
      BY <2>2, <3>1 DEF Create
    <3> QED
      BY <2>2, <3>1, <3>2, <3>3 DEF Create
  <2> QED
    BY <1>4, <2>1, <2>2
<1>5. ASSUME NEW j \in JavaObjects,
             DestroyCall(j) \/ RegisterAsyncListener(j) \/ UnregisterAsyncListener(j)
      PROVE  GlobalsOwned'
  BY <1>5 DEF DestroyCall, RegisterAsyncListener, UnregisterAsyncListener, Idle
<1>6. ASSUME NEW j \in JavaObjects, Message(j) \/ ListenerStep(j)
      PROVE  GlobalsOwned'
  BY <1>6 DEF Message, ListenerStep, AttachCurrentThread, GetObjectField, CallVoidMethod,
              DetachCurrentThread, StubAt, GoTo, stubFrame
<1>7. ASSUME NEW j \in JavaObjects, NEW method \in Methods, Stub(j, method)
      PROVE  GlobalsOwned'
  <2>1. Running
    BY <1>7 DEF Stub, Idle
  <2> QED
    BY <1>7, <2>1, StubReturns
<1>8. CASE UNCHANGED vars
  BY <1>8 DEF vars
<1> QED
  BY <1>1, <1>2, <1>3, <1>4, <1>5, <1>6, <1>7, <1>8 DEF Next, Rest

(* The invariant of the stub holds: who is in stubListener is alive, and   *)
(* the globals belong to the only object (createCDCImpl, destroyCDCImpl).  *)
THEOREM StubIsOrdered == Spec => []StubInv
<1>1. StubInv /\ [Next]_vars => StubInv'
  BY TypeSteps, AliveSteps, GlobalsSteps DEF StubInv
<1> QED
  BY <1>1, StubInvInit, PTL DEF Spec

(* The variables of the stub keep their types.                             *)
THEOREM StubTypeCorrect == Spec => []TypeOK
BY StubIsOrdered, PTL DEF StubInv

(* A message is given to the listener of the object that received it, as   *)
(* long as no two were alive at once (stubListener).                       *)
THEOREM MessagesReachOwner == Spec => []OwnListenerCalled
<1>1. StubInv => OwnListenerCalled
  BY DEF StubInv, TypeOK, StubAlive, GlobalsOwned, OwnListenerCalled
<1> QED
  BY <1>1, StubIsOrdered, PTL

(* After destroyCDCImpl the reading thread is out of stubListener.         *)
THEOREM DestroyedAreQuiet == Spec => []QuietAfterDestroy
<1>1. StubInv => QuietAfterDestroy
  BY DEF StubInv, TypeOK, StubAlive, QuietAfterDestroy, Alive
<1> QED
  BY <1>1, StubIsOrdered, PTL

-----------------------------------------------------------------------------
(* A value is returned only after a call that ended well, which            *)
(* createCDCImpl remembers until it returns.                               *)
Reported ==
  /\ FailuresReported
  /\ appPc \in {"getJavaVM", "newGlobalRef"} => outcome = "ok"

LEMMA ReportedStep == Reported /\ [Next]_vars => Reported'
<1> SUFFICES ASSUME Reported, [Next]_vars PROVE Reported'
  OBVIOUS
<1> USE DEF Reported, FailuresReported, Running, callVars
<1>1. CASE InitStub \/ GetJavaVM \/ NewGlobalRef \/ DestroyReturn
  BY <1>1 DEF InitStub, GetJavaVM, NewGlobalRef, DestroyReturn, Return
<1>2. ASSUME NEW j \in JavaObjects, Create(j) \/ CreateFails(j) \/ DestroyCall(j)
      PROVE  Reported'
  BY <1>2 DEF Create, CreateFails, DestroyCall, Return, Idle
<1>3. ASSUME NEW j \in JavaObjects,
             \/ RegisterAsyncListener(j) \/ UnregisterAsyncListener(j)
             \/ Message(j) \/ ListenerStep(j)
      PROVE  Reported'
  BY <1>3 DEF RegisterAsyncListener, UnregisterAsyncListener, Message, ListenerStep,
              AttachCurrentThread, GetObjectField, CallVoidMethod, DetachCurrentThread,
              StubAt, stubFrame, Idle
<1>4. ASSUME NEW j \in JavaObjects, NEW method \in Methods, Stub(j, method)
      PROVE  Reported'
  BY <1>4, StubReturns DEF Stub, Idle
<1>5. CASE UNCHANGED vars
  BY <1>5 DEF vars
<1> QED
  BY <1>1, <1>2, <1>3, <1>4, <1>5 DEF Next, Rest

(* No failure of a call is taken for a value by Java (the stubs of the     *)
(* operations, createCDCImpl).                                             *)
THEOREM FailuresAreReported == Spec => []FailuresReported
<1>1. Init => Reported
  BY DEF Init, Reported, FailuresReported
<1>2. Reported => FailuresReported
  BY DEF Reported
<1> QED
  BY <1>1, <1>2, ReportedStep, PTL DEF Spec
=============================================================================
