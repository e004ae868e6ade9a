---------------------------- MODULE CDCJavaStub ----------------------------
(***************************************************************************)
(* The native half of the Java binding.  Java objects hold a handle to a   *)
(* CDCImpl each; the stub itself keeps one JavaVM, one reference to a Java *)
(* object and its cache of classes for all of them.  One Java thread calls *)
(* the native methods; every CDCImpl has a reading thread, which calls     *)
(* stubListener with the listener's lock held.                             *)
(*                                                                         *)
(* External are the Java virtual machine, the Java classes (which use only *)
(* handles that createCDCImpl has given them, and stop at an exception of  *)
(* init), and CDCImpl, whose calls end in one of Outcomes.                 *)
(***************************************************************************)
EXTENDS Naturals, FiniteSets

CONSTANTS JavaObjects,   \* the J_CDCImpl objects
          MaxCalls,      \* bound on the calls of stub methods
          MaxMessages    \* bound on the asynchronous messages

NULL == "NULL"

ASSUME JavaStubAssumption == /\ NULL \notin JavaObjects
                             /\ MaxCalls \in Nat /\ MaxMessages \in Nat

VARIABLES
  process,     \* "running", or "crashed": the virtual machine is gone
  cached,      \* how far init came: the number of groups of references cached
  jvm,         \* whether jvm is set
  jCDC,        \* the Java object the global reference is to
  (* the Java thread *)
  appPc,       \* where it is in a native method
  self,        \* the Java object it calls the method on
  cdcRef,      \* Java objects with a handle
  outcome,     \* history: how the last call of CDCImpl ended
  result,      \* what the native method returned
  (* the CDCImpl objects, by the Java object they were made for *)
  cdcImp,
  listening,   \* those with stubListener registered
  stubPc,      \* where their reading threads are in stubListener
  jListObj,    \* the object whose msgListener they have found
  (* bounds and history *)
  calls, messages,
  overlapped   \* an object was created while another was alive

stubVars == <<stubPc, jListObj>>
callVars == <<appPc, self, outcome, result, calls>>
vars == <<process, cached, jvm, jCDC, callVars, cdcRef, cdcImp, listening,
          stubVars, messages, overlapped>>

(* What init caches, in order: the exceptions; the other classes; the      *)
(* field msgListener and the method onGetMessage; the constructors.        *)
Exceptions == 1
Listener == 3
Constructors == 4

Running == process = "running"

Init ==
  /\ process = "running" /\ cached = 0 /\ jvm = FALSE /\ jCDC = NULL
  /\ appPc = "loading" /\ self = NULL /\ outcome = "none" /\ result = "none"
  /\ cdcRef = {} /\ listening = {} /\ calls = 0 /\ messages = 0
  /\ cdcImp = [j \in JavaObjects |-> "none"]
  /\ stubPc = [j \in JavaObjects |-> "idle"]
  /\ jListObj = [j \in JavaObjects |-> NULL]
  /\ overlapped = FALSE

-----------------------------------------------------------------------------
(* J_CDCImpl.init: it gives up at the first NULL.  Java learns of that by  *)
(* the exception of the failed lookup; a NULL from NewGlobalRef or         *)
(* GetObjectClass leaves none.                                             *)
InitStub ==
  /\ Running /\ appPc = "loading"
  /\ cached' \in 0 .. Constructors
  /\ appPc' \in {"idle"} \cup (IF cached' < Constructors THEN {"unusable"} ELSE {})
  /\ UNCHANGED <<process, jvm, jCDC, self, outcome, result, calls, cdcRef, cdcImp,
                 listening, stubVars, messages, overlapped>>

Idle == Running /\ appPc = "idle"

(* ThrowNew, NewObject or GetObjectField with a reference init has not     *)
(* cached end the virtual machine.                                         *)
Needs(references) == process' = IF cached >= references THEN "running" ELSE "crashed"

(* The native method returns: with a value, zero or an exception.          *)
Return(r) == appPc' = "idle" /\ self' = NULL /\ result' = r

Alive(j) == cdcImp[j] = "alive"

(* createCDCImpl: the C++ object is constructed, *)
Create(j) ==
  /\ Idle /\ cdcImp[j] = "none"
  /\ cdcImp' = [cdcImp EXCEPT ![j] = "alive"]
  /\ appPc' = "getJavaVM" /\ self' = j /\ outcome' = "ok"
  /\ overlapped' = (overlapped \/ \E other \in JavaObjects : Alive(other))
  /\ UNCHANGED <<process, cached, jvm, jCDC, result, calls, cdcRef, listening,
                 stubVars, messages>>

(* Fault: the handler throws to Java but does not return. *)
FaultCreateGoesOn(j) ==
  /\ Idle /\ cdcImp[j] = "none"
  /\ cdcImp' = [cdcImp EXCEPT ![j] = "failed"]
  /\ outcome' = "CDCImplException"
  /\ Needs(Exceptions) /\ jvm' = TRUE /\ jCDC' = j
  /\ cdcRef' = cdcRef \cup {j} /\ Return("exception")
  /\ UNCHANGED <<cached, calls, listening, stubVars, messages, overlapped>>

(* which may throw an exception that is caught, or one that is not         *)
(* (CDCLifecycle), or the port's name cannot be converted;                 *)
CreateFails(j) ==
  /\ Idle /\ cdcImp[j] = "none"
  /\ cdcImp' = [cdcImp EXCEPT ![j] = "failed"]
  /\ outcome' = "CDCImplException"
  /\ Needs(Exceptions) \/ process' = "crashed"
  /\ Return("exception")
  /\ UNCHANGED <<cached, jvm, jCDC, calls, cdcRef, listening, stubVars, messages,
                 overlapped>>

(* then jvm is set, *)
GetJavaVM ==
  /\ Running /\ appPc = "getJavaVM"
  /\ \/ jvm' = TRUE /\ appPc' = "newGlobalRef" /\ UNCHANGED <<self, result>>
     \/ Return("zero") /\ UNCHANGED jvm
  /\ UNCHANGED <<process, cached, jCDC, outcome, calls, cdcRef, cdcImp, listening,
                 stubVars, messages, overlapped>>

(* Fault: jCDC keeps the first object. *)
FaultFirstStays ==
  /\ Running /\ appPc = "newGlobalRef"
  /\ jCDC' = (IF jCDC = NULL THEN self ELSE jCDC)
  /\ cdcRef' = cdcRef \cup {self} /\ Return("value")
  /\ UNCHANGED <<process, cached, jvm, outcome, calls, cdcImp, listening, stubVars,
                 messages, overlapped>>

(* and jCDC, which forgets the object it was set to. *)
NewGlobalRef ==
  /\ Running /\ appPc = "newGlobalRef"
  /\ \/ jCDC' = self /\ cdcRef' = cdcRef \cup {self} /\ Return("value")
     \/ jCDC' = NULL /\ Return("zero") /\ UNCHANGED cdcRef
  /\ UNCHANGED <<process, cached, jvm, outcome, calls, cdcImp, listening, stubVars,
                 messages, overlapped>>

(* destroyCDCImpl: delete joins the reading thread. *)
DestroyCall(j) ==
  /\ Idle /\ j \in cdcRef
  /\ appPc' = "joining" /\ self' = j
  /\ UNCHANGED <<process, cached, jvm, jCDC, outcome, result, calls, cdcRef, cdcImp,
                 listening, stubVars, messages, overlapped>>

(* Fault: the reading thread is not joined. *)
FaultDestroy ==
  /\ Running /\ appPc = "joining"
  /\ cdcImp' = [cdcImp EXCEPT ![self] = "deleted"]
  /\ cdcRef' = cdcRef \ {self} /\ listening' = listening \ {self}
  /\ Return("value") /\ outcome' = "ok"
  /\ UNCHANGED <<process, cached, jvm, jCDC, calls, stubVars, messages, overlapped>>

DestroyReturn ==
  /\ Running /\ appPc = "joining" /\ stubPc[self] = "idle"
  /\ cdcImp' = [cdcImp EXCEPT ![self] = "deleted"]
  /\ cdcRef' = cdcRef \ {self} /\ listening' = listening \ {self}
  /\ Return("value") /\ outcome' = "ok"
  /\ UNCHANGED <<process, cached, jvm, jCDC, calls, stubVars, messages, overlapped>>

-----------------------------------------------------------------------------
(* The stubs of the operations.                                            *)

Methods == {"plain", "sendData", "getStatus", "getUSBDeviceInfo", "getTRModuleInfo"}

(* How the call of CDCImpl ends; the parser's exception, that of the       *)
(* allocation and the NULL are what a response of another kind or length   *)
(* leads to (CDCCommand, CDCParser).                                       *)
Outcomes(method) ==
  {"ok", "CDCSendException", "CDCReceiveException"}
    \cup (IF method = "sendData" THEN {"CDCMessageParserException"} ELSE {})
    \cup (IF method = "getUSBDeviceInfo" THEN {"bad_alloc"} ELSE {})
    \cup (IF method = "getTRModuleInfo" THEN {"NULL"} ELSE {})

Caught == {"CDCSendException", "CDCReceiveException"}

Translated == IF outcome' \in Caught THEN Exceptions ELSE 0

(* Fault: one of the handlers is forgotten. *)
FaultReturnPlain ==
  /\ Needs(Translated)
  /\ Return(IF outcome' = "CDCSendException" THEN "exception" ELSE "value")

ReturnPlain ==
  /\ Needs(Translated)
  /\ Return(IF outcome' \in Caught THEN "exception" ELSE "value")

(* sendData: nobody catches the exception of the parser. *)
ReturnResponse ==
  /\ IF outcome' = "CDCMessageParserException" THEN process' = "crashed"
                                               ELSE Needs(Translated)
  /\ Return(IF outcome' \in Caught THEN "exception" ELSE "value")

(* getStatus makes its Java object even when an exception is pending. *)
ReturnStatus ==
  /\ Needs(Constructors)
  /\ Return(IF outcome' \in Caught THEN "exception" ELSE "value")

(* getUSBDeviceInfo and getTRModuleInfo go on with the information they    *)
(* have not got, and catch no exception of an allocation; Java may also be *)
(* out of memory for the parts of it.                                      *)
ReturnInfo ==
  IF outcome' = "ok"
    THEN \/ Needs(Constructors) /\ Return("value")
         \/ UNCHANGED process /\ Return("exception")
    ELSE process' = "crashed" /\ Return("none")

Stub(j, method) ==
  /\ Idle /\ j \in cdcRef /\ calls < MaxCalls
  /\ outcome' \in Outcomes(method)
  /\ CASE method = "plain" -> ReturnPlain
       [] method = "sendData" -> ReturnResponse
       [] method = "getStatus" -> ReturnStatus
       [] OTHER -> ReturnInfo
  /\ calls' = calls + 1
  /\ UNCHANGED <<cached, jvm, jCDC, cdcRef, cdcImp, listening, stubVars, messages,
                 overlapped>>

(* registerAsyncListener and unregisterAsyncListener wait for the lock.    *)
RegisterAsyncListener(j) ==
  /\ Idle /\ j \in cdcRef /\ stubPc[j] = "idle"
  /\ listening' = listening \cup {j}
  /\ UNCHANGED <<process, cached, jvm, jCDC, callVars, cdcRef, cdcImp, stubVars,
                 messages, overlapped>>

UnregisterAsyncListener(j) ==
  /\ Idle /\ j \in cdcRef /\ stubPc[j] = "idle"
  /\ listening' = listening \ {j}
  /\ UNCHANGED <<process, cached, jvm, jCDC, callVars, cdcRef, cdcImp, stubVars,
                 messages, overlapped>>

-----------------------------------------------------------------------------
(* stubListener, on the reading thread of j's CDCImpl.                     *)

StubAt(j, pc) == Running /\ stubPc[j] = pc

GoTo(j, pc) == stubPc' = [stubPc EXCEPT ![j] = pc]

stubFrame == <<cached, jvm, jCDC, callVars, cdcRef, cdcImp, listening, overlapped>>

Message(j) ==
  /\ StubAt(j, "idle") /\ Alive(j) /\ j \in listening /\ messages < MaxMessages
  /\ messages' = messages + 1
  /\ GoTo(j, "attach")
  /\ UNCHANGED <<stubFrame, process, jListObj>>

(* A thread that is not attached skips the listener. *)
AttachCurrentThread(j) ==
  /\ StubAt(j, "attach")
  /\ process' = IF jvm THEN "running" ELSE "crashed"
  /\ GoTo(j, "getListener") \/ GoTo(j, "detach")
  /\ UNCHANGED <<stubFrame, jListObj, messages>>

(* GetObjectField(jCDC, jListID), whichever object jCDC is.  With no room  *)
(* for the data the listener is skipped.                                   *)
GetObjectField(j) ==
  /\ StubAt(j, "getListener")
  /\ process' = IF cached >= Listener /\ jCDC # NULL THEN "running" ELSE "crashed"
  /\ jListObj' = [jListObj EXCEPT ![j] = jCDC]
  /\ GoTo(j, "callListener") \/ GoTo(j, "detach")
  /\ UNCHANGED <<stubFrame, messages>>

(* onGetMessage returns, or throws: the exception ends with the detaching. *)
CallVoidMethod(j) ==
  /\ StubAt(j, "callListener")
  /\ GoTo(j, "detach")
  /\ UNCHANGED <<stubFrame, process, jListObj, messages>>

DetachCurrentThread(j) ==
  /\ StubAt(j, "detach")
  /\ GoTo(j, "idle")
  /\ jListObj' = [jListObj EXCEPT ![j] = NULL]
  /\ UNCHANGED <<stubFrame, process, messages>>

ListenerStep(j) ==
  \/ AttachCurrentThread(j) \/ GetObjectField(j) \/ CallVoidMethod(j)
  \/ DetachCurrentThread(j)

(* The application is done, or the virtual machine is gone. *)
Rest == (~Running \/ appPc \in {"idle", "unusable"}) /\ UNCHANGED vars

Next ==
  \/ InitStub \/ GetJavaVM \/ NewGlobalRef \/ DestroyReturn \/ Rest
  \/ \E j \in JavaObjects :
       \/ Create(j) \/ CreateFails(j) \/ DestroyCall(j)
       \/ RegisterAsyncListener(j) \/ UnregisterAsyncListener(j)
       \/ Message(j) \/ ListenerStep(j)
       \/ \E method \in Methods : Stub(j, method)

Spec == Init /\ [][Next]_vars

-----------------------------------------------------------------------------
TypeOK ==
  /\ process \in {"running", "crashed"} /\ cached \in 0 .. Constructors
  /\ jvm \in BOOLEAN /\ jCDC \in JavaObjects \cup {NULL}
  /\ appPc \in {"loading", "unusable", "idle", "getJavaVM", "newGlobalRef", "joining"}
  /\ self \in JavaObjects \cup {NULL} /\ (appPc \in {"loading", "idle"} => self = NULL)
  /\ outcome \in {"none", "CDCImplException"} \cup UNION {Outcomes(m) : m \in Methods}
  /\ result \in {"none", "value", "zero", "exception"}
  /\ cdcRef \subseteq {j \in JavaObjects : Alive(j)} /\ listening \subseteq cdcRef
  /\ cdcImp \in [JavaObjects -> {"none", "alive", "failed", "deleted"}]
  /\ stubPc \in [JavaObjects -> {"idle", "attach", "getListener", "callListener",
                                 "detach"}]
  /\ jListObj \in [JavaObjects -> JavaObjects \cup {NULL}]
  /\ calls \in 0 .. MaxCalls /\ messages \in 0 .. MaxMessages
  /\ overlapped \in BOOLEAN

(* A message is given to the listener of the Java object whose CDCImpl     *)
(* received it, and the virtual machine and the object are there to look   *)
(* for it, as long as no object was created while another was alive        *)
(* (stubListener, jvm, jCDC).                                              *)
OwnListenerCalled ==
  ~overlapped =>
    \A j \in JavaObjects : /\ stubPc[j] # "idle" => jvm
                          /\ stubPc[j] = "callListener" => jListObj[j] = j

(* Java takes a call for successful only if the call of CDCImpl was, and   *)
(* gets a handle only to an object that exists: what fails in C++ is an    *)
(* exception, a zero handle or the end of the virtual machine.             *)
FailuresReported == Running /\ result = "value" => outcome \in {"none", "ok"}

(* Once destroyCDCImpl has returned the reading thread is out of           *)
(* stubListener and out of Java (delete joins it).                         *)
QuietAfterDestroy == \A j \in JavaObjects : cdcImp[j] = "deleted" => stubPc[j] = "idle"
=============================================================================
