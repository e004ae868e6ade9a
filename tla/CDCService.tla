----------------------------- MODULE CDCService -----------------------------
(***************************************************************************)
(* What a CDCImpl object promises the application that calls it, one call  *)
(* at a time, without its threads, its events and its device: how a call   *)
(* may end.  A call that gave up waiting leaves an answer that may still   *)
(* come (abandoned), and until it is settled later calls may be given the  *)
(* answer to an earlier one.  CDCCommand implements this.                  *)
(***************************************************************************)
EXTENDS Naturals

VARIABLES phase,          \* "idle", "busy" in a call, "closing" or "closed"
          call,           \* the number of the call
          stopped,        \* reception is stopped
          stoppedBefore,  \* it was when the call began
          abandoned,      \* an answer to an earlier call may still come
          last            \* how the last call ended, and the call whose
                          \* answer was returned last

vars == <<phase, call, stopped, stoppedBefore, abandoned, last>>

Documented == {"CDCSendException", "CDCReceiveException"}

Init ==
  /\ phase = "idle" /\ call = 0
  /\ stopped = FALSE /\ stoppedBefore = FALSE /\ abandoned = FALSE
  /\ last = [kind |-> "none", answers |-> 0]

Call ==
  /\ phase = "idle"
  /\ phase' = "busy" /\ call' = call + 1 /\ stoppedBefore' = stopped
  /\ UNCHANGED <<stopped, abandoned, last>>

(* What an earlier call left has been used up, or never came. *)
Settle ==
  /\ phase = "busy" /\ abandoned /\ ~abandoned'
  /\ UNCHANGED <<phase, call, stopped, stoppedBefore, last>>

Ends(kind, answers) ==
  /\ phase = "busy" /\ phase' = "idle"
  /\ last' = [kind |-> kind, answers |-> answers]
  /\ UNCHANGED <<call, stopped, stoppedBefore>>

(* The answers do not go back to those of older calls. *)
Answer ==
  /\ ~stoppedBefore
  /\ \E n \in last.answers .. call : Ends("ok", n) /\ (abandoned \/ n = call)
  /\ UNCHANGED abandoned

(* After reception has stopped a call is refused. *)
Fail ==
  \E kind \in Documented :
    /\ stoppedBefore => kind = "CDCSendException"
    /\ Ends(kind, last.answers)
    /\ abandoned => abandoned'

(* An answer to another call may also be misread. *)
Misread ==
  /\ abandoned /\ ~stoppedBefore
  /\ \E kind \in {"CDCMessageParserException", "bad_alloc", "undefined"} :
       Ends(kind, last.answers)
  /\ UNCHANGED abandoned

Stop ==
  /\ ~stopped /\ stopped'
  /\ UNCHANGED <<phase, call, stoppedBefore, abandoned, last>>

Close ==
  /\ \/ phase = "idle" /\ phase' = "closing"
     \/ phase = "closing" /\ phase' = "closed"
  /\ UNCHANGED <<call, stopped, stoppedBefore, abandoned, last>>

Next == Call \/ Settle \/ Answer \/ Fail \/ Misread \/ Stop \/ Close

Spec == Init /\ [][Next]_vars
=============================================================================
