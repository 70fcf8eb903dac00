---------------------------- MODULE TPStateProofs ----------------------------
(***************************************************************************)
(* Safety of the TPState monitor, and its refinement of StateRegister, for *)
(* every set of OPAL threads, every number of calls and every placement of *)
(* signals.                                                                *)
(***************************************************************************)
EXTENDS TPState, TLAPS

(* The states that end WaitForStateChange(ESTABLISHED).                    *)
EndsWait == {"TERMINATED", BreakOnState}

(* A context inside SetState carries a state, and one that reads does not. *)
ArgInv ==
  \A c \in Contexts :
    /\ pc[c] \in SetLabels => arg[c] \in ConnStates
    /\ pc[c] \in MainLabels => arg[c] = "read"

(* The handler is in SetState exactly while it sits on a thread's stack.   *)
HandlerInv == host = NoThread <=> pc[Handler] = "idle"

(* someonewaiting tells where Main is: raised under the semaphore, cleared *)
(* without it.                                                             *)
WaitingInv ==
  someonewaiting <=>
    pc[Main] \in {"wait_unlock", "wait_event", "wait_read", "wait_clear"}

(* What was tested under the semaphore is still so when it is acted on.    *)
CheckedInv ==
  /\ \A c \in Contexts : pc[c] = "set_write" => state # "TERMINATED"
  /\ pc[Main] = "wait_unlock" => state \notin EndsWait

(* News that Main sleeps on has been signalled, or its bearer is about to. *)
NewsInv ==
  pc[Main] = "wait_event" /\ state \in EndsWait
    => event \/ \E c \in Contexts : pc[c] = "set_notify"

IInv ==
  TypeOK /\ MutualExclusion /\ ArgInv /\ HandlerInv /\ WaitingInv /\ CheckedInv /\ NewsInv

USE DEF Threads, Contexts

-----------------------------------------------------------------------------
(* The inductive invariant holds initially.                                *)
LEMMA InitInv == Init => IInv
<1> SUFFICES ASSUME Init PROVE IInv
  OBVIOUS
<1> USE ThreadsAssumption, BoundsAssumption DEF Init
<1>1. TypeOK
  BY DEF TypeOK, ConnStates, MainLabels
<1>2. MutualExclusion
  BY DEF MutualExclusion, InLock
<1>3. ArgInv /\ HandlerInv /\ WaitingInv /\ CheckedInv /\ NewsInv
  BY DEF ArgInv, HandlerInv, WaitingInv, CheckedInv, NewsInv, SetLabels, MainLabels
<1>4. QED
  BY <1>1, <1>2, <1>3 DEF IInv

(* Every step of every context preserves it: one case per action.          *)
LEMMA StepInv == IInv /\ [Next]_vars => IInv'
<1> SUFFICES ASSUME IInv, [Next]_vars PROVE IInv'
  OBVIOUS
<1> USE ThreadsAssumption, BoundsAssumption
     DEF IInv, TypeOK, MutualExclusion, ArgInv, HandlerInv, WaitingInv, CheckedInv, NewsInv,
         InLock, EndsWait, BreakOnState, ConnStates, SetLabels, MainLabels, At, Goto, fields
<1>1. ASSUME NEW t \in Threads, CallSetState(t) PROVE IInv'
  BY <1>1 DEF CallSetState, Enter, SettableBy
<1>2. ASSUME NEW t \in Threads, SignalDelivered(t) PROVE IInv'
  BY <1>2 DEF SignalDelivered
<1>3. CASE CallGetState
  BY <1>3 DEF CallGetState, Enter
<1>4. CASE CallWaitForStateChange
  BY <1>4 DEF CallWaitForStateChange, Enter
<1>5. ASSUME NEW c \in Contexts, SetLock(c) PROVE IInv'
  BY <1>5 DEF SetLock, Acquire
<1>6. ASSUME NEW c \in Contexts, SetCheck(c) PROVE IInv'
  BY <1>6 DEF SetCheck
<1>7. ASSUME NEW c \in Contexts, SetWrite(c) PROVE IInv'
  BY <1>7 DEF SetWrite
<1>8. ASSUME NEW c \in Contexts, SetNotify(c) PROVE IInv'
  BY <1>8 DEF SetNotify
<1>9. ASSUME NEW c \in Contexts, SetAcked(c) PROVE IInv'
  <2>1. TypeOK'
    BY <1>9 DEF SetAcked
  <2>2. MutualExclusion'
    BY <1>9 DEF SetAcked
  <2>3. ArgInv'
    BY <1>9 DEF SetAcked
  <2>4. HandlerInv'
    BY <1>9 DEF SetAcked
  <2>5. WaitingInv'
    BY <1>9 DEF SetAcked
  <2>6. CheckedInv'
    BY <1>9 DEF SetAcked
  <2>7. NewsInv'
    BY <1>9 DEF SetAcked
  <2> QED
    BY <2>1, <2>2, <2>3, <2>4, <2>5, <2>6, <2>7
<1>10. ASSUME NEW c \in Contexts, SetUnlock(c) PROVE IInv'
  BY <1>10 DEF SetUnlock, Release
<1>11. CASE GetLock
  BY <1>11 DEF GetLock, Acquire
<1>12. CASE GetRead
  BY <1>12 DEF GetRead
<1>13. CASE GetUnlock
  BY <1>13 DEF GetUnlock, Release
<1>14. CASE WaitLock
  BY <1>14 DEF WaitLock, Acquire
<1>15. CASE WaitCheck
  <2>1. TypeOK'
    <3>1. pc' \in [Contexts -> {"idle"} \cup SetLabels \cup MainLabels]
      BY <1>15 DEF WaitCheck
    <3>2. \A c \in Contexts : pc'[c] \in MainLabels => c = Main
      BY <1>15 DEF WaitCheck
    <3>3. someonewaiting' \in BOOLEAN
      BY <1>15 DEF WaitCheck
    <3>4. UNCHANGED <<state, stateSync, event, ack, arg, result, host, calls, signals>>
      BY <1>15 DEF WaitCheck
    <3> QED
      BY <3>1, <3>2, <3>3, <3>4
  <2>2. MutualExclusion'
    <3>1. \A c \in Contexts : InLock(c)' <=> InLock(c)
      BY <1>15 DEF WaitCheck
    <3>2. stateSync' = stateSync
      BY <1>15 DEF WaitCheck
    <3> QED
      BY <3>1, <3>2
  <2>3. ArgInv'
    BY <1>15 DEF WaitCheck
  <2>4. HandlerInv'
    BY <1>15 DEF WaitCheck
  <2>5. WaitingInv'
    BY <1>15 DEF WaitCheck
  <2>6. CheckedInv'
    BY <1>15 DEF WaitCheck
  <2>7. NewsInv'
    BY <1>15 DEF WaitCheck
  <2> QED
    BY <2>1, <2>2, <2>3, <2>4, <2>5, <2>6, <2>7
<1>16. CASE WaitLeave
  BY <1>16 DEF WaitLeave, Release
<1>17. CASE WaitReturn
  BY <1>17 DEF WaitReturn
<1>18. CASE WaitDone
  BY <1>18 DEF WaitDone
<1>19. CASE WaitUnlock
  BY <1>19 DEF WaitUnlock, Release
<1>20. CASE WaitEvent
  <2>1. TypeOK'
    BY <1>20 DEF WaitEvent
  <2>2. MutualExclusion'
    BY <1>20 DEF WaitEvent
  <2>3. ArgInv'
    BY <1>20 DEF WaitEvent
  <2>4. HandlerInv'
    BY <1>20 DEF WaitEvent
  <2>5. WaitingInv'
    BY <1>20 DEF WaitEvent
  <2>6. CheckedInv'
    BY <1>20 DEF WaitEvent
  <2>7. NewsInv'
    BY <1>20 DEF WaitEvent
  <2> QED
    BY <2>1, <2>2, <2>3, <2>4, <2>5, <2>6, <2>7
<1>21. CASE WaitRead
  BY <1>21 DEF WaitRead
<1>22. CASE WaitClear
  <2>1. TypeOK'
    BY <1>22 DEF WaitClear
  <2>2. MutualExclusion'
    BY <1>22 DEF WaitClear
  <2>3. ArgInv'
    BY <1>22 DEF WaitClear
  <2>4. HandlerInv'
    BY <1>22 DEF WaitClear
  <2>5. WaitingInv'
    BY <1>22 DEF WaitClear
  <2>6. CheckedInv'
    BY <1>22 DEF WaitClear
  <2>7. NewsInv'
    BY <1>22 DEF WaitClear
  <2> QED
    BY <2>1, <2>2, <2>3, <2>4, <2>5, <2>6, <2>7
<1>23. CASE WaitAck
  BY <1>23 DEF WaitAck
<1>24. CASE Finished \/ UNCHANGED vars
  BY <1>24 DEF Finished, vars
<1>25. QED
  BY <1>1, <1>2, <1>3, <1>4, <1>5, <1>6, <1>7, <1>8, <1>9, <1>10, <1>11, <1>12,
     <1>13, <1>14, <1>15, <1>16, <1>17, <1>18, <1>19, <1>20, <1>21, <1>22, <1>23, <1>24
     DEF Next, SetStep, GetStep, WaitStep

(* The inductive invariant holds in every reachable state.                 *)
THEOREM Invariance == Spec => []IInv
  BY InitInv, StepInv, PTL DEF Spec

(* The fields of TPState always hold values of their types, and only Main  *)
(* is ever inside GetState or WaitForStateChange.                          *)
THEOREM TypeCorrect == Spec => []TypeOK
<1>1. IInv => TypeOK
  BY DEF IInv
<1>2. QED
  BY <1>1, Invariance, PTL

(* stateSync excludes every two operations from each other and is given    *)
(* back on every path out of one, whatever is interrupted by the handler.  *)
THEOREM LockSafe == Spec => []MutualExclusion
<1>1. IInv => MutualExclusion
  BY DEF IInv
<1>2. QED
  BY <1>1, Invariance, PTL

(* Main never sleeps through a change it waits for, for any number of      *)
(* threads that set the state.                                             *)
THEOREM WakeupSafe == Spec => []NoLostWakeup
<1>1. IInv => NoLostWakeup
  <2> SUFFICES ASSUME IInv, pc[Main] = "wait_event", stateSync = 1, state \in EndsWait
              PROVE  event
    BY DEF NoLostWakeup, EndsWait
  <2>1. \A c \in Contexts : ~ InLock(c)
    BY DEF IInv, MutualExclusion
  <2>2. \A c \in Contexts : pc[c] # "set_notify"
    BY <2>1 DEF InLock
  <2>3. QED
    BY <2>2 DEF IInv, NewsInv
<1>2. QED
  BY <1>1, Invariance, PTL

(* No step of any thread takes the phone out of TERMINATED.                *)
THEOREM TerminatedFinal == Spec => TerminatedIsFinal
<1>1. ASSUME IInv, [Next]_vars, state = "TERMINATED"
      PROVE  state' = "TERMINATED"
  <2> USE <1>1
  <2>1. ASSUME NEW c \in Contexts, SetWrite(c) PROVE FALSE
    BY <2>1 DEF SetWrite, At, IInv, CheckedInv
  <2>2. CASE \A c \in Contexts : ~ SetWrite(c)
    BY <2>2 DEF Next, vars, fields, CallSetState, CallGetState, CallWaitForStateChange,
       Enter, SignalDelivered, SetStep, SetLock, SetCheck, SetNotify, SetAcked, SetUnlock,
       GetStep, GetLock, GetRead, GetUnlock, WaitStep, WaitLock, WaitCheck, WaitLeave,
       WaitReturn, WaitDone, WaitUnlock, WaitEvent, WaitRead, WaitClear, WaitAck, Finished
  <2>3. QED
    BY <2>1, <2>2
<1>2. QED
  BY <1>1, Invariance, PTL DEF Spec, TerminatedIsFinal

-----------------------------------------------------------------------------
(* The refinement of StateRegister.                                        *)

Phases == [c \in Contexts |-> Phase(pc[c])]

(* A step of context c to a label changes the phase of c and no other.     *)
LEMMA PhaseStep ==
  ASSUME TypeOK, NEW c \in Contexts, NEW to, Goto(c, to)
  PROVE  /\ Phases' = [Phases EXCEPT ![c] = Phase(to)]
         /\ Phase(to) = Phase(pc[c]) => Phases' = Phases
  BY DEF TypeOK, Goto, Phases

LEMMA RegisterInit == Init => Register!Init
  BY ThreadsAssumption DEF Init, Register!Init, Phase

(* Every step of TPState is a step of the register or leaves it unchanged. *)
LEMMA RegisterStep ==
  IInv /\ [Next]_vars => [Register!Next]_(Register!registerVars)
<1> SUFFICES ASSUME IInv, [Next]_vars
             PROVE  Register!Next \/ UNCHANGED <<state, Phases, arg, result>>
  BY DEF Register!registerVars, Phases
<1>t. TypeOK /\ Main \in Contexts /\ Handler \in Contexts /\ Threads \subseteq Contexts
  BY DEF IInv
(* Calls *)
<1>1. ASSUME NEW t \in Threads, CallSetState(t) PROVE Register!Next
  <2>1. PICK s \in SettableBy(t) : Enter(t, "set_lock", s)
    BY <1>1 DEF CallSetState
  <2>2. s \in ConnStates
    BY DEF SettableBy, ConnStates
  <2>3. Phases' = [Phases EXCEPT ![t] = "called"] /\ Phases[t] = "ready"
    BY <1>t, <2>1, PhaseStep DEF Enter, Phase, Phases, At
  <2>4. Register!Call(t, s)
    BY <2>1, <2>3 DEF Register!Call, Enter, fields, Phases
  <2>5. QED
    BY <2>2, <2>4 DEF Register!Next
<1>2. ASSUME NEW t \in Threads, SignalDelivered(t) PROVE Register!Next
  <2>1. pc[Handler] = "idle"
    BY <1>2 DEF SignalDelivered, IInv, HandlerInv
  <2>2. Goto(Handler, "set_lock")
    BY <1>2 DEF SignalDelivered
  <2>3. Phases' = [Phases EXCEPT ![Handler] = Phase("set_lock")]
    BY <1>t, <2>2, PhaseStep
  <2>4. Phase("set_lock") = "called" /\ Phases[Handler] = "ready"
    BY <1>t, <2>1 DEF Phase, Phases
  <2>5. Register!Call(Handler, "TERMINATED")
    BY <1>2, <2>3, <2>4 DEF Register!Call, SignalDelivered, fields, Phases
  <2>6. QED
    BY <1>t, <2>5 DEF Register!Next, ConnStates
<1>3. ASSUME NEW to \in {"get_lock", "wait_lock"}, Enter(Main, to, "read")
      PROVE  Register!Next
  <2>1. Phases' = [Phases EXCEPT ![Main] = "called"] /\ Phases[Main] = "ready"
    BY <1>t, <1>3, PhaseStep DEF Enter, Phase, Phases, At
  <2>2. Register!Call(Main, "read")
    BY <1>3, <2>1 DEF Register!Call, Enter, fields, Phases
  <2>3. QED
    BY <1>t, <2>2 DEF Register!Next
(* A write takes effect: where SetState finds the phone terminated, or     *)
(* where it assigns the state.                                             *)
<1>4. ASSUME NEW c \in Contexts,
             pc[c] \in {"set_check", "set_write"}, Goto(c, "set_notify"),
             state' = (IF state = "TERMINATED" THEN state ELSE arg[c]),
             UNCHANGED <<arg, result>>
      PROVE  Register!Next
  <2>1. arg[c] # "read"
    BY <1>4 DEF IInv, ArgInv, SetLabels, ConnStates
  <2>2. Phases' = [Phases EXCEPT ![c] = "done"] /\ Phases[c] = "called"
    BY <1>t, <1>4, PhaseStep DEF Phase, Phases
  <2>3. Register!WriteTakesEffect(c)
    BY <1>4, <2>1, <2>2 DEF Register!WriteTakesEffect, Phases
  <2>4. QED
    BY <2>3 DEF Register!Next
(* A read takes effect: where the field is read.                           *)
<1>5. ASSUME NEW from \in {"get_read", "wait_return", "wait_read"},
             NEW to \in {"get_unlock", "wait_done", "wait_clear"},
             pc[Main] = from, Goto(Main, to), result' = state, UNCHANGED <<state, arg>>
      PROVE  Register!Next
  <2>1. arg[Main] = "read"
    BY <1>t, <1>5 DEF IInv, ArgInv, MainLabels
  <2>2. Phases' = [Phases EXCEPT ![Main] = "done"] /\ Phases[Main] = "called"
    BY <1>t, <1>5, PhaseStep DEF Phase, Phases
  <2>3. Register!ReadTakesEffect(Main)
    BY <1>5, <2>1, <2>2 DEF Register!ReadTakesEffect, Phases
  <2>4. QED
    BY <1>t, <2>3 DEF Register!Next
(* Returns *)
<1>6. ASSUME NEW c \in Contexts,
             pc[c] \in {"set_unlock", "get_unlock", "wait_done", "wait_ack"},
             Goto(c, "idle"), UNCHANGED <<state, arg, result>>
      PROVE  Register!Next
  <2>1. Phases' = [Phases EXCEPT ![c] = "ready"] /\ Phases[c] = "done"
    BY <1>t, <1>6, PhaseStep DEF Phase, Phases
  <2>2. Register!Return(c)
    BY <1>6, <2>1 DEF Register!Return, Phases
  <2>3. QED
    BY <2>2 DEF Register!Next
(* Steps inside an operation that leave its phase alone                    *)
<1>7. ASSUME NEW c \in Contexts, NEW to, Goto(c, to), Phase(to) = Phase(pc[c]),
             UNCHANGED <<state, arg, result>>
      PROVE  UNCHANGED <<state, Phases, arg, result>>
  BY <1>t, <1>7, PhaseStep
(* The actions                                                             *)
<1>8. ASSUME NEW c \in Contexts, SetStep(c)
      PROVE  Register!Next \/ UNCHANGED <<state, Phases, arg, result>>
  <2>1. CASE SetLock(c)
    BY <1>7, <2>1 DEF SetLock, At, Phase
  <2>2. CASE SetCheck(c) /\ state = "TERMINATED"
    BY <1>4, <2>2 DEF SetCheck, At, fields
  <2>3. CASE SetCheck(c) /\ state # "TERMINATED"
    BY <1>7, <2>3 DEF SetCheck, At, fields, Phase
  <2>4. CASE SetWrite(c)
    BY <1>4, <2>4 DEF SetWrite, At, IInv, CheckedInv
  <2>5. CASE SetNotify(c)
    BY <1>7, <2>5 DEF SetNotify, At, Phase
  <2>6. CASE SetAcked(c)
    BY <1>7, <2>6 DEF SetAcked, At, Phase
  <2>7. CASE SetUnlock(c)
    BY <1>6, <2>7 DEF SetUnlock, At
  <2>8. QED
    BY <1>8, <2>1, <2>2, <2>3, <2>4, <2>5, <2>6, <2>7 DEF SetStep
<1>9. ASSUME GetStep
      PROVE  Register!Next \/ UNCHANGED <<state, Phases, arg, result>>
  <2>1. CASE GetLock
    BY <1>t, <1>7, <2>1 DEF GetLock, At, Phase
  <2>2. CASE GetRead
    BY <1>5, <2>2 DEF GetRead, At, fields
  <2>3. CASE GetUnlock
    BY <1>t, <1>6, <2>3 DEF GetUnlock, At
  <2>4. QED
    BY <1>9, <2>1, <2>2, <2>3 DEF GetStep
<1>10. ASSUME WaitStep
       PROVE  Register!Next \/ UNCHANGED <<state, Phases, arg, result>>
  <2>1. CASE WaitLock \/ WaitLeave \/ WaitUnlock \/ WaitEvent \/ WaitClear
    BY <1>t, <1>7, <2>1 DEF WaitLock, WaitLeave, WaitUnlock, WaitEvent, WaitClear, At, Phase
  <2>2. CASE WaitCheck
    BY <1>t, <1>7, <2>2 DEF WaitCheck, At, Phase
  <2>3. CASE WaitReturn \/ WaitRead
    BY <1>5, <2>3 DEF WaitReturn, WaitRead, At, fields
  <2>4. CASE WaitDone \/ WaitAck
    BY <1>t, <1>6, <2>4 DEF WaitDone, WaitAck, At, fields
  <2>5. QED
    BY <1>10, <2>1, <2>2, <2>3, <2>4 DEF WaitStep
<1>11. CASE Finished \/ UNCHANGED vars
  BY <1>11 DEF Finished, vars, fields, Phases
<1>12. QED
  BY <1>1, <1>2, <1>3, <1>8, <1>9, <1>10, <1>11
     DEF Next, CallGetState, CallWaitForStateChange

(* TPState implements the register: for every number of threads, calls and *)
(* signals, each operation takes effect in one instant between its call    *)
(* and its return, although the field is tested, assigned and re-read in   *)
(* separate accesses, some of them without the semaphore.                  *)
THEOREM Linearizable == Spec => ImplementsRegister
  BY RegisterInit, RegisterStep, Invariance, PTL DEF Spec, ImplementsRegister, Register!Spec
=============================================================================
