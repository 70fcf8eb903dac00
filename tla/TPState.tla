------------------------------ MODULE TPState ------------------------------
(***************************************************************************)
(* The connection-state monitor of sipcmd: class TPState of src/state.h,   *)
(* with the threads that use it.                                           *)
(*                                                                         *)
(*  - Main runs the command sequence: it sets the state, reads it, and     *)
(*    polls WaitForStateChange(ESTABLISHED).                               *)
(*  - Callbacks are the OPAL threads that run Manager's callbacks: they    *)
(*    set ESTABLISHED or CLOSED.                                           *)
(*  - Handler is an activation of signalHandler: SetState(TERMINATED) on   *)
(*    the stack of the thread the signal was delivered to, which cannot    *)
(*    take a step before the handler has returned.                         *)
(*                                                                         *)
(* Every access to a shared field is a step of its own.  stateSync is a    *)
(* semaphore, so nothing stops the thread that holds it from waiting for   *)
(* it again.  stateEventSync is a PSyncPointAck: a latched event and a     *)
(* latched acknowledgement; the 100 ms bound of every wait on them makes   *)
(* "timed out" an outcome that is always possible.                         *)
(***************************************************************************)
EXTENDS Naturals

CONSTANTS
  Main,         \* the thread of TestProcess::Main
  Callbacks,    \* the OPAL threads
  Handler,      \* the context of a signalHandler activation
  NoThread,     \* the value of host while no handler runs
  Budget,       \* bound: Budget[t] is the number of calls thread t makes
  Signals,      \* bound: the number of signals delivered
  SignalHosts   \* the threads a signal may be delivered to

Threads == {Main} \cup Callbacks
Contexts == Threads \cup {Handler}

ASSUME ThreadsAssumption ==
  /\ Main \notin Callbacks
  /\ Handler \notin Threads
  /\ NoThread \notin Contexts
  /\ SignalHosts \subseteq Threads

ASSUME BoundsAssumption ==
  /\ Budget \in [Threads -> Nat]
  /\ Signals \in Nat

ConnStates == {"STARTING", "CONNECTING", "ESTABLISHED", "CLOSED", "TERMINATED"}

BreakOnState == "ESTABLISHED"   \* the argument of every WaitForStateChange call

VARIABLES
  state,            \* TPState::state
  stateSync,        \* TPState::stateSync, the semaphore's count
  someonewaiting,   \* TPState::someonewaiting
  event,            \* stateEventSync: signalled and not yet consumed
  ack,              \* stateEventSync: acknowledged and not yet consumed
  pc,               \* where each context is inside a TPState operation
  arg,              \* the newstate a context is setting, or "read"
  result,           \* what Main's last GetState or WaitForStateChange returned
  host,             \* the thread the handler interrupted, or NoThread
  calls,            \* calls each thread may still make
  signals           \* signals that may still be delivered

fields == <<state, stateSync, someonewaiting, event, ack>>
vars == <<fields, pc, arg, result, host, calls, signals>>

Init ==
  /\ state = "STARTING"
  /\ stateSync = 1
  /\ someonewaiting = FALSE
  /\ event = FALSE
  /\ ack = FALSE
  /\ pc = [c \in Contexts |-> "idle"]
  /\ arg = [c \in Contexts |-> "read"]
  /\ result = "STARTING"
  /\ host = NoThread
  /\ calls = Budget
  /\ signals = Signals

-----------------------------------------------------------------------------
(* Steps of a context: it is at label from, goes to label to, and is not a *)
(* thread whose stack a running handler sits on.                           *)

At(c, from) == pc[c] = from /\ c # host
Goto(c, to) == pc' = [pc EXCEPT ![c] = to]

(* PSemaphore::Wait and PSemaphore::Signal on stateSync. *)
Acquire == stateSync > 0 /\ stateSync' = stateSync - 1
Release == stateSync' = stateSync + 1

-----------------------------------------------------------------------------
(* Calls.  The handler is entered by the delivery of a signal; a second    *)
(* signal is held back while a handler runs.                               *)

SettableBy(t) ==
  IF t = Main THEN {"CONNECTING", "ESTABLISHED", "TERMINATED"}
              ELSE {"ESTABLISHED", "CLOSED"}

Enter(t, label, a) ==
  /\ At(t, "idle") /\ calls[t] > 0
  /\ Goto(t, label)
  /\ arg' = [arg EXCEPT ![t] = a]
  /\ calls' = [calls EXCEPT ![t] = @ - 1]
  /\ UNCHANGED <<fields, result, host, signals>>

CallSetState(t) == \E s \in SettableBy(t) : Enter(t, "set_lock", s)
CallGetState == Enter(Main, "get_lock", "read")
CallWaitForStateChange == Enter(Main, "wait_lock", "read")

SignalDelivered(t) ==
  /\ signals > 0 /\ host = NoThread /\ t \in SignalHosts
  /\ host' = t
  /\ Goto(Handler, "set_lock")
  /\ arg' = [arg EXCEPT ![Handler] = "TERMINATED"]
  /\ signals' = signals - 1
  /\ UNCHANGED <<fields, result, calls>>

-----------------------------------------------------------------------------
(* SetState(newstate) *)

SetLock_NoLock(c) ==              \* fault: stateSync.Wait() forgotten
  /\ At(c, "set_lock") /\ Goto(c, "set_check")
  /\ UNCHANGED <<fields, arg, result, host, calls, signals>>

SetLock(c) ==
  /\ At(c, "set_lock") /\ Acquire /\ Goto(c, "set_check")
  /\ UNCHANGED <<state, someonewaiting, event, ack, arg, result, host, calls, signals>>

SetCheck_Revive(c) ==             \* fault: the test for TERMINATED is missing
  /\ At(c, "set_check") /\ Goto(c, "set_write")
  /\ UNCHANGED <<fields, arg, result, host, calls, signals>>

SetCheck(c) ==
  /\ At(c, "set_check")
  /\ Goto(c, IF state # "TERMINATED" THEN "set_write" ELSE "set_notify")
  /\ UNCHANGED <<fields, arg, result, host, calls, signals>>

SetWrite(c) ==
  /\ At(c, "set_write")
  /\ state' = arg[c]
  /\ Goto(c, "set_notify")
  /\ UNCHANGED <<stateSync, someonewaiting, event, ack, arg, result, host, calls, signals>>

(* stateEventSync.Signal(100 ms) raises the event, then awaits the ack.    *)
SetNotify(c) ==
  /\ At(c, "set_notify")
  /\ event' = (event \/ someonewaiting)
  /\ Goto(c, IF someonewaiting THEN "set_ack" ELSE "set_unlock")
  /\ UNCHANGED <<state, stateSync, someonewaiting, ack, arg, result, host, calls, signals>>

(* The ack is consumed if it is there, and the wait may time out if not.   *)
SetAcked(c) ==
  /\ At(c, "set_ack")
  /\ ack' = FALSE
  /\ Goto(c, "set_unlock")
  /\ UNCHANGED <<state, stateSync, someonewaiting, event, arg, result, host, calls, signals>>

SetUnlock(c) ==
  /\ At(c, "set_unlock") /\ Release /\ Goto(c, "idle")
  /\ host' = IF c = Handler THEN NoThread ELSE host
  /\ UNCHANGED <<state, someonewaiting, event, ack, arg, result, calls, signals>>

-----------------------------------------------------------------------------
(* GetState() *)

GetLock ==
  /\ At(Main, "get_lock") /\ Acquire /\ Goto(Main, "get_read")
  /\ UNCHANGED <<state, someonewaiting, event, ack, arg, result, host, calls, signals>>

GetRead ==
  /\ At(Main, "get_read") /\ result' = state /\ Goto(Main, "get_unlock")
  /\ UNCHANGED <<fields, arg, host, calls, signals>>

GetUnlock_Twice ==                \* fault: the semaphore is signalled twice
  /\ At(Main, "get_unlock") /\ stateSync' = stateSync + 2 /\ Goto(Main, "idle")
  /\ UNCHANGED <<state, someonewaiting, event, ack, arg, result, host, calls, signals>>

GetUnlock ==
  /\ At(Main, "get_unlock") /\ Release /\ Goto(Main, "idle")
  /\ UNCHANGED <<state, someonewaiting, event, ack, arg, result, host, calls, signals>>

-----------------------------------------------------------------------------
(* WaitForStateChange(ESTABLISHED) *)

WaitLock ==
  /\ At(Main, "wait_lock") /\ Acquire /\ Goto(Main, "wait_check")
  /\ UNCHANGED <<state, someonewaiting, event, ack, arg, result, host, calls, signals>>

WaitCheck_KeepLock ==             \* fault: the early return keeps the semaphore
  /\ At(Main, "wait_check")
  /\ IF state \in {"TERMINATED", BreakOnState}
       THEN Goto(Main, "wait_return") /\ UNCHANGED someonewaiting
       ELSE Goto(Main, "wait_unlock") /\ someonewaiting' = TRUE
  /\ UNCHANGED <<state, stateSync, event, ack, arg, result, host, calls, signals>>

WaitCheck ==
  /\ At(Main, "wait_check")
  /\ IF state \in {"TERMINATED", BreakOnState}
       THEN Goto(Main, "wait_leave") /\ UNCHANGED someonewaiting
       ELSE Goto(Main, "wait_unlock") /\ someonewaiting' = TRUE
  /\ UNCHANGED <<state, stateSync, event, ack, arg, result, host, calls, signals>>

WaitLeave ==
  /\ At(Main, "wait_leave") /\ Release /\ Goto(Main, "wait_return")
  /\ UNCHANGED <<state, someonewaiting, event, ack, arg, result, host, calls, signals>>

(* "return state": the field is read again, after the semaphore is given.  *)
WaitReturn ==
  /\ At(Main, "wait_return") /\ result' = state /\ Goto(Main, "wait_done")
  /\ UNCHANGED <<fields, arg, host, calls, signals>>

WaitDone ==
  /\ At(Main, "wait_done") /\ Goto(Main, "idle")
  /\ UNCHANGED <<fields, arg, result, host, calls, signals>>

WaitUnlock_Late ==                \* fault: someonewaiting is reset on the way out
  /\ At(Main, "wait_unlock") /\ Release /\ Goto(Main, "wait_event")
  /\ someonewaiting' = FALSE
  /\ UNCHANGED <<state, event, ack, arg, result, host, calls, signals>>

WaitUnlock ==
  /\ At(Main, "wait_unlock") /\ Release /\ Goto(Main, "wait_event")
  /\ UNCHANGED <<state, someonewaiting, event, ack, arg, result, host, calls, signals>>

(* The event is consumed if it is there, and the wait may time out if not. *)
WaitEvent_NoTimeout ==            \* fault: the wait for the event is unbounded
  /\ At(Main, "wait_event") /\ event
  /\ event' = FALSE
  /\ Goto(Main, "wait_read")
  /\ UNCHANGED <<state, stateSync, someonewaiting, ack, arg, result, host, calls, signals>>

WaitEvent ==
  /\ At(Main, "wait_event")
  /\ event' = FALSE
  /\ Goto(Main, "wait_read")
  /\ UNCHANGED <<state, stateSync, someonewaiting, ack, arg, result, host, calls, signals>>

WaitRead ==
  /\ At(Main, "wait_read") /\ result' = state /\ Goto(Main, "wait_clear")
  /\ UNCHANGED <<fields, arg, host, calls, signals>>

WaitClear ==
  /\ At(Main, "wait_clear") /\ someonewaiting' = FALSE /\ Goto(Main, "wait_ack")
  /\ UNCHANGED <<state, stateSync, event, ack, arg, result, host, calls, signals>>

WaitAck ==
  /\ At(Main, "wait_ack") /\ ack' = TRUE /\ Goto(Main, "idle")
  /\ UNCHANGED <<state, stateSync, someonewaiting, event, arg, result, host, calls, signals>>

-----------------------------------------------------------------------------
SetStep(c) ==
  SetLock(c) \/ SetCheck(c) \/ SetWrite(c) \/ SetNotify(c) \/ SetAcked(c) \/ SetUnlock(c)

GetStep == GetLock \/ GetRead \/ GetUnlock

WaitStep ==
  \/ WaitLock \/ WaitCheck \/ WaitLeave \/ WaitReturn \/ WaitDone
  \/ WaitUnlock \/ WaitEvent \/ WaitRead \/ WaitClear \/ WaitAck

(* All calls have been made and have returned. *)
Finished ==
  /\ \A c \in Contexts : pc[c] = "idle"
  /\ \A t \in Threads : calls[t] = 0
  /\ UNCHANGED vars

Next ==
  \/ \E t \in Threads : CallSetState(t) \/ SignalDelivered(t)
  \/ CallGetState \/ CallWaitForStateChange
  \/ \E c \in Contexts : SetStep(c)
  \/ GetStep \/ WaitStep
  \/ Finished

(* A thread inside an operation is scheduled until it leaves it; whether   *)
(* and when operations are called or signals sent is up to the program.    *)
Fairness ==
  /\ \A c \in Contexts : WF_vars(SetStep(c))
  /\ WF_vars(GetStep) /\ WF_vars(WaitStep)

Spec == Init /\ [][Next]_vars
FairSpec == Spec /\ Fairness

-----------------------------------------------------------------------------
(* Properties *)

SetLabels == {"set_lock", "set_check", "set_write", "set_notify", "set_ack", "set_unlock"}
MainLabels ==
  {"get_lock", "get_read", "get_unlock",
   "wait_lock", "wait_check", "wait_leave", "wait_return", "wait_done",
   "wait_unlock", "wait_event", "wait_read", "wait_clear", "wait_ack"}

(* Every variable holds a value of the type its declaration gives it, and  *)
(* only Main reads or waits.                                               *)
TypeOK ==
  /\ state \in ConnStates
  /\ stateSync \in {0, 1}
  /\ someonewaiting \in BOOLEAN /\ event \in BOOLEAN /\ ack \in BOOLEAN
  /\ pc \in [Contexts -> {"idle"} \cup SetLabels \cup MainLabels]
  /\ \A c \in Contexts : pc[c] \in MainLabels => c = Main
  /\ arg \in [Contexts -> ConnStates \cup {"read"}]
  /\ result \in ConnStates
  /\ host \in SignalHosts \cup {NoThread}
  /\ calls \in [Threads -> Nat] /\ signals \in Nat

(* The labels between stateSync.Wait() and stateSync.Signal().             *)
InLock(c) ==
  pc[c] \in {"set_check", "set_write", "set_notify", "set_ack", "set_unlock",
             "get_read", "get_unlock", "wait_check", "wait_leave", "wait_unlock"}

(* The semaphore works as a lock on every path through the class: at most  *)
(* one context is between Wait() and Signal(), and a unit is missing from  *)
(* the semaphore exactly while one is - the early return of                *)
(* WaitForStateChange and the handler included (state.h:64-97).            *)
MutualExclusion ==
  /\ \A c, d \in Contexts : InLock(c) /\ InLock(d) => c = d
  /\ stateSync = 0 <=> \E c \in Contexts : InLock(c)

(* No lost wakeup: when nobody is inside SetState, Main never sleeps in    *)
(* stateEventSync.Wait() without a pending event while the state is one it *)
(* waits for.  So the 100 ms timeout is never what delivers the news       *)
(* (state.h:64-71, 81-92).                                                 *)
NoLostWakeup ==
  pc[Main] = "wait_event" /\ stateSync = 1 /\ state \in {"TERMINATED", BreakOnState}
    => event

(* TERMINATED is final: the test and the assignment in SetState are two    *)
(* accesses, and no interleaving of other setters, or of a handler, lets a *)
(* late callback bring a terminated phone back (state.h:66-67).            *)
TerminatedIsFinal == [][state = "TERMINATED" => state' = "TERMINATED"]_state

(* The handler waits for the semaphore that the thread it interrupted has. *)
SelfBlocked == host # NoThread /\ InLock(host)

(* Every operation that is called returns, whatever the other threads do,  *)
(* unless a signal is taken by the thread that holds the semaphore: no     *)
(* other wait in the class is unbounded (state.h:64-97, main.cpp:158).     *)
CallsReturn == \A t \in Threads : pc[t] # "idle" ~> (pc[t] = "idle" \/ SelfBlocked)

(* A wait that is under way when the phone is terminated reports it, with  *)
(* the same exception.                                                     *)
TerminationReported ==
  (state = "TERMINATED"
     /\ pc[Main] \in {"wait_lock", "wait_check", "wait_leave", "wait_return",
                      "wait_unlock", "wait_event", "wait_read"})
    ~> ((pc[Main] = "idle" /\ result = "TERMINATED") \/ SelfBlocked)

(* SIGINT and SIGTERM terminate the phone: once signalHandler runs, the    *)
(* state becomes TERMINATED (main.cpp:153-162).                            *)
SignalTakesEffect == host # NoThread ~> state = "TERMINATED"

(* The class implements a single register (StateRegister): a write takes   *)
(* effect where the state is tested or assigned, a read where it is read.  *)
Phase(label) ==
  IF label = "idle" THEN "ready"
  ELSE IF label \in {"set_notify", "set_ack", "set_unlock", "get_unlock",
                     "wait_done", "wait_clear", "wait_ack"} THEN "done"
  ELSE "called"

Register == INSTANCE StateRegister WITH
  Clients <- Contexts, Values <- ConnStates, Final <- "TERMINATED",
  Initial <- "STARTING", Read <- "read",
  value <- state, phase <- [c \in Contexts |-> Phase(pc[c])],
  request <- arg, reply <- result

ImplementsRegister == Register!Spec
=============================================================================
