--------------------------- MODULE PromiseProofs ----------------------------
(***************************************************************************)
(* AsyncContext implements Proactor, under the mapping of AsyncContext: no *)
(* step of a thread, of run() or of the kernel changes what has become of  *)
(* a request in a way that the Proactor does not allow.                    *)
(***************************************************************************)
EXTENDS CallbackProofs

Requests == Ops \ Silent

PromiseStep == [Promise!Next]_<<[o \in Ops \ Silent |-> PhaseOf(o)], Running>>

\* Steps that show nothing at the interface.
LEMMA Stutter ==
  ASSUME \A o \in Requests : PhaseOf(o)' = PhaseOf(o), Running' = Running
  PROVE  PromiseStep
<1>1. [o \in Ops \ Silent |-> PhaseOf(o)]' = [o \in Ops \ Silent |-> PhaseOf(o)]
  BY DEF Requests
<1> QED
  BY <1>1 DEF PromiseStep

\* Steps after which one request has moved on.
LEMMA Moved ==
  ASSUME NEW o \in Requests, NEW from, NEW to,
         PhaseOf(o) = from, PhaseOf(o)' = to,
         \A p \in Requests \ {o} : PhaseOf(p)' = PhaseOf(p)
  PROVE  Promise!Move(o, from, to)
BY DEF Promise!Move, Requests

\* A request whose status, cancellation and invocations stay keeps its phase.
LEMMA PhaseSame ==
  ASSUME NEW o, status'[o] = status[o], invoked'[o] = invoked[o],
         o \in cancelled' <=> o \in cancelled
  PROVE  PhaseOf(o)' = PhaseOf(o)
BY DEF PhaseOf

LEMMA PhasesSame ==
  ASSUME UNCHANGED <<status, invoked, cancelled>>
  PROVE  \A o \in Requests : PhaseOf(o)' = PhaseOf(o)
BY DEF PhaseOf

\* A thread inside add_sqe() works on a request that is new to the caller.
LEMMA AddingIsNew ==
  ASSUME TypeOK, CallInv, MapInv, NEW t \in Threads, Adding(t), op[t] # Waker
  PROVE  /\ op[t] \in Ops /\ status[op[t]] = "adding"
         /\ PhaseOf(op[t]) = "new" /\ op[t] \notin cancelled /\ invoked[op[t]] = 0
<1>1. op[t] \in Ops /\ status[op[t]] = "adding"
  BY DEF TypeOK, Toks, CallInv
<1>2. Nowhere(op[t])
  BY <1>1 DEF MapInv
<1> QED
  BY <1>1, <1>2 DEF Nowhere, PhaseOf

\* add_sqe() returns: the caller is told, and the phase follows.
LEMMA ToldPhase ==
  ASSUME TypeOK, CallInv, MapInv, NEW t \in Threads, Adding(t), op[t] # Waker,
         NEW told \in {"accepted", "rejected"},
         status' = [status EXCEPT ![op[t]] = told],
         UNCHANGED <<invoked, cancelled, lpc>>
  PROVE  PromiseStep
<1>0. PICK o \in Ops : o = op[t]
  BY AddingIsNew
<1>1. PhaseOf(o) = "new" /\ o \notin cancelled /\ invoked[o] = 0
  BY <1>0, AddingIsNew
<1>2. status'[o] = told /\ \A p \in Ops \ {o} : status'[p] = status[p]
  BY <1>0 DEF TypeOK
<1>3. \A p \in Requests \ {o} : PhaseOf(p)' = PhaseOf(p)
  BY <1>2, PhaseSame DEF Requests
<1>4. Running' = Running
  BY DEF Running
<1>5. CASE o \in Silent
  BY <1>3, <1>4, <1>5, Stutter DEF Requests
<1>6. CASE o \notin Silent /\ told = "accepted"
  <2>1. PhaseOf(o)' = "pending" /\ o \in Requests
    BY <1>1, <1>2, <1>6 DEF PhaseOf, Requests
  <2>2. Promise!Move(o, "new", "pending")
    BY <1>1, <1>3, <2>1, Moved
  <2>3. Promise!Accept(o)
    BY <1>4, <2>2 DEF Promise!Accept
  <2> QED
    BY <2>1, <2>3 DEF PromiseStep, Promise!Next, Requests
<1>7. CASE o \notin Silent /\ told = "rejected"
  <2>1. PhaseOf(o)' = "refused" /\ o \in Requests
    BY <1>1, <1>2, <1>7 DEF PhaseOf, Requests
  <2>2. Promise!Move(o, "new", "refused")
    BY <1>1, <1>3, <2>1, Moved
  <2>3. Promise!Refuse(o)
    BY <1>4, <2>2 DEF Promise!Refuse
  <2> QED
    BY <2>1, <2>3 DEF PromiseStep, Promise!Next, Requests
<1> QED
  BY <1>5, <1>6, <1>7

-----------------------------------------------------------------------------
LEMMA PromiseCall ==
  ASSUME TypeOK, CallInv, MapInv, NEW t \in Threads, UserCall(t) \/ CallStep(t)
  PROVE  PromiseStep
<1> USE DEF ringVars, lockVars, exitVars, loopVars, histVars
<1>0. ASSUME UNCHANGED <<status, invoked, cancelled>>, Running' = Running
      PROVE  PromiseStep
  BY <1>0, PhasesSame, Stutter
<1>1. ASSUME NEW o \in Ops, add_sqe(t, o) PROVE PromiseStep
  <2>1. /\ status[o] = "new" /\ status' = [status EXCEPT ![o] = "adding"]
        /\ UNCHANGED <<invoked, cancelled, lpc>>
    BY <1>1 DEF add_sqe, LockSubmission
  <2>2. status'[o] = "adding" /\ \A p \in Ops \ {o} : status'[p] = status[p]
    BY <2>1 DEF TypeOK
  <2>3. PhaseOf(o)' = PhaseOf(o)
    BY <2>1, <2>2 DEF PhaseOf
  <2>4. \A p \in Ops \ {o} : PhaseOf(p)' = PhaseOf(p)
    BY <2>1, <2>2, PhaseSame
  <2>5. Running' = Running
    BY <2>1 DEF Running
  <2> QED
    BY <2>3, <2>4, <2>5, Stutter DEF Requests
<1>2. ASSUME NEW o \in Ops, cancel(t, o) PROVE PromiseStep
  <2>1. /\ status[o] = "accepted" /\ UNCHANGED <<status, invoked, lpc>>
        /\ cancelled' = cancelled \cup ({o} \cap callbacks_)
    BY <1>2 DEF cancel
  <2>2. Running' = Running
    BY <2>1 DEF Running
  <2>3. CASE o \notin callbacks_
    BY <1>0, <2>1, <2>2, <2>3
  <2>4. CASE o \in callbacks_
    <3>1. o \notin Silent /\ o \notin cancelled /\ invoked[o] = 0
      BY <2>1, <2>4 DEF MapInv, Nowhere, OnePlace
    <3>2. PhaseOf(o) = "pending" /\ PhaseOf(o)' = "cancelled" /\ o \in Requests
      BY <2>1, <2>4, <3>1 DEF PhaseOf, Requests
    <3>3. \A p \in Requests \ {o} : PhaseOf(p)' = PhaseOf(p)
      BY <2>1, PhaseSame
    <3>4. Promise!Move(o, "pending", "cancelled")
      BY <3>2, <3>3, Moved
    <3>5. Promise!Cancel(o)
      BY <2>2, <3>4 DEF Promise!Cancel
    <3> QED
      BY <3>2, <3>5 DEF PromiseStep, Promise!Next, Requests
  <2> QED
    BY <2>3, <2>4
<1>3. CASE \/ wake(t) \/ exit_error(t) \/ exit_error_reordered(t) \/ exit(t)
           \/ ExitFlag(t) \/ ExitStore(t) \/ ExitWake(t) \/ ExitWakeFails(t)
  BY <1>0, <1>3 DEF wake, exit_error, exit_error_reordered, exit, SetExiting,
                    ExitFlag, ExitStore, ExitWake, ExitWakeFails, Running
<1>4. CASE LockCallbacks(t) \/ GetSqe(t) \/ WakeLoopFails(t)
  BY <1>0, <1>4 DEF LockCallbacks, GetSqe, WakeLoopFails, Running
<1>5. CASE GetSqeFails(t)
  <2>1. pc[t] = "prep" /\ UNCHANGED <<invoked, cancelled>>
    BY <1>5 DEF GetSqeFails
  <2>2. CASE op[t] # Waker
    <3>1. lpc' = lpc /\ status' = [status EXCEPT ![op[t]] = "rejected"]
      BY <1>5, <2>2 DEF GetSqeFails
    <3> QED
      BY <2>1, <2>2, <3>1, ToldPhase DEF Adding
  <2>3. CASE op[t] = Waker
    <3>1. status' = status /\ lpc' = "dispatch"
      BY <1>5, <2>3 DEF GetSqeFails
    <3>2. Running' = TRUE
      BY <3>1 DEF Running
    <3>3. CASE Running
      BY <1>0, <2>1, <3>1, <3>2, <3>3
    <3>4. CASE ~Running
      <4>1. \A p \in Requests : PhaseOf(p)' = PhaseOf(p)
        BY <2>1, <3>1, PhasesSame
      <4>2. [p \in Ops \ Silent |-> PhaseOf(p)]' = [p \in Ops \ Silent |-> PhaseOf(p)]
        BY <4>1 DEF Requests
      <4>3. Promise!Start
        BY <3>2, <3>4, <4>2 DEF Promise!Start
      <4> QED
        BY <4>3 DEF PromiseStep, Promise!Next
    <3> QED
      BY <3>3, <3>4
  <2> QED
    BY <2>2, <2>3
<1>6. CASE WakeLoop(t)
  <2>1. pc[t] = "wake" /\ UNCHANGED <<invoked, cancelled>>
    BY <1>6 DEF WakeLoop
  <2>2. CASE op[t] \in Silent
    <3>1. op[t] # Waker
      BY <2>2, ContextAssumption
    <3>2. lpc' = lpc /\ status' = [status EXCEPT ![op[t]] = "accepted"]
      BY <1>6, <2>2, <3>1, AcceptUser DEF WakeLoop
    <3> QED
      BY <2>1, <3>1, <3>2, ToldPhase DEF Adding
  <2>3. CASE op[t] \notin Silent
    <3>1. UNCHANGED <<status, lpc>>
      BY <1>6, <2>3 DEF WakeLoop
    <3> QED
      BY <1>0, <2>1, <3>1 DEF Running
  <2> QED
    BY <2>2, <2>3
<1>7. CASE CancelFailed(t)
  <2>1. /\ pc[t] = "cancel" /\ UNCHANGED <<invoked, cancelled, lpc>>
        /\ status' = [status EXCEPT ![op[t]] = "rejected"]
    BY <1>7 DEF CancelFailed
  <2>2. op[t] # Waker
    BY <2>1, ContextAssumption DEF CallInv
  <2> QED
    BY <2>1, <2>2, ToldPhase DEF Adding
<1>8. CASE Register(t)
  <2>1. pc[t] = "register" /\ UNCHANGED <<invoked, cancelled>>
    BY <1>8 DEF Register
  <2>2. CASE op[t] # Waker
    <3>1. lpc' = lpc /\ status' = [status EXCEPT ![op[t]] = "accepted"]
      BY <1>8, <2>2, AcceptUser DEF Register
    <3> QED
      BY <2>1, <2>2, <3>1, ToldPhase DEF Adding
  <2>3. CASE op[t] = Waker
    <3>1. /\ status' = status /\ lpc' \in {"stopped", "dispatch"}
          /\ lpc' = "stopped" <=> lpc = "init"
      BY <1>8, <2>3, AcceptWaker DEF Register
    <3>2. lpc \in {"init", "rearm"}
      BY <2>1, <2>3 DEF CallInv, Adding
    <3>3. Running' = Running
      BY <3>1, <3>2 DEF Running
    <3> QED
      BY <1>0, <2>1, <3>1, <3>3
  <2> QED
    BY <2>2, <2>3
<1> QED
  BY <1>1, <1>2, <1>3, <1>4, <1>5, <1>6, <1>7, <1>8 DEF UserCall, CallStep

LEMMA PromiseLoop ==
  ASSUME TypeOK, RingInv, MapInv, run \/ LoopStep
  PROVE  PromiseStep
<1> USE DEF At, ringVars, lockVars, exitVars, loopVars, histVars
<1>0. ASSUME UNCHANGED <<status, invoked, cancelled>>
      PROVE  PromiseStep
  <2>1. \A p \in Requests : PhaseOf(p)' = PhaseOf(p)
    BY <1>0, PhasesSame
  <2>2. [p \in Ops \ Silent |-> PhaseOf(p)]' = [p \in Ops \ Silent |-> PhaseOf(p)]
    BY <2>1 DEF Requests
  <2>3. CASE Running' = Running
    BY <2>1, <2>3, Stutter
  <2>4. CASE ~Running /\ Running'
    <3>1. Promise!Start
      BY <2>2, <2>4 DEF Promise!Start, Running
    <3> QED
      BY <3>1 DEF PromiseStep, Promise!Next
  <2>5. CASE Running /\ ~Running'
    <3>1. Promise!Return
      BY <2>2, <2>5 DEF Promise!Return, Running
    <3> QED
      BY <3>1 DEF PromiseStep, Promise!Next
  <2> QED
    BY <2>3, <2>4, <2>5 DEF Running
<1>1. CASE init \/ run \/ CheckExiting \/ ConsumeExit \/ GetError \/ ClearError
  BY <1>0, <1>1 DEF init, run, CheckExiting, ConsumeExit, GetError, ClearError
<1>2. CASE add_waker
  BY <1>0, <1>2 DEF add_waker, LockSubmission
<1>3. CASE SubmitLock \/ submit \/ SubmitFails
  BY <1>0, <1>3 DEF SubmitLock, submit, SubmitFails
<1>4. CASE wait \/ WaitFails \/ peek_batch_cqe
  BY <1>0, <1>4 DEF wait, WaitFails, peek_batch_cqe
<1>5. CASE CollectLock \/ Collect \/ CollectEnd
  BY <1>0, <1>5 DEF CollectLock, Collect, CollectEnd
<1>6. ASSUME NEW o \in Ops, InvokeUser(o) PROVE PromiseStep
  <2>1. /\ UNCHANGED <<status, cancelled>> /\ lpc' = "user" /\ Dispatching(o)
        /\ invoked' = [invoked EXCEPT ![o] = @ + 1]
    BY <1>6 DEF InvokeUser
  <2>2. o \in RunToks /\ lpc = "dispatch"
    BY <2>1, DispatchEffect DEF Dispatching
  <2>3. status[o] = "accepted" /\ o \notin Silent
    BY <2>2 DEF MapInv, Nowhere
  <2>4. o \notin cancelled /\ invoked[o] = 0
    BY <2>2, <2>3 DEF MapInv, OnePlace
  <2>5. invoked'[o] = 1 /\ \A p \in Ops \ {o} : invoked'[p] = invoked[p]
    BY <2>1, <2>4 DEF TypeOK
  <2>6. PhaseOf(o) = "pending" /\ PhaseOf(o)' = "done" /\ o \in Requests
    BY <2>1, <2>3, <2>4, <2>5 DEF PhaseOf, Requests
  <2>7. \A p \in Requests \ {o} : PhaseOf(p)' = PhaseOf(p)
    BY <2>1, <2>5, PhaseSame DEF Requests
  <2>8. Promise!Move(o, "pending", "done")
    BY <2>6, <2>7, Moved
  <2>9. Running /\ Running' = Running
    BY <2>1, <2>2 DEF Running
  <2>10. Promise!Invoke(o)
    BY <2>8, <2>9 DEF Promise!Invoke
  <2> QED
    BY <2>6, <2>10 DEF PromiseStep, Promise!Next, Requests
<1>7. CASE UserReturns \/ RoundEnd
  BY <1>0, <1>7 DEF UserReturns, RoundEnd
<1>8. CASE WakerRead \/ WakerFails
  BY <1>0, <1>8 DEF WakerRead, WakerFails
<1> QED
  BY <1>1, <1>2, <1>3, <1>4, <1>5, <1>6, <1>7, <1>8 DEF LoopStep

\* Every behaviour of the context, with any number of threads and requests
\* and any system calls failing, is one the Proactor allows: an accepted
\* request is invoked at most once, inside run(), unless it was cancelled
\* first, and a refused one never.
THEOREM ContextKeepsPromise == Spec => KeepsPromise
<1>1. Init => Promise!Init
  <2> SUFFICES ASSUME Init PROVE Promise!Init
    OBVIOUS
  <2>1. \A o \in Ops : PhaseOf(o) = "new"
    BY DEF Init, PhaseOf
  <2> QED
    BY <2>1 DEF Init, Promise!Init, Running
<1>2. TypeOK /\ CallInv /\ RingInv /\ MapInv /\ [Next]_vars => PromiseStep
  <2> SUFFICES ASSUME TypeOK, CallInv, RingInv, MapInv, [Next]_vars
               PROVE  PromiseStep
    OBVIOUS
  <2>1. CASE Kernel
    <3>1. UNCHANGED <<status, invoked, cancelled, lpc>>
      BY <2>1, KernelEffect DEF histVars, loopVars
    <3> QED
      BY <3>1, PhasesSame, Stutter DEF Running
  <2>2. CASE Next
    BY <2>1, <2>2, PromiseCall, PromiseLoop DEF Next
  <2>3. CASE UNCHANGED vars
    BY <2>3, PhasesSame, Stutter DEF Running, vars, loopVars, histVars
  <2> QED
    BY <2>2, <2>3
<1> QED
  BY <1>1, <1>2, TypeCorrect, CallCorrect, RingCorrect, MapCorrect, PTL
     DEF Spec, KeepsPromise, Promise!Spec, PromiseStep
=============================================================================
