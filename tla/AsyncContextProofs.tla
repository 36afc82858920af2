------------------------- MODULE AsyncContextProofs -------------------------
(***************************************************************************)
(* Theorems about AsyncContext for any number of threads, requests, ring   *)
(* entries and any set of faults.                                          *)
(***************************************************************************)
EXTENDS AsyncContext, TLAPS

-----------------------------------------------------------------------------
(***************************************************************************)
(* Type correctness.                                                       *)
(***************************************************************************)
LEMMA TypeAccept ==
  ASSUME TypeOK, NEW t \in Threads, Accept(t)
  PROVE  /\ m_submission_' \in Threads \cup {NoThread}
         /\ m_callbacks_' \in Threads \cup {NoThread}
         /\ pc' \in [Threads -> PcVals]
         /\ status' \in [Ops -> {"new", "adding", "accepted", "rejected"}]
         /\ lpc' \in LpcVals
<1> USE DEF TypeOK, Accept
<1>1. m_submission_' = NoThread /\ m_callbacks_' \in {m_callbacks_, NoThread}
  BY DEF Unlock
<1>2. pc' \in [Threads -> PcVals]
  BY DEF Goto, PcVals
<1>3. status' \in [Ops -> {"new", "adding", "accepted", "rejected"}]
  OBVIOUS
<1>4. lpc' \in {lpc, "stopped", "dispatch"}
  OBVIOUS
<1>5. lpc' \in LpcVals
  BY <1>4 DEF LpcVals
<1> QED
  BY <1>1, <1>2, <1>3, <1>5

LEMMA TypeCall ==
  ASSUME TypeOK, NEW t \in Threads, UserCall(t) \/ CallStep(t)
  PROVE  TypeOK'
<1> USE ContextAssumption DEF TypeOK, Threads, Toks, Goto, PcVals, LpcVals,
        ringVars, lockVars, exitVars, loopVars, histVars
<1>1. ASSUME NEW o \in Ops, add_sqe(t, o) PROVE TypeOK'
  BY <1>1 DEF add_sqe, LockSubmission
<1>2. ASSUME NEW o \in Ops, cancel(t, o) PROVE TypeOK'
  BY <1>2 DEF cancel
<1>3. CASE wake(t)
  BY <1>3 DEF wake
<1>4. CASE exit_error(t)
  BY <1>4 DEF exit_error, StoreError
<1>5. CASE exit_error_reordered(t)
  BY <1>5 DEF exit_error_reordered
<1>6. CASE exit(t)
  BY <1>6 DEF exit, SetExiting
<1>7. CASE LockCallbacks(t)
  BY <1>7 DEF LockCallbacks
<1>8. CASE GetSqe(t)
  BY <1>8 DEF GetSqe
<1>9. CASE GetSqeFails(t)
  <2>1. CASE op[t] # Waker
    <3>1. op[t] \in Ops
      BY <2>1
    <3>2. UNCHANGED <<exitVars, lpc, wakerLost>> /\ Goto(t, "idle")
          /\ status' = [status EXCEPT ![op[t]] = "rejected"]
      BY <1>9, <2>1 DEF GetSqeFails
    <3> QED
      BY <1>9, <3>1, <3>2 DEF GetSqeFails, Unlock
  <2>2. CASE op[t] = Waker
    BY <1>9, <2>2 DEF GetSqeFails, Unlock, StoreError
  <2> QED
    BY <2>1, <2>2
<1>10. CASE WakeLoop(t)
  <2>1. CASE op[t] \in Silent
    <3>1. Accept(t)
      BY <1>10, <2>1 DEF WakeLoop
    <3> QED
      BY <1>10, <3>1, TypeAccept DEF WakeLoop
  <2>2. CASE op[t] \notin Silent
    <3>1. pc' = [pc EXCEPT ![t] = "register"] /\ UNCHANGED <<lockVars, status, lpc>>
      BY <1>10, <2>2 DEF WakeLoop
    <3>2. UNCHANGED <<sq, inflight, cq, callbacks_, exitVars, peeked,
                      run_callbacks, op, histVars>>
          /\ evfd' = TRUE
      BY <1>10 DEF WakeLoop
    <3> QED
      BY <3>1, <3>2
  <2> QED
    BY <2>1, <2>2
<1>11. CASE WakeLoopFails(t)
  BY <1>11 DEF WakeLoopFails
<1>12. CASE CancelFailed(t)
  <2>1. /\ callbacks_' \subseteq Toks
        /\ m_submission_' \in Threads \cup {NoThread}
    BY <1>12 DEF CancelFailed
  <2>2. pc' \in [Threads -> PcVals]
    BY <1>12 DEF CancelFailed
  <2>3. status' \in [Ops -> {"new", "adding", "accepted", "rejected"}]
    BY <1>12 DEF CancelFailed
  <2>4. UNCHANGED <<ringVars, m_callbacks_, exitVars, loopVars, op, histVars>>
    BY <1>12 DEF CancelFailed
  <2> QED
    BY <2>1, <2>2, <2>3, <2>4
<1>13. CASE Register(t)
  <2>1. callbacks_' \subseteq Toks
    BY <1>13 DEF Register
  <2>2. UNCHANGED <<ringVars, exitVars, peeked, run_callbacks, op, histVars>>
    BY <1>13 DEF Register
  <2>3. Accept(t)
    BY <1>13 DEF Register
  <2> QED
    BY <2>1, <2>2, <2>3, TypeAccept
<1>14. CASE ExitFlag(t)
  BY <1>14 DEF ExitFlag, SetExiting
<1>15. CASE ExitStore(t)
  BY <1>15 DEF ExitStore, StoreError
<1>16. CASE ExitWake(t)
  BY <1>16 DEF ExitWake
<1>17. CASE ExitWakeFails(t)
  BY <1>17 DEF ExitWakeFails
<1> QED
  BY <1>1, <1>2, <1>3, <1>4, <1>5, <1>6, <1>7, <1>8, <1>9, <1>10, <1>11,
     <1>12, <1>13, <1>14, <1>15, <1>16, <1>17 DEF UserCall, CallStep

LEMMA TypeLoop ==
  ASSUME TypeOK, run \/ LoopStep
  PROVE  TypeOK'
<1> USE ContextAssumption DEF TypeOK, Threads, Toks, Goto, PcVals, LpcVals, At,
        ringVars, lockVars, exitVars, loopVars, histVars
<1>1. CASE init
  BY <1>1 DEF init
<1>2. CASE add_waker
  BY <1>2 DEF add_waker, LockSubmission
<1>3. CASE run
  BY <1>3 DEF run
<1>4. CASE CheckExiting
  BY <1>4 DEF CheckExiting
<1>5. CASE ConsumeExit
  BY <1>5 DEF ConsumeExit
<1>6. CASE GetError
  BY <1>6 DEF GetError
<1>7. CASE ClearError
  BY <1>7 DEF ClearError
<1>8. CASE SubmitLock
  BY <1>8 DEF SubmitLock
<1>9. CASE submit
  BY <1>9 DEF submit
<1>10. CASE SubmitFails
  BY <1>10 DEF SubmitFails
<1>11. CASE wait
  BY <1>11 DEF wait
<1>12. CASE WaitFails
  BY <1>12 DEF WaitFails
<1>13. CASE peek_batch_cqe
  BY <1>13 DEF peek_batch_cqe
<1>14. CASE CollectLock
  BY <1>14 DEF CollectLock
<1>15. CASE Collect
  <2>1. cq # <<>>
    BY <1>15 DEF Collect
  <2>2. Head(cq) \in Cqe /\ Tail(cq) \in Seq(Cqe) /\ Len(Tail(cq)) = Len(cq) - 1
    BY <2>1
  <2>3. run_callbacks' \in Seq(Cqe)
    BY <1>15, <2>2 DEF Collect
  <2>4. peeked' \in 0 .. Len(cq')
    BY <1>15, <2>2 DEF Collect
  <2> QED
    BY <1>15, <2>2, <2>3, <2>4 DEF Collect
<1>16. CASE CollectEnd
  BY <1>16 DEF CollectEnd
<1>17. ASSUME NEW o \in Ops, InvokeUser(o) PROVE TypeOK'
  BY <1>17 DEF InvokeUser, Dispatching
<1>18. CASE UserReturns
  BY <1>18 DEF UserReturns
<1>19. CASE WakerRead
  <2>1. Tail(run_callbacks) \in Seq(Cqe)
    BY <1>19 DEF WakerRead, Dispatching
  <2> QED
    BY <1>19, <2>1 DEF WakerRead, Dispatching
<1>20. CASE WakerFails
  BY <1>20 DEF WakerFails, Dispatching, StoreError
<1>21. CASE RoundEnd
  BY <1>21 DEF RoundEnd
<1> QED
  BY <1>1, <1>2, <1>3, <1>4, <1>5, <1>6, <1>7, <1>8, <1>9, <1>10, <1>11,
     <1>12, <1>13, <1>14, <1>15, <1>16, <1>17, <1>18, <1>19, <1>20, <1>21
     DEF LoopStep

LEMMA TypeKernel ==
  ASSUME TypeOK, Kernel
  PROVE  TypeOK'
<1> USE DEF TypeOK, ringVars, lockVars, exitVars, loopVars, histVars
<1>1. PICK tok \in Toks, ok \in BOOLEAN : Complete(tok, ok)
  BY DEF Kernel, CompleteUser, PollReady, PollFails, Toks
<1>2. [tok |-> tok, ok |-> ok] \in Cqe
  BY DEF Cqe
<1> QED
  BY <1>1, <1>2 DEF Complete

\* Every variable of the context keeps its type.
THEOREM TypeCorrect == Spec => []TypeOK
<1>1. Init => TypeOK
  <2> SUFFICES ASSUME Init PROVE TypeOK
    OBVIOUS
  <2>1. cq \in Seq(Cqe) /\ run_callbacks \in Seq(Cqe) /\ peeked \in 0 .. Len(cq)
    BY DEF Init
  <2>2. pc \in [Threads -> PcVals] /\ op \in [Threads -> Toks]
    BY DEF Init, PcVals, Toks
  <2> QED
    BY <2>1, <2>2 DEF Init, TypeOK, LpcVals
<1>2. TypeOK /\ [Next]_vars => TypeOK'
  <2> SUFFICES ASSUME TypeOK, [Next]_vars PROVE TypeOK'
    OBVIOUS
  <2>1. CASE Next
    BY <2>1, TypeCall, TypeLoop, TypeKernel DEF Next
  <2>2. CASE UNCHANGED vars
    BY <2>2 DEF TypeOK, vars, ringVars, lockVars, exitVars, loopVars, histVars
  <2> QED
    BY <2>1, <2>2
<1> QED
  BY <1>1, <1>2, PTL DEF Spec

-----------------------------------------------------------------------------
(***************************************************************************)
(* Mutual exclusion on the submission ring.  SqExclusive alone is not      *)
(* inductive: that a thread on the ring holds m_submission_ is, together   *)
(* with the fact that the Loop thread makes an API call only where run()   *)
(* runs a callback or is not running.                                      *)
(***************************************************************************)
Holding(t) ==
  \/ pc[t] \in {"lock_cb", "prep", "wake", "register", "cancel", "stuck"}
  \/ t = Loop /\ lpc = "submitting"

LockInv ==
  /\ \A t \in Threads : Holding(t) => m_submission_ = t
  /\ lpc \notin {"init", "stopped", "user", "rearm", "dispatch"} =>
       pc[Loop] = "idle"

LEMMA LockCall ==
  ASSUME TypeOK, LockInv, NEW t \in Threads, UserCall(t) \/ CallStep(t)
  PROVE  LockInv'
<1> USE ContextAssumption DEF TypeOK, LockInv, Holding, Threads, Goto,
        ringVars, lockVars, exitVars, loopVars, histVars
<1>1. ASSUME NEW o \in Ops, add_sqe(t, o) PROVE LockInv'
  BY <1>1 DEF add_sqe, LockSubmission, CanCall
<1>2. ASSUME NEW o \in Ops, cancel(t, o) PROVE LockInv'
  BY <1>2 DEF cancel
<1>3. CASE wake(t)
  BY <1>3 DEF wake
<1>4. CASE exit_error(t)
  BY <1>4 DEF exit_error, CanCall
<1>5. CASE exit_error_reordered(t)
  BY <1>5 DEF exit_error_reordered, CanCall
<1>6. CASE exit(t)
  BY <1>6 DEF exit, SetExiting, CanCall
<1>7. CASE LockCallbacks(t)
  BY <1>7 DEF LockCallbacks
<1>8. CASE GetSqe(t)
  BY <1>8 DEF GetSqe
<1>9. CASE GetSqeFails(t)
  <2>1. pc' = [pc EXCEPT ![t] = "idle"] \/ pc' = [pc EXCEPT ![t] = "exit_flag"]
    BY <1>9 DEF GetSqeFails
  <2>2. lpc' = "dispatch" \/ (lpc' = lpc /\ pc' = [pc EXCEPT ![t] = "idle"])
    BY <1>9 DEF GetSqeFails
  <2> QED
    BY <1>9, <2>1, <2>2 DEF GetSqeFails
<1>10. CASE WakeLoop(t)
  BY <1>10 DEF WakeLoop, Accept, Unlock
<1>11. CASE WakeLoopFails(t)
  BY <1>11 DEF WakeLoopFails
<1>12. CASE CancelFailed(t)
  BY <1>12 DEF CancelFailed
<1>13. CASE Register(t)
  BY <1>13 DEF Register, Accept, Unlock
<1>14. CASE ExitFlag(t)
  BY <1>14 DEF ExitFlag, SetExiting
<1>15. CASE ExitStore(t)
  BY <1>15 DEF ExitStore
<1>16. CASE ExitWake(t)
  BY <1>16 DEF ExitWake
<1>17. CASE ExitWakeFails(t)
  BY <1>17 DEF ExitWakeFails
<1> QED
  BY <1>1, <1>2, <1>3, <1>4, <1>5, <1>6, <1>7, <1>8, <1>9, <1>10, <1>11,
     <1>12, <1>13, <1>14, <1>15, <1>16, <1>17 DEF UserCall, CallStep

LEMMA LockLoop ==
  ASSUME TypeOK, LockInv, run \/ LoopStep
  PROVE  LockInv'
<1> USE ContextAssumption DEF TypeOK, LockInv, Holding, Threads, Goto, At,
        ringVars, lockVars, exitVars, loopVars, histVars
<1>1. CASE init
  BY <1>1 DEF init
<1>2. CASE add_waker
  BY <1>2 DEF add_waker, LockSubmission
<1>3. CASE run
  BY <1>3 DEF run
<1>4. CASE CheckExiting \/ ConsumeExit \/ GetError \/ ClearError
  BY <1>4 DEF CheckExiting, ConsumeExit, GetError, ClearError
<1>5. CASE SubmitLock
  BY <1>5 DEF SubmitLock
<1>6. CASE submit \/ SubmitFails
  BY <1>6 DEF submit, SubmitFails
<1>7. CASE wait \/ WaitFails \/ peek_batch_cqe
  BY <1>7 DEF wait, WaitFails, peek_batch_cqe
<1>8. CASE CollectLock \/ Collect \/ CollectEnd
  BY <1>8 DEF CollectLock, Collect, CollectEnd
<1>9. ASSUME NEW o \in Ops, InvokeUser(o) PROVE LockInv'
  BY <1>9 DEF InvokeUser, Dispatching
<1>10. CASE UserReturns \/ RoundEnd
  BY <1>10 DEF UserReturns, RoundEnd
<1>11. CASE WakerRead
  BY <1>11 DEF WakerRead, Dispatching
<1>12. CASE WakerFails
  BY <1>12 DEF WakerFails, Dispatching
<1> QED
  BY <1>1, <1>2, <1>3, <1>4, <1>5, <1>6, <1>7, <1>8, <1>9, <1>10, <1>11,
     <1>12 DEF LoopStep

LEMMA LockKernel ==
  ASSUME LockInv, Kernel
  PROVE  LockInv'
BY DEF Kernel, CompleteUser, PollReady, PollFails, Complete, LockInv, Holding,
       lockVars, loopVars

LEMMA LockStep == TypeOK /\ LockInv /\ [Next]_vars => LockInv'
<1> SUFFICES ASSUME TypeOK, LockInv, [Next]_vars PROVE LockInv'
  OBVIOUS
<1>1. CASE Next
  BY <1>1, LockCall, LockLoop, LockKernel DEF Next
<1>2. CASE UNCHANGED vars
  BY <1>2 DEF LockInv, Holding, vars, lockVars, loopVars
<1> QED
  BY <1>1, <1>2

\* A thread that has taken m_submission_ and not released it is its holder, and
\* a call made by a callback never meets the loop's own use of the mutex.
THEOREM LockCorrect == Spec => []LockInv
<1>1. Init => LockInv
  BY ContextAssumption DEF Init, LockInv, Holding, Threads
<1> QED
  BY <1>1, LockStep, TypeCorrect, PTL DEF Spec

\* However many threads call add_sqe() while run() submits, no two of them
\* are inside the submission ring at once, whatever system calls fail.
THEOREM SubmissionRingIsExclusive == Spec => []SqExclusive
<1>1. LockInv => SqExclusive
  BY ContextAssumption DEF LockInv, Holding, SqExclusive, OnRing, Threads
<1> QED
  BY <1>1, LockCorrect, PTL

=============================================================================
