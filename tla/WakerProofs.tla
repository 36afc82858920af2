---------------------------- MODULE WakerProofs -----------------------------
(***************************************************************************)
(* The waker of AsyncContext and the error that exit(result) hands over.   *)
(*  - ReadyInv: a completed poll of the eventfd has something to read, as  *)
(*    long as its callback has not read it;                                *)
(*  - ArmedInv: the poll is somewhere on its way through the rings, and    *)
(*    with the kernel when run() waits;                                    *)
(*  - LossInv: a run() that has lost its waker is on its way to return;    *)
(*  - CounterInv: the counter of the eventfd is above zero, except from    *)
(*    the waker's read of it to the write that follows;                    *)
(*  - ErrorInv: an error that is owed to the caller of run() is stored.    *)
(***************************************************************************)
EXTENDS CallbackProofs

Entries(s) == {s[i] : i \in DOMAIN s}

ReadyInv ==
  \A e \in Entries(cq) \cup Entries(run_callbacks) :
    e.tok = Waker /\ e.ok => evfd

ArmedInv ==
  /\ lpc \notin {"uninit", "init", "rearm"} =>
       wakerLost \/ Waker \in Ring \cup RunToks
  /\ lpc \notin {"collect", "dispatch", "user", "rearm"} => run_callbacks = <<>>
  /\ lpc = "wait" => Waker \notin sq

LossInv ==
  wakerLost /\ ~blind =>
    /\ lpc \in {"dispatch", "user", "rearm", "check", "consume", "get_error",
                "clear_error", "stopped"}
    /\ lpc \in {"dispatch", "user", "rearm"} =>
         exiting_ \/ pc[Loop] = "exit_flag"
    /\ lpc \in {"check", "consume"} => exiting_

CounterInv ==
  /\ lpc \notin {"uninit", "init", "rearm"} =>
       evfd \/ pc[Loop] \in {"exit_flag", "exit_wake"}
  /\ lpc \in {"init", "rearm"} /\ pc[Loop] = "register" => evfd

ErrorInv ==
  /\ owed => exiting_error_
  /\ lpc = "clear_error" => ~owed
  /\ \A t \in Threads : pc[t] # "exit_store"

-----------------------------------------------------------------------------
LEMMA AppendEntries ==
  ASSUME NEW s \in Seq(Cqe), NEW e \in Cqe
  PROVE  Entries(Append(s, e)) \subseteq Entries(s) \cup {e}
BY DEF Entries

LEMMA TailEntries ==
  ASSUME NEW s \in Seq(Cqe), s # <<>>
  PROVE  Entries(Tail(s)) \subseteq Entries(s) /\ Head(s) \in Entries(s)
BY DEF Entries

\* What a call of the context can do to the rings and to the waker.
LEMMA CallEffect ==
  ASSUME TypeOK, LockInv, CallInv, RingInv,
         NEW t \in Threads, UserCall(t) \/ CallStep(t)
  PROVE  /\ UNCHANGED <<inflight, cq, run_callbacks>>
         /\ sq \subseteq sq' /\ (Waker \in sq' \ sq => lpc \in {"init", "rearm"})
         /\ evfd => evfd'
         /\ wakerLost => wakerLost'
         /\ \/ lpc' = lpc
            \/ /\ lpc \in {"init", "rearm"} /\ lpc' \in {"stopped", "dispatch"}
               /\ lpc' = "stopped" => lpc = "init"
               /\ wakerLost' \/ Waker \in sq
<1> USE DEF ringVars, lockVars, exitVars, loopVars, histVars
<1>1. ASSUME NEW o \in Ops, add_sqe(t, o) \/ cancel(t, o)
      PROVE  UNCHANGED <<ringVars, loopVars, wakerLost>>
  BY <1>1 DEF add_sqe, LockSubmission, cancel
<1>2. CASE wake(t) \/ exit_error(t) \/ exit_error_reordered(t) \/ exit(t)
  BY <1>2 DEF wake, exit_error, exit_error_reordered, exit, SetExiting
<1>3. CASE LockCallbacks(t) \/ WakeLoopFails(t) \/ CancelFailed(t)
  BY <1>3 DEF LockCallbacks, WakeLoopFails, CancelFailed
<1>4. CASE GetSqe(t)
  BY <1>4 DEF GetSqe, CallInv, Adding
<1>5. CASE GetSqeFails(t)
  <2>1. CASE op[t] # Waker
    <3>1. UNCHANGED <<ringVars, loopVars, wakerLost>>
      BY <1>5, <2>1 DEF GetSqeFails
    <3> QED
      BY <3>1
  <2>2. CASE op[t] = Waker
    <3>1. /\ UNCHANGED <<ringVars, run_callbacks>> /\ pc[t] = "prep"
          /\ lpc' = "dispatch" /\ wakerLost' = TRUE
      BY <1>5, <2>2 DEF GetSqeFails
    <3>2. lpc \in {"init", "rearm"}
      BY <2>2, <3>1 DEF CallInv, Adding
    <3> QED
      BY <3>1, <3>2
  <2> QED
    BY <2>1, <2>2
<1>6. CASE WakeLoop(t)
  <2>1. lpc' = lpc
    <3>1. CASE op[t] \in Silent
      BY <1>6, <3>1, AcceptUser, ContextAssumption DEF WakeLoop
    <3>2. CASE op[t] \notin Silent
      BY <1>6, <3>2 DEF WakeLoop
    <3> QED
      BY <3>1, <3>2
  <2> QED
    BY <1>6, <2>1 DEF WakeLoop
<1>7. CASE Register(t)
  <2>1. UNCHANGED <<ringVars, run_callbacks, wakerLost>> /\ pc[t] = "register"
    BY <1>7 DEF Register
  <2>2. CASE op[t] # Waker
    BY <1>7, <2>1, <2>2, AcceptUser DEF Register
  <2>3. CASE op[t] = Waker
    <3>1. /\ lpc' \in {"stopped", "dispatch"}
          /\ lpc' = "stopped" => lpc = "init"
      BY <1>7, <2>3, AcceptWaker DEF Register
    <3>2. lpc \in {"init", "rearm"} /\ Waker \in sq
      BY <2>1, <2>3 DEF CallInv, Adding, RingInv, InRing
    <3> QED
      BY <2>1, <3>1, <3>2
  <2> QED
    BY <2>2, <2>3
<1>8. CASE ExitFlag(t) \/ ExitStore(t) \/ ExitWake(t) \/ ExitWakeFails(t)
  BY <1>8 DEF ExitFlag, SetExiting, ExitStore, ExitWake, ExitWakeFails
<1>9. CASE \E o \in Ops : add_sqe(t, o) \/ cancel(t, o)
  BY <1>1, <1>9
<1> QED
  BY <1>2, <1>3, <1>4, <1>5, <1>6, <1>7, <1>8, <1>9 DEF UserCall, CallStep

-----------------------------------------------------------------------------
(***************************************************************************)
(* The waker's callback finds something to read.                           *)
(***************************************************************************)
LEMMA ReadyFrame ==
  ASSUME ReadyInv, evfd => evfd',
         Entries(cq') \cup Entries(run_callbacks')
           \subseteq Entries(cq) \cup Entries(run_callbacks)
  PROVE  ReadyInv'
<1>1. \A e \in Entries(cq') \cup Entries(run_callbacks') :
        e.tok = Waker /\ e.ok => evfd'
  BY DEF ReadyInv
<1> QED
  BY <1>1 DEF ReadyInv, Entries

LEMMA ReadyLoop ==
  ASSUME TypeOK, RingInv, ReadyInv, run \/ LoopStep
  PROVE  ReadyInv'
<1> USE DEF ringVars, lockVars, exitVars, loopVars, histVars
<1>1. CASE init \/ run \/ CheckExiting \/ ConsumeExit \/ GetError \/ ClearError
  BY <1>1, ReadyFrame
     DEF init, run, CheckExiting, ConsumeExit, GetError, ClearError
<1>2. CASE add_waker
  BY <1>2, ReadyFrame DEF add_waker, LockSubmission
<1>3. CASE SubmitLock \/ submit \/ SubmitFails
  BY <1>3, ReadyFrame DEF SubmitLock, submit, SubmitFails
<1>4. CASE wait \/ WaitFails \/ peek_batch_cqe \/ CollectLock \/ CollectEnd
  BY <1>4, ReadyFrame DEF wait, WaitFails, peek_batch_cqe, CollectLock, CollectEnd
<1>5. CASE Collect
  <2>1. /\ evfd' = evfd /\ cq' = Tail(cq) /\ peeked > 0
        /\ run_callbacks' \in {run_callbacks, Append(run_callbacks, Head(cq))}
    BY <1>5 DEF Collect
  <2>2. /\ cq \in Seq(Cqe) /\ run_callbacks \in Seq(Cqe) /\ cq # <<>>
        /\ Head(cq) \in Cqe
    BY <2>1 DEF TypeOK
  <2>3. Entries(cq') \subseteq Entries(cq) /\ Head(cq) \in Entries(cq)
    BY <2>1, <2>2, TailEntries
  <2>4. Entries(run_callbacks') \subseteq Entries(run_callbacks) \cup {Head(cq)}
    BY <2>1, <2>2, AppendEntries
  <2> QED
    BY <2>1, <2>3, <2>4, ReadyFrame
<1>6. ASSUME NEW tok, Dispatching(tok), UNCHANGED <<cq, evfd>>
      PROVE  ReadyInv'
  <2>1. Entries(run_callbacks') \subseteq Entries(run_callbacks)
    BY <1>6, TailEntries DEF Dispatching, TypeOK
  <2> QED
    BY <1>6, <2>1, ReadyFrame
<1>7. ASSUME NEW o \in Ops, InvokeUser(o) PROVE ReadyInv'
  BY <1>6, <1>7 DEF InvokeUser
<1>8. CASE UserReturns \/ RoundEnd
  BY <1>8, ReadyFrame DEF UserReturns, RoundEnd
<1>9. CASE WakerRead
  <2>1. Dispatching(Waker) /\ cq' = cq
    BY <1>9 DEF WakerRead
  <2>2. Waker \in RunToks /\ Waker \notin RunToks'
    BY <2>1, DispatchEffect
  <2>3. Waker \notin CqToks
    BY <2>2 DEF RingInv, Ring
  <2>4. Waker \notin CqToks'
    BY <2>1, <2>3, CqSame
  <2> QED
    BY <2>2, <2>4 DEF ReadyInv, Entries, CqToks, RunToks
<1>10. CASE WakerFails
  BY <1>6, <1>10 DEF WakerFails
<1> QED
  BY <1>1, <1>2, <1>3, <1>4, <1>5, <1>7, <1>8, <1>9, <1>10 DEF LoopStep

LEMMA ReadyKernel ==
  ASSUME TypeOK, ReadyInv, Kernel
  PROVE  ReadyInv'
<1>1. PICK tok \in Toks, ok \in BOOLEAN :
        Complete(tok, ok) /\ (tok = Waker /\ ok => evfd)
  BY KernelCompletes
<1> DEFINE e == [tok |-> tok, ok |-> ok]
<1>2. cq' = Append(cq, e) /\ run_callbacks' = run_callbacks /\ evfd' = evfd
  BY <1>1 DEF Complete, loopVars
<1>3. e \in Cqe /\ e.tok = tok /\ e.ok = ok
  BY DEF Cqe
<1> HIDE DEF e
<1>4. Entries(cq') \subseteq Entries(cq) \cup {e}
  BY <1>2, <1>3, AppendEntries DEF TypeOK
<1>5. \A x \in Entries(cq') \cup Entries(run_callbacks') :
        x.tok = Waker /\ x.ok => evfd'
  BY <1>1, <1>2, <1>3, <1>4 DEF ReadyInv
<1> QED
  BY <1>5 DEF ReadyInv, Entries

\* When the waker's callback is about to read its blocking eventfd on the
\* loop's thread, the counter is above zero: the read cannot hang the loop,
\* for any number of threads and whatever system calls fail.
THEOREM WakerNeverBlocks == Spec => []WakerReadReady
<1>1. Init => ReadyInv
  BY DEF Init, ReadyInv, Entries
<1>2. TypeOK /\ LockInv /\ CallInv /\ RingInv /\ ReadyInv /\ [Next]_vars => ReadyInv'
  <2> SUFFICES ASSUME TypeOK, LockInv, CallInv, RingInv, ReadyInv, [Next]_vars
               PROVE  ReadyInv'
    OBVIOUS
  <2>1. ASSUME NEW t \in Threads, UserCall(t) \/ CallStep(t) PROVE ReadyInv'
    BY <2>1, CallEffect, ReadyFrame
  <2>2. CASE Next
    BY <2>1, <2>2, ReadyLoop, ReadyKernel DEF Next
  <2>3. CASE UNCHANGED vars
    BY <2>3, ReadyFrame DEF vars, ringVars, loopVars
  <2> QED
    BY <2>2, <2>3
<1>3. ReadyInv => WakerReadReady
  BY DEF ReadyInv, WakerReadReady, Entries
<1> QED
  BY <1>1, <1>2, <1>3, TypeCorrect, LockCorrect, CallCorrect, RingCorrect, PTL
     DEF Spec

-----------------------------------------------------------------------------
(***************************************************************************)
(* The poll on the eventfd is with the kernel while run() sleeps.          *)
(***************************************************************************)
LEMMA ArmedCall ==
  ASSUME TypeOK, LockInv, CallInv, RingInv, ArmedInv,
         NEW t \in Threads, UserCall(t) \/ CallStep(t)
  PROVE  ArmedInv'
<1>1. /\ UNCHANGED <<inflight, cq, run_callbacks>>
      /\ sq \subseteq sq' /\ (Waker \in sq' \ sq => lpc \in {"init", "rearm"})
      /\ wakerLost => wakerLost'
  BY CallEffect
<1>2. \/ lpc' = lpc
      \/ /\ lpc \in {"init", "rearm"} /\ lpc' \in {"stopped", "dispatch"}
         /\ lpc' = "stopped" => lpc = "init"
         /\ wakerLost' \/ Waker \in sq
  BY CallEffect
<1>3. CqToks' = CqToks /\ RunToks' = RunToks
  BY <1>1, CqSame, RunSame
<1>4. Ring \subseteq Ring' /\ (Waker \in sq => Waker \in Ring')
  BY <1>1, <1>3 DEF Ring
<1> QED
  BY <1>1, <1>2, <1>3, <1>4 DEF ArmedInv

LEMMA ArmedLoop ==
  ASSUME TypeOK, LockInv, CallInv, RingInv, MapInv, ArmedInv,
         "submit" \notin Faults, run \/ LoopStep
  PROVE  ArmedInv'
<1> USE DEF At, ringVars, lockVars, exitVars, loopVars, histVars
<1>0. ASSUME UNCHANGED <<sq, inflight, cq, run_callbacks, wakerLost>>,
             lpc' \in {"uninit", "init", "rearm"} \/ lpc \notin {"uninit", "init", "rearm"},
             \/ lpc' \in {"collect", "dispatch", "user", "rearm"}
             \/ lpc \notin {"collect", "dispatch", "user", "rearm"}
             \/ run_callbacks = <<>>,
             lpc' = "wait" => lpc = "wait"
      PROVE  ArmedInv'
  <2>1. CqToks' = CqToks /\ RunToks' = RunToks
    BY <1>0, CqSame, RunSame
  <2>2. Ring' = Ring
    BY <1>0, <2>1 DEF Ring
  <2> QED
    BY <1>0, <2>1, <2>2 DEF ArmedInv
<1>1. CASE init \/ run \/ CheckExiting \/ ConsumeExit \/ GetError \/ ClearError
  BY <1>0, <1>1 DEF init, run, CheckExiting, ConsumeExit, GetError, ClearError
<1>2. CASE add_waker
  BY <1>0, <1>2 DEF add_waker, LockSubmission
<1>3. CASE SubmitLock
  BY <1>0, <1>3 DEF SubmitLock
<1>4. CASE submit
  <2>1. /\ UNCHANGED <<cq, run_callbacks, wakerLost>>
        /\ lpc = "submitting" /\ lpc' = "wait"
        /\ inflight' = inflight \cup sq /\ sq' = {}
    BY <1>4 DEF submit
  <2>2. CqToks' = CqToks /\ RunToks' = RunToks
    BY <2>1, CqSame, RunSame
  <2>3. Ring' = Ring
    BY <2>1, <2>2 DEF Ring
  <2> QED
    BY <2>1, <2>2, <2>3 DEF ArmedInv
<1>5. CASE SubmitFails
  BY <1>5 DEF SubmitFails
<1>6. CASE wait \/ WaitFails \/ peek_batch_cqe \/ CollectLock \/ CollectEnd
  BY <1>0, <1>6 DEF wait, WaitFails, peek_batch_cqe, CollectLock, CollectEnd
<1>7. CASE Collect
  <2>1. lpc = "collect" /\ lpc' = lpc /\ pc[Loop] = "idle" /\ wakerLost' = wakerLost
    BY <1>7 DEF Collect
  <2>2. PICK tok \in CqToks :
          /\ Ring' = Ring \ {tok}
          /\ RunToks' = RunToks \cup ({tok} \cap callbacks_)
    BY <1>7, CollectEffect
  <2>3. Waker \in Ring => Waker \in callbacks_
    BY <2>1 DEF MapInv, InRing
  <2>4. Waker \in Ring \cup RunToks => Waker \in Ring' \cup RunToks'
    BY <2>2, <2>3 DEF Ring
  <2> QED
    BY <2>1, <2>4 DEF ArmedInv
<1>8. ASSUME NEW tok, Dispatching(tok), UNCHANGED <<sq, inflight, cq>>
      PROVE  Ring' = Ring /\ RunToks' = RunToks \ {tok} /\ lpc = "dispatch"
  <2>1. RunToks' = RunToks \ {tok} /\ CqToks' = CqToks
    BY <1>8, DispatchEffect, CqSame
  <2> QED
    BY <1>8, <2>1 DEF Ring, Dispatching
<1>9. ASSUME NEW o \in Ops, InvokeUser(o) PROVE ArmedInv'
  <2>1. /\ Dispatching(o) /\ UNCHANGED <<sq, inflight, cq, wakerLost>>
        /\ lpc' = "user" /\ o # Waker
    BY <1>9, ContextAssumption DEF InvokeUser
  <2>2. Ring' = Ring /\ RunToks' = RunToks \ {o} /\ lpc = "dispatch"
    BY <1>8, <2>1
  <2> QED
    BY <2>1, <2>2 DEF ArmedInv
<1>10. CASE UserReturns \/ RoundEnd
  BY <1>0, <1>10 DEF UserReturns, RoundEnd
<1>11. CASE WakerRead
  BY <1>11 DEF WakerRead, ArmedInv
<1>12. CASE WakerFails
  BY <1>12 DEF WakerFails, Dispatching, ArmedInv
<1> QED
  BY <1>1, <1>2, <1>3, <1>4, <1>5, <1>6, <1>7, <1>9, <1>10, <1>11, <1>12
     DEF LoopStep

LEMMA ArmedKernel ==
  ASSUME TypeOK, ArmedInv, Kernel
  PROVE  ArmedInv'
BY KernelEffect DEF ArmedInv, loopVars, histVars

LEMMA ArmedCorrect ==
  ASSUME "submit" \notin Faults
  PROVE  Spec => []ArmedInv
<1>1. Init => ArmedInv
  BY DEF Init, ArmedInv
<1>2. TypeOK /\ LockInv /\ CallInv /\ RingInv /\ MapInv /\ ArmedInv
        /\ [Next]_vars => ArmedInv'
  <2> SUFFICES ASSUME TypeOK, LockInv, CallInv, RingInv, MapInv, ArmedInv,
                      [Next]_vars
               PROVE  ArmedInv'
    OBVIOUS
  <2>1. CASE Next
    BY <2>1, ArmedCall, ArmedLoop, ArmedKernel DEF Next
  <2>2. CASE UNCHANGED vars
    <3>1. CqToks' = CqToks /\ RunToks' = RunToks
      BY <2>2, CqSame, RunSame DEF vars, ringVars, loopVars
    <3>2. Ring' = Ring
      BY <2>2, <3>1 DEF Ring, vars, ringVars
    <3> QED
      BY <2>2, <3>1, <3>2 DEF ArmedInv, vars, ringVars, loopVars, histVars
  <2> QED
    BY <2>1, <2>2
<1> QED
  BY <1>1, <1>2, TypeCorrect, LockCorrect, CallCorrect, RingCorrect, MapCorrect,
     PTL DEF Spec

-----------------------------------------------------------------------------
(***************************************************************************)
(* A run() that loses its waker returns, and the counter of the eventfd is *)
(* above zero whenever run() waits.                                        *)
(***************************************************************************)
LEMMA LossCall ==
  ASSUME TypeOK, LockInv, CallInv, LossInv, CounterInv,
         NEW t \in Threads, UserCall(t) \/ CallStep(t)
  PROVE  LossInv' /\ CounterInv'
<1> USE ContextAssumption DEF TypeOK, LossInv, CounterInv, Threads, Goto, ringVars,
        lockVars, exitVars, loopVars, histVars
<1>0. ASSUME UNCHANGED <<wakerLost, blind, lpc>>, exiting_ => exiting_',
             evfd => evfd', NEW l \in PcVals, pc' = [pc EXCEPT ![t] = l],
             pc[t] = "exit_flag" => exiting_' /\ l = "exit_wake",
             pc[t] = "exit_wake" => evfd', l = "register" => evfd'
      PROVE  LossInv' /\ CounterInv'
  BY <1>0
<1>1. ASSUME NEW o \in Ops, add_sqe(t, o) PROVE LossInv' /\ CounterInv'
  <2>1. PICK l \in {"prep", "lock_cb"} : pc' = [pc EXCEPT ![t] = l]
    BY <1>1 DEF add_sqe, LockSubmission
  <2> QED
    BY <1>0, <1>1, <2>1 DEF add_sqe, LockSubmission, CanCall, PcVals
<1>2. ASSUME NEW o \in Ops, cancel(t, o) PROVE LossInv' /\ CounterInv'
  BY <1>2 DEF cancel
<1>3. CASE wake(t)
  BY <1>3 DEF wake
<1>4. CASE exit_error(t)
  BY <1>0, <1>4 DEF exit_error, CanCall, StoreError, PcVals
<1>5. CASE exit_error_reordered(t)
  BY <1>0, <1>5 DEF exit_error_reordered, CanCall, PcVals
<1>6. CASE exit(t)
  BY <1>0, <1>6 DEF exit, SetExiting, CanCall, PcVals
<1>7. CASE LockCallbacks(t)
  BY <1>0, <1>7 DEF LockCallbacks, PcVals
<1>8. CASE GetSqe(t)
  BY <1>0, <1>8 DEF GetSqe, PcVals
<1>9. CASE GetSqeFails(t)
  <2>1. CASE op[t] # Waker
    <3>1. /\ UNCHANGED <<ringVars, exiting_, wakerLost, blind, lpc>>
          /\ pc[t] = "prep" /\ pc' = [pc EXCEPT ![t] = "idle"]
      BY <1>9, <2>1 DEF GetSqeFails
    <3> QED
      BY <1>0, <3>1 DEF PcVals
  <2>2. CASE op[t] = Waker
    <3>1. /\ pc[t] = "prep" /\ pc' = [pc EXCEPT ![t] = "exit_flag"]
          /\ lpc' = "dispatch"
      BY <1>9, <2>2 DEF GetSqeFails
    <3>2. t = Loop
      BY <2>2, <3>1 DEF CallInv, Adding
    <3> QED
      BY <3>1, <3>2
  <2> QED
    BY <2>1, <2>2
<1>10. CASE WakeLoop(t)
  <2>1. PICK l \in {"idle", "register"} : lpc' = lpc /\ pc' = [pc EXCEPT ![t] = l]
    <3>1. CASE op[t] \in Silent
      BY <1>10, <3>1, AcceptUser DEF WakeLoop, Accept
    <3>2. CASE op[t] \notin Silent
      BY <1>10, <3>2 DEF WakeLoop
    <3> QED
      BY <3>1, <3>2
  <2> QED
    BY <1>0, <1>10, <2>1 DEF WakeLoop, PcVals
<1>11. CASE WakeLoopFails(t)
  <2>1. PICK l \in {"stuck", "cancel"} : pc' = [pc EXCEPT ![t] = l]
    BY <1>11 DEF WakeLoopFails
  <2> QED
    BY <1>0, <1>11, <2>1 DEF WakeLoopFails, PcVals
<1>12. CASE CancelFailed(t)
  BY <1>0, <1>12 DEF CancelFailed, PcVals
<1>13. CASE Register(t)
  <2>1. /\ UNCHANGED <<ringVars, exiting_, wakerLost, blind>>
        /\ pc[t] = "register" /\ pc' = [pc EXCEPT ![t] = "idle"]
    BY <1>13 DEF Register, Accept
  <2>2. CASE op[t] # Waker
    <3>1. lpc' = lpc
      BY <1>13, <2>2, AcceptUser DEF Register
    <3> QED
      BY <1>0, <2>1, <3>1 DEF PcVals
  <2>3. CASE op[t] = Waker
    <3>1. t = Loop /\ lpc \in {"init", "rearm"}
      BY <2>1, <2>3 DEF CallInv, Adding
    <3>2. lpc' \in {"stopped", "dispatch"}
      BY <1>13, <2>3, AcceptWaker DEF Register
    <3> QED
      BY <2>1, <3>1, <3>2
  <2> QED
    BY <2>2, <2>3
<1>14. CASE ExitFlag(t)
  BY <1>0, <1>14 DEF ExitFlag, SetExiting, PcVals
<1>15. CASE ExitStore(t)
  BY <1>0, <1>15 DEF ExitStore, StoreError, PcVals
<1>16. CASE ExitWake(t)
  BY <1>0, <1>16 DEF ExitWake, PcVals
<1>17. CASE ExitWakeFails(t)
  BY <1>17 DEF ExitWakeFails
<1> QED
  BY <1>1, <1>2, <1>3, <1>4, <1>5, <1>6, <1>7, <1>8, <1>9, <1>10, <1>11,
     <1>12, <1>13, <1>14, <1>15, <1>16, <1>17 DEF UserCall, CallStep

LEMMA LossLoop ==
  ASSUME TypeOK, LossInv, CounterInv, run \/ LoopStep
  PROVE  LossInv' /\ CounterInv'
<1> USE ContextAssumption DEF TypeOK, LossInv, CounterInv, Threads, At, ringVars,
        exitVars, loopVars, histVars
<1>1. CASE init
  BY <1>1 DEF init
<1>2. CASE add_waker
  <2>1. PICK l \in {"prep", "lock_cb"} : pc' = [pc EXCEPT ![Loop] = l]
    BY <1>2 DEF add_waker, LockSubmission, Goto
  <2>2. /\ UNCHANGED <<ringVars, exitVars, loopVars, histVars>>
        /\ pc[Loop] = "idle" /\ lpc \in {"init", "rearm"}
    BY <1>2 DEF add_waker, LockSubmission
  <2> QED
    BY <2>1, <2>2
<1>3. CASE run
  BY <1>3 DEF run
<1>4. CASE CheckExiting \/ ConsumeExit \/ GetError \/ ClearError
  BY <1>4 DEF CheckExiting, ConsumeExit, GetError, ClearError
<1>5. CASE SubmitLock \/ submit \/ SubmitFails
  BY <1>5 DEF SubmitLock, submit, SubmitFails
<1>6. CASE wait \/ WaitFails \/ peek_batch_cqe
  BY <1>6 DEF wait, WaitFails, peek_batch_cqe
<1>7. CASE CollectLock \/ Collect \/ CollectEnd
  BY <1>7 DEF CollectLock, Collect, CollectEnd
<1>8. ASSUME NEW o \in Ops, InvokeUser(o) PROVE LossInv' /\ CounterInv'
  BY <1>8 DEF InvokeUser, Dispatching
<1>9. CASE UserReturns \/ RoundEnd
  BY <1>9 DEF UserReturns, RoundEnd
<1>10. CASE WakerRead
  BY <1>10 DEF WakerRead, Dispatching
<1>11. CASE WakerFails
  BY <1>11 DEF WakerFails, Dispatching, Goto
<1> QED
  BY <1>1, <1>2, <1>3, <1>4, <1>5, <1>6, <1>7, <1>8, <1>9, <1>10, <1>11
     DEF LoopStep

LEMMA LossCorrect == Spec => [](LossInv /\ CounterInv)
<1>1. Init => LossInv /\ CounterInv
  BY DEF Init, LossInv, CounterInv
<1>2. TypeOK /\ LockInv /\ CallInv /\ (LossInv /\ CounterInv) /\ [Next]_vars
        => (LossInv /\ CounterInv)'
  <2> SUFFICES ASSUME TypeOK, LockInv, CallInv, LossInv, CounterInv, [Next]_vars
               PROVE  LossInv' /\ CounterInv'
    OBVIOUS
  <2>1. CASE Kernel
    <3>1. UNCHANGED <<evfd, exiting_, lpc, pc, wakerLost, blind>>
      BY <2>1 DEF Kernel, CompleteUser, PollReady, PollFails, Complete, exitVars,
                  loopVars, histVars
    <3> QED
      BY <3>1 DEF LossInv, CounterInv
  <2>2. CASE Next
    BY <2>1, <2>2, LossCall, LossLoop DEF Next
  <2>3. CASE UNCHANGED vars
    BY <2>3 DEF LossInv, CounterInv, vars, ringVars, exitVars, loopVars, histVars
  <2> QED
    BY <2>2, <2>3
<1> QED
  BY <1>1, <1>2, TypeCorrect, LockCorrect, CallCorrect, PTL DEF Spec

\* As long as io_uring_submit() succeeds, the poll on the eventfd is with the
\* kernel or completed whenever run() waits.  A run() that could not arm its
\* waker again returns before it waits, so the exception is a run() called
\* after that one.
THEOREM WakerStaysArmed ==
  ASSUME "submit" \notin Faults
  PROVE  Spec => []WakerArmed
<1>1. ArmedInv /\ LossInv => WakerArmed
  BY DEF ArmedInv, LossInv, WakerArmed, Ring, RunToks
<1> QED
  BY <1>1, ArmedCorrect, LossCorrect, PTL

\* What run() finds when it waits: a completion, or a poll that is ready.
NeverRests ==
  lpc = "wait" /\ ~blind => cq # <<>> \/ (Waker \in inflight /\ evfd)

\* The wait of a run() that has its waker always ends at once: arming the
\* waker writes the eventfd that the waker polls (base_add_sqe() does so for
\* every request), so the next round finds it ready.  The loop is never lost,
\* and never idle either.
THEOREM RunNeverRests ==
  ASSUME "submit" \notin Faults
  PROVE  Spec => []NeverRests
<1>1. TypeOK /\ LockInv /\ CounterInv /\ WakerArmed => NeverRests
  <2> SUFFICES ASSUME TypeOK, LockInv, CounterInv, WakerArmed, lpc = "wait", ~blind
               PROVE  cq # <<>> \/ (Waker \in inflight /\ evfd)
    BY DEF NeverRests
  <2>1. pc[Loop] = "idle" /\ evfd
    BY DEF LockInv, CounterInv
  <2>2. Waker \in inflight \cup CqToks
    BY DEF WakerArmed
  <2>3. CqToks # {} => cq # <<>>
    BY DEF CqToks
  <2> QED
    BY <2>1, <2>2, <2>3
<1> QED
  BY <1>1, TypeCorrect, LockCorrect, LossCorrect, WakerStaysArmed, PTL

\* As long as io_uring_submit() succeeds, a request that comes after the
\* submit and an exit() that comes after the check of exiting_ find a run()
\* that will be roused, for any number of threads and at any of their
\* interleavings, also when writes of the eventfd fail.
THEOREM NoWakeupIsLost ==
  ASSUME "submit" \notin Faults
  PROVE  Spec => []NoLostWakeup
<1>1. NeverRests => NoLostWakeup
  BY DEF NeverRests, NoLostWakeup, Rouses
<1> QED
  BY <1>1, RunNeverRests, PTL

-----------------------------------------------------------------------------
(***************************************************************************)
(* The error handed to exit(result).                                       *)
(***************************************************************************)
LEMMA ErrorCall ==
  ASSUME TypeOK, CallInv, LockInv, ErrorInv, ErrExiters \subseteq {Loop},
         NEW t \in Threads, UserCall(t) \/ CallStep(t)
  PROVE  ErrorInv'
<1> USE DEF ringVars, lockVars, exitVars, loopVars, histVars, Goto
<1>0. ASSUME UNCHANGED <<exiting_error_, owed>>, lpc' # "clear_error" \/ lpc' = lpc,
             NEW l, l # "exit_store", pc' = [pc EXCEPT ![t] = l]
      PROVE  ErrorInv'
  BY <1>0 DEF ErrorInv, TypeOK
<1>1. ASSUME NEW o \in Ops, add_sqe(t, o) PROVE ErrorInv'
  BY <1>0, <1>1 DEF add_sqe, LockSubmission
<1>2. ASSUME NEW o \in Ops, cancel(t, o) PROVE ErrorInv'
  BY <1>2 DEF cancel, ErrorInv
<1>3. CASE wake(t)
  BY <1>3 DEF wake, ErrorInv
<1>4. CASE exit_error(t)
  BY <1>4 DEF exit_error, CanCall, StoreError, ErrorInv, TypeOK
<1>5. CASE exit_error_reordered(t)
  BY <1>5 DEF exit_error_reordered
<1>6. CASE exit(t) \/ ExitFlag(t)
  BY <1>0, <1>6 DEF exit, ExitFlag, SetExiting
<1>7. CASE LockCallbacks(t)
  BY <1>0, <1>7 DEF LockCallbacks
<1>8. CASE GetSqe(t)
  BY <1>0, <1>8 DEF GetSqe
<1>9. CASE GetSqeFails(t)
  <2>1. CASE op[t] # Waker
    <3>1. /\ UNCHANGED <<exiting_error_, owed, lpc>>
          /\ pc' = [pc EXCEPT ![t] = "idle"]
      BY <1>9, <2>1 DEF GetSqeFails
    <3> QED
      BY <1>0, <3>1
  <2>2. CASE op[t] = Waker
    <3>1. /\ exiting_error_' = TRUE /\ lpc' = "dispatch"
          /\ pc' = [pc EXCEPT ![t] = "exit_flag"]
      BY <1>9, <2>2 DEF GetSqeFails, StoreError
    <3> QED
      BY <3>1 DEF ErrorInv, TypeOK
  <2> QED
    BY <2>1, <2>2
<1>10. CASE WakeLoop(t)
  <2>1. CASE op[t] \in Silent
    <3>1. lpc' = lpc /\ pc' = [pc EXCEPT ![t] = "idle"]
      BY <1>10, <2>1, AcceptUser, ContextAssumption DEF WakeLoop
    <3> QED
      BY <1>0, <1>10, <3>1 DEF WakeLoop
  <2>2. CASE op[t] \notin Silent
    BY <1>0, <1>10, <2>2 DEF WakeLoop
  <2> QED
    BY <2>1, <2>2
<1>11. CASE WakeLoopFails(t)
  BY <1>0, <1>11 DEF WakeLoopFails
<1>12. CASE CancelFailed(t)
  BY <1>0, <1>12 DEF CancelFailed
<1>13. CASE Register(t)
  <2>1. lpc' # "clear_error" \/ lpc' = lpc
    BY <1>13, AcceptUser, AcceptWaker DEF Register
  <2>2. pc' = [pc EXCEPT ![t] = "idle"] /\ UNCHANGED <<exiting_error_, owed>>
    BY <1>13 DEF Register, Accept
  <2> QED
    BY <1>0, <2>1, <2>2
<1>14. CASE ExitStore(t)
  BY <1>14 DEF ExitStore, ErrorInv
<1>15. CASE ExitWake(t)
  BY <1>0, <1>15 DEF ExitWake
<1>16. CASE ExitWakeFails(t)
  BY <1>16 DEF ExitWakeFails, ErrorInv
<1> QED
  BY <1>1, <1>2, <1>3, <1>4, <1>5, <1>6, <1>7, <1>8, <1>9, <1>10, <1>11,
     <1>12, <1>13, <1>14, <1>15, <1>16 DEF UserCall, CallStep

LEMMA ErrorLoop ==
  ASSUME TypeOK, ErrorInv, run \/ LoopStep
  PROVE  ErrorInv'
<1> USE DEF At, ErrorInv, TypeOK, ringVars, lockVars, exitVars, loopVars,
        histVars
<1>1. CASE init \/ run \/ CheckExiting \/ ConsumeExit
  BY <1>1 DEF init, run, CheckExiting, ConsumeExit
<1>2. CASE GetError
  BY <1>2 DEF GetError
<1>3. CASE ClearError
  BY <1>3 DEF ClearError
<1>4. CASE add_waker
  BY <1>4 DEF add_waker, LockSubmission, Goto
<1>5. CASE SubmitLock \/ submit \/ SubmitFails
  BY <1>5 DEF SubmitLock, submit, SubmitFails
<1>6. CASE wait \/ WaitFails \/ peek_batch_cqe
  BY <1>6 DEF wait, WaitFails, peek_batch_cqe
<1>7. CASE CollectLock \/ Collect \/ CollectEnd
  BY <1>7 DEF CollectLock, Collect, CollectEnd
<1>8. ASSUME NEW o \in Ops, InvokeUser(o) PROVE ErrorInv'
  BY <1>8 DEF InvokeUser
<1>9. CASE UserReturns \/ RoundEnd
  BY <1>9 DEF UserReturns, RoundEnd
<1>10. CASE WakerRead
  BY <1>10 DEF WakerRead
<1>11. CASE WakerFails
  <2>1. /\ exiting_error_' = TRUE /\ lpc' = "dispatch"
        /\ pc' = [pc EXCEPT ![Loop] = "exit_flag"]
    BY <1>11 DEF WakerFails, Dispatching, StoreError, Goto
  <2> QED
    BY <2>1
<1> QED
  BY <1>1, <1>2, <1>3, <1>4, <1>5, <1>6, <1>7, <1>8, <1>9, <1>10, <1>11
     DEF LoopStep

\* When only the thread of run() calls exit(result) with an error (its
\* callbacks, the waker's among them), the error stays stored until a run()
\* returns it, whatever the other threads do and whatever system calls fail.
\* Without the assumption the property is violated: see ctx_error_swallowed.
THEOREM ErrorsAreReturned ==
  ASSUME ErrExiters \subseteq {Loop}
  PROVE  Spec => []RequestedErrorKept
<1>1. Init => ErrorInv
  BY DEF Init, ErrorInv
<1>2. TypeOK /\ LockInv /\ CallInv /\ ErrorInv /\ [Next]_vars => ErrorInv'
  <2> SUFFICES ASSUME TypeOK, LockInv, CallInv, ErrorInv, [Next]_vars
               PROVE  ErrorInv'
    OBVIOUS
  <2>1. CASE Kernel
    BY <2>1, KernelEffect DEF ErrorInv, exitVars, loopVars
  <2>2. CASE Next
    BY <2>1, <2>2, ErrorCall, ErrorLoop DEF Next
  <2>3. CASE UNCHANGED vars
    BY <2>3 DEF ErrorInv, vars, exitVars, loopVars
  <2> QED
    BY <2>2, <2>3
<1>3. ErrorInv => RequestedErrorKept
  BY DEF ErrorInv, RequestedErrorKept
<1> QED
  BY <1>1, <1>2, <1>3, TypeCorrect, LockCorrect, CallCorrect, PTL DEF Spec
=============================================================================
