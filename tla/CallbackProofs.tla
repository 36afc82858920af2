--------------------------- MODULE CallbackProofs ---------------------------
(***************************************************************************)
(* What becomes of a request and of its callback in AsyncContext, for any  *)
(* number of threads and requests and any set of faults.                   *)
(*                                                                         *)
(* The properties of the runs (NoOrphanCompletion, NoLeakedCallback,       *)
(* ExactlyOnce) say where a token may be at a moment; none is inductive.   *)
(* The argument follows a token on its way through the rings:              *)
(*  - CallInv: what a thread inside add_sqe() is doing, and which mutexes  *)
(*    protect it (on top of LockInv);                                      *)
(*  - RingInv: a token is in one place of the rings at a time, and one     *)
(*    that is new there is nowhere else;                                   *)
(*  - MapInv: how the place in the rings, the map, the batch of run() and  *)
(*    what the caller was told go together.                                *)
(***************************************************************************)
EXTENDS AsyncContextProofs

Ring == sq \cup inflight \cup CqToks

\* Thread t is inside add_sqe(), and its request is in the submission ring.
Adding(t) == pc[t] \in {"lock_cb", "prep", "wake", "register", "cancel", "stuck"}
InRing(t) == pc[t] \in {"wake", "register", "cancel", "stuck"}

CallInv ==
  /\ \A t \in Threads :
       /\ Adding(t) => IF op[t] = Waker
                         THEN t = Loop /\ lpc \in {"init", "rearm"}
                         ELSE status[op[t]] = "adding"
       /\ pc[t] \in {"lock_cb", "register"} => op[t] \notin Silent
       /\ pc[t] = "cancel" => op[t] \in Silent
       /\ pc[t] \in {"prep", "wake", "register"} /\ op[t] \notin Silent =>
            m_callbacks_ = t
  /\ lpc = "collect" => m_callbacks_ = Loop
  /\ \A o \in Ops :
       status[o] = "adding" => \E t \in Threads : Adding(t) /\ op[t] = o

Distinct(s) == \A i, j \in DOMAIN s : s[i].tok = s[j].tok => i = j

\* The waker's poll is about to be added and is not in the ring yet.
WakerToBeAdded ==
  lpc \in {"uninit", "init", "rearm"} /\ ~(InRing(Loop) /\ op[Loop] = Waker)

RingInv ==
  /\ sq \cap inflight = {} /\ sq \cap CqToks = {} /\ inflight \cap CqToks = {}
  /\ RunToks \cap Ring = {}
  /\ Distinct(cq)
  /\ Distinct(run_callbacks)
  /\ \A o \in Ops : status[o] = "new" => o \notin Ring \cup RunToks
  /\ \A o \in Ops :
       status[o] = "adding" => o \notin inflight \cup CqToks \cup RunToks
  /\ lpc \in {"uninit", "init", "rearm"} =>
       Waker \notin inflight \cup CqToks \cup RunToks
  /\ WakerToBeAdded => Waker \notin sq
  /\ \A t \in Threads :
       /\ pc[t] \in {"lock_cb", "prep"} => op[t] \notin sq
       /\ InRing(t) => op[t] \in sq

\* The callback of o is nowhere; it is in one place.
Nowhere(o) ==
  o \notin callbacks_ /\ o \notin RunToks /\ o \notin cancelled /\ invoked[o] = 0

OnePlace(o) ==
  \/ o \in callbacks_ /\ o \notin RunToks /\ o \notin cancelled /\ invoked[o] = 0
  \/ o \notin callbacks_ /\ o \in RunToks /\ o \notin cancelled /\ invoked[o] = 0
  \/ o \notin callbacks_ /\ o \notin RunToks /\ o \in cancelled /\ invoked[o] = 0
  \/ o \notin callbacks_ /\ o \notin RunToks /\ o \notin cancelled
       /\ invoked[o] = 1 /\ o \notin Ring

MapInv ==
  /\ callbacks_ \subseteq Ring
  /\ \A o \in Ops :
       /\ status[o] # "accepted" \/ o \in Silent => Nowhere(o)
       /\ status[o] = "accepted" /\ o \notin Silent => OnePlace(o)
       /\ status[o] = "rejected" /\ o \notin Silent => o \notin Ring
  /\ Waker \in Ring =>
       Waker \in callbacks_ \/ (InRing(Loop) /\ op[Loop] = Waker)

-----------------------------------------------------------------------------
\* add_sqe() returns the token of a request of the user; of the waker's.
LEMMA AcceptUser ==
  ASSUME NEW t \in Threads, Accept(t), op[t] # Waker
  PROVE  /\ pc' = [pc EXCEPT ![t] = "idle"] /\ lpc' = lpc /\ Unlock(t)
         /\ status' = [status EXCEPT ![op[t]] = "accepted"]
<1>1. lpc' = lpc
  BY DEF Accept
<1>2. status' = [status EXCEPT ![op[t]] = "accepted"]
  BY DEF Accept
<1>3. pc' = [pc EXCEPT ![t] = "idle"] /\ Unlock(t)
  BY DEF Accept, Goto
<1> QED
  BY <1>1, <1>2, <1>3

LEMMA AcceptWaker ==
  ASSUME NEW t \in Threads, Accept(t), op[t] = Waker
  PROVE  /\ pc' = [pc EXCEPT ![t] = "idle"] /\ status' = status /\ Unlock(t)
         /\ lpc' \in {"stopped", "dispatch"} /\ (lpc' = "stopped" <=> lpc = "init")
<1>1. lpc = "init" => lpc' = "stopped"
  BY DEF Accept
<1>2. lpc # "init" => lpc' = "dispatch"
  BY DEF Accept
<1> QED
  BY <1>1, <1>2 DEF Accept, Goto

LEMMA CallInvReturn ==
  ASSUME TypeOK, LockInv, CallInv, NEW t \in Threads, Adding(t), op[t] # Waker,
         pc' = [pc EXCEPT ![t] = "idle"], UNCHANGED <<op, lpc>>,
         NEW told \in {"accepted", "rejected"},
         status' = [status EXCEPT ![op[t]] = told],
         m_callbacks_' = m_callbacks_ \/ Unlock(t)
  PROVE  CallInv'
<1> USE ContextAssumption DEF TypeOK, Threads, Toks
<1>1. op[t] \in Ops /\ pc'[t] = "idle" /\ status'[op[t]] = told
  OBVIOUS
<1>2. \A u \in Threads \ {t} : ~Adding(u) /\ pc'[u] = pc[u]
  BY DEF LockInv, Holding, Adding
<1>3. \A u \in Threads : ~Adding(u)'
  BY <1>1, <1>2 DEF Adding
<1>4. \A o \in Ops : status'[o] # "adding"
  BY <1>1, <1>2 DEF CallInv
<1>5. lpc = "collect" => m_callbacks_' = m_callbacks_
  BY DEF LockInv, Adding, CallInv, Unlock
<1> QED
  BY <1>3, <1>4, <1>5 DEF CallInv, Adding

\* A step of a thread that is not inside add_sqe() and does not enter it.
LEMMA CallInvOther ==
  ASSUME TypeOK, CallInv, NEW t \in Threads, ~Adding(t),
         NEW l \in {"idle", "exit_flag", "exit_store", "exit_wake"},
         pc' = [pc EXCEPT ![t] = l],
         UNCHANGED <<op, status, m_callbacks_, lpc>>
  PROVE  CallInv'
<1>1. \A u \in Threads : Adding(u)' <=> Adding(u)
  BY DEF TypeOK, Adding
<1>2. \A u \in Threads : Adding(u) => pc'[u] = pc[u]
  BY DEF TypeOK
<1>3. \A u \in Threads : Adding(u)' => pc'[u] = pc[u]
  BY <1>1, <1>2
<1>4. \A u \in Threads : pc'[u] = pc[u] \/ ~Adding(u)'
  BY <1>3
<1> QED
  BY <1>1, <1>4 DEF CallInv, Adding

LEMMA CallInvCall ==
  ASSUME TypeOK, LockInv, CallInv, NEW t \in Threads, UserCall(t) \/ CallStep(t)
  PROVE  CallInv'
<1> USE ContextAssumption DEF TypeOK, LockInv, Holding, CallInv, Adding, Threads,
        Toks, Goto, ringVars, lockVars, exitVars, loopVars, histVars
<1>1. ASSUME NEW o \in Ops, add_sqe(t, o) PROVE CallInv'
  BY <1>1 DEF add_sqe, LockSubmission, CanCall
<1>2. ASSUME NEW o \in Ops, cancel(t, o) PROVE CallInv'
  BY <1>2 DEF cancel
<1>3. CASE wake(t)
  BY <1>3 DEF wake
<1>4. CASE exit_error(t)
  BY <1>4, CallInvOther DEF exit_error, CanCall
<1>5. CASE exit_error_reordered(t)
  BY <1>5, CallInvOther DEF exit_error_reordered, CanCall
<1>6. CASE exit(t)
  BY <1>6, CallInvOther DEF exit, SetExiting, CanCall
<1>7. CASE LockCallbacks(t)
  BY <1>7 DEF LockCallbacks
<1>8. CASE GetSqe(t)
  BY <1>8 DEF GetSqe
<1>9. CASE GetSqeFails(t)
  <2>1. CASE op[t] # Waker
    <3>1. /\ pc' = [pc EXCEPT ![t] = "idle"] /\ UNCHANGED <<op, lpc>>
          /\ status' = [status EXCEPT ![op[t]] = "rejected"]
      BY <1>9, <2>1 DEF GetSqeFails
    <3>2. Adding(t) /\ Unlock(t)
      BY <1>9 DEF GetSqeFails
    <3> QED
      BY <2>1, <3>1, <3>2, CallInvReturn
  <2>2. CASE op[t] = Waker
    BY <1>9, <2>2 DEF GetSqeFails, Unlock
  <2> QED
    BY <2>1, <2>2
<1>10. CASE WakeLoop(t)
  <2>1. CASE op[t] \in Silent
    <3>1. op[t] # Waker
      BY <2>1
    <3>2. /\ pc' = [pc EXCEPT ![t] = "idle"] /\ UNCHANGED <<op, lpc>>
          /\ status' = [status EXCEPT ![op[t]] = "accepted"]
      BY <1>10, <2>1, <3>1, AcceptUser DEF WakeLoop
    <3>3. Adding(t) /\ Unlock(t)
      BY <1>10, <2>1, <3>1, AcceptUser DEF WakeLoop
    <3> QED
      BY <3>1, <3>2, <3>3, CallInvReturn
  <2>2. CASE op[t] \notin Silent
    <3>1. pc' = [pc EXCEPT ![t] = "register"]
          /\ UNCHANGED <<lockVars, status, lpc, op>>
      BY <1>10, <2>2 DEF WakeLoop
    <3> QED
      BY <1>10, <2>2, <3>1 DEF WakeLoop
  <2> QED
    BY <2>1, <2>2
<1>11. CASE WakeLoopFails(t)
  BY <1>11 DEF WakeLoopFails
<1>12. CASE CancelFailed(t)
  <2>1. op[t] # Waker
    BY <1>12 DEF CancelFailed
  <2>2. /\ pc' = [pc EXCEPT ![t] = "idle"] /\ UNCHANGED <<op, lpc>>
        /\ status' = [status EXCEPT ![op[t]] = "rejected"]
        /\ Adding(t) /\ m_callbacks_' = m_callbacks_
    BY <1>12 DEF CancelFailed
  <2> QED
    BY <2>1, <2>2, CallInvReturn
<1>13. CASE Register(t)
  <2>1. CASE op[t] # Waker
    <3>1. /\ pc' = [pc EXCEPT ![t] = "idle"] /\ UNCHANGED <<op, lpc>>
          /\ status' = [status EXCEPT ![op[t]] = "accepted"]
      BY <1>13, <2>1, AcceptUser DEF Register
    <3>2. Adding(t) /\ Unlock(t)
      BY <1>13, <2>1, AcceptUser DEF Register
    <3> QED
      BY <2>1, <3>1, <3>2, CallInvReturn
  <2>2. CASE op[t] = Waker
    <3>1. /\ pc' = [pc EXCEPT ![t] = "idle"] /\ UNCHANGED <<op, status>>
          /\ lpc' # "collect" /\ Unlock(t)
      BY <1>13, <2>2, AcceptWaker DEF Register
    <3>2. \A u \in Threads \ {t} : ~Adding(u) /\ pc'[u] = pc[u]
      BY <1>13, <3>1 DEF Register
    <3>3. \A u \in Threads : ~Adding(u)'
      BY <3>1, <3>2
    <3>4. \A o \in Ops : status'[o] # "adding"
      BY <2>2, <3>1, <3>2
    <3> QED
      BY <3>1, <3>3, <3>4
  <2> QED
    BY <2>1, <2>2
<1>14. CASE ExitFlag(t)
  BY <1>14, CallInvOther DEF ExitFlag, SetExiting
<1>15. CASE ExitStore(t)
  BY <1>15, CallInvOther DEF ExitStore
<1>16. CASE ExitWake(t)
  BY <1>16, CallInvOther DEF ExitWake
<1>17. CASE ExitWakeFails(t)
  BY <1>17 DEF ExitWakeFails
<1> QED
  BY <1>1, <1>2, <1>3, <1>4, <1>5, <1>6, <1>7, <1>8, <1>9, <1>10, <1>11,
     <1>12, <1>13, <1>14, <1>15, <1>16, <1>17 DEF UserCall, CallStep
\* A step of run() itself, outside the mutexes.
LEMMA CallInvFrame ==
  ASSUME TypeOK, CallInv, pc[Loop] = "idle",
         UNCHANGED <<pc, op, status, m_callbacks_>>,
         lpc' = "collect" => m_callbacks_ = Loop
  PROVE  CallInv'
BY DEF TypeOK, CallInv, Adding, Threads

LEMMA CallInvLoop ==
  ASSUME TypeOK, LockInv, CallInv, run \/ LoopStep
  PROVE  CallInv'
<1> USE DEF At, ringVars, lockVars, exitVars, loopVars, histVars
<1>1. CASE init \/ run \/ CheckExiting
  BY <1>1, CallInvFrame DEF init, run, CheckExiting
<1>2. CASE add_waker
  BY <1>2, ContextAssumption
     DEF add_waker, LockSubmission, Goto, TypeOK, Threads, CallInv, Adding
<1>3. CASE ConsumeExit \/ GetError \/ ClearError
  BY <1>3, CallInvFrame DEF ConsumeExit, GetError, ClearError
<1>4. CASE SubmitLock \/ submit \/ SubmitFails
  BY <1>4, CallInvFrame DEF SubmitLock, submit, SubmitFails
<1>5. CASE wait \/ WaitFails \/ peek_batch_cqe
  BY <1>5, CallInvFrame DEF wait, WaitFails, peek_batch_cqe
<1>6. CASE CollectLock
  BY <1>6, ContextAssumption
     DEF CollectLock, TypeOK, Threads, CallInv, Adding
<1>7. CASE Collect
  BY <1>7, CallInvFrame DEF Collect, CallInv
<1>8. CASE CollectEnd
  BY <1>8, ContextAssumption
     DEF CollectEnd, TypeOK, Threads, CallInv, Adding
<1>9. ASSUME NEW o \in Ops, InvokeUser(o) PROVE CallInv'
  BY <1>9, CallInvFrame DEF InvokeUser, Dispatching
<1>10. CASE UserReturns \/ RoundEnd
  BY <1>10, CallInvFrame DEF UserReturns, RoundEnd
<1>11. CASE WakerRead
  BY <1>11, CallInvFrame DEF WakerRead, Dispatching
<1>12. CASE WakerFails
  <2>1. /\ UNCHANGED <<op, status, m_callbacks_, lpc>> /\ pc[Loop] = "idle"
        /\ pc' = [pc EXCEPT ![Loop] = "exit_flag"]
    BY <1>12 DEF WakerFails, Dispatching, Goto
  <2> QED
    BY <2>1, CallInvOther DEF Adding, Threads
<1> QED
  BY <1>1, <1>2, <1>3, <1>4, <1>5, <1>6, <1>7, <1>8, <1>9, <1>10, <1>11,
     <1>12 DEF LoopStep

LEMMA CallInvKernel ==
  ASSUME CallInv, Kernel
  PROVE  CallInv'
<1>1. UNCHANGED <<lpc, pc, op, status, m_callbacks_>>
  BY DEF Kernel, CompleteUser, PollReady, PollFails, Complete, lockVars,
         loopVars
<1> QED
  BY <1>1 DEF CallInv, Adding

\* What a thread inside add_sqe() is about, for any number of threads: the
\* request it adds has not been accepted yet, a request with a callback is
\* put in the ring under m_callbacks_, and only one without is taken back.
THEOREM CallCorrect == Spec => []CallInv
<1>1. Init => CallInv
  BY ContextAssumption DEF Init, CallInv, Adding, Threads
<1>2. TypeOK /\ LockInv /\ CallInv /\ [Next]_vars => CallInv'
  <2> SUFFICES ASSUME TypeOK, LockInv, CallInv, [Next]_vars PROVE CallInv'
    OBVIOUS
  <2>1. CASE Next
    BY <2>1, CallInvCall, CallInvLoop, CallInvKernel DEF Next
  <2>2. CASE UNCHANGED vars
    BY <2>2 DEF CallInv, Adding, vars, lockVars, loopVars
  <2> QED
    BY <2>1, <2>2
<1> QED
  BY <1>1, <1>2, TypeCorrect, LockCorrect, PTL DEF Spec

-----------------------------------------------------------------------------
(***************************************************************************)
(* Completions are queued at the end and taken from the front.             *)
(***************************************************************************)
LEMMA AppendToks ==
  ASSUME NEW s \in Seq(Cqe), NEW e \in Cqe
  PROVE  /\ {Append(s, e)[i].tok : i \in DOMAIN Append(s, e)}
              = {s[i].tok : i \in DOMAIN s} \cup {e.tok}
         /\ Distinct(s) /\ e.tok \notin {s[i].tok : i \in DOMAIN s} =>
              Distinct(Append(s, e))
<1> DEFINE n == Len(s)
           r == Append(s, e)
<1>1. n \in Nat /\ DOMAIN s = 1 .. n /\ DOMAIN r = 1 .. (n + 1)
  OBVIOUS
<1>2. r[n + 1] = e /\ \A i \in 1 .. n : r[i] = s[i]
  OBVIOUS
<1> HIDE DEF n, r
<1>3. \A i \in DOMAIN r : i \in DOMAIN s \/ i = n + 1
  BY <1>1
<1>4. n + 1 \in DOMAIN r /\ n + 1 \notin DOMAIN s /\ DOMAIN s \subseteq DOMAIN r
  BY <1>1
<1>5. \A i \in DOMAIN s : r[i] = s[i]
  BY <1>1, <1>2
<1>6. {r[i].tok : i \in DOMAIN r} = {s[i].tok : i \in DOMAIN s} \cup {e.tok}
  BY <1>2, <1>3, <1>4, <1>5
<1>7. ASSUME Distinct(s), e.tok \notin {s[i].tok : i \in DOMAIN s}
      PROVE  Distinct(r)
  BY <1>2, <1>3, <1>4, <1>5, <1>7 DEF Distinct
<1> QED
  BY <1>6, <1>7 DEF r

LEMMA TailToks ==
  ASSUME NEW s \in Seq(Cqe), s # <<>>, Distinct(s)
  PROVE  /\ Head(s) \in Cqe /\ Tail(s) \in Seq(Cqe)
         /\ Head(s).tok \in {s[i].tok : i \in DOMAIN s}
         /\ {Tail(s)[i].tok : i \in DOMAIN Tail(s)}
              = {s[i].tok : i \in DOMAIN s} \ {Head(s).tok}
         /\ Distinct(Tail(s))
<1> DEFINE n == Len(s)
           r == Tail(s)
<1>1. n \in Nat /\ n >= 1 /\ DOMAIN s = 1 .. n /\ DOMAIN r = 1 .. (n - 1)
  OBVIOUS
<1>2. Head(s) = s[1] /\ \A i \in 1 .. (n - 1) : r[i] = s[i + 1]
  OBVIOUS
<1>3. Head(s) \in Cqe /\ Tail(s) \in Seq(Cqe)
  OBVIOUS
<1> HIDE DEF n, r
<1>4. \A i \in DOMAIN r : i + 1 \in DOMAIN s /\ i + 1 # 1 /\ r[i] = s[i + 1]
  BY <1>1, <1>2
<1>5. \A j \in DOMAIN s : j # 1 => j - 1 \in DOMAIN r /\ s[j] = r[j - 1]
  BY <1>1, <1>2
<1>6. 1 \in DOMAIN s
  BY <1>1
<1>7. \A x : x \in {r[i].tok : i \in DOMAIN r} =>
                x \in {s[i].tok : i \in DOMAIN s} /\ x # s[1].tok
  BY <1>4, <1>6 DEF Distinct
<1>8. \A x : x \in {s[i].tok : i \in DOMAIN s} /\ x # s[1].tok =>
                x \in {r[i].tok : i \in DOMAIN r}
  BY <1>5, <1>6
<1>9. {r[i].tok : i \in DOMAIN r} = {s[i].tok : i \in DOMAIN s} \ {s[1].tok}
  BY <1>7, <1>8
<1>10. ASSUME NEW i \in DOMAIN r, NEW j \in DOMAIN r, r[i].tok = r[j].tok
       PROVE  i = j
  <2>1. i + 1 = j + 1
    BY <1>4, <1>10 DEF Distinct
  <2> QED
    BY <1>1, <2>1
<1>11. Distinct(r)
  BY <1>10 DEF Distinct
<1> QED
  BY <1>2, <1>3, <1>6, <1>9, <1>11 DEF r

-----------------------------------------------------------------------------
(***************************************************************************)
(* A token is in one place of the rings at a time.                         *)
(***************************************************************************)
LEMMA CqSame == ASSUME cq' = cq PROVE CqToks' = CqToks
BY DEF CqToks

LEMMA RunSame == ASSUME run_callbacks' = run_callbacks PROVE RunToks' = RunToks
BY DEF RunToks

\* Steps that leave the rings and add_sqe() alone.
LEMMA RingFrame ==
  ASSUME RingInv, UNCHANGED <<sq, inflight, cq, run_callbacks, status, op>>,
         \A u \in Threads : (InRing(u)' <=> InRing(u))
                            /\ (pc'[u] \in {"lock_cb", "prep"} =>
                                  pc[u] \in {"lock_cb", "prep"}),
         lpc' \in {"uninit", "init", "rearm"} =>
           lpc \in {"uninit", "init", "rearm"}
  PROVE  RingInv'
<1>1. CqToks' = CqToks /\ RunToks' = RunToks
  BY CqSame, RunSame
<1>2. Ring' = Ring
  BY <1>1 DEF Ring
<1>3. WakerToBeAdded' => WakerToBeAdded
  BY DEF WakerToBeAdded, Threads
<1> QED
  BY <1>1, <1>2, <1>3 DEF RingInv, Distinct

\* add_sqe() returns for a request of the user.
LEMMA RingReturn ==
  ASSUME TypeOK, RingInv, UNCHANGED <<sq, inflight, cq, run_callbacks, op, lpc>>,
         NEW t \in Threads, op[t] # Waker,
         pc' = [pc EXCEPT ![t] = "idle"],
         NEW told \in {"accepted", "rejected"},
         status' = [status EXCEPT ![op[t]] = told]
  PROVE  RingInv'
<1>1. CqToks' = CqToks /\ RunToks' = RunToks
  BY CqSame, RunSame
<1>2. Ring' = Ring
  BY <1>1 DEF Ring
<1>3. WakerToBeAdded' => WakerToBeAdded
  BY DEF WakerToBeAdded, Threads, InRing, TypeOK
<1>4. \A o \in Ops : status'[o] \in {"new", "adding"} => status'[o] = status[o]
  BY DEF TypeOK
<1>5. \A u \in Threads : pc'[u] = pc[u] \/ pc'[u] = "idle"
  BY DEF TypeOK
<1> QED
  BY <1>1, <1>2, <1>3, <1>4, <1>5 DEF RingInv, Distinct, InRing

LEMMA RingCall ==
  ASSUME TypeOK, LockInv, CallInv, RingInv,
         NEW t \in Threads, UserCall(t) \/ CallStep(t)
  PROVE  RingInv'
<1> USE DEF ringVars, lockVars, exitVars, loopVars, histVars, Goto
<1>1. ASSUME NEW o \in Ops, add_sqe(t, o) PROVE RingInv'
  <2>1. /\ UNCHANGED <<sq, inflight, cq, run_callbacks, lpc>>
        /\ CanCall(t) /\ status[o] = "new" /\ m_submission_ = NoThread
        /\ op' = [op EXCEPT ![t] = o]
        /\ pc' = [pc EXCEPT ![t] = IF o \in Silent THEN "prep" ELSE "lock_cb"]
        /\ status' = [status EXCEPT ![o] = "adding"]
    BY <1>1 DEF add_sqe, LockSubmission
  <2>2. CqToks' = CqToks /\ RunToks' = RunToks
    BY <2>1, CqSame, RunSame
  <2>3. Ring' = Ring
    BY <2>1, <2>2 DEF Ring
  <2>4. \A u \in Threads : ~Adding(u)
    BY <2>1, ContextAssumption DEF LockInv, Holding, Adding
  <2>5. WakerToBeAdded' => WakerToBeAdded
    BY <2>1, <2>4 DEF WakerToBeAdded, Threads, InRing, Adding
  <2>6. \A p \in Ops : \/ p = o /\ status'[p] = "adding"
                       \/ p # o /\ status'[p] = status[p]
    BY <2>1 DEF TypeOK
  <2>7. \A u \in Threads : \/ u = t /\ ~InRing(u)' /\ op'[u] = o
                           \/ u # t /\ pc'[u] = pc[u] /\ op'[u] = op[u]
    BY <2>1 DEF TypeOK, InRing
  <2>8. \A u \in Threads : ~InRing(u)' /\ (pc'[u] \in {"lock_cb", "prep"} => op'[u] = o)
    BY <2>4, <2>7 DEF InRing, Adding
  <2>9. o \notin Ring \cup RunToks
    BY <2>1 DEF RingInv
  <2> QED
    BY <2>1, <2>2, <2>3, <2>5, <2>6, <2>8, <2>9 DEF RingInv, Distinct, Ring
<1>2. ASSUME NEW o \in Ops, cancel(t, o) PROVE RingInv'
  BY <1>2, RingFrame DEF cancel, InRing
<1>3. CASE wake(t)
  BY <1>3, RingFrame DEF wake, InRing
<1>4. CASE exit_error(t)
  BY <1>4, RingFrame DEF exit_error, CanCall, TypeOK, InRing
<1>5. CASE exit_error_reordered(t)
  BY <1>5, RingFrame DEF exit_error_reordered, CanCall, TypeOK, InRing
<1>6. CASE exit(t)
  BY <1>6, RingFrame DEF exit, SetExiting, CanCall, TypeOK, InRing
<1>7. CASE LockCallbacks(t)
  BY <1>7, RingFrame DEF LockCallbacks, TypeOK, InRing
<1>8. CASE GetSqe(t)
  <2>1. /\ UNCHANGED <<inflight, cq, run_callbacks, lpc, op, status>>
        /\ pc[t] = "prep" /\ sq' = sq \cup {op[t]}
        /\ pc' = [pc EXCEPT ![t] = "wake"]
    BY <1>8 DEF GetSqe
  <2>2. CqToks' = CqToks /\ RunToks' = RunToks
    BY <2>1, CqSame, RunSame
  <2>3. Ring' = Ring \cup {op[t]}
    BY <2>1, <2>2 DEF Ring
  <2>4. \A u \in Threads : \/ u = t /\ pc'[u] = "wake"
                           \/ u # t /\ pc'[u] = pc[u] /\ ~Adding(u)
    BY <2>1 DEF TypeOK, LockInv, Holding, Adding
  <2>5. CASE op[t] = Waker
    <3>1. t = Loop /\ lpc \in {"init", "rearm"}
      BY <2>1, <2>5 DEF CallInv, Adding
    <3>2. Waker \notin inflight \cup CqToks \cup RunToks
      BY <3>1 DEF RingInv
    <3>3. ~WakerToBeAdded'
      BY <2>1, <2>4, <2>5, <3>1 DEF WakerToBeAdded, InRing
    <3> QED
      BY <2>1, <2>2, <2>3, <2>4, <2>5, <3>2, <3>3, ContextAssumption
         DEF RingInv, Distinct, Adding, InRing
  <2>6. CASE op[t] # Waker
    <3>1. op[t] \in Ops /\ status[op[t]] = "adding"
      BY <2>1, <2>6 DEF CallInv, Adding, TypeOK, Toks
    <3>2. op[t] \notin inflight \cup CqToks \cup RunToks
      BY <3>1 DEF RingInv
    <3>3. WakerToBeAdded' => WakerToBeAdded
      BY <2>1, <2>4, <2>6 DEF WakerToBeAdded, InRing, Adding, Threads
    <3> QED
      BY <2>1, <2>2, <2>3, <2>4, <2>6, <3>1, <3>2, <3>3
         DEF RingInv, Distinct, Adding, InRing
  <2> QED
    BY <2>5, <2>6
<1>9. CASE GetSqeFails(t)
  <2>1. CASE op[t] # Waker
    <3>1. /\ pc' = [pc EXCEPT ![t] = "idle"]
          /\ UNCHANGED <<sq, inflight, cq, run_callbacks, op, lpc>>
          /\ status' = [status EXCEPT ![op[t]] = "rejected"]
      BY <1>9, <2>1 DEF GetSqeFails
    <3> QED
      BY <2>1, <3>1, RingReturn
  <2>2. CASE op[t] = Waker
    <3>1. /\ pc[t] = "prep" /\ pc' = [pc EXCEPT ![t] = "exit_flag"]
          /\ UNCHANGED <<sq, inflight, cq, run_callbacks, op, status>>
          /\ lpc' = "dispatch"
      BY <1>9, <2>2 DEF GetSqeFails
    <3> QED
      BY <3>1, RingFrame DEF TypeOK, InRing
  <2> QED
    BY <2>1, <2>2
<1>10. CASE WakeLoop(t)
  <2>1. CASE op[t] \in Silent
    <3>1. op[t] # Waker
      BY <2>1, ContextAssumption
    <3>2. /\ pc' = [pc EXCEPT ![t] = "idle"]
          /\ UNCHANGED <<sq, inflight, cq, run_callbacks, op, lpc>>
          /\ status' = [status EXCEPT ![op[t]] = "accepted"]
      BY <1>10, <2>1, <3>1, AcceptUser DEF WakeLoop
    <3> QED
      BY <3>1, <3>2, RingReturn
  <2>2. CASE op[t] \notin Silent
    <3>1. /\ pc[t] = "wake" /\ pc' = [pc EXCEPT ![t] = "register"]
          /\ UNCHANGED <<sq, inflight, cq, run_callbacks, op, lpc, status>>
      BY <1>10, <2>2 DEF WakeLoop
    <3> QED
      BY <3>1, RingFrame DEF TypeOK, InRing
  <2> QED
    BY <2>1, <2>2
<1>11. CASE WakeLoopFails(t)
  BY <1>11, RingFrame DEF WakeLoopFails, TypeOK, InRing
<1>12. CASE CancelFailed(t)
  <2>1. op[t] # Waker
    BY <1>12, ContextAssumption DEF CancelFailed, CallInv
  <2>2. /\ pc' = [pc EXCEPT ![t] = "idle"]
        /\ UNCHANGED <<sq, inflight, cq, run_callbacks, op, lpc>>
        /\ status' = [status EXCEPT ![op[t]] = "rejected"]
    BY <1>12 DEF CancelFailed
  <2> QED
    BY <2>1, <2>2, RingReturn
<1>13. CASE Register(t)
  <2>1. CASE op[t] # Waker
    <3>1. /\ pc' = [pc EXCEPT ![t] = "idle"]
          /\ UNCHANGED <<sq, inflight, cq, run_callbacks, op, lpc>>
          /\ status' = [status EXCEPT ![op[t]] = "accepted"]
      BY <1>13, <2>1, AcceptUser DEF Register
    <3> QED
      BY <2>1, <3>1, RingReturn
  <2>2. CASE op[t] = Waker
    <3>1. /\ pc' = [pc EXCEPT ![t] = "idle"]
          /\ UNCHANGED <<sq, inflight, cq, run_callbacks, op, status>>
          /\ lpc' \in {"stopped", "dispatch"}
      BY <1>13, <2>2, AcceptWaker DEF Register
    <3>2. CqToks' = CqToks /\ RunToks' = RunToks
      BY <3>1, CqSame, RunSame
    <3>3. Ring' = Ring /\ ~WakerToBeAdded'
      BY <3>1, <3>2 DEF Ring, WakerToBeAdded
    <3>4. \A u \in Threads : pc'[u] = pc[u] \/ pc'[u] = "idle"
      BY <3>1 DEF TypeOK
    <3> QED
      BY <3>1, <3>2, <3>3, <3>4 DEF RingInv, Distinct, InRing
  <2> QED
    BY <2>1, <2>2
<1>14. CASE ExitFlag(t)
  BY <1>14, RingFrame DEF ExitFlag, SetExiting, TypeOK, InRing
<1>15. CASE ExitStore(t)
  BY <1>15, RingFrame DEF ExitStore, TypeOK, InRing
<1>16. CASE ExitWake(t)
  BY <1>16, RingFrame DEF ExitWake, TypeOK, InRing
<1>17. CASE ExitWakeFails(t)
  BY <1>17, RingFrame DEF ExitWakeFails, InRing
<1> QED
  BY <1>1, <1>2, <1>3, <1>4, <1>5, <1>6, <1>7, <1>8, <1>9, <1>10, <1>11,
     <1>12, <1>13, <1>14, <1>15, <1>16, <1>17 DEF UserCall, CallStep

\* run() takes the oldest completion; its callback, if any, joins the batch.
LEMMA CollectEffect ==
  ASSUME TypeOK, RingInv, Collect
  PROVE  \E tok \in CqToks :
           /\ Head(cq).tok = tok
           /\ CqToks' = CqToks \ {tok} /\ Ring' = Ring \ {tok}
           /\ callbacks_' = callbacks_ \ {tok}
           /\ RunToks' = RunToks \cup ({tok} \cap callbacks_)
           /\ RunToks' \subseteq RunToks \cup {tok}
           /\ tok \notin RunToks \cup sq \cup inflight
           /\ Distinct(cq)' /\ Distinct(run_callbacks)'
<1> DEFINE tok == Head(cq).tok
<1>1. /\ UNCHANGED <<sq, inflight>> /\ peeked > 0 /\ cq' = Tail(cq)
      /\ callbacks_' = callbacks_ \ {tok}
      /\ run_callbacks' = IF tok \in callbacks_
                           THEN Append(run_callbacks, Head(cq))
                           ELSE run_callbacks
  BY DEF Collect
<1>2. cq \in Seq(Cqe) /\ cq # <<>> /\ run_callbacks \in Seq(Cqe)
  BY <1>1 DEF TypeOK
<1>3. Distinct(cq) /\ Distinct(run_callbacks)
  BY DEF RingInv
<1>4. Distinct(cq')
  BY <1>1, <1>2, <1>3, TailToks
<1>5. Head(cq) \in Cqe /\ tok \in CqToks /\ CqToks' = CqToks \ {tok}
  BY <1>1, <1>2, <1>3, TailToks DEF CqToks
<1>6. tok \notin RunToks \cup sq \cup inflight
  BY <1>5 DEF RingInv, Ring
<1>7. RunToks' = RunToks \cup ({tok} \cap callbacks_) /\ Distinct(run_callbacks')
  <2>1. CASE tok \notin callbacks_
    BY <1>1, <1>3, <2>1, RunSame DEF Distinct
  <2>2. CASE tok \in callbacks_
    <3>1. run_callbacks' = Append(run_callbacks, Head(cq))
      BY <1>1, <2>2
    <3>2. RunToks' = RunToks \cup {tok}
      BY <1>2, <1>5, <3>1, AppendToks DEF RunToks
    <3>3. Distinct(run_callbacks')
      BY <1>2, <1>3, <1>5, <1>6, <3>1, AppendToks DEF RunToks
    <3> QED
      BY <2>2, <3>2, <3>3
  <2> QED
    BY <2>1, <2>2
<1>8. Ring' = Ring \ {tok}
  BY <1>1, <1>5, <1>6 DEF Ring
<1>9. Distinct(cq)' /\ Distinct(run_callbacks)'
  BY <1>4, <1>7 DEF Distinct
<1> HIDE DEF tok
<1>10. Head(cq).tok = tok /\ RunToks' \subseteq RunToks \cup {tok}
  BY <1>7 DEF tok
<1> QED
  BY <1>1, <1>5, <1>6, <1>7, <1>8, <1>9, <1>10

\* run() takes the next callback of the batch.
LEMMA DispatchEffect ==
  ASSUME TypeOK, RingInv, NEW tok, Dispatching(tok)
  PROVE  /\ tok \in RunToks /\ RunToks' = RunToks \ {tok}
         /\ Distinct(run_callbacks)'
<1>1. run_callbacks # <<>> /\ tok = Head(run_callbacks).tok
      /\ run_callbacks' = Tail(run_callbacks)
  BY DEF Dispatching
<1>2. run_callbacks \in Seq(Cqe) /\ Distinct(run_callbacks)
  BY DEF TypeOK, RingInv
<1>3. tok \in RunToks /\ RunToks' = RunToks \ {tok}
  BY <1>1, <1>2, TailToks DEF RunToks
<1>4. Distinct(run_callbacks')
  BY <1>1, <1>2, TailToks
<1> QED
  BY <1>3, <1>4 DEF Distinct

LEMMA RingLoop ==
  ASSUME TypeOK, LockInv, CallInv, RingInv, run \/ LoopStep
  PROVE  RingInv'
<1> USE DEF At, ringVars, lockVars, exitVars, loopVars, histVars
<1>1. CASE init \/ run \/ CheckExiting \/ ConsumeExit \/ GetError \/ ClearError
  BY <1>1, RingFrame
     DEF init, run, CheckExiting, ConsumeExit, GetError, ClearError, InRing
<1>2. CASE add_waker
  <2>1. /\ UNCHANGED <<sq, inflight, cq, run_callbacks, lpc, status>>
        /\ lpc \in {"init", "rearm"} /\ pc[Loop] = "idle"
        /\ m_submission_ = NoThread
        /\ op' = [op EXCEPT ![Loop] = Waker]
        /\ pc' = [pc EXCEPT ![Loop] = IF Waker \in Silent THEN "prep" ELSE "lock_cb"]
    BY <1>2 DEF add_waker, LockSubmission, Goto
  <2>2. CqToks' = CqToks /\ RunToks' = RunToks
    BY <2>1, CqSame, RunSame
  <2>3. Ring' = Ring
    BY <2>1, <2>2 DEF Ring
  <2>4. \A u \in Threads : ~Adding(u)
    BY <2>1, ContextAssumption DEF LockInv, Holding, Adding
  <2>5. WakerToBeAdded
    BY <2>1 DEF WakerToBeAdded, InRing
  <2>6. \A u \in Threads : \/ u = Loop /\ ~InRing(u)' /\ op'[u] = Waker
                           \/ u # Loop /\ pc'[u] = pc[u] /\ op'[u] = op[u]
    BY <2>1 DEF TypeOK, InRing
  <2>7. \A u \in Threads :
          ~InRing(u)' /\ (pc'[u] \in {"lock_cb", "prep"} => op'[u] = Waker)
    BY <2>4, <2>6 DEF InRing, Adding
  <2> QED
    BY <2>1, <2>2, <2>3, <2>5, <2>7 DEF RingInv, Distinct
<1>3. CASE SubmitLock
  BY <1>3, RingFrame DEF SubmitLock, InRing
<1>4. CASE submit \/ SubmitFails
  <2>1. /\ UNCHANGED <<cq, run_callbacks, pc, op, status>>
        /\ lpc = "submitting" /\ lpc' = "wait"
    BY <1>4 DEF submit, SubmitFails
  <2>2. PICK started \in SUBSET sq :
          inflight' = inflight \cup started /\ sq' = sq \ started
    BY <1>4 DEF submit, SubmitFails
  <2>3. CqToks' = CqToks /\ RunToks' = RunToks
    BY <2>1, CqSame, RunSame
  <2>4. Ring' = Ring
    BY <2>2, <2>3 DEF Ring
  <2>5. \A u \in Threads : ~Adding(u)
    BY <2>1, <1>4 DEF LockInv, Holding, Adding, Threads
  <2>6. \A o \in Ops : status[o] # "adding"
    BY <2>5 DEF CallInv
  <2>7. ~WakerToBeAdded'
    BY <2>1 DEF WakerToBeAdded
  <2>8. \A u \in Threads : pc'[u] \notin {"lock_cb", "prep"} /\ ~InRing(u)'
    BY <2>1, <2>5 DEF Adding, InRing
  <2> QED
    BY <2>1, <2>2, <2>3, <2>4, <2>6, <2>7, <2>8 DEF RingInv, Distinct
<1>5. CASE wait \/ WaitFails \/ peek_batch_cqe \/ CollectLock \/ CollectEnd
  BY <1>5, RingFrame
     DEF wait, WaitFails, peek_batch_cqe, CollectLock, CollectEnd, InRing
<1>6. CASE Collect
  <2>1. UNCHANGED <<sq, inflight, pc, op, status, lpc>> /\ lpc = "collect"
    BY <1>6 DEF Collect
  <2>2. PICK tok \in CqToks :
          /\ CqToks' = CqToks \ {tok} /\ Ring' = Ring \ {tok}
          /\ RunToks' \subseteq RunToks \cup {tok}
          /\ tok \notin RunToks \cup sq \cup inflight
          /\ Distinct(cq)' /\ Distinct(run_callbacks)'
    BY <1>6, CollectEffect
  <2>3. ~WakerToBeAdded'
    BY <2>1 DEF WakerToBeAdded
  <2>4. \A o \in Ops : status[o] \in {"new", "adding"} => o # tok
    BY <2>2 DEF RingInv, Ring
  <2> QED
    BY <2>1, <2>2, <2>3, <2>4 DEF RingInv, InRing
<1>7. ASSUME NEW tok \in Toks, Dispatching(tok),
             UNCHANGED <<sq, inflight, cq, op, status>>,
             \A u \in Threads : pc'[u] = pc[u] \/ pc'[u] = "exit_flag",
             lpc' = "rearm" => tok = Waker /\ pc' = pc, lpc' # "init", lpc' # "uninit"
      PROVE  RingInv'
  <2>2. /\ tok \in RunToks /\ RunToks' = RunToks \ {tok}
        /\ Distinct(run_callbacks)'
    BY <1>7, DispatchEffect
  <2>3. CqToks' = CqToks /\ tok \notin Ring
    BY <1>7, <2>2, CqSame DEF RingInv
  <2>4. Ring' = Ring
    BY <1>7, <2>3 DEF Ring
  <2>5. \A u \in Threads :
          /\ pc'[u] \in {"lock_cb", "prep"} => pc[u] \in {"lock_cb", "prep"}
          /\ InRing(u)' => InRing(u)
    BY <1>7 DEF InRing
  <2>6. lpc' \in {"uninit", "init", "rearm"} => Waker \notin Ring \cup RunToks'
    BY <1>7, <2>2, <2>3
  <2> QED
    <3>1. WakerToBeAdded' => Waker \notin sq'
      BY <1>7, <2>6 DEF WakerToBeAdded, Ring
    <3>2. lpc' \in {"uninit", "init", "rearm"} =>
            Waker \notin inflight' \cup CqToks' \cup RunToks'
      BY <1>7, <2>3, <2>6 DEF Ring
    <3>3. \A u \in Threads :
            /\ pc'[u] \in {"lock_cb", "prep"} => op'[u] \notin sq'
            /\ InRing(u)' => op'[u] \in sq'
      BY <1>7, <2>5 DEF RingInv
    <3>4. Distinct(cq)'
      BY <1>7 DEF RingInv, Distinct
    <3> QED
      BY <1>7, <2>2, <2>3, <2>4, <3>1, <3>2, <3>3, <3>4 DEF RingInv
<1>8. ASSUME NEW o \in Ops, InvokeUser(o) PROVE RingInv'
  BY <1>7, <1>8 DEF InvokeUser, Toks
<1>9. CASE UserReturns \/ RoundEnd
  BY <1>9, RingFrame DEF UserReturns, RoundEnd, InRing
<1>10. CASE WakerRead
  BY <1>7, <1>10 DEF WakerRead, Toks
<1>11. CASE WakerFails
  <2>1. \A u \in Threads : pc'[u] = pc[u] \/ pc'[u] = "exit_flag"
    BY <1>11 DEF WakerFails, Goto, TypeOK
  <2>2. lpc' = "dispatch"
    BY <1>11 DEF WakerFails, Dispatching
  <2> QED
    BY <1>7, <1>11, <2>1, <2>2 DEF WakerFails, Toks
<1> QED
  BY <1>1, <1>2, <1>3, <1>4, <1>5, <1>6, <1>8, <1>9, <1>10, <1>11 DEF LoopStep

LEMMA KernelCompletes ==
  ASSUME Kernel
  PROVE  \E tok \in Toks, ok \in BOOLEAN :
           Complete(tok, ok) /\ (tok = Waker /\ ok => evfd)
<1>1. ASSUME NEW o \in Ops, CompleteUser(o)
      PROVE  Complete(o, TRUE) /\ o \in Toks /\ o # Waker
  BY <1>1, ContextAssumption DEF CompleteUser, Toks
<1>2. CASE PollReady
  BY <1>2 DEF PollReady, Toks
<1>3. CASE PollFails
  BY <1>3 DEF PollFails, Toks
<1> QED
  BY <1>1, <1>2, <1>3 DEF Kernel

LEMMA RingKernel ==
  ASSUME TypeOK, RingInv, Kernel
  PROVE  RingInv'
<1>1. PICK tok \in Toks, ok \in BOOLEAN : Complete(tok, ok)
  BY KernelCompletes
<1>2. /\ UNCHANGED <<sq, run_callbacks, pc, op, status, lpc>>
      /\ tok \in inflight /\ inflight' = inflight \ {tok}
      /\ cq' = Append(cq, [tok |-> tok, ok |-> ok])
  BY <1>1 DEF Complete, loopVars
<1>3. tok \notin sq \cup CqToks \cup RunToks
  BY <1>2 DEF RingInv, Ring
<1>4. CqToks' = CqToks \cup {tok} /\ Distinct(cq)'
  <2>1. [tok |-> tok, ok |-> ok] \in Cqe
    BY DEF Cqe
  <2>2. [tok |-> tok, ok |-> ok].tok = tok
    OBVIOUS
  <2>3. cq \in Seq(Cqe) /\ Distinct(cq)
    BY DEF TypeOK, RingInv
  <2>4. CqToks' = CqToks \cup {tok}
    BY <1>2, <2>1, <2>2, <2>3, AppendToks DEF CqToks
  <2>5. Distinct(cq')
    BY <1>2, <1>3, <2>1, <2>2, <2>3, AppendToks DEF CqToks
  <2> QED
    BY <2>4, <2>5 DEF Distinct
<1>5. RunToks' = RunToks /\ Ring' = Ring
  BY <1>2, <1>4, RunSame DEF Ring
<1>6. WakerToBeAdded' <=> WakerToBeAdded
  BY <1>2 DEF WakerToBeAdded, InRing
<1>7. \A o \in Ops : status[o] \in {"new", "adding"} => o # tok
  BY <1>2 DEF RingInv, Ring
<1> QED
  BY <1>2, <1>3, <1>4, <1>5, <1>6, <1>7 DEF RingInv, InRing, Distinct

\* At every moment a request is in one place: the submission ring, the
\* kernel, the completion ring or the batch of run(), and there once.
THEOREM RingCorrect == Spec => []RingInv
<1>1. Init => RingInv
  BY DEF Init, RingInv, Ring, CqToks, RunToks, Distinct, InRing
<1>2. TypeOK /\ LockInv /\ CallInv /\ RingInv /\ [Next]_vars => RingInv'
  <2> SUFFICES ASSUME TypeOK, LockInv, CallInv, RingInv, [Next]_vars
               PROVE  RingInv'
    OBVIOUS
  <2>1. CASE Next
    BY <2>1, RingCall, RingLoop, RingKernel DEF Next
  <2>2. CASE UNCHANGED vars
    BY <2>2, RingFrame DEF InRing, vars, ringVars, loopVars
  <2> QED
    BY <2>1, <2>2
<1> QED
  BY <1>1, <1>2, TypeCorrect, LockCorrect, CallCorrect, PTL DEF Spec

-----------------------------------------------------------------------------
(***************************************************************************)
(* The callback of a request is in one place.                              *)
(***************************************************************************)
WakerPut == InRing(Loop) /\ op[Loop] = Waker

\* Steps that leave the callbacks and what the callers were told alone.
LEMMA MapFrame ==
  ASSUME MapInv, UNCHANGED <<callbacks_, status, invoked, cancelled>>,
         Ring' = Ring, RunToks' \ {Waker} = RunToks \ {Waker},
         WakerPut => WakerPut'
  PROVE  MapInv'
<1>1. \A o \in Ops : o \in RunToks' <=> o \in RunToks
  BY ContextAssumption
<1>2. \A o \in Ops : /\ Nowhere(o)' <=> Nowhere(o)
                     /\ OnePlace(o)' <=> OnePlace(o)
  BY <1>1 DEF Nowhere, OnePlace
<1> QED
  BY <1>2 DEF MapInv, WakerPut

\* add_sqe() returns for a request of the user: what changes for the others.
LEMMA MapReturn ==
  ASSUME TypeOK, MapInv, UNCHANGED <<sq, inflight, cq, run_callbacks, op,
                                     invoked, cancelled>>,
         NEW t \in Threads, op[t] # Waker,
         pc' = [pc EXCEPT ![t] = "idle"],
         NEW told \in {"accepted", "rejected"},
         status' = [status EXCEPT ![op[t]] = told],
         callbacks_' \ {op[t]} = callbacks_ \ {op[t]},
         op[t] \in callbacks_' => op[t] \in Ring,
         IF told = "accepted" /\ op[t] \notin Silent
           THEN OnePlace(op[t])' ELSE Nowhere(op[t])',
         told = "rejected" => op[t] \in Silent \/ op[t] \notin Ring
  PROVE  MapInv'
<1>1. CqToks' = CqToks /\ RunToks' = RunToks
  BY CqSame, RunSame
<1>2. Ring' = Ring
  BY <1>1 DEF Ring
<1>3. \A o \in Ops \ {op[t]} :
        /\ status'[o] = status[o]
        /\ Nowhere(o)' <=> Nowhere(o)
        /\ OnePlace(o)' <=> OnePlace(o)
  BY <1>1, <1>2 DEF TypeOK, Nowhere, OnePlace
<1>4. op[t] \in Ops /\ status'[op[t]] = told
  BY DEF TypeOK, Toks
<1>5. callbacks_' \subseteq Ring'
  BY <1>2 DEF MapInv
<1>6. Waker \in Ring' =>
        Waker \in callbacks_' \/ (InRing(Loop)' /\ op'[Loop] = Waker)
  BY <1>2 DEF MapInv, InRing, TypeOK, Threads
<1>7. ASSUME NEW o \in Ops
      PROVE  /\ status'[o] # "accepted" \/ o \in Silent => Nowhere(o)'
             /\ status'[o] = "accepted" /\ o \notin Silent => OnePlace(o)'
             /\ status'[o] = "rejected" /\ o \notin Silent => o \notin Ring'
  <2>1. CASE o = op[t]
    BY <1>2, <1>4, <2>1
  <2>2. CASE o # op[t]
    BY <1>2, <1>3, <2>2 DEF MapInv
  <2> QED
    BY <2>1, <2>2
<1> QED
  BY <1>5, <1>6, <1>7 DEF MapInv

LEMMA MapCall ==
  ASSUME TypeOK, LockInv, CallInv, RingInv, MapInv,
         NEW t \in Threads, UserCall(t) \/ CallStep(t)
  PROVE  MapInv'
<1> USE DEF ringVars, lockVars, exitVars, loopVars, histVars, Goto
<1>0. ASSUME UNCHANGED <<sq, inflight, cq, run_callbacks, callbacks_, status,
                         invoked, cancelled, op>>,
             \A u \in Threads : InRing(u) => InRing(u)'
      PROVE  MapInv'
  <2>1. CqToks' = CqToks /\ RunToks' = RunToks
    BY <1>0, CqSame, RunSame
  <2>2. Ring' = Ring /\ (WakerPut => WakerPut')
    BY <1>0, <2>1 DEF Ring, WakerPut, Threads
  <2> QED
    BY <1>0, <2>1, <2>2, MapFrame
<1>a. Adding(t) /\ op[t] # Waker =>
        /\ op[t] \in Ops /\ status[op[t]] = "adding" /\ Nowhere(op[t])
        /\ op[t] \notin inflight \cup CqToks
  BY DEF CallInv, TypeOK, Toks, MapInv, RingInv
<1>1. ASSUME NEW o \in Ops, add_sqe(t, o) PROVE MapInv'
  <2>1. /\ UNCHANGED <<sq, inflight, cq, run_callbacks, callbacks_, invoked,
                       cancelled, lpc>>
        /\ pc[t] = "idle" /\ status[o] = "new"
        /\ op' = [op EXCEPT ![t] = o]
        /\ pc' = [pc EXCEPT ![t] = IF o \in Silent THEN "prep" ELSE "lock_cb"]
        /\ status' = [status EXCEPT ![o] = "adding"]
    BY <1>1 DEF add_sqe, LockSubmission, CanCall
  <2>2. CqToks' = CqToks /\ RunToks' = RunToks
    BY <2>1, CqSame, RunSame
  <2>3. Ring' = Ring
    BY <2>1, <2>2 DEF Ring
  <2>4. \A p \in Ops : Nowhere(p)' <=> Nowhere(p)
    BY <2>1, <2>2 DEF Nowhere
  <2>5. \A p \in Ops : OnePlace(p)' <=> OnePlace(p)
    BY <2>1, <2>2, <2>3 DEF OnePlace
  <2>6. \A p \in Ops : \/ p = o /\ status'[p] = "adding"
                       \/ p # o /\ status'[p] = status[p]
    BY <2>1 DEF TypeOK
  <2>7. WakerPut => WakerPut'
    BY <2>1 DEF WakerPut, InRing, TypeOK, Threads
  <2> QED
    BY <2>1, <2>3, <2>4, <2>5, <2>6, <2>7 DEF MapInv, WakerPut
<1>2. ASSUME NEW o \in Ops, cancel(t, o) PROVE MapInv'
  <2>1. /\ UNCHANGED <<sq, inflight, cq, run_callbacks, invoked, status, pc, op>>
        /\ status[o] = "accepted"
        /\ callbacks_' = callbacks_ \ {o}
        /\ cancelled' = cancelled \cup ({o} \cap callbacks_)
    BY <1>2 DEF cancel
  <2>2. CqToks' = CqToks /\ RunToks' = RunToks
    BY <2>1, CqSame, RunSame
  <2>3. Ring' = Ring /\ (WakerPut => WakerPut')
    BY <2>1, <2>2 DEF Ring, WakerPut, InRing
  <2>4. \A p \in Ops : Nowhere(p) => Nowhere(p)'
    BY <2>1, <2>2 DEF Nowhere
  <2>5. \A p \in Ops : OnePlace(p) => OnePlace(p)'
    BY <2>1, <2>2, <2>3 DEF OnePlace
  <2>6. Waker \in callbacks_ => Waker \in callbacks_'
    BY <2>1, ContextAssumption
  <2> QED
    BY <2>1, <2>3, <2>4, <2>5, <2>6 DEF MapInv, WakerPut
<1>3. CASE wake(t)
  BY <1>0, <1>3 DEF wake, InRing
<1>4. CASE exit_error(t)
  BY <1>0, <1>4 DEF exit_error, CanCall, TypeOK, InRing
<1>5. CASE exit_error_reordered(t)
  BY <1>0, <1>5 DEF exit_error_reordered, CanCall, TypeOK, InRing
<1>6. CASE exit(t)
  BY <1>0, <1>6 DEF exit, SetExiting, CanCall, TypeOK, InRing
<1>7. CASE LockCallbacks(t)
  BY <1>0, <1>7 DEF LockCallbacks, TypeOK, InRing
<1>8. CASE GetSqe(t)
  <2>1. /\ UNCHANGED <<inflight, cq, run_callbacks, callbacks_, invoked,
                       cancelled, op, status>>
        /\ pc[t] = "prep" /\ sq' = sq \cup {op[t]}
        /\ pc' = [pc EXCEPT ![t] = "wake"]
    BY <1>8 DEF GetSqe
  <2>2. CqToks' = CqToks /\ RunToks' = RunToks
    BY <2>1, CqSame, RunSame
  <2>3. Ring' = Ring \cup {op[t]}
    BY <2>1, <2>2 DEF Ring
  <2>4. op[t] \in Ops => status[op[t]] = "adding"
    BY <1>a, <2>1, ContextAssumption DEF Adding
  <2>5. op[t] = Waker => WakerPut'
    BY <2>1 DEF WakerPut, InRing, CallInv, Adding, TypeOK
  <2>6. WakerPut => WakerPut'
    BY <2>1 DEF WakerPut, InRing, TypeOK, Threads
  <2>7. \A o \in Ops : Nowhere(o)' <=> Nowhere(o)
    BY <2>1, <2>2 DEF Nowhere
  <2>8. \A o \in Ops : o # op[t] => (OnePlace(o)' <=> OnePlace(o))
    BY <2>1, <2>2, <2>3 DEF OnePlace
  <2>9. Waker \in Ring' => Waker \in callbacks_' \/ WakerPut'
    BY <2>1, <2>3, <2>5, <2>6 DEF MapInv, WakerPut
  <2> QED
    BY <2>1, <2>3, <2>4, <2>7, <2>8, <2>9 DEF MapInv, WakerPut
<1>9. CASE GetSqeFails(t)
  <2>1. CASE op[t] # Waker
    <3>1. /\ pc[t] = "prep" /\ pc' = [pc EXCEPT ![t] = "idle"]
          /\ UNCHANGED <<sq, inflight, cq, run_callbacks, op, invoked,
                         cancelled, callbacks_>>
          /\ status' = [status EXCEPT ![op[t]] = "rejected"]
      BY <1>9, <2>1 DEF GetSqeFails
    <3>2. Nowhere(op[t])' /\ op[t] \notin callbacks_'
      BY <1>a, <2>1, <3>1, RunSame DEF Adding, Nowhere
    <3>3. op[t] \notin Ring
      BY <1>a, <2>1, <3>1 DEF Adding, Ring, RingInv
    <3> QED
      BY <2>1, <3>1, <3>2, <3>3, MapReturn
  <2>2. CASE op[t] = Waker
    <3>1. /\ pc[t] = "prep" /\ pc' = [pc EXCEPT ![t] = "exit_flag"]
          /\ UNCHANGED <<sq, inflight, cq, run_callbacks, op, status, invoked,
                         cancelled, callbacks_>>
      BY <1>9, <2>2 DEF GetSqeFails
    <3> QED
      BY <1>0, <3>1 DEF TypeOK, InRing
  <2> QED
    BY <2>1, <2>2
<1>10. CASE WakeLoop(t)
  <2>1. CASE op[t] \in Silent
    <3>1. op[t] # Waker
      BY <2>1, ContextAssumption
    <3>2. /\ pc[t] = "wake" /\ pc' = [pc EXCEPT ![t] = "idle"]
          /\ UNCHANGED <<sq, inflight, cq, run_callbacks, op, invoked,
                         cancelled, callbacks_>>
          /\ status' = [status EXCEPT ![op[t]] = "accepted"]
      BY <1>10, <2>1, <3>1, AcceptUser DEF WakeLoop
    <3>3. Nowhere(op[t])' /\ op[t] \notin callbacks_'
      BY <1>a, <3>1, <3>2, RunSame DEF Adding, Nowhere
    <3> QED
      BY <2>1, <3>1, <3>2, <3>3, MapReturn
  <2>2. CASE op[t] \notin Silent
    <3>1. /\ pc' = [pc EXCEPT ![t] = "register"]
          /\ UNCHANGED <<sq, inflight, cq, run_callbacks, op, status, invoked,
                         cancelled, callbacks_>>
      BY <1>10, <2>2 DEF WakeLoop
    <3> QED
      BY <1>0, <3>1 DEF TypeOK, InRing
  <2> QED
    BY <2>1, <2>2
<1>11. CASE WakeLoopFails(t)
  BY <1>0, <1>11 DEF WakeLoopFails, TypeOK, InRing
<1>12. CASE CancelFailed(t)
  <2>1. op[t] # Waker /\ op[t] \in Silent
    BY <1>12, ContextAssumption DEF CancelFailed, CallInv
  <2>2. /\ pc[t] = "cancel" /\ pc' = [pc EXCEPT ![t] = "idle"]
        /\ UNCHANGED <<sq, inflight, cq, run_callbacks, op, invoked, cancelled>>
        /\ status' = [status EXCEPT ![op[t]] = "rejected"]
        /\ callbacks_' = callbacks_ \ {op[t]}
    BY <1>12 DEF CancelFailed
  <2>3. Nowhere(op[t])' /\ op[t] \notin callbacks_'
    BY <1>a, <2>1, <2>2, RunSame DEF Adding, Nowhere
  <2> QED
    BY <2>1, <2>2, <2>3, MapReturn
<1>13. CASE Register(t)
  <2>1. CASE op[t] # Waker
    <3>1. /\ pc[t] = "register" /\ pc' = [pc EXCEPT ![t] = "idle"]
          /\ UNCHANGED <<sq, inflight, cq, run_callbacks, op, invoked, cancelled>>
          /\ callbacks_' = callbacks_ \cup {op[t]}
          /\ status' = [status EXCEPT ![op[t]] = "accepted"]
      BY <1>13, <2>1, AcceptUser DEF Register
    <3>2. op[t] \notin Silent /\ op[t] \in Ring
      BY <3>1 DEF CallInv, RingInv, InRing, Ring
    <3>3. OnePlace(op[t])'
      BY <1>a, <2>1, <3>1, RunSame DEF Adding, Nowhere, OnePlace
    <3> QED
      BY <2>1, <3>1, <3>2, <3>3, MapReturn
  <2>2. CASE op[t] = Waker
    <3>1. /\ pc' = [pc EXCEPT ![t] = "idle"] /\ pc[t] = "register"
          /\ UNCHANGED <<sq, inflight, cq, run_callbacks, op, status, invoked,
                         cancelled>>
          /\ callbacks_' = callbacks_ \cup {Waker}
      BY <1>13, <2>2, AcceptWaker DEF Register
    <3>2. CqToks' = CqToks /\ RunToks' = RunToks
      BY <3>1, CqSame, RunSame
    <3>3. Ring' = Ring /\ Waker \in Ring
      BY <2>2, <3>1, <3>2 DEF Ring, RingInv, InRing
    <3>4. \A o \in Ops : /\ Nowhere(o)' <=> Nowhere(o)
                         /\ OnePlace(o)' <=> OnePlace(o)
      BY <3>1, <3>2, <3>3, ContextAssumption DEF Nowhere, OnePlace
    <3> QED
      BY <3>1, <3>3, <3>4 DEF MapInv
  <2> QED
    BY <2>1, <2>2
<1>14. CASE ExitFlag(t)
  BY <1>0, <1>14 DEF ExitFlag, SetExiting, TypeOK, InRing
<1>15. CASE ExitStore(t)
  BY <1>0, <1>15 DEF ExitStore, TypeOK, InRing
<1>16. CASE ExitWake(t)
  BY <1>0, <1>16 DEF ExitWake, TypeOK, InRing
<1>17. CASE ExitWakeFails(t)
  BY <1>0, <1>17 DEF ExitWakeFails, InRing
<1> QED
  BY <1>1, <1>2, <1>3, <1>4, <1>5, <1>6, <1>7, <1>8, <1>9, <1>10, <1>11,
     <1>12, <1>13, <1>14, <1>15, <1>16, <1>17 DEF UserCall, CallStep

LEMMA MapLoop ==
  ASSUME TypeOK, LockInv, CallInv, RingInv, MapInv, run \/ LoopStep
  PROVE  MapInv'
<1> USE DEF At, ringVars, lockVars, exitVars, loopVars, histVars
<1>0. ASSUME UNCHANGED <<sq, inflight, cq, run_callbacks, callbacks_, status,
                         invoked, cancelled, pc, op>>
      PROVE  MapInv'
  <2>1. CqToks' = CqToks /\ RunToks' = RunToks
    BY <1>0, CqSame, RunSame
  <2>2. Ring' = Ring /\ (WakerPut => WakerPut')
    BY <1>0, <2>1 DEF Ring, WakerPut, InRing
  <2> QED
    BY <1>0, <2>1, <2>2, MapFrame
<1>1. CASE init \/ run \/ CheckExiting \/ ConsumeExit \/ GetError \/ ClearError
  BY <1>0, <1>1 DEF init, run, CheckExiting, ConsumeExit, GetError, ClearError
<1>2. CASE add_waker
  <2>1. /\ UNCHANGED <<sq, inflight, cq, run_callbacks, callbacks_, status,
                       invoked, cancelled>>
        /\ pc[Loop] = "idle"
    BY <1>2 DEF add_waker, LockSubmission
  <2>2. CqToks' = CqToks /\ RunToks' = RunToks
    BY <2>1, CqSame, RunSame
  <2>3. Ring' = Ring /\ ~WakerPut
    BY <2>1, <2>2 DEF Ring, WakerPut, InRing
  <2> QED
    BY <2>1, <2>2, <2>3, MapFrame
<1>3. CASE SubmitLock
  BY <1>0, <1>3 DEF SubmitLock
<1>4. CASE submit \/ SubmitFails
  <2>1. UNCHANGED <<cq, run_callbacks, pc, op, callbacks_, status, invoked,
                    cancelled>>
    BY <1>4 DEF submit, SubmitFails
  <2>2. PICK started \in SUBSET sq :
          inflight' = inflight \cup started /\ sq' = sq \ started
    BY <1>4 DEF submit, SubmitFails
  <2>3. CqToks' = CqToks /\ RunToks' = RunToks
    BY <2>1, CqSame, RunSame
  <2>4. Ring' = Ring /\ (WakerPut => WakerPut')
    BY <2>1, <2>2, <2>3 DEF Ring, WakerPut, InRing
  <2> QED
    BY <2>1, <2>3, <2>4, MapFrame
<1>5. CASE wait \/ WaitFails \/ peek_batch_cqe \/ CollectLock \/ CollectEnd
  BY <1>0, <1>5 DEF wait, WaitFails, peek_batch_cqe, CollectLock, CollectEnd
<1>6. CASE Collect
  <2>1. UNCHANGED <<pc, op, status, invoked, cancelled>>
    BY <1>6 DEF Collect
  <2>2. PICK tok \in CqToks :
          /\ Ring' = Ring \ {tok}
          /\ callbacks_' = callbacks_ \ {tok}
          /\ RunToks' = RunToks \cup ({tok} \cap callbacks_)
          /\ tok \notin RunToks
    BY <1>6, CollectEffect
  <2>3. \A o \in Ops : Nowhere(o) => Nowhere(o)'
    BY <2>1, <2>2 DEF Nowhere
  <2>4. \A o \in Ops : OnePlace(o) => OnePlace(o)'
    BY <2>1, <2>2 DEF OnePlace
  <2>5. Waker \in Ring' => Waker \in callbacks_' \/ WakerPut'
    BY <2>1, <2>2 DEF MapInv, WakerPut, InRing
  <2>6. callbacks_' \subseteq Ring'
    BY <2>2 DEF MapInv
  <2> QED
    BY <2>1, <2>2, <2>3, <2>4, <2>5, <2>6 DEF MapInv, WakerPut
<1>7. ASSUME NEW o \in Ops, InvokeUser(o) PROVE MapInv'
  <2>1. /\ UNCHANGED <<sq, inflight, cq, pc, op, callbacks_, status, cancelled>>
        /\ invoked' = [invoked EXCEPT ![o] = @ + 1] /\ Dispatching(o)
    BY <1>7 DEF InvokeUser
  <2>2. o \in RunToks /\ RunToks' = RunToks \ {o}
    BY <2>1, DispatchEffect
  <2>3. CqToks' = CqToks
    BY <2>1, CqSame
  <2>4. Ring' = Ring /\ (WakerPut => WakerPut') /\ o \notin Ring
    BY <2>1, <2>2, <2>3 DEF Ring, WakerPut, InRing, RingInv
  <2>5. status[o] = "accepted" /\ o \notin Silent
    BY <2>2 DEF MapInv, Nowhere
  <2>6. invoked[o] = 0 /\ o \notin callbacks_ /\ o \notin cancelled
    BY <2>2, <2>5 DEF MapInv, OnePlace
  <2>7. invoked'[o] = 1 /\ \A p \in Ops \ {o} : invoked'[p] = invoked[p]
    BY <2>1, <2>6 DEF TypeOK
  <2>8. OnePlace(o)'
    BY <2>1, <2>2, <2>4, <2>6, <2>7 DEF OnePlace
  <2>9. \A p \in Ops \ {o} : /\ Nowhere(p) => Nowhere(p)'
                             /\ OnePlace(p) => OnePlace(p)'
    BY <2>1, <2>2, <2>4, <2>7 DEF Nowhere, OnePlace
  <2>10. ASSUME NEW p \in Ops
         PROVE  /\ status'[p] # "accepted" \/ p \in Silent => Nowhere(p)'
                /\ status'[p] = "accepted" /\ p \notin Silent => OnePlace(p)'
                /\ status'[p] = "rejected" /\ p \notin Silent => p \notin Ring'
    <3>1. CASE p = o
      BY <2>1, <2>5, <2>8, <3>1
    <3>2. CASE p # o
      <4>1. (Nowhere(p) => Nowhere(p)') /\ (OnePlace(p) => OnePlace(p)')
        BY <2>9, <3>2
      <4>2. status' = status /\ Ring' = Ring
        BY <2>1, <2>4
      <4> QED
        BY <4>1, <4>2 DEF MapInv
    <3> QED
      BY <3>1, <3>2
  <2> QED
    BY <2>1, <2>4, <2>10 DEF MapInv, WakerPut
<1>8. CASE UserReturns \/ RoundEnd
  BY <1>0, <1>8 DEF UserReturns, RoundEnd
<1>9. CASE WakerRead \/ WakerFails
  <2>1. /\ UNCHANGED <<sq, inflight, cq, callbacks_, status, invoked, cancelled>>
        /\ Dispatching(Waker)
    BY <1>9 DEF WakerRead, WakerFails
  <2>2. RunToks' \ {Waker} = RunToks \ {Waker} /\ CqToks' = CqToks
    <3>1. RunToks' = RunToks \ {Waker}
      BY <2>1, DispatchEffect
    <3> QED
      BY <2>1, <3>1, CqSame
  <2>3. Ring' = Ring /\ ~WakerPut
    BY <2>1, <2>2 DEF Ring, WakerPut, InRing, Dispatching
  <2> QED
    BY <2>1, <2>2, <2>3, MapFrame
<1> QED
  BY <1>1, <1>2, <1>3, <1>4, <1>5, <1>6, <1>7, <1>8, <1>9 DEF LoopStep

\* The kernel moves a request to the completion ring and touches nothing else.
LEMMA KernelEffect ==
  ASSUME TypeOK, Kernel
  PROVE  /\ Ring' = Ring /\ RunToks' = RunToks
         /\ UNCHANGED <<sq, callbacks_, lockVars, exitVars, loopVars, pc, op,
                        status, histVars, evfd>>
<1>1. PICK tok \in Toks, ok \in BOOLEAN : Complete(tok, ok)
  BY KernelCompletes
<1>2. /\ tok \in inflight /\ inflight' = inflight \ {tok}
      /\ cq' = Append(cq, [tok |-> tok, ok |-> ok])
      /\ UNCHANGED <<sq, callbacks_, lockVars, exitVars, loopVars, pc, op,
                     status, histVars, evfd>>
  BY <1>1 DEF Complete
<1>3. [tok |-> tok, ok |-> ok] \in Cqe /\ [tok |-> tok, ok |-> ok].tok = tok
  BY DEF Cqe
<1>4. CqToks' = CqToks \cup {tok}
  <2>1. cq \in Seq(Cqe)
    BY DEF TypeOK
  <2> QED
    BY <1>2, <1>3, <2>1, AppendToks DEF CqToks
<1>5. Ring' = Ring
  BY <1>2, <1>4 DEF Ring
<1>6. RunToks' = RunToks
  BY <1>2, RunSame DEF loopVars
<1> QED
  BY <1>2, <1>5, <1>6

LEMMA MapKernel ==
  ASSUME TypeOK, MapInv, Kernel
  PROVE  MapInv'
BY KernelEffect, MapFrame DEF histVars, WakerPut, InRing

\* How the rings, the map of callbacks and what add_sqe() returned go together.
THEOREM MapCorrect == Spec => []MapInv
<1>1. Init => MapInv
  BY DEF Init, MapInv, Ring, CqToks, RunToks, Nowhere
<1>2. TypeOK /\ LockInv /\ CallInv /\ RingInv /\ MapInv /\ [Next]_vars => MapInv'
  <2> SUFFICES ASSUME TypeOK, LockInv, CallInv, RingInv, MapInv, [Next]_vars
               PROVE  MapInv'
    OBVIOUS
  <2>1. CASE Next
    BY <2>1, MapCall, MapLoop, MapKernel DEF Next
  <2>2. CASE UNCHANGED vars
    <3>1. CqToks' = CqToks /\ RunToks' = RunToks
      BY <2>2, CqSame, RunSame DEF vars, ringVars, loopVars
    <3>2. Ring' = Ring /\ (WakerPut => WakerPut')
      BY <2>2, <3>1 DEF Ring, WakerPut, InRing, vars, ringVars
    <3> QED
      BY <2>2, <3>1, <3>2, MapFrame DEF vars, histVars
  <2> QED
    BY <2>1, <2>2
<1> QED
  BY <1>1, <1>2, TypeCorrect, LockCorrect, CallCorrect, RingCorrect, PTL DEF Spec

\* A callback in the map is one whose request is still in the rings, so it
\* will be taken out again: nothing captured by a callback is kept for ever.
THEOREM CallbacksAreNotLeaked == Spec => []NoLeakedCallback
<1>1. MapInv => NoLeakedCallback
  BY DEF MapInv, NoLeakedCallback, Ring
<1> QED
  BY <1>1, MapCorrect, PTL

\* A completion finds the callback of its request, although the callback is
\* stored after the request was put in the ring and the loop woken, for any
\* number of threads and whatever system calls fail; only a request without a
\* callback, or one whose callback was cancelled, completes unheard.
THEOREM CompletionsAreHeard == Spec => []NoOrphanCompletion
<1>1. TypeOK /\ LockInv /\ CallInv /\ RingInv /\ MapInv => NoOrphanCompletion
  <2> SUFFICES ASSUME TypeOK, LockInv, CallInv, RingInv, MapInv,
                      NEW tok \in inflight \cup CqToks
               PROVE  tok \in callbacks_ \cup Silent \cup cancelled
    BY DEF NoOrphanCompletion
  <2>1. tok \in Ring /\ tok \notin sq /\ tok \notin RunToks
    BY DEF Ring, RingInv
  <2>2. tok \in Toks
    <3>1. CqToks \subseteq Toks
      <4>1. \A i \in DOMAIN cq : cq[i] \in Cqe
        BY DEF TypeOK
      <4> QED
        BY <4>1 DEF CqToks, Cqe
    <3> QED
      BY <3>1 DEF TypeOK
  <2>3. CASE tok = Waker
    <3>1. ~(InRing(Loop) /\ op[Loop] = Waker)
      BY <2>1, <2>3 DEF RingInv, Threads
    <3> QED
      BY <2>1, <2>3, <3>1 DEF MapInv
  <2>4. CASE tok \in Ops
    <3>1. status[tok] \notin {"new", "adding"}
      BY <2>1, <2>4 DEF RingInv
    <3>2. status[tok] \in {"accepted", "rejected"}
      BY <2>4, <3>1 DEF TypeOK
    <3> QED
      BY <2>1, <2>4, <3>2 DEF MapInv, OnePlace
  <2> QED
    BY <2>2, <2>3, <2>4 DEF Toks
<1> QED
  BY <1>1, TypeCorrect, LockCorrect, CallCorrect, RingCorrect, MapCorrect, PTL

\* The callback of a request that add_sqe() accepted is at every moment in
\* exactly one place (in the map, in the batch of run(), invoked, cancelled)
\* and is invoked at most once; that of a refused request never is.
THEOREM CallbacksRunOnce == Spec => []ExactlyOnce
<1>1. TypeOK /\ MapInv => ExactlyOnce
  <2> SUFFICES ASSUME TypeOK, MapInv, NEW o \in Ops
               PROVE  /\ invoked[o] <= 1
                      /\ status[o] = "accepted" /\ o \notin Silent =>
                           \E p \in PlaceNames : Places(o) = {p}
                      /\ status[o] \in {"new", "rejected"} => Places(o) = {}
    BY DEF ExactlyOnce
  <2>1. Nowhere(o) => Places(o) = {} /\ invoked[o] = 0
    BY DEF Nowhere, Places, PlaceNames
  <2>2. OnePlace(o) => /\ \E p \in PlaceNames : Places(o) = {p}
                       /\ invoked[o] \in {0, 1}
    BY DEF OnePlace, Places, PlaceNames
  <2>3. \/ Nowhere(o) /\ (status[o] # "accepted" \/ o \in Silent)
        \/ OnePlace(o) /\ status[o] = "accepted" /\ o \notin Silent
    BY DEF MapInv
  <2>4. invoked[o] <= 1
    BY <2>1, <2>2, <2>3 DEF TypeOK
  <2> QED
    BY <2>1, <2>2, <2>3, <2>4
<1> QED
  BY <1>1, TypeCorrect, MapCorrect, PTL
=============================================================================
