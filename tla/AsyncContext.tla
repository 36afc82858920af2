---------------------------- MODULE AsyncContext ----------------------------
(***************************************************************************)
(* base_singlethread_uring_async_context: the event loop of arkio, the     *)
(* io_uring submission and completion rings below it, and the threads that *)
(* call it.                                                                *)
(*                                                                         *)
(* One thread (Loop) calls init() and run(); every thread may call         *)
(* add_sqe(), cancel(), wake() and exit(), and so may the callbacks that   *)
(* run() invokes.  Steps are cut where another thread can interfere: at    *)
(* each mutex operation, each access to exiting_ / exiting_error_ (plain   *)
(* members that no mutex guards) and each system call.                     *)
(*                                                                         *)
(* Data abstractions.                                                      *)
(*  - A token is the add_sqe() call it was handed to.  callbacks_idx_ is   *)
(*    64 bits wide and only moves under m_submission_, so a token never    *)
(*    names two calls; SqExclusive is the property this rests on.  The     *)
(*    successive tokens of the waker are one value, Waker.                 *)
(*  - A callback is the token it is stored under.                          *)
(*  - The eventfd counter is TRUE when it is not zero: poll and read tell  *)
(*    nothing else apart.                                                  *)
(*  - The submission ring is a set: the kernel finishes requests in any    *)
(*    order, so the order in which it starts them shows nowhere.           *)
(***************************************************************************)
EXTENDS Naturals, Sequences, FiniteSets

CONSTANTS
  Clients,      \* threads that call the context beside the thread of run()
  Loop,         \* the thread of init() and run()
  Ops,          \* the add_sqe() calls that user code makes
  Silent,       \* those made through the overload without a callback
  Waker,        \* the token of the waker's poll request
  SqEntries,    \* entries of the submission ring (batch_size, 1024)
  BatchSize,    \* completions taken in one round (batch_size, 1024)
  ErrExiters,   \* threads whose user code calls exit(result) with an error
  Faults,       \* system calls that may fail
  NoThread      \* the holder of a free mutex

Threads == Clients \cup {Loop}
Toks    == Ops \cup {Waker}

ASSUME ContextAssumption ==
  /\ Loop \notin Clients
  /\ NoThread \notin Threads
  /\ Waker \notin Ops
  /\ Silent \subseteq Ops
  /\ ErrExiters \subseteq Threads
  /\ SqEntries \in Nat \ {0}
  /\ BatchSize \in Nat \ {0}
  /\ Faults \subseteq {"wake", "poll", "read", "wait", "submit"}

VARIABLES
  sq,              \* requests in the submission ring, not yet submitted
  inflight,        \* requests the kernel works on
  cq,              \* completion ring, oldest first
  evfd,            \* is the counter of waker_evfd_ above zero
  callbacks_,      \* tokens that have a callback in the map
  m_submission_,   \* holder of the mutex of that name
  m_callbacks_,    \* holder of the mutex of that name
  exiting_,
  exiting_error_,  \* is an error stored
  lpc,             \* where the Loop thread is in init() or run()
  peeked,          \* completions of this round still to be looked up
  run_callbacks,   \* the list of that name in run()
  pc,              \* where a thread is in the API call it is making
  op,              \* the request that call is about
  status,          \* what the caller of add_sqe() has been told
  invoked,         \* history: invocations of each callback
  cancelled,       \* history: callbacks that cancel() erased
  owed,            \* history: exit(error) stored an error no run() returned
  wakerLost,       \* history: the waker's callback ended without re-arming
  blind,           \* history: run() was called again after that
  aborted          \* abort() was called

ringVars == <<sq, inflight, cq, evfd>>
lockVars == <<m_submission_, m_callbacks_>>
exitVars == <<exiting_, exiting_error_, owed>>
loopVars == <<lpc, peeked, run_callbacks>>
histVars == <<invoked, cancelled, wakerLost, blind, aborted>>
vars == <<ringVars, callbacks_, lockVars, exitVars, loopVars, pc, op, status,
          histVars>>

Cqe == [tok : Toks, ok : BOOLEAN]
CqToks  == {cq[i].tok : i \in DOMAIN cq}
RunToks == {run_callbacks[i].tok : i \in DOMAIN run_callbacks}

PcVals  == {"idle", "lock_cb", "prep", "wake", "register", "cancel", "stuck",
            "exit_flag", "exit_store", "exit_wake"}
LpcVals == {"uninit", "init", "stopped", "check", "consume", "get_error",
            "clear_error", "submit", "submitting", "wait", "peek",
            "collect_lock", "collect", "dispatch", "user", "rearm"}

TypeOK ==
  /\ sq \subseteq Toks
  /\ inflight \subseteq Toks
  /\ cq \in Seq(Cqe)
  /\ evfd \in BOOLEAN
  /\ callbacks_ \subseteq Toks
  /\ m_submission_ \in Threads \cup {NoThread}
  /\ m_callbacks_ \in Threads \cup {NoThread}
  /\ exiting_ \in BOOLEAN
  /\ exiting_error_ \in BOOLEAN
  /\ lpc \in LpcVals
  /\ peeked \in 0 .. Len(cq)
  /\ run_callbacks \in Seq(Cqe)
  /\ pc \in [Threads -> PcVals]
  /\ op \in [Threads -> Toks]
  /\ status \in [Ops -> {"new", "adding", "accepted", "rejected"}]
  /\ invoked \in [Ops -> Nat]
  /\ cancelled \subseteq Ops
  /\ owed \in BOOLEAN
  /\ wakerLost \in BOOLEAN
  /\ blind \in BOOLEAN
  /\ aborted \in BOOLEAN

Init ==
  /\ sq = {} /\ inflight = {} /\ cq = <<>> /\ evfd = FALSE
  /\ callbacks_ = {}
  /\ m_submission_ = NoThread /\ m_callbacks_ = NoThread
  /\ exiting_ = FALSE /\ exiting_error_ = FALSE /\ owed = FALSE
  /\ lpc = "uninit" /\ peeked = 0 /\ run_callbacks = <<>>
  /\ pc = [t \in Threads |-> "idle"]
  /\ op = [t \in Threads |-> Waker]
  /\ status = [o \in Ops |-> "new"]
  /\ invoked = [o \in Ops |-> 0]
  /\ cancelled = {} /\ wakerLost = FALSE /\ blind = FALSE
  /\ aborted = FALSE

Goto(t, l) == pc' = [pc EXCEPT ![t] = l]

(***************************************************************************)
(* Where user code may call the context: a client thread at any time once  *)
(* init() has returned, the Loop thread outside run() or in a callback.    *)
(***************************************************************************)
CanCall(t) ==
  /\ pc[t] = "idle"
  /\ lpc \notin {"uninit", "init"}
  /\ t = Loop => lpc \in {"stopped", "user"}

-----------------------------------------------------------------------------
(***************************************************************************)
(* add_sqe(): both overloads, and base_add_sqe().                          *)
(***************************************************************************)
\* Mutant: the mutex is not waited for.
LockSubmissionMissing(t, o) ==
  /\ m_submission_' = t
  /\ op' = [op EXCEPT ![t] = o]
  /\ Goto(t, IF o \in Silent THEN "prep" ELSE "lock_cb")
  /\ UNCHANGED <<ringVars, callbacks_, m_callbacks_, exitVars, loopVars,
                 histVars>>

LockSubmission(t, o) ==
  /\ m_submission_ = NoThread
  /\ m_submission_' = t
  /\ op' = [op EXCEPT ![t] = o]
  /\ Goto(t, IF o \in Silent THEN "prep" ELSE "lock_cb")
  /\ UNCHANGED <<ringVars, callbacks_, m_callbacks_, exitVars, loopVars,
                 histVars>>

add_sqe(t, o) ==
  /\ CanCall(t)
  /\ status[o] = "new"
  /\ LockSubmission(t, o)
  /\ status' = [status EXCEPT ![o] = "adding"]

LockCallbacks(t) ==
  /\ pc[t] = "lock_cb"
  /\ m_callbacks_ = NoThread
  /\ m_callbacks_' = t
  /\ Goto(t, "prep")
  /\ UNCHANGED <<ringVars, callbacks_, m_submission_, exitVars, loopVars, op,
                 status, histVars>>

\* The lock_guards of add_sqe() go out of scope.
Unlock(t) ==
  /\ m_submission_' = NoThread
  /\ m_callbacks_' = IF m_callbacks_ = t THEN NoThread ELSE m_callbacks_

SqFull == Cardinality(sq) >= SqEntries

GetSqe(t) ==
  /\ pc[t] = "prep"
  /\ ~SqFull
  /\ sq' = sq \cup {op[t]}
  /\ Goto(t, "wake")
  /\ UNCHANGED <<inflight, cq, evfd, callbacks_, lockVars, exitVars, loopVars,
                 op, status, histVars>>

\* exit(error) is entered: the error is stored, the flag comes next.
StoreError ==
  /\ exiting_error_' = TRUE
  /\ owed' = TRUE
  /\ UNCHANGED exiting_

\* get_sqe() returns ENOBUFS.  The caller is told, and the waker's callback
\* then makes run() return with that error.
GetSqeFails(t) ==
  /\ pc[t] = "prep"
  /\ SqFull
  /\ Unlock(t)
  /\ \/ /\ op[t] # Waker
        /\ status' = [status EXCEPT ![op[t]] = "rejected"]
        /\ Goto(t, "idle")
        /\ UNCHANGED <<exitVars, lpc, wakerLost>>
     \/ /\ op[t] = Waker
        /\ StoreError
        /\ Goto(t, "exit_flag")
        /\ lpc' = "dispatch"
        /\ wakerLost' = TRUE
        /\ UNCHANGED status
  /\ UNCHANGED <<ringVars, callbacks_, peeked, run_callbacks, op, invoked,
                 cancelled, blind, aborted>>

\* add_sqe() returns the token.
Accept(t) ==
  /\ Unlock(t)
  /\ Goto(t, "idle")
  /\ status' = IF op[t] = Waker THEN status
               ELSE [status EXCEPT ![op[t]] = "accepted"]
  /\ lpc' = CASE op[t] = Waker /\ lpc = "init" -> "stopped"
              [] op[t] = Waker /\ lpc # "init" -> "dispatch"
              [] OTHER                         -> lpc

\* Mutant: the eventfd is not written.
WakeLoopMissing(t) ==
  /\ pc[t] = "wake"
  /\ IF op[t] \in Silent
       THEN Accept(t)
       ELSE Goto(t, "register") /\ UNCHANGED <<lockVars, status, lpc>>
  /\ UNCHANGED <<ringVars, callbacks_, exitVars, peeked, run_callbacks, op,
                 histVars>>

\* Mutant: m_submission_ is released before the callback is stored.
WakeLoopUnlocks(t) ==
  /\ pc[t] = "wake"
  /\ evfd' = TRUE
  /\ IF op[t] \in Silent
       THEN Accept(t)
       ELSE /\ Goto(t, "register")
            /\ m_submission_' = NoThread
            /\ UNCHANGED <<m_callbacks_, status, lpc>>
  /\ UNCHANGED <<sq, inflight, cq, callbacks_, exitVars, peeked, run_callbacks,
                 op, histVars>>

\* wake() inside base_add_sqe().
WakeLoop(t) ==
  /\ pc[t] = "wake"
  /\ evfd' = TRUE
  /\ IF op[t] \in Silent
       THEN Accept(t)
       ELSE Goto(t, "register") /\ UNCHANGED <<lockVars, status, lpc>>
  /\ UNCHANGED <<sq, inflight, cq, callbacks_, exitVars, peeked, run_callbacks,
                 op, histVars>>

\* wake() fails and base_add_sqe() calls cancel(), which locks m_callbacks_:
\* the overload with a callback holds that mutex already and never returns.
WakeLoopFails(t) ==
  /\ "wake" \in Faults
  /\ pc[t] = "wake"
  /\ Goto(t, IF m_callbacks_ = t THEN "stuck" ELSE "cancel")
  /\ UNCHANGED <<ringVars, callbacks_, lockVars, exitVars, loopVars, op,
                 status, histVars>>

CancelFailed(t) ==
  /\ pc[t] = "cancel"
  /\ m_callbacks_ = NoThread
  /\ callbacks_' = callbacks_ \ {op[t]}
  /\ m_submission_' = NoThread
  /\ status' = [status EXCEPT ![op[t]] = "rejected"]
  /\ Goto(t, "idle")
  /\ UNCHANGED <<ringVars, m_callbacks_, exitVars, loopVars, op, histVars>>

Register(t) ==
  /\ pc[t] = "register"
  /\ callbacks_' = callbacks_ \cup {op[t]}
  /\ Accept(t)
  /\ UNCHANGED <<ringVars, exitVars, peeked, run_callbacks, op, histVars>>

-----------------------------------------------------------------------------
(***************************************************************************)
(* cancel(), wake(), exit() and exit(result).                              *)
(***************************************************************************)
cancel(t, o) ==
  /\ CanCall(t)
  /\ status[o] = "accepted"
  /\ m_callbacks_ = NoThread
  /\ callbacks_' = callbacks_ \ {o}
  /\ cancelled' = cancelled \cup ({o} \cap callbacks_)
  /\ UNCHANGED <<ringVars, lockVars, exitVars, loopVars, pc, op, status,
                 invoked, wakerLost, blind, aborted>>

wake(t) ==
  /\ CanCall(t)
  /\ evfd' = TRUE
  /\ UNCHANGED <<sq, inflight, cq, callbacks_, lockVars, exitVars, loopVars,
                 pc, op, status, histVars>>

exit_error(t) ==
  /\ CanCall(t)
  /\ t \in ErrExiters
  /\ StoreError
  /\ Goto(t, "exit_flag")
  /\ UNCHANGED <<ringVars, callbacks_, lockVars, loopVars, op, status,
                 histVars>>

\* exiting_error_ and exiting_ are plain members and nothing orders the two
\* stores for another thread: the flag may become visible first.
exit_error_reordered(t) ==
  /\ CanCall(t)
  /\ t \in ErrExiters \ {Loop}
  /\ exiting_' = TRUE
  /\ Goto(t, "exit_store")
  /\ UNCHANGED <<ringVars, callbacks_, lockVars, exiting_error_, owed,
                 loopVars, op, status, histVars>>

ExitStore(t) ==
  /\ pc[t] = "exit_store"
  /\ StoreError
  /\ Goto(t, "exit_wake")
  /\ UNCHANGED <<ringVars, callbacks_, lockVars, loopVars, op, status,
                 histVars>>

SetExiting(t) ==
  /\ exiting_' = TRUE
  /\ Goto(t, "exit_wake")
  /\ UNCHANGED <<ringVars, callbacks_, lockVars, exiting_error_, owed,
                 loopVars, op, status, histVars>>

exit(t) == CanCall(t) /\ SetExiting(t)
ExitFlag(t) == pc[t] = "exit_flag" /\ SetExiting(t)

ExitWake(t) ==
  /\ pc[t] = "exit_wake"
  /\ evfd' = TRUE
  /\ Goto(t, "idle")
  /\ UNCHANGED <<sq, inflight, cq, callbacks_, lockVars, exitVars, loopVars,
                 op, status, histVars>>

ExitWakeFails(t) ==
  /\ "wake" \in Faults
  /\ pc[t] = "exit_wake"
  /\ aborted' = TRUE
  /\ UNCHANGED <<ringVars, callbacks_, lockVars, exitVars, loopVars, pc, op,
                 status, invoked, cancelled, wakerLost, blind>>

-----------------------------------------------------------------------------
(***************************************************************************)
(* init() and run().  A step of the Loop thread's own code needs the API   *)
(* call that its callback made, if any, to have returned.                  *)
(***************************************************************************)
At(l) == lpc = l /\ pc[Loop] = "idle"

init ==
  /\ At("uninit")
  /\ lpc' = "init"
  /\ UNCHANGED <<ringVars, callbacks_, lockVars, exitVars, peeked,
                 run_callbacks, pc, op, status, histVars>>

\* add_waker(), from init() and from the waker's own callback.
add_waker ==
  /\ At("init") \/ At("rearm")
  /\ LockSubmission(Loop, Waker)
  /\ UNCHANGED status

run ==
  /\ At("stopped")
  /\ lpc' = "check"
  /\ blind' = wakerLost
  /\ UNCHANGED <<ringVars, callbacks_, lockVars, exitVars, peeked,
                 run_callbacks, pc, op, status, invoked, cancelled, wakerLost,
                 aborted>>

CheckExiting ==
  /\ At("check")
  /\ lpc' = IF exiting_ THEN "consume" ELSE "submit"
  /\ UNCHANGED <<ringVars, callbacks_, lockVars, exitVars, peeked,
                 run_callbacks, pc, op, status, histVars>>

\* Mutant: taking note of exit() also drains the eventfd it wrote.
ConsumeExitAndWake ==
  /\ At("consume")
  /\ exiting_' = FALSE
  /\ evfd' = FALSE
  /\ lpc' = "get_error"
  /\ UNCHANGED <<sq, inflight, cq, callbacks_, lockVars, exiting_error_, owed,
                 peeked, run_callbacks, pc, op, status, histVars>>

\* Mutant: the stored error is reset together with the flag.
ConsumeExitAndError ==
  /\ At("consume")
  /\ exiting_' = FALSE
  /\ exiting_error_' = FALSE
  /\ lpc' = "get_error"
  /\ UNCHANGED <<ringVars, callbacks_, lockVars, owed, peeked, run_callbacks,
                 pc, op, status, histVars>>

ConsumeExit ==
  /\ At("consume")
  /\ exiting_' = FALSE
  /\ lpc' = "get_error"
  /\ UNCHANGED <<ringVars, callbacks_, lockVars, exiting_error_, owed, peeked,
                 run_callbacks, pc, op, status, histVars>>

\* run() returns success() unless an error is stored.
GetError ==
  /\ At("get_error")
  /\ lpc' = IF exiting_error_ THEN "clear_error" ELSE "stopped"
  /\ owed' = (owed /\ ~exiting_error_)
  /\ UNCHANGED <<ringVars, callbacks_, lockVars, exiting_, exiting_error_,
                 peeked, run_callbacks, pc, op, status, histVars>>

\* The stored error has been copied; it is reset and run() returns the copy.
ClearError ==
  /\ At("clear_error")
  /\ exiting_error_' = FALSE
  /\ lpc' = "stopped"
  /\ UNCHANGED <<ringVars, callbacks_, lockVars, exiting_, owed, peeked,
                 run_callbacks, pc, op, status, histVars>>

\* Mutant: submit() does not take the mutex.
SubmitLockMissing ==
  /\ At("submit")
  /\ lpc' = "submitting"
  /\ UNCHANGED <<ringVars, callbacks_, lockVars, exitVars, peeked,
                 run_callbacks, pc, op, status, histVars>>

SubmitLock ==
  /\ At("submit")
  /\ m_submission_ = NoThread
  /\ m_submission_' = Loop
  /\ lpc' = "submitting"
  /\ UNCHANGED <<ringVars, callbacks_, m_callbacks_, exitVars, peeked,
                 run_callbacks, pc, op, status, histVars>>

submit ==
  /\ At("submitting")
  /\ inflight' = inflight \cup sq
  /\ sq' = {}
  /\ m_submission_' = NoThread
  /\ lpc' = "wait"
  /\ UNCHANGED <<cq, evfd, callbacks_, m_callbacks_, exitVars, peeked,
                 run_callbacks, pc, op, status, histVars>>

\* io_uring_submit() fails or stops short; run() ignores what it returns.
SubmitFails ==
  /\ "submit" \in Faults
  /\ At("submitting")
  /\ \E started \in (SUBSET sq) \ {sq} :
       /\ inflight' = inflight \cup started
       /\ sq' = sq \ started
  /\ m_submission_' = NoThread
  /\ lpc' = "wait"
  /\ UNCHANGED <<cq, evfd, callbacks_, m_callbacks_, exitVars, peeked,
                 run_callbacks, pc, op, status, histVars>>

wait ==
  /\ At("wait")
  /\ cq # <<>>
  /\ lpc' = "peek"
  /\ UNCHANGED <<ringVars, callbacks_, lockVars, exitVars, peeked,
                 run_callbacks, pc, op, status, histVars>>

\* A signal interrupts the wait: run() returns that error at once.
WaitFails ==
  /\ "wait" \in Faults
  /\ At("wait")
  /\ cq = <<>>
  /\ lpc' = "stopped"
  /\ UNCHANGED <<ringVars, callbacks_, lockVars, exitVars, peeked,
                 run_callbacks, pc, op, status, histVars>>

\* Mutant: the end of the batch is one too early.
peek_batch_cqe_short ==
  /\ At("peek")
  /\ peeked' = (IF Len(cq) < BatchSize THEN Len(cq) ELSE BatchSize) - 1
  /\ lpc' = "collect_lock"
  /\ UNCHANGED <<ringVars, callbacks_, lockVars, exitVars, run_callbacks, pc,
                 op, status, histVars>>

\* Mutant: what is left of the batch, where its length is meant.
peek_batch_cqe_rest ==
  /\ At("peek")
  /\ peeked' = Len(cq) - BatchSize
  /\ lpc' = "collect_lock"
  /\ UNCHANGED <<ringVars, callbacks_, lockVars, exitVars, run_callbacks, pc,
                 op, status, histVars>>

peek_batch_cqe ==
  /\ At("peek")
  /\ peeked' = IF Len(cq) < BatchSize THEN Len(cq) ELSE BatchSize
  /\ lpc' = "collect_lock"
  /\ UNCHANGED <<ringVars, callbacks_, lockVars, exitVars, run_callbacks, pc,
                 op, status, histVars>>

CollectLock ==
  /\ At("collect_lock")
  /\ m_callbacks_ = NoThread
  /\ m_callbacks_' = Loop
  /\ lpc' = "collect"
  /\ UNCHANGED <<ringVars, callbacks_, m_submission_, exitVars, peeked,
                 run_callbacks, pc, op, status, histVars>>

\* Mutant: the callback stays in the map.
CollectKeeps ==
  /\ At("collect")
  /\ peeked > 0
  /\ run_callbacks' = IF Head(cq).tok \in callbacks_
                        THEN Append(run_callbacks, Head(cq))
                        ELSE run_callbacks
  /\ cq' = Tail(cq)
  /\ peeked' = peeked - 1
  /\ UNCHANGED <<sq, inflight, evfd, callbacks_, lockVars, exitVars, lpc, pc,
                 op, status, histVars>>

\* One round of the loop over the peeked completions: look the callback up,
\* move it to run_callbacks, mark the completion seen.
Collect ==
  /\ At("collect")
  /\ peeked > 0
  /\ run_callbacks' = IF Head(cq).tok \in callbacks_
                        THEN Append(run_callbacks, Head(cq))
                        ELSE run_callbacks
  /\ callbacks_' = callbacks_ \ {Head(cq).tok}
  /\ cq' = Tail(cq)
  /\ peeked' = peeked - 1
  /\ UNCHANGED <<sq, inflight, evfd, lockVars, exitVars, lpc, pc, op, status,
                 histVars>>

CollectEnd ==
  /\ At("collect")
  /\ peeked = 0
  /\ m_callbacks_' = NoThread
  /\ lpc' = "dispatch"
  /\ UNCHANGED <<ringVars, callbacks_, m_submission_, exitVars, peeked,
                 run_callbacks, pc, op, status, histVars>>

\* The next callback of run_callbacks belongs to tok.
Dispatching(tok) ==
  /\ At("dispatch")
  /\ run_callbacks # <<>>
  /\ Head(run_callbacks).tok = tok
  /\ run_callbacks' = Tail(run_callbacks)

InvokeUser(o) ==
  /\ Dispatching(o)
  /\ invoked' = [invoked EXCEPT ![o] = @ + 1]
  /\ lpc' = "user"
  /\ UNCHANGED <<ringVars, callbacks_, lockVars, exitVars, peeked, pc, op,
                 status, cancelled, wakerLost, blind, aborted>>

UserReturns ==
  /\ At("user")
  /\ lpc' = "dispatch"
  /\ UNCHANGED <<ringVars, callbacks_, lockVars, exitVars, peeked,
                 run_callbacks, pc, op, status, histVars>>

\* Mutant: the waker is not armed again.
WakerReadOnly ==
  /\ Dispatching(Waker)
  /\ Head(run_callbacks).ok
  /\ evfd
  /\ evfd' = FALSE
  /\ UNCHANGED <<sq, inflight, cq, callbacks_, lockVars, exitVars, lpc, peeked,
                 pc, op, status, histVars>>

\* The waker's callback: drain the eventfd, then add_waker().
WakerRead ==
  /\ Dispatching(Waker)
  /\ Head(run_callbacks).ok
  /\ evfd
  /\ evfd' = FALSE
  /\ lpc' = "rearm"
  /\ UNCHANGED <<sq, inflight, cq, callbacks_, lockVars, exitVars, peeked, pc,
                 op, status, histVars>>

\* The poll or the read failed: exit(error), and no add_waker().
WakerFails ==
  /\ Dispatching(Waker)
  /\ ~Head(run_callbacks).ok \/ "read" \in Faults
  /\ StoreError
  /\ Goto(Loop, "exit_flag")
  /\ wakerLost' = TRUE
  /\ UNCHANGED <<ringVars, callbacks_, lockVars, lpc, peeked, op, status,
                 invoked, cancelled, blind, aborted>>

RoundEnd ==
  /\ At("dispatch")
  /\ run_callbacks = <<>>
  /\ lpc' = "check"
  /\ UNCHANGED <<ringVars, callbacks_, lockVars, exitVars, peeked,
                 run_callbacks, pc, op, status, histVars>>

-----------------------------------------------------------------------------
(***************************************************************************)
(* The kernel, as far as the context relies on it: a submitted request     *)
(* completes once, a poll of the eventfd when its counter is above zero.   *)
(* User requests may take for ever.                                        *)
(***************************************************************************)
Complete(tok, ok) ==
  /\ tok \in inflight
  /\ inflight' = inflight \ {tok}
  /\ cq' = Append(cq, [tok |-> tok, ok |-> ok])
  /\ UNCHANGED <<sq, evfd, callbacks_, lockVars, exitVars, loopVars, pc, op,
                 status, histVars>>

CompleteUser(o) == Complete(o, TRUE)
PollReady == evfd /\ Complete(Waker, TRUE)
PollFails == "poll" \in Faults /\ Complete(Waker, FALSE)

-----------------------------------------------------------------------------
\* What a thread does inside an API call, once it has entered it.
CallStep(t) ==
  \/ LockCallbacks(t) \/ GetSqe(t) \/ GetSqeFails(t)
  \/ WakeLoop(t) \/ WakeLoopFails(t) \/ CancelFailed(t) \/ Register(t)
  \/ ExitFlag(t) \/ ExitStore(t) \/ ExitWake(t) \/ ExitWakeFails(t)

UserCall(t) ==
  \/ \E o \in Ops : add_sqe(t, o) \/ cancel(t, o)
  \/ wake(t) \/ exit_error(t) \/ exit_error_reordered(t) \/ exit(t)

LoopStep ==
  \/ init \/ add_waker
  \/ CheckExiting \/ ConsumeExit \/ GetError \/ ClearError
  \/ SubmitLock \/ submit \/ SubmitFails \/ wait \/ WaitFails
  \/ peek_batch_cqe \/ CollectLock \/ Collect \/ CollectEnd
  \/ \E o \in Ops : InvokeUser(o)
  \/ UserReturns \/ WakerRead \/ WakerFails \/ RoundEnd

Kernel == (\E o \in Ops : CompleteUser(o)) \/ PollReady \/ PollFails

Next ==
  /\ ~aborted
  /\ \/ \E t \in Threads : UserCall(t) \/ CallStep(t)
     \/ run \/ LoopStep \/ Kernel

Spec == Init /\ [][Next]_vars

(***************************************************************************)
(* Fairness.  A thread that runs keeps running, so the Loop thread takes   *)
(* its steps and an API call that was entered goes on; a callback returns, *)
(* whatever calls it makes first; the kernel completes a poll that is      *)
(* ready.  Nothing makes user code call the context or run(), and nothing  *)
(* makes a user request complete.                                          *)
(***************************************************************************)
Alive(A) == ~aborted /\ A

Fairness ==
  /\ WF_vars(Alive(LoopStep))
  /\ SF_vars(Alive(UserReturns))
  /\ \A t \in Threads : WF_vars(Alive(CallStep(t)))
  /\ WF_vars(Alive(PollReady))

FairSpec == Spec /\ Fairness

-----------------------------------------------------------------------------
(***************************************************************************)
(* Safety.                                                                 *)
(***************************************************************************)

\* The threads that work on the submission ring: base_add_sqe() between
\* get_sqe() and its return, and run() inside io_uring_submit().  liburing
\* does not synchronise these, and callbacks_idx_ moves here.
OnRing ==
  {t \in Threads : pc[t] \in {"prep", "wake", "register", "cancel", "stuck"}
                   \/ (t = Loop /\ lpc = "submitting")}

\* No two threads are ever inside the submission ring at once, whichever
\* overload of add_sqe() they came through: the mutex m_submission_ works.
SqExclusive == \A t, u \in OnRing : t = u

\* A request the kernel has been given finds its callback when it completes:
\* it cannot complete between being put in the ring and callbacks_[tok] being
\* assigned, even though wake() runs in between.  Only a request without a
\* callback, or one that was cancelled, completes unheard.
NoOrphanCompletion ==
  \A tok \in inflight \cup CqToks : tok \in callbacks_ \cup Silent \cup cancelled

\* A callback in the map belongs to a request that is still to complete, so
\* it cannot stay there (with all it captured) for ever.
NoLeakedCallback == callbacks_ \subseteq sq \cup inflight \cup CqToks

\* Where the callback of an accepted request can be: in the map, in the
\* batch that run() is about to invoke, invoked, or erased by cancel().
PlaceNames == {"map", "batch", "invoked", "cancelled"}

Places(o) ==
  {p \in PlaceNames :
     \/ p = "map"       /\ o \in callbacks_
     \/ p = "batch"     /\ o \in RunToks
     \/ p = "invoked"   /\ invoked[o] = 1
     \/ p = "cancelled" /\ o \in cancelled}

\* A callback runs exactly once or is cancelled: at every moment it is in
\* exactly one of those places, never invoked twice, and never invoked if
\* add_sqe() reported an error to its caller.
ExactlyOnce ==
  \A o \in Ops :
    /\ invoked[o] <= 1
    /\ status[o] = "accepted" /\ o \notin Silent =>
         \E p \in PlaceNames : Places(o) = {p}
    /\ status[o] \in {"new", "rejected"} => Places(o) = {}

\* The wait of run() ends: a completion is there, or the poll of the eventfd
\* is with the kernel and the counter above zero, or about to be written by a
\* thread at one of the places W.
Rouses(W) ==
  \/ cq # <<>>
  \/ Waker \in inflight /\ (evfd \/ \E t \in Threads : pc[t] \in W)

\* No wakeup is lost: when run() waits although a request has come into the
\* ring since it submitted, or exit() has been called since it looked, the
\* waker rouses it.  Only a run() called again after an earlier one has
\* returned with the loss of the waker has nothing to rouse it; what becomes
\* of that one is the finding of ctx_waker_lost.
NoLostWakeup ==
  lpc = "wait" /\ ~blind =>
    /\ sq # {}  => Rouses({"wake"})
    /\ exiting_ => Rouses({"exit_store", "exit_wake"})

\* While run() waits, the poll on the eventfd is with the kernel or has
\* completed.  A run() whose waker could not be armed again (the ring was
\* full, the poll or the read failed) does not wait once more but returns;
\* without the poll waits only a run() that is called after that.
WakerArmed ==
  lpc = "wait" => blind \/ Waker \in inflight \cup CqToks

\* The waker's callback reads a blocking eventfd on the Loop thread: when it
\* is about to, the counter is above zero, or the whole loop would hang.
WakerReadReady ==
  \A i \in DOMAIN run_callbacks :
    run_callbacks[i].tok = Waker /\ run_callbacks[i].ok => evfd

\* An error handed to exit(result) stays stored until a run() returns it.
RequestedErrorKept == owed => exiting_error_

(***************************************************************************)
(* Liveness.                                                               *)
(***************************************************************************)

Running == lpc \notin {"uninit", "init", "stopped"}

\* A request put in the ring, from any thread, is submitted, unless run()
\* returns first.
RequestIsSubmitted ==
  \A o \in Ops : o \in sq /\ Running ~> o \notin sq \/ ~Running

\* A completion leads to its callback being invoked, or cancelled before.
CompletionIsHeard ==
  \A o \in Ops \ Silent :
    o \in CqToks /\ Running ~> invoked[o] = 1 \/ o \in cancelled \/ ~Running

\* exit(), from any thread, makes run() return.
ExitEndsRun == exiting_ /\ Running ~> ~Running

(***************************************************************************)
(* What the context implements.                                            *)
(***************************************************************************)
PhaseOf(o) ==
  CASE status[o] \in {"new", "adding"} -> "new"
    [] status[o] = "rejected"          -> "refused"
    [] o \in cancelled                 -> "cancelled"
    [] invoked[o] > 0                  -> "done"
    [] OTHER                           -> "pending"

Promise == INSTANCE Proactor
             WITH Requests <- Ops \ Silent,
                  phase    <- [o \in Ops \ Silent |-> PhaseOf(o)],
                  running  <- Running

\* The context, with its rings, mutexes and races, implements the Proactor:
\* no interleaving of threads, completions and cancellations makes a step
\* that the promise does not allow.
KeepsPromise == Promise!Spec
=============================================================================
