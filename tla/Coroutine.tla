----------------------------- MODULE Coroutine ------------------------------
(***************************************************************************)
(* The coroutines of arkio: task<>, co_async() with its fire_and_forget    *)
(* coroutine, the awaitables of coro:: and tcp::coro::, and                *)
(* context_exit_guard, on top of an event loop.                            *)
(*                                                                         *)
(* The event loop is what Proactor promises, and Ctx is the instance of it *)
(* that these coroutines use: a request is one call of async::read(),      *)
(* write(), connect() or accept(), and its callback is the one that        *)
(* awaitable_op::await_suspend() makes.                                    *)
(*                                                                         *)
(* The body of a task is user code: it may create tasks, destroy those it  *)
(* owns, co_await them or hand them to co_async(), co_await operations,    *)
(* and return, in any order.  So may a thread that is in no coroutine,     *)
(* except for co_await.  A task object is where it was created or moved to *)
(* (owner); user code awaits only a task of its own, and only once.        *)
(*                                                                         *)
(* Data abstractions.  The value of a task is whether there is one; the    *)
(* result that a callback leaves in ret_ only chooses what user code does  *)
(* next, and that is any step anyway.                                      *)
(***************************************************************************)
EXTENDS Naturals, Integers, Sequences, SequencesExt

CONSTANTS
  Tasks,      \* frames of task<> coroutines, one for each call of one
  Series,     \* frames of the fire_and_forget coroutine, one per co_async()
  Loop,       \* the thread of run()
  Starters,   \* other threads
  Guarded,    \* tasks with a context_exit_guard among their locals
  Transfers, Connects, Accepts,   \* the operations that are awaited
  Faults,     \* what may fail, see Refused and resume
  Nobody      \* no frame, no thread, no series

Ops     == Transfers \cup Connects \cup Accepts
Threads == Starters \cup {Loop}
Frames  == Tasks \cup Series

ASSUME CoroutineAssumption ==
  /\ Loop \notin Starters
  /\ Tasks \cap Series = {}
  /\ Frames \cap Threads = {}
  /\ Nobody \notin Frames \cup Threads
  /\ Guarded \subseteq Tasks
  /\ Ops \cap Tasks = {} /\ Connects \cap Accepts = {}
  /\ Faults \subseteq {"refused", "connect", "accept"}

VARIABLES
  st,             \* where each frame is in its life
  owner,          \* the frame or thread that holds the task object
  continuation_,  \* of the promise of each task
  state_,         \* of that promise: "empty" or "value"
  values,         \* history: values alive in the storage of that promise
  stack,          \* the frames each thread is executing, innermost last
  awaiter,        \* the coroutine handle in the callback of each operation
  phase,          \* Proactor: what has become of each operation
  running,        \* Proactor: is Loop inside run()
  exiting_,       \* of the async_context
  erred,          \* operations whose callback has reported an error, and
                  \*   has more to do after that
  future,         \* of each co_async()
  holder,         \* the thread that keeps that future
  gets,           \* the series whose future each thread is blocked on
  ran,            \* has a call of run() returned
  aborted         \* the program has died

frameVars == <<st, owner, continuation_, state_, values>>
ctxVars   == <<phase, running>>
loopVars  == <<exiting_, erred, ran, aborted>>
futVars   == <<future, holder, gets>>
vars == <<frameVars, stack, awaiter, ctxVars, loopVars, futVars>>

Ctx == INSTANCE Proactor WITH Requests <- Ops

TypeOK ==
  /\ st \in [Frames -> {"none", "created", "running", "in_task", "in_op",
                        "returned", "final", "destroyed"}]
  /\ owner \in [Tasks -> Frames \cup Threads \cup {Nobody}]
  /\ continuation_ \in [Tasks -> Frames \cup {Nobody}]
  /\ state_ \in [Tasks -> {"empty", "value"}]
  /\ values \in [Tasks -> Nat]
  /\ stack \in [Threads -> Seq(Frames)]
  /\ awaiter \in [Ops -> Frames \cup {Nobody}]
  /\ Ctx!TypeOK
  /\ exiting_ \in BOOLEAN
  /\ erred \subseteq Ops
  /\ future \in [Series -> {"none", "pending", "ready"}]
  /\ holder \in [Series -> Threads \cup {Nobody}]
  /\ gets \in [Threads -> Series \cup {Nobody}]
  /\ ran \in BOOLEAN /\ aborted \in BOOLEAN

Init ==
  /\ st = [f \in Frames |-> "none"]
  /\ owner = [f \in Tasks |-> Nobody]
  /\ continuation_ = [f \in Tasks |-> Nobody]
  /\ state_ = [f \in Tasks |-> "empty"]
  /\ values = [f \in Tasks |-> 0]
  /\ stack = [t \in Threads |-> <<>>]
  /\ awaiter = [o \in Ops |-> Nobody]
  /\ Ctx!Init
  /\ exiting_ = FALSE /\ erred = {} /\ ran = FALSE /\ aborted = FALSE
  /\ future = [s \in Series |-> "none"]
  /\ holder = [s \in Series |-> Nobody]
  /\ gets = [t \in Threads |-> Nobody]

\* What thread t is executing: the innermost frame, or code outside any.
Code(t) == IF stack[t] = <<>> THEN t ELSE Last(stack[t])

\* Where user code runs: outside run() and future::get(), or in a task.
UserCode(t) ==
  \/ stack[t] = <<>> /\ gets[t] = Nobody /\ ~(t = Loop /\ running)
  \/ Code(t) \in Tasks /\ st[Code(t)] = "running"

Push(t, x) == stack' = [stack EXCEPT ![t] = Append(@, x)]
Pop(t)     == stack' = [stack EXCEPT ![t] = Front(@)]

\* Symmetric transfer: frame x takes the place of the one that suspends.
Transfer(t, x) == stack' = [stack EXCEPT ![t] = Append(Front(@), x)]

\* The tasks whose task object is a local, a parameter or a temporary of x.
Owned(x) == {f \in Tasks : owner[f] = x /\ st[f] # "destroyed"}

-----------------------------------------------------------------------------
(***************************************************************************)
(* task<> and its promise.                                                 *)
(***************************************************************************)
\* manual_lifetime: construct() and destruct() a value in a storage that has
\* n of them.
construct(n) == n + 1
destruct(n)  == n - 1

\* Mutant: clear() destructs whether there is a value or not.
ClearAlways(F) ==
  /\ values' = [f \in Tasks |-> IF f \in F THEN destruct(values[f]) ELSE values[f]]
  /\ state_' = [f \in Tasks |-> IF f \in F THEN "empty" ELSE state_[f]]

\* task_promise::clear() for the tasks F.
clear(F) ==
  /\ values' = [f \in Tasks |-> IF f \in F /\ state_[f] = "value"
                                  THEN destruct(values[f]) ELSE values[f]]
  /\ state_' = [f \in Tasks |-> IF f \in F THEN "empty" ELSE state_[f]]

\* Mutant: ~task_promise() does not clear().
DestroyKeepsValue(F, s) ==
  /\ st' = [f \in Frames |-> IF f \in F THEN "destroyed" ELSE s[f]]
  /\ UNCHANGED <<values, state_>>

\* ~task() for the tasks F: the frame and its promise are destroyed, whatever
\* the coroutine is suspended at.  s is what else becomes of the frames.
destroy(F, s) ==
  /\ st' = [f \in Frames |-> IF f \in F THEN "destroyed" ELSE s[f]]
  /\ clear(F)

\* Mutant: the context_exit_guard is a temporary, destroyed on the spot.
CreateExits(t, f) ==
  /\ UserCode(t)
  /\ st[f] = "none"
  /\ st' = [st EXCEPT ![f] = "created"]
  /\ owner' = [owner EXCEPT ![f] = Code(t)]
  /\ exiting_' = (exiting_ \/ f \in Guarded)
  /\ UNCHANGED <<continuation_, state_, values, stack, awaiter, ctxVars, erred,
                 ran, aborted, futVars>>

\* A function that is a task<> coroutine is called: the frame is made and
\* suspended at once, and the caller has the task object.
create(t, f) ==
  /\ UserCode(t)
  /\ st[f] = "none"
  /\ st' = [st EXCEPT ![f] = "created"]
  /\ owner' = [owner EXCEPT ![f] = Code(t)]
  /\ UNCHANGED <<continuation_, state_, values, stack, awaiter, ctxVars,
                 loopVars, futVars>>

\* A task object goes out of scope.
drop(t, f) ==
  /\ UserCode(t)
  /\ f \in Owned(Code(t))
  /\ destroy({f}, st)
  /\ UNCHANGED <<owner, continuation_, stack, awaiter, ctxVars, loopVars,
                 futVars>>

\* Mutant: the awaited task continues with what the awaiting one would.
AwaitTaskTail(t, f) ==
  /\ UserCode(t) /\ Code(t) \in Tasks
  /\ owner[f] = Code(t) /\ st[f] = "created"
  /\ st' = [st EXCEPT ![Code(t)] = "in_task", ![f] = "running"]
  /\ continuation_' = [continuation_ EXCEPT ![f] = continuation_[Code(t)]]
  /\ Transfer(t, f)
  /\ UNCHANGED <<owner, state_, values, awaiter, ctxVars, loopVars, futVars>>

\* co_await move(tsk), or of a task that is a temporary.
await_task(t, f) ==
  /\ UserCode(t) /\ Code(t) \in Tasks
  /\ owner[f] = Code(t) /\ st[f] = "created"
  /\ st' = [st EXCEPT ![Code(t)] = "in_task", ![f] = "running"]
  /\ continuation_' = [continuation_ EXCEPT ![f] = Code(t)]
  /\ Transfer(t, f)
  /\ UNCHANGED <<owner, state_, values, awaiter, ctxVars, loopVars, futVars>>

\* return_value() and return_void() of task f, as far as its storage goes:
\* clear() what is not there yet, and construct the value.
return_value(f) ==
  construct(IF state_[f] = "value" THEN destruct(values[f]) ELSE values[f])

\* ~context_exit_guard(), if task x has one: exit().
exit_guard(x) == exiting_' = (exiting_ \/ x \in Guarded)

\* The body of a task returns a value, then its locals are destroyed.
co_return(t) ==
  LET x == Code(t)
  IN  /\ UserCode(t) /\ x \in Tasks
      /\ st' = [f \in Frames |-> IF f = x THEN "returned"
                                 ELSE IF f \in Owned(x) THEN "destroyed"
                                 ELSE st[f]]
      /\ state_' = [f \in Tasks |-> IF f = x THEN "value"
                                    ELSE IF f \in Owned(x) THEN "empty"
                                    ELSE state_[f]]
      /\ values' = [f \in Tasks |->
                      CASE f = x -> return_value(f)
                        [] f \in Owned(x) /\ state_[f] = "value" -> destruct(values[f])
                        [] OTHER -> values[f]]
      /\ exit_guard(x)
      /\ UNCHANGED <<owner, continuation_, stack, awaiter, ctxVars, erred, ran,
                     aborted, futVars>>

\* Mutant: the coroutine suspends at its end and returns to its resumer.
FinalSuspendStops(t) ==
  /\ Code(t) \in Tasks
  /\ st[Code(t)] = "returned"
  /\ st' = [st EXCEPT ![Code(t)] = "final"]
  /\ Pop(t)
  /\ UNCHANGED <<owner, continuation_, state_, values, awaiter, ctxVars,
                 loopVars, futVars>>

\* The task is suspended for good and its continuation resumed.
final_suspend(t) ==
  LET x == Code(t)
  IN  /\ x \in Tasks
      /\ st[x] = "returned"
      /\ st' = [st EXCEPT ![x] = "final", ![continuation_[x]] = "running"]
      /\ Transfer(t, continuation_[x])
      /\ UNCHANGED <<owner, continuation_, state_, values, awaiter, ctxVars,
                     loopVars, futVars>>

-----------------------------------------------------------------------------
(***************************************************************************)
(* co_async(): a fire_and_forget coroutine s, which starts at once, owns   *)
(* the task and awaits it.                                                 *)
(***************************************************************************)
\* Mutant: the task is passed by reference, so the caller keeps it.
CoAsyncByReference(t, s, f) ==
  /\ UserCode(t)
  /\ st[s] = "none"
  /\ owner[f] = Code(t) /\ st[f] = "created"
  /\ st' = [st EXCEPT ![s] = "in_task", ![f] = "running"]
  /\ continuation_' = [continuation_ EXCEPT ![f] = s]
  /\ Push(t, f)
  /\ future' = [future EXCEPT ![s] = "pending"]
  /\ holder' = [holder EXCEPT ![s] = IF Code(t) = t THEN t ELSE Nobody]
  /\ UNCHANGED <<owner, state_, values, awaiter, ctxVars, loopVars, gets>>

\* The future is kept if a thread asked for it outside any coroutine (get()
\* would block a coroutine's thread), and discarded otherwise.
co_async(t, s, f) ==
  /\ UserCode(t)
  /\ st[s] = "none"
  /\ owner[f] = Code(t) /\ st[f] = "created"
  /\ owner' = [owner EXCEPT ![f] = s]
  /\ st' = [st EXCEPT ![s] = "in_task", ![f] = "running"]
  /\ continuation_' = [continuation_ EXCEPT ![f] = s]
  /\ Push(t, f)
  /\ future' = [future EXCEPT ![s] = "pending"]
  /\ holder' = [holder EXCEPT ![s] = IF Code(t) = t THEN t ELSE Nobody]
  /\ UNCHANGED <<state_, values, awaiter, ctxVars, loopVars, gets>>

\* prom_.set_value(co_await move(tsk)), once the task has resumed s.
set_value(t) ==
  /\ Code(t) \in Series
  /\ future[Code(t)] = "pending"
  /\ future' = [future EXCEPT ![Code(t)] = "ready"]
  /\ UNCHANGED <<frameVars, stack, awaiter, ctxVars, loopVars, holder, gets>>

\* s runs off its end and does not suspend there: its frame goes, and with
\* it the parameter tsk.
forget(t) ==
  LET s == Code(t)
  IN  /\ s \in Series
      /\ future[s] # "pending"
      /\ destroy(Owned(s), [st EXCEPT ![s] = "destroyed"])
      /\ Pop(t)
      /\ UNCHANGED <<owner, continuation_, awaiter, ctxVars, loopVars, futVars>>

-----------------------------------------------------------------------------
(***************************************************************************)
(* awaitable_op and the operations made of it.                             *)
(***************************************************************************)
\* Mutant: the request is made while the frame is still running.
AwaitOpRuns(t, o) ==
  /\ UserCode(t) /\ Code(t) \in Tasks
  /\ Ctx!Accept(o)
  /\ awaiter' = [awaiter EXCEPT ![o] = Code(t)]
  /\ UNCHANGED <<frameVars, stack, loopVars, futVars>>

\* await_suspend(): the frame is suspended, then the request made.  From then
\* on this thread touches nothing of the frame, which the thread of run() may
\* already be resuming, so that one step will do.  A transfer of no bytes
\* makes no request and resumes the frame from inside await_suspend(): the
\* frame goes on where it was, on the same thread, and nothing changes here.
await_op(t, o) ==
  /\ UserCode(t) /\ Code(t) \in Tasks
  /\ Ctx!Accept(o)
  /\ awaiter' = [awaiter EXCEPT ![o] = Code(t)]
  /\ st' = [st EXCEPT ![Code(t)] = "in_op"]
  /\ Pop(t)
  /\ UNCHANGED <<owner, continuation_, state_, values, loopVars, futVars>>

\* co_await coro::read(...) or coro::write(...)
coro_transfer(t, o) == o \in Transfers /\ await_op(t, o)

\* co_await tcp::coro::connect(...)
coro_connect(t, o) == o \in Connects /\ await_op(t, o)

\* co_await tcp::coro::accept(...), with an endpoint or without
coro_accept(t, o) == o \in Accepts /\ await_op(t, o)

\* The request is refused: the callback has been moved away and the empty one
\* left behind is invoked, in a noexcept function.
Refused(t, o) ==
  /\ "refused" \in Faults
  /\ UserCode(t) /\ Code(t) \in Tasks
  /\ Ctx!Refuse(o)
  /\ aborted' = TRUE
  /\ UNCHANGED <<frameVars, stack, awaiter, exiting_, erred, ran, futVars>>

\* run() invokes the callback of o, which stores the result and resumes the
\* coroutine.
resume(o) ==
  /\ stack[Loop] = <<>> /\ erred = {}
  /\ Ctx!Invoke(o)
  /\ Push(Loop, awaiter[o])
  /\ st' = [st EXCEPT ![awaiter[o]] = "running"]
  /\ \/ UNCHANGED erred
     \/ /\ \/ o \in Connects /\ "connect" \in Faults
           \/ o \in Accepts /\ "accept" \in Faults
        /\ erred' = {o}
  /\ UNCHANGED <<owner, continuation_, state_, values, awaiter, exiting_, ran,
                 aborted, futVars>>

\* connect() and both accept()s go on after reporting an error, once the
\* coroutine has suspended again or ended.  accept() calls value() on the
\* error and the program ends.  connect() resumes the coroutine a second time,
\* where it is not waiting for that or no longer exists: nothing is defined
\* from there, and the model ends too (Tcp!connect_callback has the two
\* invocations).
after_error ==
  /\ stack[Loop] = <<>> /\ erred # {}
  /\ aborted' = TRUE
  /\ UNCHANGED <<frameVars, stack, awaiter, ctxVars, exiting_, erred, ran,
                 futVars>>

-----------------------------------------------------------------------------
(***************************************************************************)
(* run() and future::get(), as main() of the examples uses them.  run()    *)
(* returns when the flag is up that exit() sets; when it fails, main()     *)
(* returns and gets no future.                                             *)
(***************************************************************************)
run ==
  /\ UserCode(Loop) /\ stack[Loop] = <<>>
  /\ Ctx!Start
  /\ UNCHANGED <<frameVars, stack, awaiter, loopVars, futVars>>

run_returns ==
  /\ stack[Loop] = <<>> /\ erred = {}
  /\ exiting_
  /\ exiting_' = FALSE
  /\ ran' = TRUE
  /\ Ctx!Return
  /\ UNCHANGED <<frameVars, stack, awaiter, erred, aborted, futVars>>

get(t, s) ==
  /\ UserCode(t) /\ stack[t] = <<>>
  /\ holder[s] = t
  /\ t = Loop => ran
  /\ gets' = [gets EXCEPT ![t] = s]
  /\ holder' = [holder EXCEPT ![s] = Nobody]
  /\ UNCHANGED <<frameVars, stack, awaiter, ctxVars, loopVars, future>>

get_returns(t) ==
  /\ gets[t] # Nobody
  /\ future[gets[t]] = "ready"
  /\ gets' = [gets EXCEPT ![t] = Nobody]
  /\ UNCHANGED <<frameVars, stack, awaiter, ctxVars, loopVars, future, holder>>

-----------------------------------------------------------------------------
\* What user code does, outside run() and get() or in a task.
UserStep(t) ==
  \/ \E f \in Tasks : create(t, f) \/ drop(t, f) \/ await_task(t, f)
  \/ \E s \in Series, f \in Tasks : co_async(t, s, f)
  \/ \E o \in Ops : \/ coro_transfer(t, o) \/ coro_connect(t, o)
                    \/ coro_accept(t, o) \/ Refused(t, o)
  \/ co_return(t)

\* What a thread does that is in a coroutine.
CoroutineStep(t) ==
  /\ ~aborted
  /\ stack[t] # <<>>
  /\ UserStep(t) \/ final_suspend(t) \/ set_value(t) \/ forget(t)

LoopStep == ~aborted /\ (after_error \/ run_returns)

Next ==
  \/ LoopStep
  \/ /\ ~aborted
     /\ \/ run
        \/ \E o \in Ops : resume(o)
        \/ \E t \in Threads : \/ UserStep(t) /\ stack[t] = <<>>
                              \/ \E s \in Series : get(t, s)
                              \/ get_returns(t)
  \/ \E t \in Threads : CoroutineStep(t)

Spec == Init /\ [][Next]_vars

(***************************************************************************)
(* Fairness.  A thread that is in a coroutine goes on, and the coroutine   *)
(* suspends or ends after finitely many steps; run() notices the flag that *)
(* exit() sets (what ctx_liveness shows of the event loop); a future that  *)
(* is ready unblocks get().  No operation need ever complete, and nothing  *)
(* makes a thread start anything.                                          *)
(***************************************************************************)
Fairness ==
  /\ \A t \in Threads : /\ WF_vars(CoroutineStep(t))
                        /\ WF_vars(~aborted /\ get_returns(t))
  /\ WF_vars(LoopStep)

FairSpec == Spec /\ Fairness

-----------------------------------------------------------------------------
\* The invocations of callbacks that are still to come.
ToCome == {o \in Ops : phase[o] = "pending"} \cup (erred \cap Connects)

\* A callback resumes a coroutine that is there: as long as an operation has
\* yet to call back, the frame whose handle its callback holds is alive and
\* suspended in that operation, and in no other.  No task object that is
\* dropped, no parent that ends and no future that is discarded takes it away.
CallbackFindsFrame ==
  \A o \in ToCome : /\ awaiter[o] \in Tasks /\ st[awaiter[o]] = "in_op"
                    /\ \A p \in ToCome : awaiter[p] = awaiter[o] => p = o

\* A task that was started and has not ended.
InCall == {"running", "in_task", "in_op", "returned"}

\* What will resume frame f: operations, and tasks that continue with it.
Resumers(f) ==
  {o \in Ops : phase[o] = "pending" /\ awaiter[o] = f}
    \cup {g \in Tasks : continuation_[g] = f /\ st[g] \in InCall}

\* No coroutine is forgotten and none is resumed by two: a suspended frame
\* has exactly one operation or task that will resume it, a task that keeps
\* its awaiter waiting is owned by it, and a frame that is not suspended has
\* none.
ResumedByOne ==
  \A f \in Frames :
    IF st[f] \in {"in_task", "in_op"}
      THEN \E g \in Ops \cup Tasks :
             /\ Resumers(f) = {g}
             /\ g \in Tasks => st[f] = "in_task" /\ owner[g] = f
      ELSE Resumers(f) = {}

\* Where on the stacks of the threads frame f is.
PlacesOf(f) ==
  UNION {{<<t, i>> : i \in {j \in DOMAIN stack[t] : stack[t][j] = f}} : t \in Threads}

\* A frame that runs is executed by one thread and once, although any thread
\* may have started it and the thread of run() resumes it; a frame that is
\* suspended or destroyed is executed by none.
RunsOnce ==
  \A f \in Frames :
    IF st[f] \in {"running", "returned"}
      THEN \E t \in Threads : \E i \in DOMAIN stack[t] : PlacesOf(f) = {<<t, i>>}
      ELSE PlacesOf(f) = {}

\* manual_lifetime is used right: the storage of a promise holds a value when
\* state_ says so, from the return of the task to the destruction of its
\* frame, and none is left in a frame that is gone.
ValueLifetime ==
  \A f \in Tasks :
    /\ values[f] = IF state_[f] = "value" THEN 1 ELSE 0
    /\ state_[f] = "value" <=> st[f] \in {"returned", "final"}

-----------------------------------------------------------------------------
Calls == INSTANCE CallStack
           WITH caller  <- continuation_,
                open    <- {f \in Tasks : st[f] \in InCall},
                waiting <- {f \in Tasks : st[f] = "in_op"},
                outcome <- future,
                None    <- Nobody

\* The continuations, symmetric transfers and callbacks come to a call stack
\* for each series, on whatever threads its parts run.
ActsLikeCalls == Calls!Spec

\* co_async() with a context_exit_guard waits as sync_wait does: when run()
\* has returned and get() is called for the series of the guarded task, get()
\* returns, although nothing runs the event loop any more.
SyncWait ==
  \A s \in Series :
    gets[Loop] = s /\ (\E f \in Guarded : continuation_[f] = s)
      ~> gets[Loop] # s \/ aborted
=============================================================================
