# A TLA+ verification of arkio

arkio is a header-only C++20 library: an io_uring event loop (a proactor), io
objects and read/write operations on top of it in three flavours (blocking,
callback, coroutine), and a TCP layer. This directory models its core, checks it
with TLC on small instances and proves the central invariants with TLAPS for
every instance. Paths below are relative to `src/include/ark/`.

## 1. Inventory

| Component | State | Operations | Hard part | What makes it correct |
|---|---|---|---|---|
| **event loop** `async/io_uring/context.hpp` | `callbacks_`, `callbacks_idx_`, two mutexes, `waker_evfd_`, `exiting_`, `exiting_error_` | `init`, `run`, `add_sqe` (two overloads), `cancel`, `wake`, `exit`, `exit(result)`, the waker's callback | any thread may call it while `run()` submits, sleeps or dispatches; two members are not guarded at all | ring exclusive, each callback exactly once, no lost wakeup, `exit` ends `run` |
| **io_uring wrapper** `async/io_uring/io_uring.hpp` | submission and completion ring | `get_sqe`, `submit`, `wait`, `peek_batch_cqe`, `seen` | ring full, partial submit, interrupted wait | a completion is taken once and finds its callback |
| **async_op, callback** `async/` | the user's callback and the operation's locals, moved from request to request | `yield_syscall`, `complete` | the object is moved away while it is still used | callback invoked once, on success and on error |
| **buffers, iovecs, conditions** `buffer/`, `io/iovecs.hpp`, `io/completion_condition.hpp` | none (views) | `+=`, `buffer`, `buffer_size`, `buffer_copy`, `transform_to_iovecs`, `transfer_*` | boundaries: empty buffers, partial progress, sizes past the end | the bytes asked for are exactly the missing ones |
| **async io** `io/async.hpp` | `locals_t`: fd, buffer reference, condition, `done_sz_`, `iov_` | `read`, `write`, `run`, `go_on` | partial transfers, eof, errors, several calls in flight on one fd, lifetime of the buffer object | the right bytes once, and a true answer |
| **sync io** `io/sync.hpp` | none | `read`, `write` | the same loop, blocking, while asynchronous calls use the same offset | same |
| **fds** `io/fd.hpp`, `general/`, `net/tcp/{socket,acceptor}.hpp` | the descriptor, the offset of a `seekable_fd` | factories, `close`, destructor, `seek`, `feed` | closed twice, reused number | closed exactly once |
| **tcp** `net/tcp/` | the callback | `connect`, `accept`, `bind`, `listen` | error paths of callbacks | callback invoked once |
| **coroutines** `coroutine/`, `io/coro.hpp`, `net/tcp/coro.hpp`, `misc/context_exit_guard.hpp` | frames, continuations, a future | `co_await`, `co_async`, resume | frames started on one thread and resumed on another, destroyed by their owners, ended while `run()` is told to exit | each suspended frame is alive and resumed once; a series acts as a call stack |
| **addresses** `net/address.hpp` | a `sockaddr_storage` | checked casts, `port`, `host` | family checks, byte order | round trips |

How they interact: an io operation packs itself into a callback and hands it to
`add_sqe()` (a call, from any thread); the kernel answers with a completion (a
message, in any order); `run()` invokes the callback on its own thread, which
continues the operation, calls the user, or resumes a coroutine; the user may
call back into the context from there. Other threads reach the sleeping loop
through an eventfd that the loop polls with a request of its own, the *waker*.

`PROJECT.json` lists the hazards line by line with the properties aimed at them.

## 2. Modules

    Proactor            what async_context promises (abstract)
       ^ implements
    AsyncContext        event loop, rings, mutexes, client threads
       ^ extends            ^ extends
    MCAsyncContext      AsyncContextProofs <- CallbackProofs <- WakerProofs
                                                             <- PromiseProofs
    Proactor            (again)
       ^ instance Ctx
    Coroutine           task<>, co_async(), awaitables, context_exit_guard
       | implements         ^ extends       ^ extends
    CallStack (abstract)    MCCoroutine     CoroutineProofs
    Buffers             buffers, iovecs, conditions, buffer_copy (operators)
       ^ extends
    AsyncIo             async and sync read()/write()
       ^ extends            ^ extends
    MCAsyncIo           AsyncIoProofs
    Descriptor          io objects and the descriptor table
       ^ extends
    Tcp                 listen, connect, accept and their callbacks
       ^ extends            ^ extends
    MCTcp               TcpProofs
       | extends
    Address             address, inet_address, inet6_address (operators)
       ^ extends
    AddressProofs

In the lines with `<-` the module on the right extends the one on the left.

Operators whose comment begins with "Mutant" are wrong versions of the
definition that follows them. No specification uses them: they document which
slip in the code each property would notice.

### AsyncContext

Threads: `Loop` runs `init()` and `run()`, `Clients` are the others. `lpc` is
where `run()` is, `pc[t]` where thread *t* is inside an API call; the loop's
thread has both, since callbacks call the context. A step ends wherever another
thread can interfere: each mutex operation, each access to the unguarded
`exiting_` and `exiting_error_`, each system call.

| code | model |
|---|---|
| `add_sqe`, `base_add_sqe` | `add_sqe`, `LockCallbacks`, `GetSqe` / `GetSqeFails` (ENOBUFS), `WakeLoop` / `WakeLoopFails` + `CancelFailed`, `Register` |
| `add_waker` and its callback | `add_waker`, then as above with token `Waker`; `WakerRead`, `WakerFails` |
| `exit`, `exit(result)` | `exit`, `exit_error`, `ExitFlag`, `ExitWake` / `ExitWakeFails` (abort). The two plain stores of `exit(result)` are a data race: `exit_error_reordered` lets the flag become visible before the error |
| `cancel`, `wake` | actions of those names |
| `run` | `run`, `CheckExiting`, `ConsumeExit`, `GetError`, `ClearError`, `SubmitLock`, `submit` / `SubmitFails`, `wait` / `WaitFails`, `peek_batch_cqe`, `CollectLock`, `Collect`, `CollectEnd`, `InvokeUser` + `UserReturns`, `RoundEnd` |
| kernel (external) | `CompleteUser`, `PollReady`, `PollFails` |

Abstractions: a token is the `add_sqe()` call it went to (the 64-bit counter
moves only inside the ring, which `SqExclusive` shows to be exclusive; it does
not wrap in practice); a callback is its token; the eventfd counter is zero or
not; the submission ring is a set because the kernel finishes requests in any
order. The torn read of the two words of an `error_code` is not modelled: an
error is stored or not. `wakerLost` and `blind` are history: the waker's callback
ended without arming it again, and `run()` was called after that. `Faults` is the set of system calls that may fail; the
failing `init()` paths leave the context as it was.

`Proactor` is the promise: a request is accepted or refused, an accepted one is
cancelled or has its callback invoked once and only inside `run()`. The mapping
(`PhaseOf`) reads the phase off `status`, `cancelled` and `invoked`.

### Buffers and AsyncIo

A buffer is the sequence of addresses it covers, so `+=` and `buffer(b, n)` are
subsequences and an iovec needs no pointer arithmetic. `transform_to_iovecs` is
the fold of its loop body. `buffer(data)` and `buffer_n(data, n)` are the
overloads for arrays, containers and strings, which all count bytes, not
elements. `buffer_copy` is a fold of its loop body too, with `max_size` allowed
below zero where the unsigned number of the code has wrapped; `CopiedInOrder` is
what it amounts to, and TLC compares the two on all pairs of small sequences
before it starts the runs of `MCAsyncIo`: `max_size` limits a copy only when a
chunk ends exactly there, what is returned then is the size of the last chunk, and
there is no return statement otherwise.
`to_transfer` is the three completion conditions;
`Fulfils` and `Ceiling` are what their documentation says, used only in
properties.

`AsyncIo` has the calls of `read()`/`write()` (any mix of shapes, conditions and
kinds), `run`, `go_on` (its branches `Failed`, `Eof`, `Advanced`), `seek`, `feed`
and a kernel that moves any non-empty prefix of what was asked, nothing at the
end of the device, or fails. `run` and `go_on` are atomic because one thread is
assumed to make all the calls on an fd and to run the loop, as the examples do. A
call's first `run()` is made on the caller's thread; from another thread it would
read the offset of a `seekable_fd` while `go_on()` moves it, and a blocking call
would race `feed()` (`io/fd.hpp:156`), which nothing guards. A request is accepted, or refused, which is where the moved-from
operation bites (`Refused`). `Temporary` marks the calls whose buffer object dies
when the call returns; what is then read through the dangling reference is a
choice from `Garbage`. Values are the places where bytes were born, so a byte
that lands in the wrong place is seen.

`sync_call`, `sync_read` and `sync_write` are the blocking functions. They share
the locals, the kernel and the history of the asynchronous ones, so that the same
properties hold both to account. `blocked` is the call the thread is in: no
callback runs and nothing else is called until it returns, but requests made
before it complete in the kernel meanwhile, and their `go_on` moves the offset
later. A system call that is interrupted is an error like any other, which is
what the code makes of it.

### Coroutine and CallStack

A *frame* is one activation of a coroutine: a task, or the `fire_and_forget`
lambda of `co_async()`, which is called a *series*. `st` is where a frame is in
its life, `owner` who holds the task object, `stack[t]` the frames thread *t* is
executing, innermost last. A symmetric transfer replaces the top of the stack, a
suspension pops it, a callback of `run()` or a `co_async()` pushes.

| code | model |
|---|---|
| call of a task<> function, `~task()` | `create`, `drop`, `destroy` + `clear` |
| `operator co_await`, `final_suspend`, `return_value` | `await_task`, `final_suspend`, `co_return` |
| `co_async`, `fire_and_forget` | `co_async`, `set_value`, `forget` |
| `awaitable_op`, `coro::read/write`, `tcp::coro::connect/accept` | `await_op` through `coro_transfer`, `coro_connect`, `coro_accept`; `resume` |
| `context_exit_guard` | `exit_guard`, in `co_return` of a task in `Guarded` |
| `manual_lifetime` | `construct`, `destruct`, counted in `values` |
| `run()` and `future::get()` in the `main()` of the examples | `run`, `run_returns`, `get`, `get_returns` |

The body of a task is any sequence of these steps. The event loop is an instance
of `Proactor`, which `AsyncContext` is shown to implement; what the other modules
say about errors is kept: a refused request ends the program (`Refused`), a failed
accept ends it after the coroutine has been told (`after_error`), a failed
connect resumes the coroutine twice.

`CallStack` is what a reader of coroutine code assumes: a series is a thread of
calls, only the innermost call goes on, a call returns to its caller, and the
future is ready when the outermost call has returned. `ActsLikeCalls` states that
`Coroutine` implements it.

### Address

Operators over one record, the `sockaddr_storage` cut into the fields of
`sockaddr_in` and `sockaddr_in6`. The three classes are views of it, so a class is
an argument. `htons` swaps bytes; `inet_pton` and `inet_ntop` are parameters of
which `AddressAssumption` asks only that the text of a host denotes that host.
TLC checks the laws on the ports at the edges of a byte and of the type and on
two hosts of each family (`MCTcp!AddressesChecked`).

### Descriptor and Tcp

`Descriptor` is the io objects (`fd`, `seekable_fd` and the classes made from
them) over the kernel's table of descriptors, which hands out the lowest free
number. A *place* is where user code keeps an object; `base_[p]` is the number
its `unique_ptr` owns. Actions: the six factories and `pipe_fd_create` (they fail
and make no object when the table is full), `close` (the object keeps the
number), `destroy`, `move` (construction, or assignment, which destroys what was
there). Files are told apart by the order in which they were opened, so a number
that is reused is not the same file. `byHand` and `foreign` are history: which
objects were closed by hand, and whether one of them has since closed a number
that stood for somebody else's file.

`Tcp` adds `listen`, `sync_accept`, `async_connect`, `async_accept`, `submit`, the
kernel's answers and the callbacks. A request carries a *number*; the kernel
resolves it when the loop submits the request and holds the file from then on.
The connection an accept brings exists only as a number in a completion until
the callback wraps it (`accept_callback`) or lets it go (`accept_callback_drops`).
On error the connect callback is invoked twice (`connect_callback`), and the
accept callback once before `value()` of the error ends the program
(`accept_callback_fails`). `Refused` is a failing `add_sqe()`, which invokes a
callback that was moved away and ends the program.

User code is assumed not to destroy, close or assign over an object while a
request with its number waits in the ring (`Waiting`); after the submit it may.
Two requests on one object, moving an object with requests in flight and closing
it while the kernel works on it are all allowed. `context` is the check that an
object is bound to a context. Endpoints are left out here.

## 3. Runs

| run | instance | shows |
|---|---|---|
| `ctx_safety` | 2 clients + loop, 2 requests (one without callback), ring of 2, batches of 1 | `SqExclusive`, `NoOrphanCompletion`, `NoLeakedCallback`, `ExactlyOnce`, `NoLostWakeup`, `WakerArmed`, `WakerReadReady`, `RequestedErrorKept` |
| `ctx_faults` | 1 client, every system call may fail, batches of 2 | the safety that survives failures, `TypeOK`, and `KeepsPromise` (refinement of Proactor) |
| `ctx_liveness` | 1 client, ring of 3 so that it never fills, no faults, fairness | `RequestIsSubmitted`, `CompletionIsHeard`, `ExitEndsRun` |
| `ctx_waker_lost` | ring of 2 which fills | **violation**: `exit()` does not end `run()` once the waker was refused |
| `ctx_error_swallowed` | another thread calls `exit(error)` | **violation**: the error is lost |
| `io_transfers` | 2 calls one after the other, async or sync, fd and seekable_fd, 4 shapes, 5 conditions, device of 4 to 6 bytes, errors, refusals | `AnswerIsTrue`, `RequestsWhatIsMissing`, `TransferIsContiguous`, `TypeOK` |
| `io_overlap` | 2 calls at once on a seekable_fd, both async or one sync, seeks, errors, fairness | `OffsetCountsTransfers`, `RequestsWhatIsMissing`, `CallbackIsInvoked` |
| `io_temporary` | the buffer object is a temporary | **violation**: the callback reports a transfer that was not made |
| `tcp_ownership` | 3 places, 2 calls, a table of 2 numbers, 3 files, refusals and errors | `OneOwner`, `RequestHitsItsFile`, `TypeOK` |
| `coro_tasks` | 3 tasks, 2 series, the loop's thread and another, one read/write/connect and one accept, failing accepts, refusals, fairness | `CallbackFindsFrame`, `ResumedByOne`, `RunsOnce`, `ValueLifetime`, `ActsLikeCalls` (refinement of CallStack), `SyncWait`, `TypeOK` |
| `tcp_connect_error` | 1 call, errors | **violation**: the callback of connect hears error and success |
| `fd_closed_twice` | 2 places | **violation**: the destructor of a closed object closes another object's file |

Bounds and why they are enough. Two client threads and the loop are all the
roles there are: a third client meets only the same mutex. Two user requests and
the waker fill a ring of two, so full, empty and wrapped rounds happen; batches
of one leave completions for a later round, batches of two dispatch two
callbacks in a row. Clients are symmetric in `ctx_safety`. In `io_transfers`
buffers of three bytes give every split into partial transfers over one, two
and four buffers with empty ones among them; conditions go below, at and above
the size; a device of four bytes ends inside the second call. In
`tcp_ownership` two numbers are the fewest with which one can be reused while the
other is in use, and the third file is the reuse; three places allow a move onto
an object beside a third one; two calls are a connect or accept racing another,
possibly on the same object. Places and calls are symmetric. In `coro_tasks`
three tasks are a chain of calls of depth three, or two series of which one has a
nested call, or a series started from inside another; two operations are enough
for two frames to wait at once; the second thread starts what the loop's thread
resumes. Failing connects are left out of it (`"connect"` not in `Faults`): with
them `CallbackFindsFrame` fails, for the reason `tcp_connect_error` shows.

A request that is refused: `"refused"` is not in `Faults` of `io_overlap`. With it
`CallbackIsInvoked` fails, because `async_io_impl::run()` has by then moved the
callback into the request it could not make (`io/async.hpp:80`); the program dies
in the empty function that is left. `io_transfers`, `tcp_ownership` and
`coro_tasks` include the refusal, and what was true before it stays true.

Deadlock is checked where the loop cannot stop (`ctx_safety`, `ctx_liveness`);
in `ctx_faults` a thread may be stuck or the program aborted, and the calls of
`AsyncIo`, the files of `Tcp` and the frames of `Coroutine` come to an end.

Fairness. `AsyncContext`: a running thread keeps running, so the loop's steps
and API calls once entered are weakly fair; a user callback returns (strongly
fair, since the calls it makes disable the return in between), which every event
loop demands of its users; the kernel completes a poll that is ready. Nothing
makes user code call the context, and user requests may stay in flight for ever.
`AsyncIo`: the kernel answers each request and the loop runs its callback.
`Coroutine`: a thread that is inside a coroutine goes on, `run()` notices that
`exit()` was called (`ExitEndsRun` of the event loop), a future that is ready
unblocks `get()`. No operation has to complete and nothing has to be started, so
`SyncWait` is not about operations that finish: it says that once `run()` has
returned nothing that `get()` needs is left to the loop.

Findings, with the lines of code and of documentation that disagree, are in
`PROJECT.json`.

## 4. Proofs

`AsyncContextProofs`, for every set of threads, requests and faults and every ring and batch size,
from `ContextAssumption` only:

* `TypeCorrect`: `Spec => []TypeOK`. `TypeOK` is inductive by itself because it
  bounds `peeked` by the length of the completion ring.
* `SubmissionRingIsExclusive`: `Spec => []SqExclusive`. Not inductive: two
  threads in `prep` exclude each other only because both hold the mutex.
  `LockInv` says that a thread between taking `m_submission_` and releasing it
  holds it, and that the loop's thread is inside an API call only where `run()`
  is not running its own code (otherwise an unlock of the call could release
  the mutex of `submit()`).

`CallbackProofs`, as generally, follows a request through the rings. None of
the three properties is inductive; they follow from a chain of invariants:

* `CallInv`, on top of `LockInv`: what a thread inside `add_sqe()` is doing and
  that it holds `m_callbacks_` from before the request is in the ring until the
  callback is in the map. This is the fact that keeps `run()` from collecting a
  completion whose callback is not registered yet.
* `RingInv`: a token is in one of submission ring, kernel and completion ring,
  and there once.
* `MapInv`: the place in the rings, the map, the batch of `run()` and what the
  caller was told agree.

  From them `CallbacksAreNotLeaked` (`NoLeakedCallback`), `CompletionsAreHeard`
  (`NoOrphanCompletion`) and `CallbacksRunOnce` (`ExactlyOnce`), with any faults.

`WakerProofs`:

* `WakerNeverBlocks` (`WakerReadReady`), from `ReadyInv`: a completed poll that
  was not yet read has something to read, since only its own callback reads.
* `WakerStaysArmed` (`WakerArmed`) if `"submit"` is not in `Faults`, from
  `ArmedInv` and `LossInv`. `ArmedInv`: outside `init()` and the re-arming, the poll
  is on its way through the rings unless it was lost, and it has left the
  submission ring when `run()` waits (a failed submit would leave it there).
  `LossInv`: a `run()` that loses it has `exiting_` set, or is about to set it, and
  returns before it waits again. The exception is a `run()` called after that
  (`blind`), the one of `ctx_waker_lost`.
* `NoWakeupIsLost` (`NoLostWakeup`), under the same condition and with failing
  eventfd writes too: a `run()` that waits while a request is unsubmitted or an
  `exit()` pending is roused. It holds for a stronger reason, `RunNeverRests`: by
  `CounterInv` the counter of the eventfd is above zero except between the waker's
  read and the write that arming the waker makes (`base_add_sqe()` writes for every
  request, the waker's own too), so the poll is always ready when `run()` waits. The
  price is a loop that spins when idle; `NoLostWakeup` is what has to stay true if
  that write is ever left out.
* `ErrorsAreReturned` (`RequestedErrorKept`) if only the loop's thread calls
  `exit(result)`, from `ErrorInv`. `ctx_error_swallowed` shows that another thread
  may lose its error, so the assumption is needed.

`PromiseProofs`, `ContextKeepsPromise`: `Spec => KeepsPromise`, the refinement of
`Proactor`. The initial phases are right and each action is a step of `Proactor`
on one request, a start or an end of `run()`, or a stutter. `MapInv` is needed
where `run()` invokes a callback: its request is registered and was not invoked.

`TcpProofs`, for any places, calls, table size, number of files and faults, from
`DescriptorAssumption` and `TcpAssumption` (calls are not places):

* `TcpTypeCorrect`: `Spec => []TypeOK`. The one fact about the kernel it needs is
  that the lowest number of a non-empty free set exists (`LowestExists`, from the
  well-foundedness of the naturals).
* `DescriptorsHaveOneOwner`: `Spec => []OneOwner`. Inductive together with
  `TypeOK`. A step that opens a number finds it free, hence without holders, and
  adds one (`CreateOwner`, `PipeOwner`, `AcceptedOwner`); a step that closes one is
  taken by its only holder or sets `foreign` (`CloseFrees`); the others pass it on
  (`MoveOwner`, `AcceptCallbackOwner`) or leave holders alone (`FrameOwner`).
* `RequestsHitTheirFiles`: `Spec => []RequestHitsItsFile`, from `FileInv`: the
  number of a waiting request is held by a place that was not closed by hand, and
  stands for the file the request was made for. `OneOwner` is needed because
  closing another object must not close that number.

`AddressProofs`, for every storage, text and port and every `inet_pton` and
`inet_ntop` that satisfy `AddressAssumption`:

* `PortIsKept`, from the lemma `SwapTwice`: the two byte swaps cancel.
* `HostIsKept` and `DowncastKept`: the laws of hosts, and of erasing and restoring
  the type of an address.

`CoroutineProofs`, for any tasks, series, threads and operations, from the
assumptions of `Coroutine` (operations are not tasks, a connect is not an accept).
The properties of one frame need each other: a frame that is resumed must be off
every stack, a task that is destroyed must not be in the middle of its work, and
whether it is depends on who awaits it. The invariant is the conjunction of
`TypeOK`, `ValueLifetime` and

* `TreeInv`: the owner of a started task is the frame that awaits it, and is
  suspended for it alone;
* `OpInv`: a frame is suspended in an operation when exactly one pending operation
  has its handle;
* `StackInv`: the frames that are neither suspended nor gone are on the stacks, each once.

It gives `CoroutineTypeCorrect`, `ValuesAreDestructed`, `FramesRunOnce`,
`FramesAreResumedByOne`, `CallbacksFindFrames` and the refinement
`TasksActLikeCalls` (`Spec => ActsLikeCalls`): a symmetric transfer is a call or a
return of `CallStack`, what happens inside the library is a stutter. Only
`CallbacksFindFrames` assumes that a connect does not fail (`"connect"` not in
`Faults`), for the reason `tcp_connect_error` shows: the second invocation would
resume a frame that is elsewhere. The others hold with it up to that moment, at
which the model stops.

`AsyncIoProofs`, for any finite set of calls and any shapes, conditions, device
and faults. First the data, by the least counterexample: the set of lengths for
which a law fails would have a least member (`FirstBad`, `AllSequences`), and it
does not fail there.

* `IovecsAreTheWindow`: `transform_to_iovecs()` yields the next `max_len` bytes
  after the first `skip`, for every buffer sequence with empty buffers anywhere.
  The induction follows the loop's own two counters through one buffer.
* `ConditionsKeepTheirWord`: a completion condition asks for all it allows or for
  nothing, and in the latter case its documented meaning allows the end.

Then the calls, each invariant resting on the ones before it:

* `IoType` and `CallInv` give `IoTypeCorrect`: a request in flight asks for the
  bytes its call lacks, more than none, and its completion brings no more.
* `Counted` gives `OffsetsAreCounted` if `"refused"` is not in `Faults`: the sum
  over all calls, which is why `IoAssumption` wants finitely many. A refusal after
  `feed()` ends the program with the bytes fed and not yet counted.
* `BytesInv`, that the locals and the caller agree about the buffers, gives
  `RequestsAreExact`. From here on `Temporary = {}` is assumed: `io_temporary`
  shows what happens otherwise.
* `PlaceInv` (with one call at a time, where in the device it is) and `AnswerInv`
  (what a call was told stays true) give `AnswersAreTrue`.
* `MoveInv`, which speaks of the bytes fetched and not yet counted as well, gives
  `TransfersAreContiguous`. Where a read fills the caller's memory it needs that
  no address occurs twice in the buffers of a call, which `LayApart` proves of
  every shape.

Only model-checked: the liveness properties (`RequestIsSubmitted`,
`CompletionIsHeard`, `ExitEndsRun`, `CallbackIsInvoked`, `SyncWait`), since fairness
and ENABLED are out of the prover's reach; what `buffer_copy` computes
(`CopiedInOrder`); and the runs that expect a violation, which are examples of
behaviour and not laws. All the inductive invariants of `AsyncIoProofs` were
checked by TLC on the instances of `io_transfers` and `io_overlap`.

## 5. Plan

1. Done: all the modules of section 2 with their runs, and the proofs of section 4:
   every safety invariant and every refinement that a run checks is a theorem.
2. Next: the law of `buffer_copy` by the same induction as `IovecsAreTheWindow`;
   the law of `+=` and `buffer(b, n)` as subsequences; what an object closed by
   hand may still do (a weaker `OneOwner` without `~foreign`); which of the
   assumptions on `Faults` can be weakened to "has not failed yet".

## 6. Not modelled

Bindings, macros, documentation pages, logging under
`ARK_ADVANCED_DEBUG_VERBOSITY`; the text form of addresses, which the C library
makes; set-up and tear-down of the kernel objects (`queue_init`, `queue_exit`; the
eventfd of the waker is never closed); `tcp::bind` and the blocking `connect`,
which change nothing the library keeps; `async_syscall::read` and `write`, which
nothing calls; destroying a context with requests in flight, which leaks the
frames and callbacks it holds; the example programs, except for how their
`main()` uses `run()` and the future. `PROJECT.json` lists these with the
components they belong to.
