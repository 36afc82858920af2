------------------------------ MODULE AsyncIo -------------------------------
(***************************************************************************)
(* ark::async::read() and write(): the operation async_io_impl, which      *)
(* issues readv / writev requests to an async context until its completion *)
(* condition holds, over an fd or a seekable_fd.  And ark::sync::read()    *)
(* and write(), which make the system calls themselves, in a loop, while   *)
(* requests of calls made before are still in flight on the same fd.       *)
(*                                                                         *)
(* The context is what Proactor promises: a request is refused at once, or *)
(* accepted and completed once, in any order.  One thread is assumed to    *)
(* make all the calls on the fd and to run the loop (a call made elsewhere *)
(* would run its first run(), and feed() the offset, beside the loop): so  *)
(* run() and go_on() are atomic, and while a sync call blocks that thread  *)
(* no callback runs and no other call is made; the kernel goes on.         *)
(*                                                                         *)
(* The device behind the fd is a file of FileMax bytes, or a stream, which *)
(* is the same with a position kept by the kernel.  A value is the place   *)
(* where it was born: a byte of the device or an address of a buffer.      *)
(***************************************************************************)
EXTENDS Buffers, FiniteSets

CONSTANTS
  Ops,          \* the read() and write() calls that user code makes
  Kinds,        \* which of "read" and "write" it makes
  Apis,         \* of which namespaces, "async" and "sync"
  Shapes,       \* shapes of buffer sequences: the sizes of their buffers
  Conds,        \* completion conditions
  FdTypes,      \* TRUE for a seekable_fd, FALSE for an fd
  Overlap,      \* may user code start a call while another one is running
  Temporary,    \* calls given a buffer sequence that dies as they return
  Seeks,        \* offsets user code seeks to
  FileLen,      \* bytes in the device at first
  FileMax,      \* bytes it has room for
  Faults        \* "refused": add_sqe() fails; "error": a request fails

ASSUME IoAssumption ==
  /\ IsFiniteSet(Ops) /\ Conds # {}
  /\ Kinds \subseteq {"read", "write"}
  /\ Apis \subseteq {"async", "sync"}
  /\ \A s \in Shapes : s \in Seq(Nat)
  /\ Conds \subseteq [kind : {"all", "at_least", "exactly"}, n : Nat]
  /\ FdTypes \subseteq BOOLEAN /\ Overlap \in BOOLEAN
  /\ Temporary \subseteq Ops
  /\ Seeks \subseteq Nat
  /\ FileMax \in Nat /\ FileLen \in 0 .. FileMax
  /\ Faults \subseteq {"refused", "error"}

\* Each buffer of operation o is the first bytes of an array of its own, one
\* byte longer; and there is memory that belongs to nobody here.
Stray == <<<<"stray", 0>>, 0>>
Lay(o, shape) ==
  [j \in DOMAIN shape |->
     buffer_n([object |-> <<o, j>>, count |-> shape[j] + 1, size |-> 1],
              shape[j])]

\* What the bytes of a dead buffer sequence may be read as: shorter or longer
\* than it was, and somewhere else.
Garbage(o) == {<<>>, <<<<Stray, Stray, Stray>>>>}

Positions == 0 .. FileMax - 1

VARIABLES
  seekable,    \* is the fd a seekable_fd; this never changes
  offset_,     \* of the seekable_fd
  stream,      \* the kernel's position, for an fd that is not seekable
  file,        \* the bytes of the device
  len,         \* how many of them there are
  mem,         \* bytes in the buffers that differ from what was there at first
  stage,       \* what has become of each call
  kind,        \* io_operation of the call
  blocked,     \* the sync call that the thread is in, if any
  locals_,     \* locals_t of its async_op: b_, cond_, done_sz_ and iov_;
               \*   the parameters and variables of that name of a sync call
  off,         \* offset of the request in flight, or of the system call
  cqe,         \* its completion, once there is one: -1 for an error
  answers,     \* history: what the callback has been invoked with, or the
               \*   sync call has returned
  bytes,       \* history: the addresses of the buffer sequence at the call
  start,       \* history: where in the device the transfer began
  last,        \* history: the call made last
  base,        \* history: what the offset would be, had nothing been moved
  aborted      \* an empty callback was invoked and the program has died

fdVars  == <<offset_, stream>>
devVars == <<file, len, mem>>
opVars  == <<stage, kind, blocked, locals_, off, cqe>>
histVars == <<bytes, start, last, base>>
vars == <<seekable, fdVars, devVars, opVars, answers, histVars, aborted>>

NoCqe == -2
Error == [ok |-> FALSE, n |-> 0]
Success(n) == [ok |-> TRUE, n |-> n]

MovedBytes == FoldFunction(LAMBDA l, total : l.done_sz_ + total, 0, locals_)
Idle == \A o \in Ops : stage[o] # "pending"
Position == IF seekable THEN offset_ ELSE stream
Content(a) == IF a \in DOMAIN mem THEN mem[a] ELSE a

TypeOK ==
  /\ seekable \in BOOLEAN
  /\ offset_ \in Nat /\ stream \in Nat
  /\ DOMAIN file = Positions /\ len \in 0 .. FileMax
  /\ stage \in [Ops -> {"new", "pending", "done"}]
  /\ kind \in [Ops -> {"read", "write"}]
  /\ blocked \subseteq {o \in Ops : stage[o] = "pending"}
  /\ \A o \in Ops : /\ locals_[o].done_sz_ \in Nat
                    /\ locals_[o].cond_ \in Conds
                    /\ stage[o] = "pending" => FlattenSeq(locals_[o].iov_) # <<>>
  /\ off \in [Ops -> Nat]
  /\ cqe \in [Ops -> Nat \cup {-1, NoCqe}]
  /\ base \in Int
  /\ aborted \in BOOLEAN

Init ==
  /\ seekable \in FdTypes
  /\ offset_ = 0 /\ stream = 0
  /\ file = [p \in Positions |-> <<<<"file", 0>>, p>>]
  /\ len = FileLen
  /\ mem = <<>>
  /\ stage = [o \in Ops |-> "new"]
  /\ kind = [o \in Ops |-> "read"]
  /\ blocked = {}
  /\ locals_ = [o \in Ops |-> [b_ |-> <<>>, cond_ |-> CHOOSE c \in Conds : TRUE,
                               done_sz_ |-> 0, iov_ |-> <<>>]]
  /\ off = [o \in Ops |-> 0]
  /\ cqe = [o \in Ops |-> NoCqe]
  /\ answers = [o \in Ops |-> <<>>]
  /\ bytes = [o \in Ops |-> <<>>]
  /\ start = [o \in Ops |-> 0]
  /\ last = {} /\ base = 0 /\ aborted = FALSE

-----------------------------------------------------------------------------
\* async_op::complete(): the callback is invoked, and owns the rest.
complete(o, l, ret) ==
  /\ stage' = [stage EXCEPT ![o] = "done"]
  /\ locals_' = [locals_ EXCEPT ![o] = l]
  /\ answers' = [answers EXCEPT ![o] = Append(@, ret)]

\* readv() or writev(), through async_syscall and add_sqe(); the operation
\* moves into the callback of the request.
Submit(o, l, n) ==
  /\ stage' = [stage EXCEPT ![o] = "pending"]
  /\ locals_' = [locals_ EXCEPT ![o] =
       [l EXCEPT !.iov_ = transform_to_iovecs(l.b_, l.done_sz_, n)]]
  /\ off' = [off EXCEPT ![o] = IF seekable THEN offset_' ELSE 0]
  /\ UNCHANGED <<answers, aborted>>

\* add_sqe() returns an error.  The operation has been moved from, so what
\* op.complete() invokes is an empty function.
Refused ==
  /\ "refused" \in Faults
  /\ aborted' = TRUE
  /\ UNCHANGED <<stage, locals_, off, answers>>

\* How many bytes are to be asked for next.
Missing(l) == to_transfer(l.cond_, buffer_size(l.b_), l.done_sz_)

\* Mutant: a request for no bytes is made instead of completing.
RunWithoutStop(o, l) == Submit(o, l, Missing(l)) /\ UNCHANGED blocked

\* async_io_impl::run() on the locals l.
run(o, l) ==
  /\ \/ /\ Missing(l) = 0
        /\ complete(o, l, Success(l.done_sz_))
        /\ UNCHANGED <<off, aborted>>
     \/ Missing(l) > 0 /\ Submit(o, l, Missing(l))
     \/ Missing(l) > 0 /\ Refused
  /\ UNCHANGED blocked

\* The locals that a call begins with.
locals_t(o, shape, cond) ==
  [b_ |-> Lay(o, shape), cond_ |-> cond, done_sz_ |-> 0, iov_ |-> <<>>]

\* User code calls one of the functions.
Call(o, k, shape) ==
  /\ stage[o] = "new"
  /\ blocked = {}
  /\ Overlap \/ Idle
  /\ UNCHANGED <<fdVars, devVars, cqe, base>>
  /\ kind' = [kind EXCEPT ![o] = k]
  /\ bytes' = [bytes EXCEPT ![o] = FlattenSeq(Lay(o, shape))]
  /\ start' = [start EXCEPT ![o] = Position]
  /\ last' = {o}

\* ark::async::read(f, b, cond, cb) and write(f, b, cond, cb)
async_call(o, k, shape, cond) ==
  "async" \in Apis /\ Call(o, k, shape) /\ run(o, locals_t(o, shape, cond))

\* seekable_fd::seek()
seek(p) ==
  /\ seekable
  /\ blocked = {}
  /\ Overlap \/ Idle
  /\ offset_' = p
  /\ base' = p - MovedBytes
  /\ last' = {}
  /\ UNCHANGED <<stream, devVars, opVars, answers, bytes, start, aborted>>

\* Mutant: the offset is not fed.
MovesNothing(n) == UNCHANGED offset_

\* seekable_fd::feed()
feed(n) == offset_' = IF seekable THEN offset_ + n ELSE offset_

\* Mutant: go_on() reports an error and goes on.
FailedAndOn(o) ==
  /\ cqe[o] = -1
  /\ answers' = [answers EXCEPT ![o] = Append(Append(@, Error), Success(0))]
  /\ stage' = [stage EXCEPT ![o] = "done"]
  /\ UNCHANGED <<offset_, off, locals_, blocked, aborted>>

Failed(o) ==
  /\ cqe[o] = -1
  /\ complete(o, locals_[o], Error)
  /\ UNCHANGED <<offset_, off, blocked, aborted>>

\* Mutant: end of file is an empty transfer like any other.
EofGoesOn(o) ==
  /\ kind[o] = "read" /\ cqe[o] = 0
  /\ UNCHANGED offset_
  /\ run(o, locals_[o])

Eof(o) ==
  /\ kind[o] = "read" /\ cqe[o] = 0
  /\ complete(o, locals_[o], Success(locals_[o].done_sz_))
  /\ UNCHANGED <<offset_, off, blocked, aborted>>

\* Mutant: the offset becomes where this request ended.
AdvancedAlone(o) ==
  /\ cqe[o] >= 0
  /\ kind[o] = "read" => cqe[o] # 0
  /\ offset_' = off[o] + cqe[o]
  /\ \E b \in IF o \in Temporary THEN Garbage(o) ELSE {locals_[o].b_} :
       run(o, [locals_[o] EXCEPT !.done_sz_ = @ + cqe[o], !.b_ = b])

Advanced(o) ==
  /\ cqe[o] >= 0
  /\ kind[o] = "read" => cqe[o] # 0
  /\ feed(cqe[o])
  /\ \E b \in IF o \in Temporary THEN Garbage(o) ELSE {locals_[o].b_} :
       run(o, [locals_[o] EXCEPT !.done_sz_ = @ + cqe[o], !.b_ = b])

\* async_io_impl::go_on(), the callback of each request.
go_on(o) ==
  /\ blocked = {}
  /\ stage[o] = "pending"
  /\ cqe[o] # NoCqe
  /\ Failed(o) \/ Eof(o) \/ Advanced(o)
  /\ cqe' = [cqe EXCEPT ![o] = NoCqe]
  /\ UNCHANGED <<stream, devVars, kind, histVars>>

-----------------------------------------------------------------------------
(***************************************************************************)
(* ark::sync::read() and write().                                          *)
(***************************************************************************)
\* The head of the loop: while there is something to transfer, a preadv2,
\* pwritev2, readv or writev call is made, at the offset a seekable_fd has.
Iterate(o, l) ==
  \/ /\ Missing(l) = 0
     /\ complete(o, l, Success(l.done_sz_))
     /\ blocked' = {}
     /\ UNCHANGED <<off, aborted>>
  \/ /\ Missing(l) > 0
     /\ Submit(o, l, Missing(l))
     /\ blocked' = {o}

sync_call(o, k, shape, cond) ==
  "sync" \in Apis /\ Call(o, k, shape) /\ Iterate(o, locals_t(o, shape, cond))

\* The rest of the loop of read(), once the system call has returned.
sync_read(o) ==
  /\ kind[o] = "read"
  /\ \/ /\ cqe[o] <= 0
        /\ complete(o, locals_[o], IF cqe[o] = 0 THEN Success(locals_[o].done_sz_)
                                   ELSE Error)
        /\ blocked' = {}
        /\ UNCHANGED <<offset_, off, aborted>>
     \/ /\ cqe[o] > 0
        /\ feed(cqe[o])
        /\ Iterate(o, [locals_[o] EXCEPT !.done_sz_ = @ + cqe[o]])

\* The rest of the loop of write().
sync_write(o) ==
  /\ kind[o] = "write"
  /\ \/ /\ cqe[o] = -1
        /\ complete(o, locals_[o], Error)
        /\ blocked' = {}
        /\ UNCHANGED <<offset_, off, aborted>>
     \/ /\ cqe[o] # -1
        /\ feed(cqe[o])
        /\ Iterate(o, [locals_[o] EXCEPT !.done_sz_ = @ + cqe[o]])

SyscallReturns(o) ==
  /\ o \in blocked
  /\ cqe[o] # NoCqe
  /\ sync_read(o) \/ sync_write(o)
  /\ cqe' = [cqe EXCEPT ![o] = NoCqe]
  /\ UNCHANGED <<stream, devVars, kind, histVars>>

-----------------------------------------------------------------------------
(***************************************************************************)
(* The kernel: a request, or a system call, moves a prefix of what it asks *)
(* for, nothing only at the end of the device, or fails.                   *)
(***************************************************************************)
KernelAt(o) == IF seekable THEN off[o] ELSE stream

\* n bytes are moved.
Transfer(o, n) ==
  LET at == KernelAt(o)
      to == FlattenSeq(locals_[o].iov_)
      filled == {to[i] : i \in 1 .. n}
  IN  /\ stage[o] = "pending" /\ cqe[o] = NoCqe
      /\ n \in 0 .. Len(to)
      /\ n = 0 <=> kind[o] = "read" /\ at >= len
      /\ \/ /\ kind[o] = "read"
            /\ n > 0 => at + n <= len
            /\ mem' = [a \in filled \cup DOMAIN mem |->
                         IF a \in filled
                         THEN file[at + (CHOOSE i \in 1 .. n : to[i] = a) - 1]
                         ELSE mem[a]]
            /\ UNCHANGED <<file, len>>
         \/ /\ kind[o] = "write"
            /\ at + n <= FileMax
            /\ file' = [p \in Positions |->
                          IF p \in at .. at + n - 1 THEN Content(to[p - at + 1])
                          ELSE file[p]]
            /\ len' = Max({len, at + n})
            /\ UNCHANGED mem
      /\ cqe' = [cqe EXCEPT ![o] = n]
      /\ stream' = IF seekable THEN stream ELSE stream + n
      /\ UNCHANGED <<offset_, stage, kind, blocked, locals_, off, answers,
                     histVars, aborted>>

Fail(o) ==
  /\ stage[o] = "pending" /\ cqe[o] = NoCqe
  /\ \/ "error" \in Faults
     \/ kind[o] = "write" /\ KernelAt(o) >= FileMax
  /\ cqe' = [cqe EXCEPT ![o] = -1]
  /\ UNCHANGED <<fdVars, devVars, stage, kind, blocked, locals_, off, answers,
                 histVars, aborted>>

Kernel(o) == (\E n \in 0 .. FileMax : Transfer(o, n)) \/ Fail(o)

Next ==
  /\ ~aborted
  /\ UNCHANGED seekable
  /\ \/ \E o \in Ops, k \in Kinds, s \in Shapes, c \in Conds :
          async_call(o, k, s, c) \/ sync_call(o, k, s, c)
     \/ \E o \in Ops : go_on(o) \/ SyscallReturns(o) \/ Kernel(o)
     \/ \E p \in Seeks : seek(p)

Spec == Init /\ [][Next]_vars

\* The kernel finishes every request it accepted (a file, or a peer that keeps
\* its side of the stream going), and the thread goes on from it: the event
\* loop invokes the callback, the sync call takes what its system call returned.
Progress(o) ==
  /\ ~aborted
  /\ UNCHANGED seekable
  /\ go_on(o) \/ SyscallReturns(o) \/ Kernel(o)

Fairness == \A o \in Ops : WF_vars(Progress(o))

FairSpec == Spec /\ Fairness

-----------------------------------------------------------------------------
\* What a callback is told, or a sync call returns, is true: on success the
\* number of bytes fulfils the completion condition, by its documented meaning,
\* or end of file came first; and it is told once.
AnswerIsTrue ==
  \A o \in Ops : answers[o] # <<>> =>
    LET ret  == answers[o][1]
        cond == locals_[o].cond_
        size == Len(bytes[o])
    IN  /\ Len(answers[o]) = 1
        /\ ret.ok => /\ ret.n = locals_[o].done_sz_
                     /\ \/ Fulfils(cond, size, ret.n)
                        \/ /\ kind[o] = "read" /\ ret.n < Ceiling(cond, size)
                           /\ o \in last /\ ~Overlap => start[o] + ret.n >= len

\* The request in flight, or the system call, asks for the bytes that are still
\* missing, in order, from the caller's memory only, and for no more than the
\* condition allows, however the earlier requests of this call were cut short.
RequestsWhatIsMissing ==
  \A o \in Ops : stage[o] = "pending" /\ cqe[o] = NoCqe =>
    LET done == locals_[o].done_sz_
    IN  FlattenSeq(locals_[o].iov_)
          = SubSeq(bytes[o], done + 1, Ceiling(locals_[o].cond_, Len(bytes[o])))

\* With one call at a time, the bytes counted as done are the bytes of the
\* device from where the call began, with no gap and no repetition, whatever
\* the sizes of the partial transfers and the buffers they were scattered to.
TransferIsContiguous ==
  ~Overlap => \A o \in last : \A i \in 1 .. locals_[o].done_sz_ :
    Content(bytes[o][i]) = file[start[o] + i - 1]

\* The offset moves by the bytes the calls report, none twice and none left
\* out, in whatever order overlapping calls complete, fail or meet the end,
\* and with a sync call made while requests of others are in flight.
OffsetCountsTransfers == seekable => offset_ = base + MovedBytes

\* "cb is invoked on completion or error.", and a sync call returns.
CallbackIsInvoked == \A o \in Ops : o \in last ~> answers[o] # <<>>
=============================================================================
