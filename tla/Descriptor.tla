----------------------------- MODULE Descriptor -----------------------------
(***************************************************************************)
(* The io objects of arkio (fd, seekable_fd and the classes made from      *)
(* them) and the descriptor table of the process: who owns which number.   *)
(*                                                                         *)
(* An object owns its number through unique_ptr<base_type>, whose          *)
(* destructor calls close(2).  A place is where user code keeps an object: *)
(* a variable, a member, an element.  A place whose object was moved away  *)
(* or destroyed is empty.  Steps of user code and of the kernel interleave *)
(* at system calls.                                                        *)
(***************************************************************************)
EXTENDS Integers

CONSTANTS
  Places,     \* where user code keeps io objects
  MaxFds,     \* numbers of the descriptor table (RLIMIT_NOFILE)
  MaxFiles    \* bound on the files the process opens

ASSUME DescriptorAssumption == MaxFds \in Nat \ {0} /\ MaxFiles \in Nat

Numbers == 0 .. MaxFds - 1
Empty   == -2     \* of base_: no object
Failure == -1     \* what a system call returns on error

\* event_fd, mem_fd, normal_file and pipe_fd are "plain": nothing here tells
\* them apart.
Classes == {"plain", "socket", "acceptor"}

VARIABLES
  table,     \* the file each number stands for, by order of opening; 0: none
  files,     \* how many files have been opened
  base_,     \* the number the object of each place owns, or Empty
  class,     \* the class of that object
  ctx_,      \* is it bound to an async_context (an empty object cannot be
             \* asked: both are reset with base_)
  byHand,    \* history: objects that still have a number close() has closed
  foreign    \* history: such an object has closed the number once more when
             \* it stood for somebody else's file

fdVars == <<table, files, base_, class, ctx_, byHand, foreign>>

FdTypeOK ==
  /\ table \in [Numbers -> 0 .. files]
  /\ files \in 0 .. MaxFiles
  /\ base_ \in [Places -> Numbers \cup {Empty}]
  /\ class \in [Places -> Classes]
  /\ ctx_ \in [Places -> BOOLEAN]
  /\ byHand \subseteq {p \in Places : base_[p] # Empty}
  /\ foreign \in BOOLEAN

FdInit ==
  /\ table = [n \in Numbers |-> 0] /\ files = 0
  /\ base_ = [p \in Places |-> Empty]
  /\ class = [p \in Places |-> "plain"]
  /\ ctx_ = [p \in Places |-> FALSE]
  /\ byHand = {} /\ foreign = FALSE

-----------------------------------------------------------------------------
\* The kernel hands out the lowest number that is free.
Free   == {n \in Numbers : table[n] = 0}
LowestOf(S) == CHOOSE n \in S : \A m \in S : n <= m
Lowest == LowestOf(Free)

Open(n) ==
  /\ files < MaxFiles
  /\ files' = files + 1
  /\ table' = [table EXCEPT ![n] = files + 1]

\* Mutant: the result of the system call is not compared with -1.
create_unchecked(p, c, ctx) ==
  /\ base_[p] = Empty
  /\ IF Free # {} THEN Open(Lowest) ELSE UNCHANGED <<table, files>>
  /\ base_' = [base_ EXCEPT ![p] = IF Free # {} THEN Lowest ELSE Failure]
  /\ class' = [class EXCEPT ![p] = c]
  /\ ctx_' = [ctx_ EXCEPT ![p] = ctx]
  /\ UNCHANGED <<byHand, foreign>>

\* What the factories share.  Without a free number they return the error
\* and make no object.
create(p, c, ctx) ==
  /\ base_[p] = Empty
  /\ Free # {}
  /\ Open(Lowest)
  /\ base_' = [base_ EXCEPT ![p] = Lowest]
  /\ class' = [class EXCEPT ![p] = c]
  /\ ctx_' = [ctx_ EXCEPT ![p] = ctx]
  /\ UNCHANGED <<byHand, foreign>>

event_fd_create(p, ctx)  == create(p, "plain", ctx)
mem_fd_create(p, ctx)    == create(p, "plain", ctx)
normal_file_open(p, ctx) == create(p, "plain", ctx)
normal_file_mkostemp(p, ctx) == create(p, "plain", ctx)
socket_create(p, ctx)    == create(p, "socket", ctx)
acceptor_create(p, ctx)  == create(p, "acceptor", ctx)

\* pipe2(2) takes the two lowest numbers or none.
pipe_fd_create(in, out, ctx) ==
  /\ in # out /\ base_[in] = Empty /\ base_[out] = Empty
  /\ files + 2 <= MaxFiles
  /\ Free # {} /\ Free \ {Lowest} # {}
  /\ LET second == LowestOf(Free \ {Lowest})
     IN  /\ table' = [table EXCEPT ![Lowest] = files + 1,
                                   ![second] = files + 2]
         /\ base_' = [base_ EXCEPT ![in] = Lowest, ![out] = second]
  /\ files' = files + 2
  /\ class' = [class EXCEPT ![in] = "plain", ![out] = "plain"]
  /\ ctx_' = [ctx_ EXCEPT ![in] = ctx, ![out] = ctx]
  /\ UNCHANGED <<byHand, foreign>>

-----------------------------------------------------------------------------
\* base_type::close(): close(2) on the number, whatever it stands for now.
\* The result, EBADF for a free number, changes nothing.
base_close(p) ==
  /\ table' = IF base_[p] = Empty THEN table
              ELSE [table EXCEPT ![base_[p]] = 0]
  /\ foreign' = (foreign \/ (p \in byHand /\ table[base_[p]] # 0))

\* fd::close(): the object keeps the number.
close(p) ==
  /\ base_[p] # Empty
  /\ base_close(p)
  /\ byHand' = byHand \cup {p}
  /\ UNCHANGED <<files, base_, class, ctx_>>

\* Mutant: base_type has no destructor.
destroy_leaks(p) ==
  /\ base_[p] # Empty
  /\ base_' = [base_ EXCEPT ![p] = Empty]
  /\ byHand' = byHand \ {p}
  /\ UNCHANGED <<table, files, class, ctx_, foreign>>

\* ~base_type()
destroy(p) ==
  /\ base_[p] # Empty
  /\ base_close(p)
  /\ base_' = [base_ EXCEPT ![p] = Empty]
  /\ class' = [class EXCEPT ![p] = "plain"]
  /\ ctx_' = [ctx_ EXCEPT ![p] = FALSE]
  /\ byHand' = byHand \ {p}
  /\ UNCHANGED files

\* Mutant: the assignment destroys the object that comes instead of the one
\* that goes.
move_destroys_source(p, q) ==
  /\ p # q
  /\ base_[p] # Empty
  /\ base_[q] # Empty => class[q] = class[p]
  /\ base_close(p)
  /\ base_' = [base_ EXCEPT ![q] = base_[p], ![p] = Empty]
  /\ class' = [class EXCEPT ![q] = class[p], ![p] = "plain"]
  /\ ctx_' = [ctx_ EXCEPT ![q] = ctx_[p], ![p] = FALSE]
  /\ byHand' = (byHand \ {p, q}) \cup (IF p \in byHand THEN {q} ELSE {})
  /\ UNCHANGED files

\* Move construction into q when it is empty, else move assignment, which
\* destroys what q had.
move(p, q) ==
  /\ p # q
  /\ base_[p] # Empty
  /\ base_[q] # Empty => class[q] = class[p]
  /\ base_close(q)
  /\ base_' = [base_ EXCEPT ![q] = base_[p], ![p] = Empty]
  /\ class' = [class EXCEPT ![q] = class[p], ![p] = "plain"]
  /\ ctx_' = [ctx_ EXCEPT ![q] = ctx_[p], ![p] = FALSE]
  /\ byHand' = (byHand \ {p, q}) \cup (IF p \in byHand THEN {q} ELSE {})
  /\ UNCHANGED files
=============================================================================
