-------------------------------- MODULE Tcp ---------------------------------
(***************************************************************************)
(* net::tcp: listen, blocking accept, and the asynchronous connect and     *)
(* accept with their callbacks, over the descriptors of Descriptor and a   *)
(* context that behaves as Proactor promises.                              *)
(*                                                                         *)
(* A request carries the number of the descriptor; the kernel looks the    *)
(* number up when the event loop submits the request and from then on      *)
(* holds the file itself.  The connection an accept() brings is a new      *)
(* number which only the completion knows until the callback runs.         *)
(*                                                                         *)
(* Addresses are in Address: nothing here tells two endpoints apart.       *)
(***************************************************************************)
EXTENDS Descriptor, Sequences

CONSTANTS
  Calls,    \* the async connect() and accept() calls user code makes
  Faults    \* "refused": add_sqe() fails; "error": a request fails

ASSUME TcpAssumption ==
  /\ Calls \cap Places = {}
  /\ Faults \subseteq {"refused", "error"}

VARIABLES
  req,         \* the request of each call
  of,          \* history: the file of the object the call was made on
  heard,       \* what its callback has been invoked with
  listening,   \* files that listen
  aborted      \* the program has died

vars == <<fdVars, req, of, heard, listening, aborted>>

Request == [stage : {"new", "queued", "started", "completed", "done"},
            kind : {"connect", "accept"},
            fd : Numbers \cup {Empty},     \* the number it carries
            file : 0 .. MaxFiles,          \* what the kernel made of it
            res : Numbers \cup {Failure}]  \* of the completion

TypeOK ==
  /\ FdTypeOK
  /\ req \in [Calls -> Request]
  /\ \A c \in Calls : req[c].stage = "queued" => req[c].fd \in Numbers
  /\ of \in [Calls -> 0 .. MaxFiles]
  /\ heard \in [Calls -> Seq({"success", "error"})]
  /\ listening \subseteq 1 .. MaxFiles
  /\ aborted \in BOOLEAN

Blank == [stage |-> "new", kind |-> "connect", fd |-> Empty, file |-> 0,
          res |-> Failure]

Init ==
  /\ FdInit
  /\ req = [c \in Calls |-> Blank]
  /\ of = [c \in Calls |-> 0]
  /\ heard = [c \in Calls |-> <<>>]
  /\ listening = {} /\ aborted = FALSE

At(c, stage, kind) == req[c].stage = stage /\ req[c].kind = kind

-----------------------------------------------------------------------------
(***************************************************************************)
(* Calls of user code.                                                     *)
(***************************************************************************)

\* An object that calls may be made on.
Usable(p, c) == base_[p] # Empty /\ p \notin byHand /\ class[p] = c

listen(p) ==
  /\ Usable(p, "acceptor")
  /\ listening' = listening \cup ({table[base_[p]]} \ {0})
  /\ UNCHANGED <<fdVars, req, of, heard, aborted>>

\* Blocks until there is a connection; the socket is bound to no context.
sync_accept(srv, p) ==
  /\ Usable(srv, "acceptor")
  /\ table[base_[srv]] \in listening
  /\ create(p, "socket", FALSE)
  /\ UNCHANGED <<req, of, heard, listening, aborted>>

\* with_async_context::context() of the object at p: Ensures() ends the program
\* if there is none, so user code asks only where there is one.
context(p) == ctx_[p]

\* The request enters the ring with the number get() returns.
AddSqe(c, p, kind) ==
  /\ req[c].stage = "new"
  /\ context(p)
  /\ req' = [req EXCEPT ![c] = [@ EXCEPT !.stage = "queued", !.kind = kind,
                                         !.fd = base_[p]]]
  /\ of' = [of EXCEPT ![c] = table[base_[p]]]
  /\ UNCHANGED <<fdVars, heard, listening, aborted>>

async_connect(c, p) == Usable(p, "socket") /\ AddSqe(c, p, "connect")
async_accept(c, p) == Usable(p, "acceptor") /\ AddSqe(c, p, "accept")

\* add_sqe() fails: the callback has been moved into the request, and the
\* empty one that is left is invoked.
Refused(c, p) ==
  /\ "refused" \in Faults
  /\ req[c].stage = "new"
  /\ Usable(p, "socket") \/ Usable(p, "acceptor")
  /\ context(p)
  /\ req' = [req EXCEPT ![c].stage = "done"]
  /\ aborted' = TRUE
  /\ UNCHANGED <<fdVars, of, heard, listening>>

\* User code does not let go of an object while a request that carries its
\* number waits to be submitted.
Waiting(p) == \E c \in Calls : req[c].stage = "queued" /\ req[c].fd = base_[p]

LetGo(p) ==
  /\ ~Waiting(p)
  /\ destroy(p) \/ close(p)

Moves(p, q) ==
  /\ base_[q] # Empty => ~Waiting(q)
  /\ move(p, q)

Creates(p, ctx) ==
  \/ event_fd_create(p, ctx) \/ mem_fd_create(p, ctx)
  \/ normal_file_open(p, ctx) \/ normal_file_mkostemp(p, ctx)
  \/ socket_create(p, ctx) \/ acceptor_create(p, ctx)
  \/ \E q \in Places : pipe_fd_create(p, q, ctx)

-----------------------------------------------------------------------------
(***************************************************************************)
(* The event loop submits, and the kernel works on, the requests.          *)
(***************************************************************************)
submit ==
  /\ \E c \in Calls : req[c].stage = "queued"
  /\ req' = [c \in Calls |->
               IF req[c].stage = "queued"
                 THEN [req[c] EXCEPT !.stage = "started",
                                     !.file = table[req[c].fd]]
                 ELSE req[c]]
  /\ UNCHANGED <<fdVars, of, heard, listening, aborted>>

Completed(c, res) ==
  req' = [req EXCEPT ![c] = [@ EXCEPT !.stage = "completed", !.res = res]]

Connected(c) ==
  /\ At(c, "started", "connect")
  /\ req[c].file # 0
  /\ Completed(c, 0)
  /\ UNCHANGED <<fdVars, of, heard, listening, aborted>>

ConnectFails(c) ==
  /\ At(c, "started", "connect")
  /\ req[c].file = 0 \/ "error" \in Faults
  /\ Completed(c, Failure)
  /\ UNCHANGED <<fdVars, of, heard, listening, aborted>>

Accepted(c) ==
  /\ At(c, "started", "accept")
  /\ req[c].file \in listening
  /\ Free # {}
  /\ Open(Lowest)
  /\ Completed(c, Lowest)
  /\ UNCHANGED <<base_, class, ctx_, byHand, foreign, of, heard, listening,
                 aborted>>

\* EBADF, EINVAL, EMFILE or an error of the connection.
AcceptFails(c) ==
  /\ At(c, "started", "accept")
  /\ req[c].file \notin listening \/ Free = {} \/ "error" \in Faults
  /\ Completed(c, Failure)
  /\ UNCHANGED <<fdVars, of, heard, listening, aborted>>

-----------------------------------------------------------------------------
(***************************************************************************)
(* The callbacks, invoked inside run().                                    *)
(***************************************************************************)
Answer(c, answers) ==
  /\ req' = [req EXCEPT ![c] = [Blank EXCEPT !.stage = "done"]]
  /\ heard' = [heard EXCEPT ![c] = @ \o answers]

\* An error is told, and success after it.
connect_callback(c) ==
  /\ At(c, "completed", "connect")
  /\ Answer(c, IF req[c].res = Failure THEN <<"error", "success">>
                                       ELSE <<"success">>)
  /\ UNCHANGED <<fdVars, of, listening, aborted>>

\* wrap_accepted_socket(), and user code keeps the socket at p.
accept_callback(c, p) ==
  /\ At(c, "completed", "accept")
  /\ req[c].res # Failure
  /\ base_[p] = Empty
  /\ base_' = [base_ EXCEPT ![p] = req[c].res]
  /\ class' = [class EXCEPT ![p] = "socket"]
  /\ ctx_' = [ctx_ EXCEPT ![p] = TRUE]
  /\ Answer(c, <<"success">>)
  /\ UNCHANGED <<table, files, byHand, foreign, of, listening, aborted>>

\* The same, and user code lets the socket go at once.
accept_callback_drops(c) ==
  /\ At(c, "completed", "accept")
  /\ req[c].res # Failure
  /\ table' = [table EXCEPT ![req[c].res] = 0]
  /\ Answer(c, <<"success">>)
  /\ UNCHANGED <<files, base_, class, ctx_, byHand, foreign, of, listening,
                 aborted>>

\* The error is told; value() of the failed result then ends the program.
accept_callback_fails(c) ==
  /\ At(c, "completed", "accept")
  /\ req[c].res = Failure
  /\ Answer(c, <<"error">>)
  /\ aborted' = TRUE
  /\ UNCHANGED <<fdVars, of, listening>>

-----------------------------------------------------------------------------
FdStep ==
  /\ \E p \in Places : \/ LetGo(p)
                       \/ \E q \in Places : Moves(p, q)
                       \/ \E ctx \in BOOLEAN : Creates(p, ctx)
  /\ UNCHANGED <<req, of, heard, listening, aborted>>

UserStep ==
  \E p \in Places :
    \/ listen(p)
    \/ \E q \in Places : sync_accept(p, q)
    \/ \E c \in Calls : async_connect(c, p) \/ async_accept(c, p) \/ Refused(c, p)

KernelStep ==
  \E c \in Calls :
    Connected(c) \/ ConnectFails(c) \/ Accepted(c) \/ AcceptFails(c)

CallbackStep ==
  \E c \in Calls :
    \/ connect_callback(c) \/ accept_callback_drops(c) \/ accept_callback_fails(c)
    \/ \E p \in Places : accept_callback(c, p)

Next ==
  /\ ~aborted
  /\ FdStep \/ UserStep \/ submit \/ KernelStep \/ CallbackStep

Spec == Init /\ [][Next]_vars

-----------------------------------------------------------------------------
\* Who will close number n: the objects that have it and were not closed by
\* hand, and the completions that bring it to a callback.
Holders(n) ==
  {p \in Places \ byHand : base_[p] = n}
    \cup {c \in Calls : At(c, "completed", "accept") /\ req[c].res = n}

OwnedAt(n) ==
  /\ table[n] = 0 => Holders(n) = {}
  /\ table[n] # 0 => \E h \in Places \cup Calls : Holders(n) = {h}

\* Every open descriptor has exactly one holder, and no holder has a closed
\* one: whatever is created, moved, assigned over, accepted or dropped while
\* requests are in flight, nothing leaks and nothing is closed under its
\* owner.  It ends with the first damage that an object closed by hand does.
OneOwner == ~foreign => \A n \in Numbers : OwnedAt(n)

\* A request works on the file of the object it was made on, although it
\* carries only a number, which is looked up later, and although that object
\* may have been moved in between.
RequestHitsItsFile ==
  ~foreign => \A c \in Calls : req[c].stage = "started" => req[c].file = of[c]

\* fd "performs an RAII-style close() only once": the destructor of an object
\* that close() was called on closes nothing of somebody else.
ClosedOnlyOnce == ~foreign

\* The callback of a call is invoked once, on completion or error.
AnsweredOnce ==
  \A c \in Calls : /\ Len(heard[c]) <= 1
                   /\ req[c].stage = "done" /\ ~aborted => Len(heard[c]) = 1
=============================================================================
