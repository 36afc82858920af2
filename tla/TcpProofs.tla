----------------------------- MODULE TcpProofs ------------------------------
(***************************************************************************)
(* Theorems about Tcp, with the descriptors below it, for any number of    *)
(* places, calls, descriptors and files and any set of faults.             *)
(***************************************************************************)
EXTENDS Tcp, WellFoundedInduction, TLAPS

-----------------------------------------------------------------------------
(***************************************************************************)
(* The number the kernel hands out exists and is free.                     *)
(***************************************************************************)
LEMMA LowestExists ==
  ASSUME NEW S, S \subseteq Nat, S # {}
  PROVE  LowestOf(S) \in S
<1> DEFINE R == {ss \in Nat \X Nat : ss[1] < ss[2]}
<1>1. IsWellFoundedOn(R, Nat)
  BY NatLessThanWellFounded DEF OpToRel
<1>2. \E x \in S : \A y \in S : ~ (<<y, x>> \in R)
  <2> HIDE DEF R
  <2> QED
    BY <1>1, WFMin
<1>3. PICK x \in S : \A y \in S : ~ (<<y, x>> \in R)
  BY <1>2
<1>4. ASSUME NEW y \in S PROVE x <= y
  <2>1. x \in Nat /\ y \in Nat
    OBVIOUS
  <2>2. ~ (y < x)
    BY <1>3, <2>1
  <2> QED
    BY <2>1, <2>2
<1> QED
  BY <1>4 DEF LowestOf

LEMMA FreeIsNatural == Free \subseteq Nat
BY DescriptorAssumption DEF Free, Numbers

LEMMA LowestIsFree ==
  ASSUME Free # {}
  PROVE  Lowest \in Numbers /\ table[Lowest] = 0
<1>1. Lowest \in Free
  BY FreeIsNatural, LowestExists DEF Lowest
<1> QED
  BY <1>1 DEF Free

LEMMA SecondIsFree ==
  ASSUME Free \ {Lowest} # {}
  PROVE  LET second == LowestOf(Free \ {Lowest})
         IN  second \in Numbers /\ table[second] = 0 /\ second # Lowest
<1>1. Free \ {Lowest} \subseteq Nat
  BY FreeIsNatural
<1>2. LowestOf(Free \ {Lowest}) \in Free \ {Lowest}
  BY <1>1, LowestExists
<1> QED
  BY <1>2 DEF Free

-----------------------------------------------------------------------------
(***************************************************************************)
(* Type correctness.                                                       *)
(***************************************************************************)
LEMMA CreateType ==
  ASSUME FdTypeOK, NEW p \in Places, NEW c \in Classes, NEW ctx \in BOOLEAN,
         create(p, c, ctx)
  PROVE  FdTypeOK'
<1>1. Lowest \in Numbers
  BY LowestIsFree DEF create
<1> QED
  BY <1>1, DescriptorAssumption DEF create, Open, FdTypeOK, Empty, Numbers

LEMMA PipeType ==
  ASSUME FdTypeOK, NEW p \in Places, NEW q \in Places, NEW ctx \in BOOLEAN,
         pipe_fd_create(p, q, ctx)
  PROVE  FdTypeOK'
<1>1. Lowest \in Numbers
  BY LowestIsFree DEF pipe_fd_create
<1> DEFINE second == LowestOf(Free \ {Lowest})
<1>2. second \in Numbers
  BY SecondIsFree DEF pipe_fd_create
<1>3. /\ table' = [table EXCEPT ![Lowest] = files + 1, ![second] = files + 2]
      /\ base_' = [base_ EXCEPT ![p] = Lowest, ![q] = second]
  BY DEF pipe_fd_create
<1> HIDE DEF second
<1>4. files' = files + 2 /\ files' \in 0 .. MaxFiles
  BY DescriptorAssumption DEF pipe_fd_create, FdTypeOK
<1>5. table' \in [Numbers -> 0 .. files']
  BY <1>1, <1>2, <1>3, <1>4, DescriptorAssumption DEF FdTypeOK
<1>6. base_' \in [Places -> Numbers \cup {Empty}]
  BY <1>1, <1>2, <1>3 DEF FdTypeOK
<1>7. class' \in [Places -> Classes] /\ ctx_' \in [Places -> BOOLEAN]
  BY DEF pipe_fd_create, FdTypeOK, Classes
<1>8. byHand' \subseteq {x \in Places : base_'[x] # Empty}
  BY <1>3 DEF pipe_fd_create, FdTypeOK
<1> QED
  BY <1>4, <1>5, <1>6, <1>7, <1>8 DEF pipe_fd_create, FdTypeOK

LEMMA CloseType ==
  ASSUME FdTypeOK, NEW p \in Places, base_close(p)
  PROVE  table' \in [Numbers -> 0 .. files] /\ foreign' \in BOOLEAN
<1>1. base_[p] # Empty => base_[p] \in Numbers
  BY DEF FdTypeOK
<1>2. 0 \in 0 .. files
  BY DescriptorAssumption DEF FdTypeOK
<1>3. table' \in [Numbers -> 0 .. files]
  BY <1>1, <1>2 DEF FdTypeOK, base_close
<1> QED
  BY <1>3 DEF base_close

LEMMA MoveType ==
  ASSUME FdTypeOK, NEW p \in Places, NEW q \in Places, move(p, q)
  PROVE  FdTypeOK'
<1>1. table' \in [Numbers -> 0 .. files] /\ foreign' \in BOOLEAN
  BY CloseType DEF move
<1>2. base_' \in [Places -> Numbers \cup {Empty}]
  BY DEF move, FdTypeOK
<1>3. class' \in [Places -> Classes] /\ ctx_' \in [Places -> BOOLEAN]
  BY DEF move, FdTypeOK, Classes
<1>4. byHand' \subseteq {x \in Places : base_'[x] # Empty}
  BY DEF move, FdTypeOK
<1> QED
  BY <1>1, <1>2, <1>3, <1>4 DEF move, FdTypeOK

LEMMA LetGoType ==
  ASSUME FdTypeOK, NEW p \in Places, destroy(p) \/ close(p)
  PROVE  FdTypeOK'
<1>1. table' \in [Numbers -> 0 .. files] /\ foreign' \in BOOLEAN
  BY CloseType DEF destroy, close
<1>2. base_' \in [Places -> Numbers \cup {Empty}]
  BY DEF destroy, close, FdTypeOK
<1>3. class' \in [Places -> Classes] /\ ctx_' \in [Places -> BOOLEAN]
  BY DEF destroy, close, FdTypeOK, Classes
<1>4. byHand' \subseteq {x \in Places : base_'[x] # Empty}
  BY DEF destroy, close, FdTypeOK
<1> QED
  BY <1>1, <1>2, <1>3, <1>4 DEF destroy, close, FdTypeOK

\* Every step of the descriptors keeps their types.
LEMMA FdStepType ==
  ASSUME FdTypeOK, FdStep
  PROVE  FdTypeOK'
<1>1. ASSUME NEW p \in Places, LetGo(p) PROVE FdTypeOK'
  BY <1>1, LetGoType DEF LetGo
<1>2. ASSUME NEW p \in Places, NEW q \in Places, Moves(p, q) PROVE FdTypeOK'
  BY <1>2, MoveType DEF Moves
<1>3. ASSUME NEW p \in Places, NEW ctx \in BOOLEAN, Creates(p, ctx)
      PROVE  FdTypeOK'
  <2>1. CASE \E c \in Classes : create(p, c, ctx)
    BY <2>1, CreateType
  <2>2. CASE \E q \in Places : pipe_fd_create(p, q, ctx)
    BY <2>2, PipeType
  <2> QED
    BY <1>3, <2>1, <2>2
    DEF Creates, event_fd_create, mem_fd_create, normal_file_open,
        normal_file_mkostemp, socket_create, acceptor_create, Classes
<1> QED
  BY <1>1, <1>2, <1>3 DEF FdStep

-----------------------------------------------------------------------------
(***************************************************************************)
(* What a step of Tcp does to the requests, in terms of three conjuncts of *)
(* TypeOK; the other steps leave them alone.                               *)
(***************************************************************************)
ReqType ==
  /\ req \in [Calls -> Request]
  /\ \A c \in Calls : req[c].stage = "queued" => req[c].fd \in Numbers

RestType ==
  /\ of \in [Calls -> 0 .. MaxFiles]
  /\ heard \in [Calls -> Seq({"success", "error"})]
  /\ listening \subseteq 1 .. MaxFiles
  /\ aborted \in BOOLEAN

LEMMA TypeParts == TypeOK <=> FdTypeOK /\ ReqType /\ RestType
BY DEF TypeOK, ReqType, RestType

LEMMA TypeInit == Init => TypeOK
<1> SUFFICES ASSUME Init PROVE TypeOK
  OBVIOUS
<1>1. 0 \in 0 .. files /\ files \in 0 .. MaxFiles
  BY DescriptorAssumption DEF Init, FdInit
<1>2. table \in [Numbers -> 0 .. files] /\ base_ \in [Places -> Numbers \cup {Empty}]
  BY <1>1 DEF Init, FdInit
<1>3. class \in [Places -> Classes] /\ ctx_ \in [Places -> BOOLEAN]
  BY DEF Init, FdInit, Classes
<1>4. FdTypeOK
  BY <1>1, <1>2, <1>3 DEF Init, FdInit, FdTypeOK
<1>5. ReqType
  BY DescriptorAssumption DEF Init, ReqType, Request, Blank
<1>6. of \in [Calls -> 0 .. MaxFiles]
  BY DescriptorAssumption DEF Init
<1>7. heard \in [Calls -> Seq({"success", "error"})]
  BY DEF Init
<1> QED
  BY <1>4, <1>5, <1>6, <1>7, TypeParts DEF Init, RestType

LEMMA UserStepType ==
  ASSUME TypeOK, UserStep
  PROVE  TypeOK'
<1>1. ASSUME NEW p \in Places, listen(p) PROVE TypeOK'
  <2>1. table[base_[p]] \in 0 .. MaxFiles
    BY <1>1, DescriptorAssumption DEF listen, Usable, TypeOK, FdTypeOK
  <2>2. {table[base_[p]]} \ {0} \subseteq 1 .. MaxFiles
    BY <2>1, DescriptorAssumption
  <2>3. listening' \subseteq 1 .. MaxFiles
    BY <1>1, <2>2 DEF listen, TypeOK
  <2> QED
    BY <1>1, <2>3 DEF listen, TypeOK, FdTypeOK, fdVars
<1>2. ASSUME NEW p \in Places, NEW q \in Places, sync_accept(p, q)
      PROVE  TypeOK'
  <2>1. FdTypeOK'
    BY <1>2, CreateType DEF sync_accept, TypeOK, Classes
  <2> QED
    BY <1>2, <2>1 DEF sync_accept, TypeOK
<1>3. ASSUME NEW p \in Places, NEW c \in Calls,
             async_connect(c, p) \/ async_accept(c, p)
      PROVE  TypeOK'
  <2>1. base_[p] \in Numbers
    BY <1>3 DEF async_connect, async_accept, Usable, TypeOK, FdTypeOK
  <2>2. table[base_[p]] \in 0 .. MaxFiles
    BY <2>1, DescriptorAssumption DEF TypeOK, FdTypeOK
  <2>3. PICK kind \in {"connect", "accept"} : AddSqe(c, p, kind)
    BY <1>3 DEF async_connect, async_accept
  <2>4. ReqType'
    <3> DEFINE r == [req[c] EXCEPT !.stage = "queued", !.kind = kind,
                                   !.fd = base_[p]]
    <3>1. req' = [req EXCEPT ![c] = r]
      BY <2>3 DEF AddSqe
    <3>2. req[c] \in Request
      BY DEF TypeOK
    <3>3. r \in Request /\ r.fd \in Numbers
      BY <2>1, <3>2 DEF Request
    <3> HIDE DEF r
    <3> QED
      BY <3>1, <3>3 DEF TypeOK, ReqType
  <2>5. of' \in [Calls -> 0 .. MaxFiles]
    BY <2>2, <2>3 DEF AddSqe, TypeOK
  <2> QED
    BY <2>3, <2>4, <2>5 DEF AddSqe, TypeOK, ReqType, FdTypeOK, fdVars
<1>4. ASSUME NEW p \in Places, NEW c \in Calls, Refused(c, p) PROVE TypeOK'
  <2>1. ReqType'
    <3> DEFINE r == [req[c] EXCEPT !.stage = "done"]
    <3>1. req' = [req EXCEPT ![c] = r]
      BY <1>4 DEF Refused
    <3>2. req[c] \in Request
      BY DEF TypeOK
    <3>3. r \in Request /\ r.stage = "done"
      BY <3>2 DEF Request
    <3> HIDE DEF r
    <3> QED
      BY <3>1, <3>3 DEF TypeOK, ReqType
  <2> QED
    BY <1>4, <2>1 DEF Refused, TypeOK, ReqType, FdTypeOK, fdVars
<1> QED
  BY <1>1, <1>2, <1>3, <1>4 DEF UserStep

LEMMA SubmitType ==
  ASSUME TypeOK, submit
  PROVE  TypeOK'
<1>1. ASSUME NEW c \in Calls
      PROVE  /\ req'[c] \in Request
             /\ req'[c].stage = "queued" => req'[c].fd \in Numbers
  <2>1. CASE req[c].stage = "queued"
    <3>1. table[req[c].fd] \in 0 .. MaxFiles
      BY <2>1, DescriptorAssumption DEF TypeOK, FdTypeOK
    <3>2. req'[c] = [req[c] EXCEPT !.stage = "started",
                                   !.file = table[req[c].fd]]
      BY <2>1 DEF submit
    <3>3. req[c] \in Request
      BY DEF TypeOK
    <3>4. req'[c] \in Request /\ req'[c].stage = "started"
      BY <3>1, <3>2, <3>3 DEF Request
    <3> QED
      BY <3>4
  <2>2. CASE req[c].stage # "queued"
    BY <2>2 DEF submit, TypeOK
  <2> QED
    BY <2>1, <2>2
<1>2. ReqType'
  BY <1>1 DEF submit, ReqType
<1> QED
  BY <1>2 DEF submit, TypeOK, ReqType, FdTypeOK, fdVars

LEMMA KernelStepType ==
  ASSUME TypeOK, KernelStep
  PROVE  TypeOK'
<1>1. ASSUME NEW c \in Calls, NEW res \in Numbers \cup {Failure},
             Completed(c, res)
      PROVE  ReqType'
  <2> DEFINE r == [req[c] EXCEPT !.stage = "completed", !.res = res]
  <2>1. req' = [req EXCEPT ![c] = r]
    BY <1>1 DEF Completed
  <2>2. req[c] \in Request
    BY DEF TypeOK
  <2>3. r \in Request /\ r.stage = "completed"
    BY <1>1, <2>2 DEF Request
  <2> HIDE DEF r
  <2> QED
    BY <2>1, <2>3 DEF TypeOK, ReqType
<1>2. ASSUME NEW c \in Calls, Connected(c) PROVE TypeOK'
  <2>1. 0 \in Numbers
    BY DescriptorAssumption DEF Numbers
  <2>2. ReqType'
    BY <1>1, <1>2, <2>1 DEF Connected
  <2> QED
    BY <1>2, <2>2 DEF Connected, TypeOK, ReqType, FdTypeOK, fdVars
<1>3. ASSUME NEW c \in Calls, ConnectFails(c) \/ AcceptFails(c) PROVE TypeOK'
  <2>1. ReqType'
    BY <1>1, <1>3 DEF ConnectFails, AcceptFails
  <2> QED
    BY <1>3, <2>1 DEF ConnectFails, AcceptFails, TypeOK, ReqType, FdTypeOK, fdVars
<1>4. ASSUME NEW c \in Calls, Accepted(c) PROVE TypeOK'
  <2>1. Lowest \in Numbers
    BY <1>4, LowestIsFree DEF Accepted
  <2>2. ReqType'
    BY <1>1, <1>4, <2>1 DEF Accepted
  <2>3. files' \in 0 .. MaxFiles /\ table' \in [Numbers -> 0 .. files']
    BY <1>4, <2>1, DescriptorAssumption DEF Accepted, Open, TypeOK, FdTypeOK
  <2> QED
    BY <1>4, <2>2, <2>3 DEF Accepted, TypeOK, ReqType, FdTypeOK
<1> QED
  BY <1>2, <1>3, <1>4 DEF KernelStep

LEMMA CallbackStepType ==
  ASSUME TypeOK, CallbackStep
  PROVE  TypeOK'
<1>1. ASSUME NEW c \in Calls, NEW a \in Seq({"success", "error"}), Answer(c, a)
      PROVE  ReqType' /\ heard' \in [Calls -> Seq({"success", "error"})]
  <2> DEFINE r == [Blank EXCEPT !.stage = "done"]
  <2>1. req' = [req EXCEPT ![c] = r]
    BY <1>1 DEF Answer
  <2>2. r \in Request /\ r.stage = "done"
    BY DescriptorAssumption DEF Blank, Request
  <2>3. ReqType'
    <3> HIDE DEF r
    <3> QED
      BY <2>1, <2>2 DEF TypeOK, ReqType
  <2>4. heard[c] \o a \in Seq({"success", "error"})
    BY DEF TypeOK
  <2>5. heard' = [heard EXCEPT ![c] = heard[c] \o a]
    BY <1>1 DEF Answer
  <2>6. heard' \in [Calls -> Seq({"success", "error"})]
    BY <2>4, <2>5 DEF TypeOK
  <2> QED
    BY <2>3, <2>6
<1>2. /\ <<"success">> \in Seq({"success", "error"})
      /\ <<"error">> \in Seq({"success", "error"})
      /\ <<"error", "success">> \in Seq({"success", "error"})
  OBVIOUS
<1>3. ASSUME NEW c \in Calls, connect_callback(c) PROVE TypeOK'
  <2>1. ReqType' /\ heard' \in [Calls -> Seq({"success", "error"})]
    BY <1>1, <1>2, <1>3 DEF connect_callback
  <2> QED
    BY <1>3, <2>1 DEF connect_callback, TypeOK, ReqType, FdTypeOK, fdVars
<1>4. ASSUME NEW c \in Calls, accept_callback_drops(c) PROVE TypeOK'
  <2>1. ReqType' /\ heard' \in [Calls -> Seq({"success", "error"})]
    BY <1>1, <1>2, <1>4 DEF accept_callback_drops
  <2>2. 0 \in 0 .. files
    BY DescriptorAssumption DEF TypeOK, FdTypeOK
  <2>3. table' \in [Numbers -> 0 .. files]
    BY <1>4, <2>2 DEF accept_callback_drops, TypeOK, FdTypeOK
  <2> QED
    BY <1>4, <2>1, <2>3
    DEF accept_callback_drops, TypeOK, ReqType, FdTypeOK
<1>5. ASSUME NEW c \in Calls, accept_callback_fails(c) PROVE TypeOK'
  <2>1. ReqType' /\ heard' \in [Calls -> Seq({"success", "error"})]
    BY <1>1, <1>2, <1>5 DEF accept_callback_fails
  <2> QED
    BY <1>5, <2>1 DEF accept_callback_fails, TypeOK, ReqType, FdTypeOK, fdVars
<1>6. ASSUME NEW c \in Calls, NEW p \in Places, accept_callback(c, p)
      PROVE  TypeOK'
  <2>1. ReqType' /\ heard' \in [Calls -> Seq({"success", "error"})]
    BY <1>1, <1>2, <1>6 DEF accept_callback
  <2>2. req[c].res \in Numbers
    BY <1>6 DEF accept_callback, TypeOK, Request
  <2>3. /\ base_' \in [Places -> Numbers \cup {Empty}]
        /\ class' \in [Places -> Classes] /\ ctx_' \in [Places -> BOOLEAN]
    BY <1>6, <2>2 DEF accept_callback, TypeOK, FdTypeOK, Classes
  <2>4. byHand' \subseteq {x \in Places : base_'[x] # Empty}
    BY <1>6, <2>2 DEF accept_callback, TypeOK, FdTypeOK
  <2> QED
    BY <1>6, <2>1, <2>3, <2>4 DEF accept_callback, TypeOK, ReqType, FdTypeOK
<1> QED
  BY <1>3, <1>4, <1>5, <1>6 DEF CallbackStep

\* Types hold in every reachable state of Tcp: every object has a number of
\* the table or none, a place does not count as closed by hand once its
\* object is gone, and a request that waits to be submitted has a number.
THEOREM TcpTypeCorrect == Spec => []TypeOK
<1>1. TypeOK /\ [Next]_vars => TypeOK'
  <2> SUFFICES ASSUME TypeOK, [Next]_vars PROVE TypeOK'
    OBVIOUS
  <2>1. CASE FdStep
    <3>1. FdTypeOK'
      BY <2>1, FdStepType DEF TypeOK
    <3> QED
      BY <2>1, <3>1 DEF FdStep, TypeOK
  <2>2. CASE UNCHANGED vars
    BY <2>2 DEF vars, fdVars, TypeOK, FdTypeOK
  <2> QED
    BY <2>1, <2>2, UserStepType, SubmitType, KernelStepType, CallbackStepType
    DEF Next
<1> QED
  BY <1>1, TypeInit, PTL DEF Spec
-----------------------------------------------------------------------------
(***************************************************************************)
(* Ownership.  OneOwner is inductive together with TypeOK: the step that   *)
(* opens a number finds it without holders and makes one, the step that    *)
(* closes a number is taken by its only holder or sets foreign, and the    *)
(* others pass a number on.                                                *)
(***************************************************************************)
LEMMA CreateOwner ==
  ASSUME TypeOK, OneOwner, NEW p \in Places, NEW c \in Classes,
         NEW ctx \in BOOLEAN, create(p, c, ctx), UNCHANGED req
  PROVE  OneOwner'
<1> SUFFICES ASSUME ~foreign, NEW n \in Numbers PROVE OwnedAt(n)'
  BY DEF OneOwner, create
<1>1. Lowest \in Numbers /\ table[Lowest] = 0
  BY LowestIsFree DEF create
<1>2. Holders(Lowest) = {} /\ OwnedAt(n)
  BY <1>1 DEF OneOwner, OwnedAt
<1>3. p \notin byHand /\ byHand' = byHand
  BY DEF create, TypeOK, FdTypeOK
<1>4. base_' = [base_ EXCEPT ![p] = Lowest] /\ base_[p] = Empty
  BY DEF create
<1>5. table' = [table EXCEPT ![Lowest] = files + 1] /\ files + 1 # 0
  BY DEF create, Open, TypeOK, FdTypeOK
<1>6. CASE n = Lowest
  <2>1. Holders(n)' = {p}
    BY <1>2, <1>3, <1>4, <1>6, TcpAssumption DEF Holders, At, TypeOK, FdTypeOK
  <2>2. table'[n] # 0
    BY <1>1, <1>5, <1>6 DEF TypeOK, FdTypeOK
  <2> QED
    BY <2>1, <2>2 DEF OwnedAt
<1>7. CASE n # Lowest
  <2>1. n # Empty
    BY DescriptorAssumption DEF Numbers, Empty
  <2>2. Holders(n)' = Holders(n)
    BY <1>3, <1>4, <1>7, <2>1 DEF Holders, At, TypeOK, FdTypeOK
  <2>3. table'[n] = table[n]
    BY <1>5, <1>7 DEF TypeOK, FdTypeOK
  <2> QED
    BY <1>2, <2>2, <2>3 DEF OwnedAt
<1> QED
  BY <1>6, <1>7

LEMMA PipeOwner ==
  ASSUME TypeOK, OneOwner, NEW p \in Places, NEW q \in Places,
         NEW ctx \in BOOLEAN, pipe_fd_create(p, q, ctx), UNCHANGED req
  PROVE  OneOwner'
<1> SUFFICES ASSUME ~foreign, NEW n \in Numbers PROVE OwnedAt(n)'
  BY DEF OneOwner, pipe_fd_create
<1> DEFINE first  == Lowest
           second == LowestOf(Free \ {Lowest})
<1>1. first \in Numbers /\ table[first] = 0
  BY LowestIsFree DEF pipe_fd_create
<1>2. second \in Numbers /\ table[second] = 0 /\ second # first
  BY SecondIsFree DEF pipe_fd_create
<1>3. /\ table' = [table EXCEPT ![first] = files + 1, ![second] = files + 2]
      /\ base_' = [base_ EXCEPT ![p] = first, ![q] = second]
  BY DEF pipe_fd_create
<1> HIDE DEF first, second
<1>4. Holders(first) = {} /\ Holders(second) = {} /\ OwnedAt(n)
  BY <1>1, <1>2 DEF OneOwner, OwnedAt
<1>5. /\ p # q /\ base_[p] = Empty /\ base_[q] = Empty
      /\ p \notin byHand /\ q \notin byHand /\ byHand' = byHand
  BY DEF pipe_fd_create, TypeOK, FdTypeOK
<1>6. files + 1 # 0 /\ files + 2 # 0
  BY DEF TypeOK, FdTypeOK
<1>7. CASE n = first
  <2>1. Holders(n)' = {p}
    BY <1>2, <1>3, <1>4, <1>5, <1>7, TcpAssumption
    DEF Holders, At, TypeOK, FdTypeOK
  <2>2. table'[n] # 0
    BY <1>1, <1>2, <1>3, <1>6, <1>7 DEF TypeOK, FdTypeOK
  <2> QED
    BY <2>1, <2>2 DEF OwnedAt
<1>8. CASE n = second
  <2>1. Holders(n)' = {q}
    BY <1>2, <1>3, <1>4, <1>5, <1>8, TcpAssumption
    DEF Holders, At, TypeOK, FdTypeOK
  <2>2. table'[n] # 0
    BY <1>1, <1>2, <1>3, <1>6, <1>8 DEF TypeOK, FdTypeOK
  <2> QED
    BY <2>1, <2>2 DEF OwnedAt
<1>9. CASE n # first /\ n # second
  <2>1. n # Empty
    BY DescriptorAssumption DEF Numbers, Empty
  <2>2. Holders(n)' = Holders(n)
    BY <1>3, <1>5, <1>9, <2>1 DEF Holders, At, TypeOK, FdTypeOK
  <2>3. table'[n] = table[n]
    BY <1>3, <1>9 DEF TypeOK, FdTypeOK
  <2> QED
    BY <1>4, <2>2, <2>3 DEF OwnedAt
<1> QED
  BY <1>7, <1>8, <1>9

\* Where close(2) does no damage to others, it leaves the number free and
\* without any holder but the object that closed it.
LEMMA CloseFrees ==
  ASSUME TypeOK, OneOwner, NEW p \in Places, base_[p] # Empty, base_close(p),
         ~foreign'
  PROVE  /\ ~foreign
         /\ base_[p] \in Numbers
         /\ table' = [table EXCEPT ![base_[p]] = 0]
         /\ Holders(base_[p]) \subseteq {p}
<1>1. ~foreign /\ (p \in byHand => table[base_[p]] = 0)
  BY DEF base_close
<1>2. base_[p] \in Numbers
  BY DEF TypeOK, FdTypeOK
<1>3. OwnedAt(base_[p])
  BY <1>1, <1>2 DEF OneOwner
<1>4. Holders(base_[p]) \subseteq {p}
  <2>1. CASE p \in byHand
    BY <1>1, <1>3, <2>1 DEF OwnedAt
  <2>2. CASE p \notin byHand
    <3>1. p \in Holders(base_[p])
      BY <2>2 DEF Holders
    <3> QED
      BY <1>3, <3>1 DEF OwnedAt
  <2> QED
    BY <2>1, <2>2
<1> QED
  BY <1>1, <1>2, <1>4 DEF base_close

LEMMA LetGoOwner ==
  ASSUME TypeOK, OneOwner, NEW p \in Places, destroy(p) \/ close(p),
         UNCHANGED req
  PROVE  OneOwner'
<1> SUFFICES ASSUME ~foreign', NEW n \in Numbers PROVE OwnedAt(n)'
  BY DEF OneOwner
<1>1. /\ ~foreign
      /\ base_[p] \in Numbers
      /\ table' = [table EXCEPT ![base_[p]] = 0]
      /\ Holders(base_[p]) \subseteq {p}
  BY CloseFrees DEF destroy, close
<1>2. n # Empty /\ OwnedAt(n)
  BY <1>1, DescriptorAssumption DEF Numbers, Empty, OneOwner
<1>3. /\ p \in Places \ byHand' => base_'[p] = Empty
      /\ \A x \in Places : x # p => base_'[x] = base_[x]
                                    /\ (x \in byHand' <=> x \in byHand)
  BY DEF destroy, close, TypeOK, FdTypeOK
<1>4. Holders(n)' = Holders(n) \ {p}
  BY <1>2, <1>3, TcpAssumption DEF Holders, At
<1>5. CASE n = base_[p]
  <2>1. Holders(n)' = {} /\ table'[n] = 0
    BY <1>1, <1>4, <1>5 DEF TypeOK, FdTypeOK
  <2> QED
    BY <2>1 DEF OwnedAt
<1>6. CASE n # base_[p]
  <2>1. p \notin Holders(n)
    BY <1>6, TcpAssumption DEF Holders
  <2>2. Holders(n)' = Holders(n) /\ table'[n] = table[n]
    BY <1>1, <1>4, <1>6, <2>1 DEF TypeOK, FdTypeOK
  <2> QED
    BY <1>2, <2>2 DEF OwnedAt
<1> QED
  BY <1>5, <1>6

\* The number of p passes to q, and the number q had is closed.
LEMMA MoveOwner ==
  ASSUME TypeOK, OneOwner, NEW p \in Places, NEW q \in Places, move(p, q),
         UNCHANGED req
  PROVE  OneOwner'
<1> SUFFICES ASSUME ~foreign', NEW n \in Numbers PROVE OwnedAt(n)'
  BY DEF OneOwner
<1>1. ~foreign /\ p # q /\ base_[p] # Empty /\ base_close(q)
  BY DEF move, base_close
<1>2. n # Empty /\ OwnedAt(n)
  BY <1>1, DescriptorAssumption DEF Numbers, Empty, OneOwner
<1>3. /\ base_'[q] = base_[p] /\ base_'[p] = Empty
      /\ (q \in byHand' <=> p \in byHand)
      /\ \A x \in Places \ {p, q} : base_'[x] = base_[x]
                                    /\ (x \in byHand' <=> x \in byHand)
  BY <1>1 DEF move, TypeOK, FdTypeOK
<1>4. /\ p \notin Holders(n)'
      /\ q \in Holders(n)' <=> p \in Holders(n)
      /\ \A h : h # p /\ h # q => (h \in Holders(n)' <=> h \in Holders(n))
  BY <1>2, <1>3, TcpAssumption DEF Holders, At
<1>5. CASE base_[q] # Empty /\ n = base_[q]
  <2>1. table'[n] = 0 /\ Holders(n) \subseteq {q}
    BY <1>1, <1>5, CloseFrees DEF TypeOK, FdTypeOK
  <2>2. Holders(n)' = {}
    BY <1>1, <1>4, <2>1
  <2> QED
    BY <2>1, <2>2 DEF OwnedAt
<1>6. CASE n # base_[q]
  <2>1. table'[n] = table[n]
    BY <1>6 DEF move, base_close, TypeOK, FdTypeOK
  <2>2. q \notin Holders(n)
    BY <1>6, TcpAssumption DEF Holders
  <2>3. CASE table[n] = 0
    BY <1>2, <1>4, <2>1, <2>2, <2>3 DEF OwnedAt
  <2>4. CASE table[n] # 0
    <3>1. PICK h \in Places \cup Calls : Holders(n) = {h}
      BY <1>2, <2>4 DEF OwnedAt
    <3>2. Holders(n)' = {IF h = p THEN q ELSE h}
      BY <1>4, <2>2, <3>1
    <3> QED
      BY <2>1, <2>4, <3>2 DEF OwnedAt
  <2> QED
    BY <2>3, <2>4
<1> QED
  BY <1>2, <1>5, <1>6

\* Every step of the descriptors passes numbers on in one of these ways.
LEMMA FdStepOwner ==
  ASSUME TypeOK, OneOwner, FdStep
  PROVE  OneOwner'
<1>0. UNCHANGED req
  BY DEF FdStep
<1>1. ASSUME NEW p \in Places, LetGo(p) PROVE OneOwner'
  BY <1>0, <1>1, LetGoOwner DEF LetGo
<1>2. ASSUME NEW p \in Places, NEW q \in Places, Moves(p, q) PROVE OneOwner'
  BY <1>0, <1>2, MoveOwner DEF Moves
<1>3. ASSUME NEW p \in Places, NEW ctx \in BOOLEAN, Creates(p, ctx)
      PROVE  OneOwner'
  <2>1. CASE \E c \in Classes : create(p, c, ctx)
    BY <1>0, <2>1, CreateOwner
  <2>2. CASE \E q \in Places : pipe_fd_create(p, q, ctx)
    BY <1>0, <2>2, PipeOwner
  <2> QED
    BY <1>3, <2>1, <2>2
    DEF Creates, event_fd_create, mem_fd_create, normal_file_open,
        normal_file_mkostemp, socket_create, acceptor_create, Classes
<1> QED
  BY <1>1, <1>2, <1>3 DEF FdStep

\* A step that leaves the descriptors and the completions of accept() alone
\* leaves every holder alone.
LEMMA FrameOwner ==
  ASSUME OneOwner, UNCHANGED fdVars,
         \A c \in Calls : \A n \in Numbers :
           (At(c, "completed", "accept") /\ req[c].res = n)' <=>
             At(c, "completed", "accept") /\ req[c].res = n
  PROVE  OneOwner'
<1>1. ASSUME NEW n \in Numbers PROVE Holders(n)' = Holders(n)
  BY DEF Holders, fdVars
<1>2. table' = table /\ foreign' = foreign
  BY DEF fdVars
<1> QED
  BY <1>1, <1>2 DEF OneOwner, OwnedAt

LEMMA UserStepOwner ==
  ASSUME TypeOK, OneOwner, UserStep
  PROVE  OneOwner'
<1>1. ASSUME NEW p \in Places, listen(p) PROVE OneOwner'
  BY <1>1, FrameOwner DEF listen, At
<1>2. ASSUME NEW p \in Places, NEW q \in Places, sync_accept(p, q)
      PROVE  OneOwner'
  BY <1>2, CreateOwner DEF sync_accept, Classes
<1>3. ASSUME NEW p \in Places, NEW c \in Calls, NEW kind, AddSqe(c, p, kind)
      PROVE  OneOwner'
  <2>1. UNCHANGED fdVars
    BY <1>3 DEF AddSqe
  <2>2. /\ req[c].stage = "new" /\ req'[c].stage = "queued"
        /\ \A d \in Calls \ {c} : req'[d] = req[d]
    BY <1>3 DEF AddSqe, TypeOK, Request
  <2> QED
    BY <2>1, <2>2, FrameOwner DEF At
<1>4. ASSUME NEW p \in Places, NEW c \in Calls, Refused(c, p)
      PROVE  OneOwner'
  <2>1. UNCHANGED fdVars
    BY <1>4 DEF Refused
  <2>2. /\ req[c].stage = "new" /\ req'[c].stage = "done"
        /\ \A d \in Calls \ {c} : req'[d] = req[d]
    BY <1>4 DEF Refused, TypeOK, Request
  <2> QED
    BY <2>1, <2>2, FrameOwner DEF At
<1> QED
  BY <1>1, <1>2, <1>3, <1>4 DEF UserStep, async_connect, async_accept

LEMMA SubmitOwner ==
  ASSUME TypeOK, OneOwner, submit
  PROVE  OneOwner'
<1>1. UNCHANGED fdVars
  BY DEF submit
<1>2. ASSUME NEW c \in Calls
      PROVE  \/ req'[c] = req[c]
             \/ req[c].stage = "queued" /\ req'[c].stage = "started"
  BY DEF submit, TypeOK, Request
<1> QED
  BY <1>1, <1>2, FrameOwner DEF At

\* The number accept(2) opens has no holder; the completion becomes the one.
LEMMA AcceptedOwner ==
  ASSUME TypeOK, OneOwner, NEW c \in Calls, Accepted(c)
  PROVE  OneOwner'
<1> SUFFICES ASSUME ~foreign, NEW n \in Numbers PROVE OwnedAt(n)'
  BY DEF OneOwner, Accepted
<1>1. Lowest \in Numbers /\ table[Lowest] = 0
  BY LowestIsFree DEF Accepted
<1>2. Holders(Lowest) = {} /\ OwnedAt(n)
  BY <1>1 DEF OneOwner, OwnedAt
<1>3. /\ req[c].stage = "started"
      /\ req'[c].stage = "completed" /\ req'[c].kind = "accept"
      /\ req'[c].res = Lowest
      /\ \A d \in Calls \ {c} : req'[d] = req[d]
  BY DEF Accepted, Completed, At, TypeOK, Request
<1>4. table' = [table EXCEPT ![Lowest] = files + 1] /\ files + 1 # 0
  BY DEF Accepted, Open, TypeOK, FdTypeOK
<1>5. base_' = base_ /\ byHand' = byHand
  BY DEF Accepted
<1>6. CASE n = Lowest
  <2>1. Holders(n)' = {c}
    BY <1>2, <1>3, <1>5, <1>6 DEF Holders, At
  <2>2. table'[n] # 0
    BY <1>1, <1>4, <1>6 DEF TypeOK, FdTypeOK
  <2> QED
    BY <2>1, <2>2 DEF OwnedAt
<1>7. CASE n # Lowest
  <2>1. Holders(n)' = Holders(n)
    BY <1>3, <1>5, <1>7 DEF Holders, At
  <2>2. table'[n] = table[n]
    BY <1>4, <1>7 DEF TypeOK, FdTypeOK
  <2> QED
    BY <1>2, <2>1, <2>2 DEF OwnedAt
<1> QED
  BY <1>6, <1>7

LEMMA KernelStepOwner ==
  ASSUME TypeOK, OneOwner, KernelStep
  PROVE  OneOwner'
<1>1. ASSUME NEW c \in Calls, Connected(c) PROVE OneOwner'
  <2>1. UNCHANGED fdVars
    BY <1>1 DEF Connected
  <2>2. /\ req[c].kind = "connect" /\ req'[c].kind = "connect"
        /\ \A d \in Calls \ {c} : req'[d] = req[d]
    BY <1>1 DEF Connected, Completed, At, TypeOK, Request
  <2> QED
    BY <2>1, <2>2, FrameOwner DEF At
<1>2. ASSUME NEW c \in Calls, ConnectFails(c) \/ AcceptFails(c) PROVE OneOwner'
  <2>1. UNCHANGED fdVars
    BY <1>2 DEF ConnectFails, AcceptFails
  <2>2. /\ req[c].stage = "started" /\ req'[c].res = Failure
        /\ \A d \in Calls \ {c} : req'[d] = req[d]
    BY <1>2 DEF ConnectFails, AcceptFails, Completed, At, TypeOK, Request
  <2>3. Failure \notin Numbers
    BY DescriptorAssumption DEF Failure, Numbers
  <2> QED
    BY <2>1, <2>2, <2>3, FrameOwner DEF At
<1> QED
  BY <1>1, <1>2, AcceptedOwner DEF KernelStep

\* A callback ends its own request and no other.
LEMMA AnswerEnds ==
  ASSUME TypeOK, NEW c \in Calls, NEW a, Answer(c, a)
  PROVE  req'[c].stage = "done" /\ \A d \in Calls \ {c} : req'[d] = req[d]
<1> DEFINE r == [Blank EXCEPT !.stage = "done"]
<1>1. req' = [req EXCEPT ![c] = r]
  BY DEF Answer
<1>2. r.stage = "done"
  BY DEF Blank
<1> HIDE DEF r
<1> QED
  BY <1>1, <1>2 DEF TypeOK

\* An accept() that has completed is the only holder of its number.
LEMMA CompletionOwns ==
  ASSUME TypeOK, OneOwner, ~foreign, NEW c \in Calls,
         At(c, "completed", "accept"), req[c].res # Failure
  PROVE  /\ req[c].res \in Numbers /\ table[req[c].res] # 0
         /\ Holders(req[c].res) = {c}
<1>1. req[c].res \in Numbers
  BY DEF TypeOK, Request
<1>2. c \in Holders(req[c].res) /\ OwnedAt(req[c].res)
  BY <1>1 DEF Holders, OneOwner
<1> QED
  BY <1>1, <1>2 DEF OwnedAt

LEMMA AcceptCallbackOwner ==
  ASSUME TypeOK, OneOwner, NEW c \in Calls, NEW p \in Places,
         accept_callback(c, p)
  PROVE  OneOwner'
<1> SUFFICES ASSUME ~foreign, NEW n \in Numbers PROVE OwnedAt(n)'
  BY DEF OneOwner, accept_callback
<1> DEFINE m == req[c].res
<1>1. m \in Numbers /\ table[m] # 0 /\ Holders(m) = {c}
  BY CompletionOwns DEF accept_callback
<1>2. req'[c].stage = "done" /\ \A d \in Calls \ {c} : req'[d] = req[d]
  BY AnswerEnds DEF accept_callback
<1>3. base_' = [base_ EXCEPT ![p] = m] /\ base_[p] = Empty
  BY DEF accept_callback
<1>4. p \notin byHand /\ byHand' = byHand /\ table' = table
  BY DEF accept_callback, TypeOK, FdTypeOK
<1>5. n # Empty /\ OwnedAt(n)
  BY DescriptorAssumption DEF Numbers, Empty, OneOwner
<1>6. CASE n = m
  <2>1. /\ \A x \in Places \ {p} : base_'[x] = base_[x]
        /\ base_'[p] = n
    BY <1>3, <1>6 DEF TypeOK, FdTypeOK
  <2>2. \A h : h # c => h \notin Holders(n)
    BY <1>1, <1>6
  <2>3. p \in Holders(n)' /\ c \notin Holders(n)'
    BY <1>2, <1>4, <2>1, TcpAssumption DEF Holders, At
  <2>4. \A h : h # c /\ h # p => h \notin Holders(n)'
    BY <1>2, <1>4, <2>1, <2>2 DEF Holders, At
  <2>5. Holders(n)' = {p}
    BY <2>3, <2>4
  <2> QED
    BY <1>1, <1>4, <1>6, <2>5 DEF OwnedAt
<1>7. CASE n # m
  <2>1. Holders(n)' = Holders(n)
    BY <1>2, <1>3, <1>4, <1>5, <1>7 DEF Holders, At, TypeOK, FdTypeOK
  <2> QED
    BY <1>4, <1>5, <2>1 DEF OwnedAt
<1> QED
  BY <1>6, <1>7

LEMMA AcceptDropOwner ==
  ASSUME TypeOK, OneOwner, NEW c \in Calls, accept_callback_drops(c)
  PROVE  OneOwner'
<1> SUFFICES ASSUME ~foreign, NEW n \in Numbers PROVE OwnedAt(n)'
  BY DEF OneOwner, accept_callback_drops
<1> DEFINE m == req[c].res
<1>1. m \in Numbers /\ Holders(m) = {c}
  BY CompletionOwns DEF accept_callback_drops
<1>2. req'[c].stage = "done" /\ \A d \in Calls \ {c} : req'[d] = req[d]
  BY AnswerEnds DEF accept_callback_drops
<1>3. base_' = base_ /\ byHand' = byHand /\ table' = [table EXCEPT ![m] = 0]
  BY DEF accept_callback_drops
<1>4. OwnedAt(n)
  BY DEF OneOwner
<1>5. CASE n = m
  <2>1. Holders(n)' = {}
    BY <1>1, <1>2, <1>3, <1>5, TcpAssumption DEF Holders, At
  <2> QED
    BY <1>3, <1>5, <2>1 DEF OwnedAt, TypeOK, FdTypeOK
<1>6. CASE n # m
  <2>1. Holders(n)' = Holders(n)
    BY <1>2, <1>3, <1>6 DEF Holders, At
  <2> QED
    BY <1>3, <1>4, <1>6, <2>1 DEF OwnedAt, TypeOK, FdTypeOK
<1> QED
  BY <1>5, <1>6

LEMMA CallbackStepOwner ==
  ASSUME TypeOK, OneOwner, CallbackStep
  PROVE  OneOwner'
<1>1. ASSUME NEW c \in Calls, connect_callback(c) PROVE OneOwner'
  <2>1. UNCHANGED fdVars /\ req[c].kind = "connect"
    BY <1>1 DEF connect_callback, At
  <2>2. req'[c].stage = "done" /\ \A d \in Calls \ {c} : req'[d] = req[d]
    BY <1>1, AnswerEnds DEF connect_callback
  <2> QED
    BY <2>1, <2>2, FrameOwner DEF At
<1>2. ASSUME NEW c \in Calls, accept_callback_fails(c) PROVE OneOwner'
  <2>1. UNCHANGED fdVars /\ req[c].res = Failure
    BY <1>2 DEF accept_callback_fails
  <2>2. req'[c].stage = "done" /\ \A d \in Calls \ {c} : req'[d] = req[d]
    BY <1>2, AnswerEnds DEF accept_callback_fails
  <2>3. Failure \notin Numbers
    BY DescriptorAssumption DEF Failure, Numbers
  <2> QED
    BY <2>1, <2>2, <2>3, FrameOwner DEF At
<1> QED
  BY <1>1, <1>2, AcceptDropOwner, AcceptCallbackOwner DEF CallbackStep

\* As long as no object closed by hand has closed somebody else's file, every
\* descriptor that is open has exactly one holder, an object or a completion
\* of accept() whose callback has not run, and every holder has an open one.
THEOREM DescriptorsHaveOneOwner == Spec => []OneOwner
<1>1. Init => OneOwner
  <2> SUFFICES ASSUME Init, NEW n \in Numbers PROVE OwnedAt(n)
    BY DEF OneOwner
  <2>1. n # Empty /\ table[n] = 0
    BY DescriptorAssumption DEF Init, FdInit, Numbers, Empty
  <2>2. \A c \in Calls : req[c].stage = "new"
    BY DEF Init, Blank
  <2>3. \A p \in Places : base_[p] = Empty
    BY DEF Init, FdInit
  <2>4. Holders(n) = {}
    BY <2>1, <2>2, <2>3 DEF Holders, At
  <2> QED
    BY <2>1, <2>4 DEF OwnedAt
<1>2. TypeOK /\ OneOwner /\ [Next]_vars => OneOwner'
  <2> SUFFICES ASSUME TypeOK, OneOwner, [Next]_vars PROVE OneOwner'
    OBVIOUS
  <2>1. CASE UNCHANGED vars
    BY <2>1, FrameOwner DEF vars, At
  <2> QED
    BY <2>1, FdStepOwner, UserStepOwner, SubmitOwner, KernelStepOwner,
       CallbackStepOwner
    DEF Next
<1> QED
  BY <1>1, <1>2, TcpTypeCorrect, PTL DEF Spec

-----------------------------------------------------------------------------
(***************************************************************************)
(* What a request works on.  A request in the ring carries a number, so    *)
(* the invariant has to speak of the number: as long as the request waits, *)
(* an object that will close it has it, and the number denotes the file    *)
(* the call was made on.                                                   *)
(***************************************************************************)
InPlace(n) == \E p \in Places \ byHand : base_[p] = n

FileAt(c) ==
  /\ req[c].stage = "queued" => /\ table[req[c].fd] = of[c] /\ of[c] # 0
                                /\ InPlace(req[c].fd)
  /\ req[c].stage = "started" => req[c].file = of[c]

FileInv == ~foreign => \A c \in Calls : FileAt(c)

\* The number n is one a request waits with: it is open, and an object has it.
Awaited(n) ==
  /\ n \in Numbers /\ table[n] # 0 /\ InPlace(n)
  /\ \E c \in Calls : req[c].stage = "queued" /\ req[c].fd = n

\* What is done to the descriptors leaves such a number and its file alone.
Kept(n) == table'[n] = table[n] /\ InPlace(n)'

LEMMA CreateKeeps ==
  ASSUME TypeOK, NEW p \in Places, NEW c \in Classes, NEW ctx \in BOOLEAN,
         create(p, c, ctx), NEW n, Awaited(n)
  PROVE  Kept(n)
<1>1. Lowest \in Numbers /\ table[Lowest] = 0
  BY LowestIsFree DEF create
<1>2. n \in Numbers /\ n # Empty /\ n # Lowest
  BY <1>1, DescriptorAssumption DEF Awaited, Numbers, Empty
<1>3. table'[n] = table[n]
  BY <1>2 DEF create, Open, TypeOK, FdTypeOK
<1>4. InPlace(n)'
  BY <1>2 DEF create, Awaited, InPlace, TypeOK, FdTypeOK
<1> QED
  BY <1>3, <1>4 DEF Kept

LEMMA PipeKeeps ==
  ASSUME TypeOK, NEW p \in Places, NEW q \in Places, NEW ctx \in BOOLEAN,
         pipe_fd_create(p, q, ctx), NEW n, Awaited(n)
  PROVE  Kept(n)
<1> DEFINE first  == Lowest
           second == LowestOf(Free \ {Lowest})
<1>1. /\ first \in Numbers /\ table[first] = 0
      /\ second \in Numbers /\ table[second] = 0
  BY LowestIsFree, SecondIsFree DEF pipe_fd_create
<1>2. /\ table' = [table EXCEPT ![first] = files + 1, ![second] = files + 2]
      /\ base_' = [base_ EXCEPT ![p] = first, ![q] = second]
      /\ base_[p] = Empty /\ base_[q] = Empty /\ byHand' = byHand
  BY DEF pipe_fd_create
<1> HIDE DEF first, second
<1>3. n \in Numbers /\ n # Empty /\ n # first /\ n # second
  BY <1>1, DescriptorAssumption DEF Awaited, Numbers, Empty
<1>4. table'[n] = table[n]
  BY <1>2, <1>3 DEF TypeOK, FdTypeOK
<1>5. PICK x \in Places \ byHand : base_[x] = n
  BY DEF Awaited, InPlace
<1>6. base_'[x] = n /\ x \notin byHand'
  BY <1>2, <1>3, <1>5 DEF TypeOK, FdTypeOK
<1> QED
  BY <1>4, <1>5, <1>6 DEF Kept, InPlace

\* User code lets go of no object that has the number.
LEMMA LetGoKeeps ==
  ASSUME TypeOK, NEW p \in Places, LetGo(p), NEW n, Awaited(n)
  PROVE  Kept(n)
<1>1. base_[p] # n
  BY DEF LetGo, Waiting, Awaited
<1>2. table'[n] = table[n]
  BY <1>1 DEF LetGo, destroy, close, base_close, Awaited, TypeOK, FdTypeOK
<1>3. PICK x \in Places \ byHand : base_[x] = n
  BY DEF Awaited, InPlace
<1>4. base_'[x] = n /\ x \notin byHand'
  BY <1>1, <1>3 DEF LetGo, destroy, close, TypeOK, FdTypeOK
<1> QED
  BY <1>2, <1>3, <1>4 DEF Kept, InPlace

\* The object that has the number may be moved, and not be assigned to.
LEMMA MovesKeep ==
  ASSUME TypeOK, NEW p \in Places, NEW q \in Places, Moves(p, q),
         NEW n, Awaited(n)
  PROVE  Kept(n)
<1>1. n \in Numbers /\ n # Empty
  BY DescriptorAssumption DEF Awaited, Numbers, Empty
<1>2. base_[q] # n
  BY <1>1 DEF Moves, Waiting, Awaited
<1>3. table'[n] = table[n]
  BY <1>1, <1>2 DEF Moves, move, base_close, TypeOK, FdTypeOK
<1>4. PICK x \in Places \ byHand : base_[x] = n
  BY DEF Awaited, InPlace
<1>5. CASE x = p
  <2>1. base_'[q] = n /\ q \notin byHand'
    BY <1>4, <1>5 DEF Moves, move, TypeOK, FdTypeOK
  <2> QED
    BY <1>3, <2>1 DEF Kept, InPlace
<1>6. CASE x # p
  <2>1. base_'[x] = n /\ x \notin byHand'
    BY <1>2, <1>4, <1>6 DEF Moves, move, TypeOK, FdTypeOK
  <2> QED
    BY <1>3, <1>4, <2>1 DEF Kept, InPlace
<1> QED
  BY <1>5, <1>6

\* The queued requests of FileInv wait with numbers of this kind.
LEMMA QueuedAwaits ==
  ASSUME TypeOK, FileInv, ~foreign, NEW c \in Calls, req[c].stage = "queued"
  PROVE  Awaited(req[c].fd) /\ table[req[c].fd] = of[c]
BY DEF TypeOK, FileInv, FileAt, Awaited

\* Two frames: a request that did not change keeps its part of the invariant
\* when its number is kept, and one that is neither in the ring nor with the
\* kernel has no part.
LEMMA FileSame ==
  ASSUME TypeOK, FileInv, ~foreign, NEW c \in Calls,
         req'[c] = req[c], of'[c] = of[c],
         \A n : Awaited(n) => Kept(n)
  PROVE  FileAt(c)'
<1>1. CASE req[c].stage = "queued"
  <2>1. Kept(req[c].fd) /\ table[req[c].fd] = of[c] /\ of[c] # 0
    BY <1>1, QueuedAwaits DEF FileInv, FileAt
  <2>2. table'[req'[c].fd] = of'[c] /\ of'[c] # 0
    BY <2>1 DEF Kept
  <2>3. InPlace(req[c].fd)'
    BY <2>1 DEF Kept, InPlace
  <2> QED
    BY <1>1, <2>2, <2>3 DEF FileAt
<1>2. CASE req[c].stage # "queued"
  BY <1>2 DEF FileInv, FileAt
<1> QED
  BY <1>1, <1>2

LEMMA FileOver ==
  ASSUME NEW c \in Calls, req'[c].stage \in {"completed", "done"}
  PROVE  FileAt(c)'
BY DEF FileAt

LEMMA SameIsKept ==
  ASSUME UNCHANGED fdVars
  PROVE  \A n : Awaited(n) => Kept(n)
BY DEF fdVars, Awaited, Kept, InPlace

LEMMA FdStepFile ==
  ASSUME TypeOK, OneOwner, FileInv, FdStep
  PROVE  FileInv'
<1> SUFFICES ASSUME ~foreign' PROVE \A c \in Calls : FileAt(c)'
  BY DEF FileInv
<1>1. UNCHANGED <<req, of>>
  BY DEF FdStep
<1>2. ASSUME NEW p \in Places, LetGo(p) PROVE ~foreign /\ \A n : Awaited(n) => Kept(n)
  BY <1>2, LetGoKeeps DEF LetGo, destroy, close, base_close
<1>3. ASSUME NEW p \in Places, NEW q \in Places, Moves(p, q)
      PROVE  ~foreign /\ \A n : Awaited(n) => Kept(n)
  BY <1>3, MovesKeep DEF Moves, move, base_close
<1>4. ASSUME NEW p \in Places, NEW ctx \in BOOLEAN, Creates(p, ctx)
      PROVE  ~foreign /\ \A n : Awaited(n) => Kept(n)
  <2>1. ASSUME NEW c \in Classes, create(p, c, ctx)
        PROVE  ~foreign /\ \A n : Awaited(n) => Kept(n)
    <3>1. ~foreign
      BY <2>1 DEF create
    <3> QED
      BY <2>1, <3>1, CreateKeeps
  <2>2. ASSUME NEW q \in Places, pipe_fd_create(p, q, ctx)
        PROVE  ~foreign /\ \A n : Awaited(n) => Kept(n)
    <3>1. ~foreign
      BY <2>2 DEF pipe_fd_create
    <3> QED
      BY <2>2, <3>1, PipeKeeps
  <2> QED
    BY <1>4, <2>1, <2>2
    DEF Creates, event_fd_create, mem_fd_create, normal_file_open,
        normal_file_mkostemp, socket_create, acceptor_create, Classes
<1>5. ~foreign /\ \A n : Awaited(n) => Kept(n)
  BY <1>2, <1>3, <1>4 DEF FdStep
<1> QED
  BY <1>1, <1>5, FileSame

LEMMA UserStepFile ==
  ASSUME TypeOK, OneOwner, FileInv, UserStep
  PROVE  FileInv'
<1> SUFFICES ASSUME ~foreign', NEW c \in Calls PROVE FileAt(c)'
  BY DEF FileInv
<1>1. ASSUME NEW p \in Places, listen(p) PROVE FileAt(c)'
  BY <1>1, FileSame, SameIsKept DEF listen, fdVars
<1>2. ASSUME NEW p \in Places, NEW q \in Places, sync_accept(p, q)
      PROVE  FileAt(c)'
  <2>1. create(q, "socket", FALSE) /\ "socket" \in Classes
    BY <1>2 DEF sync_accept, Classes
  <2>2. ~foreign
    BY <2>1 DEF create
  <2>3. \A n : Awaited(n) => Kept(n)
    BY <2>1, CreateKeeps
  <2> QED
    BY <1>2, <2>2, <2>3, FileSame DEF sync_accept
<1>3. ASSUME NEW p \in Places, NEW d \in Calls, NEW kind,
             base_[p] # Empty, p \notin byHand, AddSqe(d, p, kind)
      PROVE  FileAt(c)'
  <2>1. UNCHANGED fdVars /\ ~foreign
    BY <1>3 DEF AddSqe, fdVars
  <2>2. CASE c = d
    <3>1. base_[p] \in Numbers
      BY <1>3 DEF TypeOK, FdTypeOK
    <3>2. p \in Holders(base_[p]) /\ OwnedAt(base_[p])
      BY <1>3, <2>1, <3>1 DEF Holders, OneOwner
    <3>3. table[base_[p]] # 0
      BY <3>2 DEF OwnedAt
    <3>4. /\ req'[c].stage = "queued" /\ req'[c].fd = base_[p]
          /\ of'[c] = table[base_[p]]
      BY <1>3, <2>2 DEF AddSqe, TypeOK, Request
    <3>5. table' = table /\ base_' = base_ /\ byHand' = byHand
      BY <2>1 DEF fdVars
    <3> QED
      BY <1>3, <3>3, <3>4, <3>5 DEF FileAt, InPlace
  <2>3. CASE c # d
    <3>1. req'[c] = req[c] /\ of'[c] = of[c]
      BY <1>3, <2>3 DEF AddSqe, TypeOK
    <3> QED
      BY <2>1, <3>1, FileSame, SameIsKept
  <2> QED
    BY <2>2, <2>3
<1>4. ASSUME NEW p \in Places, NEW d \in Calls, Refused(d, p)
      PROVE  FileAt(c)'
  <2>1. UNCHANGED fdVars /\ ~foreign /\ of' = of
    BY <1>4 DEF Refused, fdVars
  <2>2. IF c = d THEN req'[c].stage = "done" ELSE req'[c] = req[c]
    BY <1>4 DEF Refused, TypeOK, Request
  <2> QED
    BY <2>1, <2>2, FileSame, FileOver, SameIsKept
<1> QED
  BY <1>1, <1>2, <1>3, <1>4 DEF UserStep, async_connect, async_accept, Usable

\* The kernel looks the number up, and finds the file it stood for.
LEMMA SubmitFile ==
  ASSUME TypeOK, FileInv, submit
  PROVE  FileInv'
<1> SUFFICES ASSUME ~foreign', NEW c \in Calls PROVE FileAt(c)'
  BY DEF FileInv
<1>1. UNCHANGED fdVars /\ ~foreign /\ of' = of
  BY DEF submit, fdVars
<1>2. CASE req[c].stage = "queued"
  <2>1. req'[c].stage = "started" /\ req'[c].file = table[req[c].fd]
    BY <1>2 DEF submit, TypeOK, Request
  <2>2. table[req[c].fd] = of[c]
    BY <1>1, <1>2, QueuedAwaits
  <2> QED
    BY <1>1, <2>1, <2>2 DEF FileAt
<1>3. CASE req[c].stage # "queued"
  <2>1. req'[c] = req[c]
    BY <1>3 DEF submit
  <2> QED
    BY <1>1, <2>1, FileSame, SameIsKept
<1> QED
  BY <1>2, <1>3

LEMMA KernelStepFile ==
  ASSUME TypeOK, FileInv, KernelStep
  PROVE  FileInv'
<1> SUFFICES ASSUME ~foreign', NEW c \in Calls PROVE FileAt(c)'
  BY DEF FileInv
<1>1. PICK d \in Calls :
        Connected(d) \/ ConnectFails(d) \/ Accepted(d) \/ AcceptFails(d)
  BY DEF KernelStep
<1>2. ~foreign /\ of' = of
  BY <1>1 DEF Connected, ConnectFails, Accepted, AcceptFails, fdVars
<1>3. PICK res : Completed(d, res)
  BY <1>1 DEF Connected, ConnectFails, Accepted, AcceptFails
<1>4. IF c = d THEN req'[c].stage = "completed" ELSE req'[c] = req[c]
  BY <1>3 DEF Completed, TypeOK, Request
<1>5. \A n : Awaited(n) => Kept(n)
  <2>1. CASE Accepted(d)
    <3> SUFFICES ASSUME NEW n, Awaited(n) PROVE Kept(n)
      OBVIOUS
    <3>1. Lowest \in Numbers /\ table[Lowest] = 0
      BY <2>1, LowestIsFree DEF Accepted
    <3>2. table'[n] = table[n]
      BY <2>1, <3>1 DEF Accepted, Open, Awaited, TypeOK, FdTypeOK
    <3> QED
      BY <2>1, <3>2 DEF Accepted, Awaited, Kept, InPlace
  <2>2. CASE ~ Accepted(d)
    BY <1>1, <2>2, SameIsKept DEF Connected, ConnectFails, AcceptFails
  <2> QED
    BY <2>1, <2>2
<1> QED
  BY <1>2, <1>4, <1>5, FileSame, FileOver

\* The number a callback closes is the completion's own, and no object's.
LEMMA CallbackStepFile ==
  ASSUME TypeOK, OneOwner, FileInv, CallbackStep
  PROVE  FileInv'
<1> SUFFICES ASSUME ~foreign', NEW c \in Calls PROVE FileAt(c)'
  BY DEF FileInv
<1>1. ASSUME NEW d \in Calls, NEW a, Answer(d, a), foreign' = foreign, of' = of,
             \A n : Awaited(n) => Kept(n)
      PROVE  FileAt(c)'
  <2>1. IF c = d THEN req'[c].stage = "done" ELSE req'[c] = req[c]
    BY <1>1, AnswerEnds
  <2> QED
    BY <1>1, <2>1, FileSame, FileOver
<1>2. ASSUME NEW d \in Calls, connect_callback(d) PROVE FileAt(c)'
  BY <1>1, <1>2, SameIsKept DEF connect_callback, fdVars
<1>3. ASSUME NEW d \in Calls, accept_callback_fails(d) PROVE FileAt(c)'
  BY <1>1, <1>3, SameIsKept DEF accept_callback_fails, fdVars
<1>4. ASSUME NEW d \in Calls, accept_callback_drops(d) PROVE FileAt(c)'
  <2>1. ~foreign /\ foreign' = foreign /\ of' = of
    BY <1>4 DEF accept_callback_drops
  <2>2. Holders(req[d].res) = {d}
    BY <1>4, <2>1, CompletionOwns DEF accept_callback_drops
  <2>3. ASSUME NEW n, Awaited(n) PROVE Kept(n)
    <3>1. PICK x \in Places \ byHand : base_[x] = n
      BY <2>3 DEF Awaited, InPlace
    <3>2. x \in Holders(n) /\ x # d
      BY <3>1, TcpAssumption DEF Holders
    <3>3. n # req[d].res
      BY <2>2, <3>2
    <3>4. table'[n] = table[n]
      BY <1>4, <2>3, <3>3 DEF accept_callback_drops, Awaited, TypeOK, FdTypeOK
    <3> QED
      BY <1>4, <3>1, <3>4 DEF accept_callback_drops, Kept, InPlace
  <2>4. PICK a : Answer(d, a)
    BY <1>4 DEF accept_callback_drops
  <2> QED
    BY <1>1, <2>1, <2>3, <2>4
<1>5. ASSUME NEW d \in Calls, NEW p \in Places, accept_callback(d, p)
      PROVE  FileAt(c)'
  <2>1. /\ foreign' = foreign /\ of' = of /\ table' = table /\ byHand' = byHand
        /\ base_[p] = Empty /\ base_' = [base_ EXCEPT ![p] = req[d].res]
    BY <1>5 DEF accept_callback
  <2>2. ASSUME NEW n, Awaited(n) PROVE Kept(n)
    <3>1. n # Empty
      BY <2>2, DescriptorAssumption DEF Awaited, Numbers, Empty
    <3>2. PICK x \in Places \ byHand : base_[x] = n
      BY <2>2 DEF Awaited, InPlace
    <3>3. base_'[x] = n
      BY <2>1, <3>1, <3>2 DEF TypeOK, FdTypeOK
    <3> QED
      BY <2>1, <3>2, <3>3 DEF Kept, InPlace
  <2>3. PICK a : Answer(d, a)
    BY <1>5 DEF accept_callback
  <2> QED
    BY <1>1, <2>1, <2>2, <2>3
<1> QED
  BY <1>2, <1>3, <1>4, <1>5 DEF CallbackStep

\* A request works on the file of the object the call was made on: although
\* it carries only a number that the kernel looks up when the event loop
\* submits, and although the object may be moved meanwhile, the number stands
\* for the same file until then.
THEOREM RequestsHitTheirFiles == Spec => []RequestHitsItsFile
<1>1. Init => FileInv
  BY DEF Init, Blank, FileInv, FileAt
<1>2. TypeOK /\ OneOwner /\ FileInv /\ [Next]_vars => FileInv'
  <2> SUFFICES ASSUME TypeOK, OneOwner, FileInv, [Next]_vars PROVE FileInv'
    OBVIOUS
  <2>1. CASE UNCHANGED vars
    <3>1. UNCHANGED fdVars /\ req' = req /\ of' = of
      BY <2>1 DEF vars
    <3>2. foreign' = foreign
      BY <3>1 DEF fdVars
    <3> QED
      BY <3>1, <3>2, FileSame, SameIsKept DEF FileInv
  <2> QED
    BY <2>1, FdStepFile, UserStepFile, SubmitFile, KernelStepFile,
       CallbackStepFile
    DEF Next
<1>3. FileInv => RequestHitsItsFile
  BY DEF FileInv, FileAt, RequestHitsItsFile
<1> QED
  BY <1>1, <1>2, <1>3, TcpTypeCorrect, DescriptorsHaveOneOwner, PTL DEF Spec
=============================================================================
