-------------------------- MODULE CoroutineProofs ---------------------------
(***************************************************************************)
(* Theorems about Coroutine, for any number of tasks, series, threads and  *)
(* operations.                                                             *)
(*                                                                         *)
(* The invariants of the run say what holds of one frame; each needs the   *)
(* others to be inductive, and they need to know why a task object that is *)
(* dropped never belongs to a coroutine in the middle of its work:         *)
(*  - TreeInv: the owner of a started task is the frame that awaits it,    *)
(*    and is suspended for it alone;                                       *)
(*  - OpInv: a frame is suspended in an operation when exactly one pending *)
(*    operation has its handle;                                            *)
(*  - StackInv: the frames that are not suspended are on the stacks, each  *)
(*    once.                                                                *)
(***************************************************************************)
EXTENDS Coroutine, TLAPS

\* Frames that are executing; InCall adds the ones that wait.
Live == {"running", "returned"}

\* Tasks that have not been started.
Fresh == {"none", "created"}

TreeInv ==
  /\ \A f \in Tasks :
       st[f] \in InCall => /\ continuation_[f] \in Frames
                           /\ owner[f] = continuation_[f]
                           /\ st[continuation_[f]] = "in_task"
  /\ \A f, g \in Tasks :
       st[f] \in InCall /\ st[g] \in InCall /\ continuation_[f] = continuation_[g]
         => f = g
  /\ \A x \in Frames :
       st[x] = "in_task" =>
         \E f \in Tasks : st[f] \in InCall /\ continuation_[f] = x
  /\ \A f \in Tasks : st[f] \in Fresh => continuation_[f] = Nobody
  /\ \A s \in Series : st[s] = "none" => future[s] = "none"

OpInv ==
  /\ \A o \in Ops :
       phase[o] = "pending" => awaiter[o] \in Tasks /\ st[awaiter[o]] = "in_op"
  /\ \A o, p \in Ops :
       phase[o] = "pending" /\ phase[p] = "pending" /\ awaiter[o] = awaiter[p]
         => o = p
  /\ \A x \in Frames :
       st[x] = "in_op" => \E o \in Ops : phase[o] = "pending" /\ awaiter[o] = x

StackInv ==
  /\ \A t \in Threads : \A i \in 1 .. Len(stack[t]) : st[stack[t][i]] \in Live
  /\ \A t, u \in Threads :
       \A i \in 1 .. Len(stack[t]), j \in 1 .. Len(stack[u]) :
         stack[t][i] = stack[u][j] => t = u /\ i = j
  /\ \A x \in Frames :
       st[x] \in Live =>
         \E t \in Threads : \E i \in 1 .. Len(stack[t]) : stack[t][i] = x

\* A promise holds a value when state_ says so; TypeOK needs it too, since
\* destruct() counts down.
CoInv == TypeOK /\ TreeInv /\ OpInv /\ StackInv /\ ValueLifetime

-----------------------------------------------------------------------------
(***************************************************************************)
(* The three ways a stack changes.                                         *)
(***************************************************************************)
LEMMA PushSeq ==
  ASSUME NEW q \in Seq(Frames), NEW x \in Frames
  PROVE  /\ Append(q, x) \in Seq(Frames)
         /\ Len(q) \in Nat /\ Len(Append(q, x)) = Len(q) + 1
         /\ Append(q, x)[Len(q) + 1] = x
         /\ \A i \in 1 .. Len(q) : Append(q, x)[i] = q[i]
OBVIOUS

LEMMA PopSeq ==
  ASSUME NEW q \in Seq(Frames), q # <<>>
  PROVE  /\ Front(q) \in Seq(Frames)
         /\ Len(q) \in Nat \ {0} /\ Len(Front(q)) = Len(q) - 1
         /\ \A i \in 1 .. Len(q) - 1 : Front(q)[i] = q[i]
         /\ Last(q) = q[Len(q)]
BY DEF Front, Last

LEMMA TransferSeq ==
  ASSUME NEW q \in Seq(Frames), q # <<>>, NEW x \in Frames
  PROVE  LET r == Append(Front(q), x)
         IN  /\ r \in Seq(Frames)
             /\ Len(q) \in Nat \ {0} /\ Len(r) = Len(q)
             /\ r[Len(q)] = x
             /\ \A i \in 1 .. Len(q) - 1 : r[i] = q[i]
<1> DEFINE p == Front(q)
<1>1. /\ p \in Seq(Frames) /\ Len(q) \in Nat \ {0} /\ Len(p) = Len(q) - 1
      /\ \A i \in 1 .. Len(q) - 1 : p[i] = q[i]
  BY PopSeq
<1> HIDE DEF p
<1>2. /\ Append(p, x) \in Seq(Frames)
      /\ Len(Append(p, x)) = Len(p) + 1
      /\ Append(p, x)[Len(p) + 1] = x
      /\ \A i \in 1 .. Len(p) : Append(p, x)[i] = p[i]
  BY <1>1, PushSeq
<1> QED
  BY <1>1, <1>2 DEF p

\* The innermost frame of a thread is executing.
LEMMA CodeIsTop ==
  ASSUME TypeOK, NEW t \in Threads, Code(t) \in Frames
  PROVE  /\ stack[t] \in Seq(Frames) /\ stack[t] # <<>>
         /\ Len(stack[t]) \in Nat \ {0}
         /\ Code(t) = stack[t][Len(stack[t])]
<1>1. stack[t] \in Seq(Frames)
  BY DEF TypeOK
<1>2. stack[t] # <<>>
  BY CoroutineAssumption DEF Code
<1> QED
  BY <1>1, <1>2, PopSeq DEF Code

LEMMA CodeTyped ==
  ASSUME TypeOK, NEW t \in Threads
  PROVE  Code(t) \in Frames \cup Threads
<1>1. stack[t] \in Seq(Frames)
  BY DEF TypeOK
<1>2. CASE stack[t] = <<>>
  BY <1>2 DEF Code
<1>3. CASE stack[t] # <<>>
  <2>1. Code(t) = stack[t][Len(stack[t])] /\ Len(stack[t]) \in Nat \ {0}
    BY <1>1, <1>3, PopSeq DEF Code
  <2> QED
    BY <1>1, <2>1
<1> QED
  BY <1>2, <1>3

LEMMA CodeIsLive ==
  ASSUME TypeOK, StackInv, NEW t \in Threads, Code(t) \in Frames
  PROVE  st[Code(t)] \in Live
BY CodeIsTop DEF StackInv

LEMMA StackKept ==
  ASSUME TypeOK, StackInv, stack' = stack,
         \A y \in Frames : st'[y] \in Live <=> st[y] \in Live
  PROVE  StackInv' /\ stack' \in [Threads -> Seq(Frames)]
<1>1. ASSUME NEW t \in Threads, NEW i \in 1 .. Len(stack[t])
      PROVE  stack[t][i] \in Frames
  BY DEF TypeOK
<1>2. stack' \in [Threads -> Seq(Frames)]
  BY DEF TypeOK
<1> QED
  BY <1>1, <1>2 DEF StackInv

LEMMA Pushed ==
  ASSUME TypeOK, StackInv, NEW t \in Threads, NEW x \in Frames, Push(t, x),
         st[x] \notin Live, st'[x] \in Live,
         \A y \in Frames \ {x} : st'[y] \in Live <=> st[y] \in Live
  PROVE  StackInv' /\ stack' \in [Threads -> Seq(Frames)]
<1> DEFINE n == Len(stack[t])
<1>0. \A u \in Threads : stack[u] \in Seq(Frames)
  BY DEF TypeOK
<1>1. /\ stack'[t] \in Seq(Frames)
      /\ n \in Nat /\ Len(stack'[t]) = n + 1 /\ stack'[t][n + 1] = x
      /\ \A i \in 1 .. n : stack'[t][i] = stack[t][i]
  <2>1. stack'[t] = Append(stack[t], x)
    BY DEF Push, TypeOK
  <2> QED
    BY <1>0, <2>1, PushSeq
<1>2. \A u \in Threads \ {t} : stack'[u] = stack[u]
  BY DEF Push, TypeOK
<1>3. stack' \in [Threads -> Seq(Frames)]
  BY <1>0, <1>1, <1>2 DEF Push, TypeOK
<1>4. ASSUME NEW u \in Threads, NEW i \in 1 .. Len(stack'[u])
      PROVE  \/ u = t /\ i = n + 1 /\ stack'[u][i] = x
             \/ /\ i \in 1 .. Len(stack[u]) /\ stack'[u][i] = stack[u][i]
                /\ stack[u][i] \in Frames \ {x}
  <2>1. CASE u = t /\ i = n + 1
    BY <1>1, <2>1
  <2>2. CASE ~(u = t /\ i = n + 1)
    <3>1. i \in 1 .. Len(stack[u]) /\ stack'[u][i] = stack[u][i]
      BY <1>1, <1>2, <2>2
    <3>2. stack[u][i] \in Frames
      BY <1>0, <3>1
    <3>3. st[stack[u][i]] \in Live
      BY <3>1 DEF StackInv
    <3> QED
      BY <3>1, <3>2, <3>3
  <2> QED
    BY <2>1, <2>2
<1> HIDE DEF n
<1>5. \A u \in Threads : \A i \in 1 .. Len(stack'[u]) : st'[stack'[u][i]] \in Live
  BY <1>4 DEF StackInv
<1>6. ASSUME NEW u \in Threads, NEW v \in Threads,
             NEW i \in 1 .. Len(stack'[u]), NEW j \in 1 .. Len(stack'[v]),
             stack'[u][i] = stack'[v][j]
      PROVE  u = v /\ i = j
  BY <1>4, <1>6 DEF StackInv
<1>7. ASSUME NEW y \in Frames, st'[y] \in Live
      PROVE  \E u \in Threads : \E i \in 1 .. Len(stack'[u]) : stack'[u][i] = y
  <2>1. CASE y = x
    <3>1. n + 1 \in 1 .. Len(stack'[t])
      BY <1>1
    <3> QED
      BY <1>1, <2>1, <3>1
  <2>2. CASE y # x
    <3>1. PICK u \in Threads : \E i \in 1 .. Len(stack[u]) : stack[u][i] = y
      BY <1>7, <2>2 DEF StackInv
    <3>1a. PICK i \in 1 .. Len(stack[u]) : stack[u][i] = y
      BY <3>1
    <3>2. i \in 1 .. Len(stack'[u]) /\ stack'[u][i] = y
      BY <1>1, <1>2, <3>1a DEF n
    <3> QED
      BY <3>2
  <2> QED
    BY <2>1, <2>2
<1> QED
  BY <1>3, <1>5, <1>6, <1>7 DEF StackInv

LEMMA Popped ==
  ASSUME TypeOK, StackInv, NEW t \in Threads, Code(t) \in Frames, Pop(t),
         st'[Code(t)] \notin Live,
         \A y \in Frames \ {Code(t)} : st'[y] \in Live <=> st[y] \in Live
  PROVE  StackInv' /\ stack' \in [Threads -> Seq(Frames)]
<1> DEFINE n == Len(stack[t])
           x == Code(t)
<1>0. \A u \in Threads : stack[u] \in Seq(Frames)
  BY DEF TypeOK
<1>1. n \in Nat \ {0} /\ stack[t][n] = x /\ x \in Frames
  BY CodeIsTop
<1>2. /\ stack'[t] \in Seq(Frames) /\ Len(stack'[t]) = n - 1
      /\ \A i \in 1 .. n - 1 : stack'[t][i] = stack[t][i]
  <2>1. stack'[t] = Front(stack[t])
    BY DEF Pop, TypeOK
  <2> QED
    BY <1>0, <2>1, PopSeq, CodeIsTop
<1>3. \A u \in Threads \ {t} : stack'[u] = stack[u]
  BY DEF Pop, TypeOK
<1>4. stack' \in [Threads -> Seq(Frames)]
  BY <1>0, <1>2, <1>3 DEF Pop, TypeOK
<1>5. ASSUME NEW u \in Threads, NEW i \in 1 .. Len(stack'[u])
      PROVE  /\ i \in 1 .. Len(stack[u]) /\ stack'[u][i] = stack[u][i]
             /\ stack[u][i] \in Frames \ {x}
  <2>1. i \in 1 .. Len(stack[u]) /\ stack'[u][i] = stack[u][i]
    BY <1>1, <1>2, <1>3
  <2>2. stack[u][i] \in Frames
    BY <1>0, <2>1
  <2>3. ~(u = t /\ i = n)
    BY <1>1, <1>2
  <2>4. n \in 1 .. Len(stack[t])
    BY <1>1
  <2>5. stack[u][i] # stack[t][n]
    BY <2>1, <2>3, <2>4 DEF StackInv
  <2> QED
    BY <1>1, <2>1, <2>2, <2>5
<1> HIDE DEF n, x
<1>6. \A u \in Threads : \A i \in 1 .. Len(stack'[u]) : st'[stack'[u][i]] \in Live
  BY <1>5 DEF StackInv, x
<1>7. ASSUME NEW u \in Threads, NEW v \in Threads,
             NEW i \in 1 .. Len(stack'[u]), NEW j \in 1 .. Len(stack'[v]),
             stack'[u][i] = stack'[v][j]
      PROVE  u = v /\ i = j
  BY <1>5, <1>7 DEF StackInv
<1>8. ASSUME NEW y \in Frames, st'[y] \in Live
      PROVE  \E u \in Threads : \E i \in 1 .. Len(stack'[u]) : stack'[u][i] = y
  <2>1. y # x /\ st[y] \in Live
    BY <1>8 DEF x
  <2>2. PICK u \in Threads : \E i \in 1 .. Len(stack[u]) : stack[u][i] = y
    BY <2>1 DEF StackInv
  <2>2a. PICK i \in 1 .. Len(stack[u]) : stack[u][i] = y
    BY <2>2
  <2>3. i \in 1 .. Len(stack'[u]) /\ stack'[u][i] = y
    BY <1>1, <1>2, <1>3, <2>1, <2>2a DEF n
  <2> QED
    BY <2>3
<1> QED
  BY <1>4, <1>6, <1>7, <1>8 DEF StackInv

LEMMA Transferred ==
  ASSUME TypeOK, StackInv, NEW t \in Threads, Code(t) \in Frames,
         NEW x \in Frames, Transfer(t, x),
         st[x] \notin Live, st'[x] \in Live, st'[Code(t)] \notin Live,
         \A y \in Frames \ {x, Code(t)} : st'[y] \in Live <=> st[y] \in Live
  PROVE  StackInv' /\ stack' \in [Threads -> Seq(Frames)]
<1> DEFINE n == Len(stack[t])
           z == Code(t)
<1>0. \A u \in Threads : stack[u] \in Seq(Frames)
  BY DEF TypeOK
<1>1. n \in Nat \ {0} /\ stack[t][n] = z /\ z \in Frames
  BY CodeIsTop
<1>2. /\ stack'[t] \in Seq(Frames) /\ Len(stack'[t]) = n /\ stack'[t][n] = x
      /\ \A i \in 1 .. n - 1 : stack'[t][i] = stack[t][i]
  <2>1. stack'[t] = Append(Front(stack[t]), x)
    BY DEF Transfer, TypeOK
  <2> QED
    BY <1>0, <2>1, TransferSeq, CodeIsTop
<1>3. \A u \in Threads \ {t} : stack'[u] = stack[u]
  BY DEF Transfer, TypeOK
<1>4. stack' \in [Threads -> Seq(Frames)]
  BY <1>0, <1>2, <1>3 DEF Transfer, TypeOK
<1>5. ASSUME NEW u \in Threads, NEW i \in 1 .. Len(stack'[u])
      PROVE  \/ u = t /\ i = n /\ stack'[u][i] = x
             \/ /\ i \in 1 .. Len(stack[u]) /\ stack'[u][i] = stack[u][i]
                /\ stack[u][i] \in Frames \ {x, z}
  <2>1. CASE u = t /\ i = n
    BY <1>2, <2>1
  <2>2. CASE ~(u = t /\ i = n)
    <3>1. i \in 1 .. Len(stack[u]) /\ stack'[u][i] = stack[u][i]
      BY <1>1, <1>2, <1>3, <2>2
    <3>2. stack[u][i] \in Frames
      BY <1>0, <3>1
    <3>3. n \in 1 .. Len(stack[t])
      BY <1>1
    <3>4. stack[u][i] # stack[t][n]
      BY <2>2, <3>1, <3>3 DEF StackInv
    <3>5. st[stack[u][i]] \in Live
      BY <3>1 DEF StackInv
    <3> QED
      BY <1>1, <3>1, <3>2, <3>4, <3>5
  <2> QED
    BY <2>1, <2>2
<1> HIDE DEF n, z
<1>6. \A u \in Threads : \A i \in 1 .. Len(stack'[u]) : st'[stack'[u][i]] \in Live
  BY <1>5 DEF StackInv, z
<1>7. ASSUME NEW u \in Threads, NEW v \in Threads,
             NEW i \in 1 .. Len(stack'[u]), NEW j \in 1 .. Len(stack'[v]),
             stack'[u][i] = stack'[v][j]
      PROVE  u = v /\ i = j
  BY <1>5, <1>7 DEF StackInv
<1>8. ASSUME NEW y \in Frames, st'[y] \in Live
      PROVE  \E u \in Threads : \E i \in 1 .. Len(stack'[u]) : stack'[u][i] = y
  <2>1. CASE y = x
    <3>1. n \in 1 .. Len(stack'[t])
      BY <1>1, <1>2
    <3> QED
      BY <1>2, <2>1, <3>1
  <2>2. CASE y # x
    <3>1. y # z /\ st[y] \in Live
      BY <1>8, <2>2 DEF z
    <3>2. PICK u \in Threads : \E i \in 1 .. Len(stack[u]) : stack[u][i] = y
      BY <3>1 DEF StackInv
    <3>2a. PICK i \in 1 .. Len(stack[u]) : stack[u][i] = y
      BY <3>2
    <3>3. i \in 1 .. Len(stack'[u]) /\ stack'[u][i] = y
      BY <1>1, <1>2, <1>3, <3>1, <3>2a DEF n
    <3> QED
      BY <3>3
  <2> QED
    BY <2>1, <2>2
<1> QED
  BY <1>4, <1>6, <1>7, <1>8 DEF StackInv

-----------------------------------------------------------------------------
(***************************************************************************)
(* What executes is awaited by nobody, so what it owns is not started, or  *)
(* has ended.                                                              *)
(***************************************************************************)
LEMMA CodeIsAwaitedByNone ==
  ASSUME TypeOK, TreeInv, StackInv, NEW t \in Threads, NEW f \in Tasks,
         st[f] \in InCall
  PROVE  continuation_[f] # Code(t) /\ owner[f] # Code(t)
<1>1. /\ continuation_[f] \in Frames /\ owner[f] = continuation_[f]
      /\ st[continuation_[f]] = "in_task"
  BY DEF TreeInv
<1>2. Code(t) \in Frames => st[Code(t)] # "in_task"
  BY CodeIsLive DEF Live
<1> QED
  BY <1>1, <1>2

LEMMA OwnedIsIdle ==
  ASSUME TypeOK, TreeInv, StackInv, NEW t \in Threads, NEW f \in Owned(Code(t))
  PROVE  f \in Tasks /\ st[f] \in {"none", "created", "final"}
<1>1. f \in Tasks /\ owner[f] = Code(t) /\ st[f] # "destroyed"
  BY DEF Owned
<1>2. st[f] \notin InCall
  BY <1>1, CodeIsAwaitedByNone
<1>3. st[f] \in {"none", "created", "running", "in_task", "in_op", "returned",
                 "final", "destroyed"}
  BY <1>1 DEF TypeOK, Frames
<1> QED
  BY <1>1, <1>2, <1>3 DEF InCall

(***************************************************************************)
(* Steps that leave one part of the invariant alone.                       *)
(***************************************************************************)
LEMMA TreeKept ==
  ASSUME TreeInv, continuation_' = continuation_,
         \A f \in Tasks : /\ st'[f] \in InCall <=> st[f] \in InCall
                          /\ st[f] \in InCall => owner'[f] = owner[f]
                          /\ st'[f] \in Fresh => st[f] \in Fresh,
         \A x \in Frames : st'[x] = "in_task" <=> st[x] = "in_task",
         \A s \in Series : st'[s] = "none" => st[s] = "none" /\ future'[s] = future[s]
  PROVE  TreeInv'
<1>1. \A f \in Tasks :
        st'[f] \in InCall => /\ continuation_'[f] \in Frames
                             /\ owner'[f] = continuation_'[f]
                             /\ st'[continuation_'[f]] = "in_task"
  BY DEF TreeInv
<1>2. \A f, g \in Tasks :
        st'[f] \in InCall /\ st'[g] \in InCall /\ continuation_'[f] = continuation_'[g]
          => f = g
  BY DEF TreeInv
<1>3. ASSUME NEW x \in Frames, st'[x] = "in_task"
      PROVE  \E f \in Tasks : st'[f] \in InCall /\ continuation_'[f] = x
  BY <1>3 DEF TreeInv
<1>4. \A f \in Tasks : st'[f] \in Fresh => continuation_'[f] = Nobody
  BY DEF TreeInv
<1>5. \A s \in Series : st'[s] = "none" => future'[s] = "none"
  BY DEF TreeInv
<1> QED
  BY <1>1, <1>2, <1>3, <1>4, <1>5 DEF TreeInv

LEMMA OpKept ==
  ASSUME OpInv, awaiter' = awaiter,
         \A o \in Ops : phase'[o] = "pending" <=> phase[o] = "pending",
         \A x \in Frames : st'[x] = "in_op" <=> st[x] = "in_op"
  PROVE  OpInv'
<1>1. \A o \in Ops : phase'[o] = "pending" =>
        awaiter'[o] \in Tasks /\ st'[awaiter'[o]] = "in_op"
  BY DEF OpInv, Frames
<1>2. \A o, p \in Ops :
        phase'[o] = "pending" /\ phase'[p] = "pending" /\ awaiter'[o] = awaiter'[p]
          => o = p
  BY DEF OpInv
<1>3. \A x \in Frames : st'[x] = "in_op" =>
        \E o \in Ops : phase'[o] = "pending" /\ awaiter'[o] = x
  BY DEF OpInv
<1> QED
  BY <1>1, <1>2, <1>3 DEF OpInv

LEMMA ValueKept ==
  ASSUME ValueLifetime, UNCHANGED <<state_, values>>,
         \A f \in Tasks : st'[f] \in {"returned", "final"} <=>
                            st[f] \in {"returned", "final"}
  PROVE  ValueLifetime'
BY DEF ValueLifetime

\* clear() of promises whose frames are destroyed.
LEMMA ValueCleared ==
  ASSUME TypeOK, ValueLifetime, NEW F, F \subseteq Tasks, clear(F),
         \A f \in F : st'[f] = "destroyed",
         \A f \in Tasks \ F : st'[f] \in {"returned", "final"} <=>
                                st[f] \in {"returned", "final"}
  PROVE  /\ ValueLifetime'
         /\ state_' \in [Tasks -> {"empty", "value"}] /\ values' \in [Tasks -> Nat]
<1>1. ASSUME NEW f \in Tasks
      PROVE  /\ values'[f] = IF state_'[f] = "value" THEN 1 ELSE 0
             /\ state_'[f] = "value" <=> st'[f] \in {"returned", "final"}
             /\ state_'[f] \in {"empty", "value"} /\ values'[f] \in Nat
  <2>1. /\ values[f] = IF state_[f] = "value" THEN 1 ELSE 0
        /\ state_[f] = "value" <=> st[f] \in {"returned", "final"}
        /\ state_[f] \in {"empty", "value"} /\ values[f] \in Nat
    BY DEF ValueLifetime, TypeOK
  <2>2. CASE f \in F
    <3>1. state_'[f] = "empty" /\ st'[f] = "destroyed"
      BY <2>2 DEF clear
    <3>2. values'[f] = IF state_[f] = "value" THEN values[f] - 1 ELSE values[f]
      BY <2>2 DEF clear, destruct
    <3> QED
      BY <2>1, <3>1, <3>2
  <2>3. CASE f \notin F
    <3>1. state_'[f] = state_[f] /\ values'[f] = values[f]
      BY <2>3 DEF clear
    <3> QED
      BY <2>1, <2>3, <3>1
  <2> QED
    BY <2>2, <2>3
<1>2. /\ state_' = [f \in Tasks |-> state_'[f]]
      /\ values' = [f \in Tasks |-> values'[f]]
  BY DEF clear
<1>3. state_' \in [Tasks -> {"empty", "value"}] /\ values' \in [Tasks -> Nat]
  BY <1>1, <1>2
<1> QED
  BY <1>1, <1>3 DEF ValueLifetime

-----------------------------------------------------------------------------
(***************************************************************************)
(* The steps of task<>.                                                    *)
(***************************************************************************)
LEMMA CreateInv ==
  ASSUME CoInv, NEW t \in Threads, NEW f \in Tasks, create(t, f)
  PROVE  CoInv'
<1> USE DEF CoInv
<1>1. f \in Frames /\ st[f] = "none" /\ st' = [st EXCEPT ![f] = "created"]
  BY DEF create, Frames
<1>2. st'[f] = "created" /\ \A y \in Frames \ {f} : st'[y] = st[y]
  BY <1>1 DEF TypeOK
<1>3. /\ continuation_' = continuation_ /\ state_' = state_ /\ values' = values
      /\ stack' = stack /\ awaiter' = awaiter /\ phase' = phase /\ future' = future
  BY DEF create, ctxVars, futVars
<1>4. StackInv' /\ stack' \in [Threads -> Seq(Frames)]
  BY <1>1, <1>2, <1>3, StackKept DEF Live
<1>5. TreeInv'
  <2>1. \A g \in Tasks : g # f => owner'[g] = owner[g]
    BY DEF create, TypeOK
  <2> QED
    BY <1>1, <1>2, <1>3, <2>1, TreeKept, CoroutineAssumption
    DEF InCall, Fresh, Frames
<1>6. OpInv' /\ ValueLifetime'
  BY <1>1, <1>2, <1>3, OpKept, ValueKept DEF Frames
<1>7. Code(t) \in Frames \cup Threads
  BY CodeTyped
<1>8. TypeOK'
  <2>1. owner' \in [Tasks -> Frames \cup Threads \cup {Nobody}]
    BY <1>7 DEF create, TypeOK
  <2>2. st' \in [Frames -> {"none", "created", "running", "in_task", "in_op",
                            "returned", "final", "destroyed"}]
    BY <1>1 DEF TypeOK
  <2> QED
    BY <1>3, <1>4, <2>1, <2>2
    DEF create, TypeOK, ctxVars, loopVars, futVars, Ctx!TypeOK
<1> QED
  BY <1>4, <1>5, <1>6, <1>8

\* The frames and promises of task objects that go: none is in the middle of
\* its work.
LEMMA DropInv ==
  ASSUME CoInv, NEW t \in Threads, NEW f \in Tasks, drop(t, f)
  PROVE  CoInv'
<1> USE DEF CoInv
<1>1. f \in Frames /\ st[f] \in {"none", "created", "final"}
  BY OwnedIsIdle DEF drop, Frames
<1>2. clear({f}) /\ st' = [g \in Frames |-> IF g \in {f} THEN "destroyed" ELSE st[g]]
  BY DEF drop, destroy
<1>3. st'[f] = "destroyed" /\ \A y \in Frames \ {f} : st'[y] = st[y]
  BY <1>1, <1>2
<1>4. /\ continuation_' = continuation_ /\ owner' = owner
      /\ stack' = stack /\ awaiter' = awaiter /\ phase' = phase /\ future' = future
  BY DEF drop, ctxVars, futVars
<1>5. StackInv' /\ stack' \in [Threads -> Seq(Frames)]
  BY <1>1, <1>3, <1>4, StackKept DEF Live
<1>6. TreeInv'
  BY <1>1, <1>3, <1>4, TreeKept, CoroutineAssumption DEF InCall, Fresh, Frames
<1>7. OpInv'
  BY <1>1, <1>3, <1>4, OpKept
<1>8. /\ ValueLifetime'
      /\ state_' \in [Tasks -> {"empty", "value"}] /\ values' \in [Tasks -> Nat]
  BY <1>2, <1>3, ValueCleared DEF Frames
<1>9. TypeOK'
  <2>1. st' \in [Frames -> {"none", "created", "running", "in_task", "in_op",
                            "returned", "final", "destroyed"}]
    BY <1>2 DEF TypeOK
  <2> QED
    BY <1>4, <1>5, <1>8, <2>1
    DEF drop, TypeOK, ctxVars, loopVars, futVars, Ctx!TypeOK
<1> QED
  BY <1>5, <1>6, <1>7, <1>8, <1>9

\* A frame begins to wait for a task that is started.
LEMMA TreeGrows ==
  ASSUME TypeOK, TreeInv, NEW x \in Frames, NEW f \in Tasks, x # f,
         st[x] # "in_task", x \in Tasks => st[x] \in InCall, st[f] = "created",
         st'[x] = "in_task", st'[f] = "running",
         \A y \in Frames \ {x, f} : st'[y] = st[y],
         owner'[f] = x, \A g \in Tasks \ {f} : owner'[g] = owner[g],
         continuation_'[f] = x,
         \A g \in Tasks \ {f} : continuation_'[g] = continuation_[g],
         \A s \in Series \ {x} : future'[s] = future[s]
  PROVE  TreeInv'
<1>1. ASSUME NEW g \in Tasks \ {f}, st'[g] \in InCall
      PROVE  /\ st[g] \in InCall
             /\ continuation_'[g] = continuation_[g] /\ owner'[g] = owner[g]
             /\ continuation_[g] \in Frames \ {x, f}
             /\ owner[g] = continuation_[g]
             /\ st[continuation_[g]] = "in_task"
  <2>1. st[g] \in InCall
    BY <1>1 DEF Frames
  <2>2. /\ continuation_[g] \in Frames /\ owner[g] = continuation_[g]
        /\ st[continuation_[g]] = "in_task"
    BY <2>1 DEF TreeInv
  <2> QED
    BY <2>1, <2>2
<1>2. ASSUME NEW g \in Tasks, st'[g] \in InCall
      PROVE  /\ continuation_'[g] \in Frames
             /\ owner'[g] = continuation_'[g]
             /\ st'[continuation_'[g]] = "in_task"
  <2>1. CASE g = f
    BY <2>1
  <2>2. CASE g # f
    BY <1>1, <1>2, <2>2
  <2> QED
    BY <2>1, <2>2
<1>3. ASSUME NEW g \in Tasks, NEW h \in Tasks, st'[g] \in InCall,
             st'[h] \in InCall, continuation_'[g] = continuation_'[h]
      PROVE  g = h
  <2>1. CASE g # f /\ h # f
    <3>1. st[g] \in InCall /\ continuation_'[g] = continuation_[g]
      BY <1>1, <1>3, <2>1
    <3>2. st[h] \in InCall /\ continuation_'[h] = continuation_[h]
      BY <1>1, <1>3, <2>1
    <3> QED
      BY <1>3, <3>1, <3>2 DEF TreeInv
  <2>2. CASE g = f \/ h = f
    BY <1>1, <1>3, <2>2
  <2> QED
    BY <2>1, <2>2
<1>4. ASSUME NEW y \in Frames, st'[y] = "in_task"
      PROVE  \E g \in Tasks : st'[g] \in InCall /\ continuation_'[g] = y
  <2>1. CASE y = x
    BY <2>1 DEF InCall
  <2>2. CASE y # x
    <3>1. st[y] = "in_task"
      BY <1>4, <2>2
    <3>2. PICK g \in Tasks : st[g] \in InCall /\ continuation_[g] = y
      BY <3>1 DEF TreeInv
    <3>3. g # f /\ g \in Frames
      BY <3>2 DEF InCall, Frames
    <3>4. st'[g] \in InCall
      BY <3>2, <3>3 DEF InCall
    <3> QED
      BY <3>2, <3>3, <3>4
  <2> QED
    BY <2>1, <2>2
<1>5. ASSUME NEW g \in Tasks, st'[g] \in Fresh PROVE continuation_'[g] = Nobody
  <2>1. g # f /\ g # x /\ st[g] \in Fresh
    BY <1>5 DEF Fresh, Frames
  <2> QED
    BY <2>1 DEF TreeInv
<1>6. ASSUME NEW s \in Series, st'[s] = "none" PROVE future'[s] = "none"
  <2>1. s # x /\ s # f /\ s \in Frames
    BY <1>6 DEF Frames
  <2> QED
    BY <1>6, <2>1 DEF TreeInv
<1> QED
  BY <1>2, <1>3, <1>4, <1>5, <1>6 DEF TreeInv

LEMMA AwaitTaskInv ==
  ASSUME CoInv, NEW t \in Threads, NEW f \in Tasks, await_task(t, f)
  PROVE  CoInv'
<1> USE DEF CoInv
<1> DEFINE x == Code(t)
<1>1. /\ x \in Tasks /\ x \in Frames /\ f \in Frames /\ st[f] = "created"
      /\ st' = [st EXCEPT ![x] = "in_task", ![f] = "running"]
      /\ owner[f] = x
      /\ Transfer(t, f)
      /\ continuation_' = [continuation_ EXCEPT ![f] = x]
  BY DEF await_task, Frames
<1>2. st[x] = "running"
  BY <1>1, CoroutineAssumption DEF await_task, UserCode, Code
<1>3. x # f /\ st'[x] = "in_task" /\ st'[f] = "running"
      /\ \A y \in Frames \ {x, f} : st'[y] = st[y]
  BY <1>1, <1>2 DEF TypeOK
<1>4. /\ owner' = owner /\ state_' = state_ /\ values' = values
      /\ awaiter' = awaiter /\ phase' = phase /\ future' = future
  BY DEF await_task, ctxVars, futVars
<1>6. StackInv' /\ stack' \in [Threads -> Seq(Frames)]
  BY <1>1, <1>2, <1>3, Transferred DEF Live
<1>7. continuation_'[f] = x /\ \A g \in Tasks \ {f} : continuation_'[g] = continuation_[g]
  BY <1>1 DEF TypeOK
<1> HIDE DEF x
<1>8. TreeInv'
  BY <1>1, <1>2, <1>3, <1>4, <1>7, TreeGrows DEF InCall, Frames
<1>9. OpInv'
  BY <1>1, <1>2, <1>3, <1>4, OpKept
<1>10. ValueLifetime'
  BY <1>1, <1>2, <1>3, <1>4, ValueKept DEF Frames
<1>11. TypeOK'
  <2>1. st' \in [Frames -> {"none", "created", "running", "in_task", "in_op",
                            "returned", "final", "destroyed"}]
    BY <1>1 DEF TypeOK
  <2>2. continuation_' \in [Tasks -> Frames \cup {Nobody}]
    BY <1>1 DEF TypeOK
  <2> QED
    BY <1>4, <1>6, <2>1, <2>2
    DEF await_task, TypeOK, ctxVars, loopVars, futVars, Ctx!TypeOK
<1> QED
  BY <1>6, <1>8, <1>9, <1>10, <1>11

LEMMA CoReturnInv ==
  ASSUME CoInv, NEW t \in Threads, co_return(t)
  PROVE  CoInv'
<1> USE DEF CoInv
<1> DEFINE x == Code(t)
<1>1. /\ x \in Tasks /\ x \in Frames
      /\ st' = [f \in Frames |-> IF f = x THEN "returned"
                                 ELSE IF f \in Owned(x) THEN "destroyed"
                                 ELSE st[f]]
      /\ state_' = [f \in Tasks |-> IF f = x THEN "value"
                                    ELSE IF f \in Owned(x) THEN "empty"
                                    ELSE state_[f]]
      /\ values' = [f \in Tasks |->
                      CASE f = x -> return_value(f)
                        [] f \in Owned(x) /\ state_[f] = "value" -> destruct(values[f])
                        [] OTHER -> values[f]]
  BY DEF co_return, Frames
<1>2. st[x] = "running"
  BY <1>1, CoroutineAssumption DEF co_return, UserCode, Code
<1>3. \A f \in Owned(x) : f \in Tasks /\ st[f] \in {"none", "created", "final"}
  BY OwnedIsIdle
<1> HIDE DEF x
<1>4. /\ x \notin Owned(x) /\ st'[x] = "returned"
      /\ \A f \in Owned(x) : st'[f] = "destroyed"
      /\ \A y \in Frames : y # x /\ y \notin Owned(x) => st'[y] = st[y]
  BY <1>1, <1>2, <1>3 DEF Frames
<1>5. /\ owner' = owner /\ continuation_' = continuation_
      /\ stack' = stack /\ awaiter' = awaiter /\ phase' = phase /\ future' = future
  BY DEF co_return, ctxVars, futVars
<1>6. ASSUME NEW y \in Frames
      PROVE  /\ st'[y] \in Live <=> st[y] \in Live
             /\ st'[y] = "in_task" <=> st[y] = "in_task"
             /\ st'[y] = "in_op" <=> st[y] = "in_op"
             /\ st'[y] \in InCall <=> st[y] \in InCall
             /\ st'[y] \in Fresh => st[y] \in Fresh
             /\ st'[y] = "none" => st[y] = "none"
  BY <1>2, <1>3, <1>4 DEF Live, InCall, Fresh
<1>7. StackInv' /\ stack' \in [Threads -> Seq(Frames)]
  BY <1>5, <1>6, StackKept
<1>8. TreeInv'
  BY <1>5, <1>6, TreeKept DEF Frames
<1>9. OpInv'
  BY <1>5, <1>6, OpKept
<1>10. ASSUME NEW f \in Tasks
       PROVE  /\ values'[f] = IF state_'[f] = "value" THEN 1 ELSE 0
              /\ state_'[f] = "value" <=> st'[f] \in {"returned", "final"}
              /\ state_'[f] \in {"empty", "value"} /\ values'[f] \in Nat
  <2>1. /\ values[f] = IF state_[f] = "value" THEN 1 ELSE 0
        /\ state_[f] = "value" <=> st[f] \in {"returned", "final"}
        /\ state_[f] \in {"empty", "value"} /\ values[f] \in Nat /\ f \in Frames
    BY DEF ValueLifetime, TypeOK, Frames
  <2>2. CASE f = x
    <3>1. values'[f] = return_value(f) /\ state_'[f] = "value"
      BY <1>1, <1>4, <2>2
    <3>2. state_[f] # "value" /\ values[f] = 0
      BY <1>2, <2>1, <2>2
    <3>3. values'[f] = 1
      BY <3>1, <3>2 DEF return_value, construct
    <3> QED
      BY <1>4, <2>2, <3>1, <3>3
  <2>3. CASE f \in Owned(x)
    <3>1. f # x /\ state_'[f] = "empty" /\ st'[f] = "destroyed"
      BY <1>1, <1>4, <2>3
    <3>2. values'[f] = IF state_[f] = "value" THEN values[f] - 1 ELSE values[f]
      BY <1>1, <2>3, <3>1 DEF destruct
    <3> QED
      BY <2>1, <3>1, <3>2
  <2>4. CASE f # x /\ f \notin Owned(x)
    <3>1. state_'[f] = state_[f] /\ values'[f] = values[f] /\ st'[f] = st[f]
      BY <1>1, <1>4, <2>1, <2>4
    <3> QED
      BY <2>1, <3>1
  <2> QED
    BY <2>2, <2>3, <2>4
<1>11. ValueLifetime'
  BY <1>10 DEF ValueLifetime
<1>12. TypeOK'
  <2>1. st' \in [Frames -> {"none", "created", "running", "in_task", "in_op",
                            "returned", "final", "destroyed"}]
    BY <1>1 DEF TypeOK
  <2>2. /\ state_' = [f \in Tasks |-> state_'[f]]
        /\ values' = [f \in Tasks |-> values'[f]]
    BY <1>1
  <2>3. state_' \in [Tasks -> {"empty", "value"}] /\ values' \in [Tasks -> Nat]
    BY <1>10, <2>2
  <2>4. exiting_' \in BOOLEAN
    BY DEF co_return, exit_guard, TypeOK
  <2> QED
    BY <1>5, <1>7, <2>1, <2>3, <2>4
    DEF co_return, TypeOK, ctxVars, futVars, Ctx!TypeOK
<1> QED
  BY <1>7, <1>8, <1>9, <1>11, <1>12

\* The task that ends had one frame waiting for it, and that one nothing else
\* to wait for.
LEMMA FinalSuspendInv ==
  ASSUME CoInv, NEW t \in Threads, final_suspend(t)
  PROVE  CoInv'
<1> USE DEF CoInv
<1> DEFINE x == Code(t)
           y == continuation_[x]
<1>1. /\ x \in Tasks /\ x \in Frames /\ st[x] = "returned"
      /\ st' = [st EXCEPT ![x] = "final", ![y] = "running"]
      /\ Transfer(t, y)
  BY DEF final_suspend, Frames
<1>2. y \in Frames /\ st[y] = "in_task"
  BY <1>1 DEF TreeInv, InCall
<1>3. /\ x # y /\ st'[x] = "final" /\ st'[y] = "running"
      /\ \A z \in Frames \ {x, y} : st'[z] = st[z]
  BY <1>1, <1>2 DEF TypeOK
<1>4. /\ owner' = owner /\ continuation_' = continuation_
      /\ state_' = state_ /\ values' = values
      /\ awaiter' = awaiter /\ phase' = phase /\ future' = future
  BY DEF final_suspend, ctxVars, futVars
<1>5. StackInv' /\ stack' \in [Threads -> Seq(Frames)]
  BY <1>1, <1>2, <1>3, Transferred DEF Live
<1>6. \A g \in Tasks \ {x} : st[g] \in InCall => continuation_[g] # y
  BY <1>1 DEF TreeInv, InCall
<1> HIDE DEF x, y
<1>7. TreeInv'
  <2>0. \A g \in Tasks : st'[g] \in InCall <=> g # x /\ st[g] \in InCall
    BY <1>1, <1>2, <1>3 DEF InCall, Frames
  <2>1. ASSUME NEW g \in Tasks, st'[g] \in InCall
        PROVE  /\ continuation_'[g] \in Frames
               /\ owner'[g] = continuation_'[g]
               /\ st'[continuation_'[g]] = "in_task"
    <3>1. g # x /\ st[g] \in InCall
      BY <2>0, <2>1
    <3>2. /\ continuation_[g] \in Frames /\ owner[g] = continuation_[g]
          /\ st[continuation_[g]] = "in_task" /\ continuation_[g] # y
      BY <1>6, <3>1 DEF TreeInv
    <3> QED
      BY <1>1, <1>3, <1>4, <3>2
  <2>2. ASSUME NEW g \in Tasks, NEW h \in Tasks, st'[g] \in InCall,
               st'[h] \in InCall, continuation_'[g] = continuation_'[h]
        PROVE  g = h
    BY <1>4, <2>0, <2>2 DEF TreeInv
  <2>3. ASSUME NEW z \in Frames, st'[z] = "in_task"
        PROVE  \E g \in Tasks : st'[g] \in InCall /\ continuation_'[g] = z
    <3>1. z # x /\ z # y /\ st[z] = "in_task"
      BY <1>3, <2>3
    <3>2. PICK g \in Tasks : st[g] \in InCall /\ continuation_[g] = z
      BY <3>1 DEF TreeInv
    <3>3. g # x
      BY <3>1, <3>2 DEF y
    <3> QED
      BY <1>4, <2>0, <3>2, <3>3
  <2>4. ASSUME NEW g \in Tasks, st'[g] \in Fresh PROVE continuation_'[g] = Nobody
    <3>1. st[g] \in Fresh
      BY <1>3, <2>4 DEF Fresh, Frames
    <3> QED
      BY <1>4, <3>1 DEF TreeInv
  <2>5. ASSUME NEW s \in Series, st'[s] = "none" PROVE future'[s] = "none"
    <3>1. st[s] = "none"
      BY <1>3, <2>5 DEF Frames
    <3> QED
      BY <1>4, <3>1 DEF TreeInv
  <2> QED
    BY <2>1, <2>2, <2>3, <2>4, <2>5 DEF TreeInv
<1>8. OpInv'
  BY <1>1, <1>2, <1>3, <1>4, OpKept
<1>9. ValueLifetime'
  BY <1>1, <1>2, <1>3, <1>4, ValueKept DEF Frames
<1>10. TypeOK'
  <2>1. st' \in [Frames -> {"none", "created", "running", "in_task", "in_op",
                            "returned", "final", "destroyed"}]
    BY <1>1 DEF TypeOK
  <2> QED
    BY <1>4, <1>5, <2>1
    DEF final_suspend, TypeOK, ctxVars, loopVars, futVars, Ctx!TypeOK
<1> QED
  BY <1>5, <1>7, <1>8, <1>9, <1>10

-----------------------------------------------------------------------------
(***************************************************************************)
(* The steps of co_async().                                                *)
(***************************************************************************)
LEMMA CoAsyncInv ==
  ASSUME CoInv, NEW t \in Threads, NEW s \in Series, NEW f \in Tasks,
         co_async(t, s, f)
  PROVE  CoInv'
<1> USE DEF CoInv
<1>1. /\ s \in Frames /\ f \in Frames /\ s # f /\ s \notin Tasks
      /\ st[s] = "none" /\ st[f] = "created"
      /\ st' = [st EXCEPT ![s] = "in_task", ![f] = "running"]
      /\ owner' = [owner EXCEPT ![f] = s]
      /\ continuation_' = [continuation_ EXCEPT ![f] = s]
      /\ future' = [future EXCEPT ![s] = "pending"]
      /\ Push(t, f)
  BY CoroutineAssumption DEF co_async, Frames
<1>2. /\ st'[s] = "in_task" /\ st'[f] = "running"
      /\ \A y \in Frames \ {s, f} : st'[y] = st[y]
  BY <1>1 DEF TypeOK
<1>3. /\ state_' = state_ /\ values' = values
      /\ awaiter' = awaiter /\ phase' = phase
  BY DEF co_async, ctxVars
<1>4. StackInv' /\ stack' \in [Threads -> Seq(Frames)]
  BY <1>1, <1>2, Pushed DEF Live
<1>5. TreeInv'
  <2>1. /\ owner'[f] = s /\ \A g \in Tasks \ {f} : owner'[g] = owner[g]
        /\ continuation_'[f] = s
        /\ \A g \in Tasks \ {f} : continuation_'[g] = continuation_[g]
        /\ \A r \in Series \ {s} : future'[r] = future[r]
    BY <1>1 DEF TypeOK
  <2> QED
    BY <1>1, <1>2, <2>1, TreeGrows
<1>6. OpInv'
  BY <1>1, <1>2, <1>3, OpKept
<1>7. ValueLifetime'
  BY <1>1, <1>2, <1>3, ValueKept DEF Frames
<1>8. TypeOK'
  <2>1. st' \in [Frames -> {"none", "created", "running", "in_task", "in_op",
                            "returned", "final", "destroyed"}]
    BY <1>1 DEF TypeOK
  <2>2. /\ continuation_' \in [Tasks -> Frames \cup {Nobody}]
        /\ owner' \in [Tasks -> Frames \cup Threads \cup {Nobody}]
        /\ future' \in [Series -> {"none", "pending", "ready"}]
    BY <1>1 DEF TypeOK
  <2>3. holder' \in [Series -> Threads \cup {Nobody}]
    BY DEF co_async, TypeOK
  <2> QED
    BY <1>3, <1>4, <2>1, <2>2, <2>3
    DEF co_async, TypeOK, ctxVars, loopVars, Ctx!TypeOK
<1> QED
  BY <1>4, <1>5, <1>6, <1>7, <1>8

LEMMA SetValueInv ==
  ASSUME CoInv, NEW t \in Threads, set_value(t)
  PROVE  CoInv'
<1> USE DEF CoInv
<1> DEFINE s == Code(t)
<1>1. /\ s \in Series /\ s \in Frames
      /\ future' = [future EXCEPT ![s] = "ready"]
  BY DEF set_value, Frames
<1>2. /\ st' = st /\ owner' = owner /\ continuation_' = continuation_
      /\ state_' = state_ /\ values' = values /\ stack' = stack
      /\ awaiter' = awaiter /\ phase' = phase /\ running' = running
      /\ exiting_' = exiting_ /\ erred' = erred /\ ran' = ran /\ aborted' = aborted
      /\ holder' = holder /\ gets' = gets
  BY DEF set_value, frameVars, ctxVars, loopVars
<1>3. st[s] # "none"
  BY <1>1, CodeIsLive DEF Live
<1> HIDE DEF s
<1>4. \A r \in Series \ {s} : future'[r] = future[r]
  BY <1>1 DEF TypeOK
<1>5. TreeInv'
  BY <1>2, <1>3, <1>4, TreeKept
<1>6. StackInv' /\ OpInv' /\ ValueLifetime'
  BY <1>2, StackKept, OpKept, ValueKept
<1>7. TypeOK'
  BY <1>1, <1>2 DEF TypeOK, Ctx!TypeOK
<1> QED
  BY <1>5, <1>6, <1>7

LEMMA ForgetInv ==
  ASSUME CoInv, NEW t \in Threads, forget(t)
  PROVE  CoInv'
<1> USE DEF CoInv
<1> DEFINE s == Code(t)
           F == Owned(s)
<1>1. /\ s \in Series /\ s \in Frames /\ s \notin Tasks
      /\ clear(F) /\ Pop(t)
      /\ st' = [f \in Frames |-> IF f \in F THEN "destroyed"
                                 ELSE [st EXCEPT ![s] = "destroyed"][f]]
  BY CoroutineAssumption DEF forget, destroy, Frames
<1>2. /\ F \subseteq Tasks
      /\ \A f \in F : st[f] \in {"none", "created", "final"}
  BY OwnedIsIdle
<1>3. st[s] \in Live
  BY <1>1, CodeIsLive
<1>4. /\ owner' = owner /\ continuation_' = continuation_
      /\ awaiter' = awaiter /\ phase' = phase /\ future' = future
  BY DEF forget, ctxVars, futVars
<1>5. /\ st'[s] = "destroyed" /\ \A f \in F : st'[f] = "destroyed"
      /\ \A y \in Frames : y # s /\ y \notin F => st'[y] = st[y]
  BY <1>1, <1>2 DEF TypeOK, Frames
<1>6. StackInv' /\ stack' \in [Threads -> Seq(Frames)]
  <2>1. \A y \in Frames \ {s} : st'[y] \in Live <=> st[y] \in Live
    BY <1>2, <1>5 DEF Live
  <2> QED
    BY <1>1, <1>5, <2>1, Popped DEF Live
<1> HIDE DEF s, F
<1>7. ASSUME NEW y \in Frames
      PROVE  /\ st'[y] = "in_task" <=> st[y] = "in_task"
             /\ st'[y] = "in_op" <=> st[y] = "in_op"
             /\ y # s => (st'[y] \in InCall <=> st[y] \in InCall)
             /\ st'[y] \in Fresh => st[y] \in Fresh
             /\ st'[y] = "none" => st[y] = "none"
  BY <1>2, <1>3, <1>5 DEF Live, InCall, Fresh
<1>8. TreeInv'
  BY <1>1, <1>4, <1>7, TreeKept DEF Frames
<1>9. OpInv'
  BY <1>4, <1>7, OpKept
<1>10. /\ ValueLifetime'
       /\ state_' \in [Tasks -> {"empty", "value"}] /\ values' \in [Tasks -> Nat]
  BY <1>1, <1>2, <1>5, ValueCleared DEF Frames
<1>11. TypeOK'
  <2>1. st' \in [Frames -> {"none", "created", "running", "in_task", "in_op",
                            "returned", "final", "destroyed"}]
    BY <1>1, <1>5 DEF TypeOK
  <2> QED
    BY <1>4, <1>6, <1>10, <2>1
    DEF forget, TypeOK, ctxVars, loopVars, futVars, Ctx!TypeOK
<1> QED
  BY <1>6, <1>8, <1>9, <1>10, <1>11

-----------------------------------------------------------------------------
(***************************************************************************)
(* The steps of awaitable_op.                                              *)
(***************************************************************************)
LEMMA AwaitOpInv ==
  ASSUME CoInv, NEW t \in Threads, NEW o \in Ops, await_op(t, o)
  PROVE  CoInv'
<1> USE DEF CoInv
<1> DEFINE x == Code(t)
<1>1. /\ x \in Tasks /\ x \in Frames
      /\ st' = [st EXCEPT ![x] = "in_op"]
      /\ awaiter' = [awaiter EXCEPT ![o] = x]
      /\ phase[o] = "new" /\ phase' = [phase EXCEPT ![o] = "pending"]
      /\ running' = running
      /\ Pop(t)
  BY DEF await_op, Frames, Ctx!Accept, Ctx!Move
<1>2. st[x] = "running"
  BY <1>1, CoroutineAssumption DEF await_op, UserCode, Code
<1>3. st'[x] = "in_op" /\ \A y \in Frames \ {x} : st'[y] = st[y]
  BY <1>1 DEF TypeOK
<1>4. /\ owner' = owner /\ continuation_' = continuation_
      /\ state_' = state_ /\ values' = values /\ future' = future
  BY DEF await_op, futVars
<1>5. StackInv' /\ stack' \in [Threads -> Seq(Frames)]
  BY <1>1, <1>3, Popped DEF Live
<1> HIDE DEF x
<1>6. /\ phase'[o] = "pending" /\ awaiter'[o] = x
      /\ \A p \in Ops \ {o} : phase'[p] = phase[p] /\ awaiter'[p] = awaiter[p]
  BY <1>1 DEF TypeOK, Ctx!TypeOK
<1>7. TreeInv'
  BY <1>1, <1>2, <1>3, <1>4, TreeKept DEF InCall, Fresh, Frames
<1>8. OpInv'
  <2>1. ASSUME NEW p \in Ops \ {o}, phase'[p] = "pending"
        PROVE  awaiter[p] \in Tasks /\ st[awaiter[p]] = "in_op" /\ awaiter[p] # x
    BY <1>2, <1>6, <2>1 DEF OpInv
  <2>2. \A p \in Ops : phase'[p] = "pending" =>
          awaiter'[p] \in Tasks /\ st'[awaiter'[p]] = "in_op"
    BY <1>1, <1>3, <1>6, <2>1 DEF Frames
  <2>3. ASSUME NEW p \in Ops, NEW q \in Ops, phase'[p] = "pending",
               phase'[q] = "pending", awaiter'[p] = awaiter'[q]
        PROVE  p = q
    <3>1. CASE p # o /\ q # o
      BY <1>6, <2>3, <3>1 DEF OpInv
    <3>2. CASE p = o \/ q = o
      BY <1>6, <2>1, <2>3, <3>2
    <3> QED
      BY <3>1, <3>2
  <2>4. ASSUME NEW y \in Frames, st'[y] = "in_op"
        PROVE  \E p \in Ops : phase'[p] = "pending" /\ awaiter'[p] = y
    <3>1. CASE y = x
      BY <1>6, <3>1
    <3>2. CASE y # x
      <4>1. PICK p \in Ops : phase[p] = "pending" /\ awaiter[p] = y
        BY <1>3, <2>4, <3>2 DEF OpInv
      <4>2. p # o
        BY <1>1, <4>1
      <4> QED
        BY <1>6, <4>1, <4>2
    <3> QED
      BY <3>1, <3>2
  <2> QED
    BY <2>2, <2>3, <2>4 DEF OpInv
<1>9. ValueLifetime'
  BY <1>1, <1>2, <1>3, <1>4, ValueKept DEF Frames
<1>10. TypeOK'
  <2>1. st' \in [Frames -> {"none", "created", "running", "in_task", "in_op",
                            "returned", "final", "destroyed"}]
    BY <1>1 DEF TypeOK
  <2>2. awaiter' \in [Ops -> Frames \cup {Nobody}]
    BY <1>1 DEF TypeOK
  <2>3. (Ctx!TypeOK)'
    BY <1>1 DEF TypeOK, Ctx!TypeOK, Ctx!Phases
  <2> QED
    BY <1>4, <1>5, <2>1, <2>2, <2>3 DEF await_op, TypeOK, loopVars, futVars
<1> QED
  BY <1>5, <1>7, <1>8, <1>9, <1>10

\* The frame in the callback is there, is suspended, and is nobody else's to
\* resume.
LEMMA ResumeInv ==
  ASSUME CoInv, NEW o \in Ops, resume(o)
  PROVE  CoInv'
<1> USE DEF CoInv
<1> DEFINE x == awaiter[o]
<1>1. /\ phase[o] = "pending" /\ phase' = [phase EXCEPT ![o] = "done"]
      /\ running' = running
      /\ Push(Loop, x) /\ st' = [st EXCEPT ![x] = "running"]
      /\ Loop \in Threads
  BY DEF resume, Ctx!Invoke, Ctx!Move, Threads
<1>2. x \in Tasks /\ x \in Frames /\ st[x] = "in_op"
  BY <1>1 DEF OpInv, Frames
<1>3. st'[x] = "running" /\ \A y \in Frames \ {x} : st'[y] = st[y]
  BY <1>1, <1>2 DEF TypeOK
<1>4. /\ owner' = owner /\ continuation_' = continuation_
      /\ state_' = state_ /\ values' = values /\ future' = future
      /\ awaiter' = awaiter
  BY DEF resume, futVars
<1>5. StackInv' /\ stack' \in [Threads -> Seq(Frames)]
  BY <1>1, <1>2, <1>3, Pushed DEF Live
<1>6. phase'[o] = "done" /\ \A p \in Ops \ {o} : phase'[p] = phase[p]
  BY <1>1 DEF TypeOK, Ctx!TypeOK
<1>7. TreeInv'
  BY <1>2, <1>3, <1>4, TreeKept DEF InCall, Fresh, Frames
<1>8. OpInv'
  <2>1. ASSUME NEW p \in Ops, phase'[p] = "pending"
        PROVE  p # o /\ phase[p] = "pending" /\ awaiter[p] # x
    BY <1>1, <1>6, <2>1 DEF OpInv
  <2>2. \A p \in Ops : phase'[p] = "pending" =>
          awaiter'[p] \in Tasks /\ st'[awaiter'[p]] = "in_op"
    BY <1>3, <1>4, <2>1 DEF OpInv, Frames
  <2>3. \A p, q \in Ops :
          phase'[p] = "pending" /\ phase'[q] = "pending"
            /\ awaiter'[p] = awaiter'[q] => p = q
    BY <1>4, <2>1 DEF OpInv
  <2>4. ASSUME NEW y \in Frames, st'[y] = "in_op"
        PROVE  \E p \in Ops : phase'[p] = "pending" /\ awaiter'[p] = y
    <3>1. y # x /\ st[y] = "in_op"
      BY <1>3, <2>4
    <3>2. PICK p \in Ops : phase[p] = "pending" /\ awaiter[p] = y
      BY <3>1 DEF OpInv
    <3>3. p # o
      BY <3>1, <3>2
    <3> QED
      BY <1>4, <1>6, <3>2, <3>3
  <2> QED
    BY <2>2, <2>3, <2>4 DEF OpInv
<1>9. ValueLifetime'
  BY <1>2, <1>3, <1>4, ValueKept DEF Frames
<1>10. TypeOK'
  <2>1. st' \in [Frames -> {"none", "created", "running", "in_task", "in_op",
                            "returned", "final", "destroyed"}]
    BY <1>1 DEF TypeOK
  <2>2. erred' \subseteq Ops
    BY DEF resume, TypeOK
  <2>3. (Ctx!TypeOK)'
    BY <1>1 DEF TypeOK, Ctx!TypeOK, Ctx!Phases
  <2> QED
    BY <1>4, <1>5, <2>1, <2>2, <2>3 DEF resume, TypeOK, futVars
<1> QED
  BY <1>5, <1>7, <1>8, <1>9, <1>10

\* Steps that touch no frame, and no operation that is pending.
LEMMA FramesKept ==
  ASSUME CoInv, UNCHANGED <<frameVars, stack, awaiter, future>>,
         \A o \in Ops : phase'[o] = "pending" <=> phase[o] = "pending",
         TypeOK'
  PROVE  CoInv'
<1> USE DEF CoInv
<1>1. /\ st' = st /\ owner' = owner /\ continuation_' = continuation_
      /\ state_' = state_ /\ values' = values /\ stack' = stack
      /\ awaiter' = awaiter /\ future' = future
  BY DEF frameVars
<1> QED
  BY <1>1, TreeKept, OpKept, StackKept, ValueKept

LEMMA OtherInv ==
  ASSUME CoInv, NEW t \in Threads,
         \/ \E o \in Ops : Refused(t, o)
         \/ after_error \/ run \/ run_returns
         \/ \E s \in Series : get(t, s)
         \/ get_returns(t)
         \/ UNCHANGED vars
  PROVE  CoInv'
<1>1. TypeOK
  BY DEF CoInv
<1>2. CASE \E o \in Ops : Refused(t, o)
  <2>1. PICK o \in Ops : Refused(t, o)
    BY <1>2
  <2>2. /\ UNCHANGED <<frameVars, stack, awaiter, future>>
        /\ phase[o] = "new" /\ phase' = [phase EXCEPT ![o] = "refused"]
        /\ running' = running
    BY <2>1 DEF Refused, Ctx!Refuse, Ctx!Move, futVars
  <2>3. (Ctx!TypeOK)' /\ \A p \in Ops : phase'[p] = "pending" <=> phase[p] = "pending"
    BY <1>1, <2>2 DEF TypeOK, Ctx!TypeOK, Ctx!Phases
  <2>4. TypeOK'
    BY <1>1, <2>1, <2>3 DEF Refused, TypeOK, frameVars, futVars
  <2> QED
    BY <2>2, <2>3, <2>4, FramesKept
<1>3. CASE after_error \/ UNCHANGED vars
  <2>1. UNCHANGED <<frameVars, stack, awaiter, future, phase>>
    BY <1>3 DEF after_error, vars, ctxVars, futVars
  <2>2. TypeOK'
    BY <1>1, <1>3
    DEF after_error, vars, TypeOK, frameVars, ctxVars, loopVars, futVars, Ctx!TypeOK
  <2> QED
    BY <2>1, <2>2, FramesKept
<1>4. CASE run \/ run_returns
  <2>1. /\ UNCHANGED <<frameVars, stack, awaiter, future, phase>>
        /\ running' \in BOOLEAN
    BY <1>4 DEF run, run_returns, Ctx!Start, Ctx!Return, futVars
  <2>2. TypeOK'
    BY <1>1, <1>4, <2>1
    DEF run, run_returns, TypeOK, frameVars, loopVars, futVars, Ctx!TypeOK
  <2> QED
    BY <2>1, <2>2, FramesKept
<1>5. CASE (\E s \in Series : get(t, s)) \/ get_returns(t)
  <2>1. /\ UNCHANGED <<frameVars, stack, awaiter, future, phase, running>>
        /\ UNCHANGED loopVars
    BY <1>5 DEF get, get_returns, ctxVars
  <2>2. /\ gets' \in [Threads -> Series \cup {Nobody}]
        /\ holder' \in [Series -> Threads \cup {Nobody}]
    BY <1>1, <1>5, ZenonT(30) DEF get, get_returns, TypeOK
  <2>3. /\ st' = st /\ owner' = owner /\ continuation_' = continuation_
        /\ state_' = state_ /\ values' = values /\ stack' = stack
        /\ awaiter' = awaiter /\ future' = future /\ phase' = phase
        /\ running' = running /\ exiting_' = exiting_ /\ erred' = erred
        /\ ran' = ran /\ aborted' = aborted
    BY <2>1 DEF frameVars, loopVars
  <2>4. TypeOK'
    BY <1>1, <2>2, <2>3 DEF TypeOK, Ctx!TypeOK
  <2> QED
    BY <2>1, <2>4, FramesKept
<1> QED
  BY <1>2, <1>3, <1>4, <1>5

-----------------------------------------------------------------------------
LEMMA UserStepInv ==
  ASSUME CoInv, NEW t \in Threads, UserStep(t)
  PROVE  CoInv'
<1>1. CASE \E f \in Tasks : create(t, f) \/ drop(t, f) \/ await_task(t, f)
  BY <1>1, CreateInv, DropInv, AwaitTaskInv
<1>2. CASE \E s \in Series, f \in Tasks : co_async(t, s, f)
  BY <1>2, CoAsyncInv
<1>3. CASE \E o \in Ops : await_op(t, o)
  BY <1>3, AwaitOpInv
<1>4. CASE \E o \in Ops : Refused(t, o)
  BY <1>4, OtherInv
<1>5. CASE co_return(t)
  BY <1>5, CoReturnInv
<1> QED
  BY <1>1, <1>2, <1>3, <1>4, <1>5
  DEF UserStep, coro_transfer, coro_connect, coro_accept

\* At every moment each frame is on one stack, waits in one operation or waits
\* for one task that it owns, and the values of the promises agree with it.
THEOREM CoroutineCorrect == Spec => []CoInv
<1>1. Init => CoInv
  <2> SUFFICES ASSUME Init PROVE CoInv
    OBVIOUS
  <2>1. TypeOK
    <3>1. <<>> \in Seq(Frames)
      OBVIOUS
    <3>2. stack \in [Threads -> Seq(Frames)]
      BY <3>1 DEF Init
    <3>3. Ctx!TypeOK
      BY DEF Init, Ctx!Init, Ctx!TypeOK, Ctx!Phases
    <3>4. values \in [Tasks -> Nat]
      BY DEF Init
    <3> QED
      BY <3>2, <3>3, <3>4 DEF Init, TypeOK
  <2>2. TreeInv
    <3>1. \A x \in Frames : st[x] = "none"
      BY DEF Init
    <3>2. \A f \in Tasks : f \in Frames /\ continuation_[f] = Nobody
      BY DEF Init, Frames
    <3>3. \A s \in Series : future[s] = "none"
      BY DEF Init
    <3> QED
      BY <3>1, <3>2, <3>3 DEF TreeInv, InCall
  <2>3. OpInv
    BY DEF Init, OpInv, Ctx!Init
  <2>4. StackInv
    BY DEF Init, StackInv, Live
  <2>5. ValueLifetime
    BY DEF Init, ValueLifetime, Frames
  <2> QED
    BY <2>1, <2>2, <2>3, <2>4, <2>5 DEF CoInv
<1>2. CoInv /\ [Next]_vars => CoInv'
  <2> SUFFICES ASSUME CoInv, [Next]_vars PROVE CoInv'
    OBVIOUS
  <2>1. Loop \in Threads
    BY DEF Threads
  <2>2. CASE LoopStep \/ run \/ UNCHANGED vars
    BY <2>1, <2>2, OtherInv DEF LoopStep
  <2>3. CASE \E o \in Ops : resume(o)
    BY <2>3, ResumeInv
  <2>4. ASSUME NEW t \in Threads, UserStep(t) PROVE CoInv'
    BY <2>4, UserStepInv
  <2>5. ASSUME NEW t \in Threads, (\E s \in Series : get(t, s)) \/ get_returns(t)
        PROVE  CoInv'
    BY <2>5, OtherInv
  <2>6. ASSUME NEW t \in Threads, CoroutineStep(t) PROVE CoInv'
    BY <2>4, <2>6, FinalSuspendInv, SetValueInv, ForgetInv DEF CoroutineStep
  <2> QED
    BY <2>2, <2>3, <2>4, <2>5, <2>6 DEF Next
<1> QED
  BY <1>1, <1>2, PTL DEF Spec

\* Every variable of the coroutines, promises and futures has its type.
THEOREM CoroutineTypeCorrect == Spec => []TypeOK
<1>1. CoInv => TypeOK
  BY DEF CoInv
<1> QED
  BY <1>1, CoroutineCorrect, PTL

\* The value of a task is constructed once and destructed once: the storage
\* of a promise holds a value exactly from the return of its task to the
\* destruction of its frame.
THEOREM ValuesAreDestructed == Spec => []ValueLifetime
<1>1. CoInv => ValueLifetime
  BY DEF CoInv
<1> QED
  BY <1>1, CoroutineCorrect, PTL

\* However threads start coroutines and the thread of run() resumes them, a
\* frame that runs is on one stack and once, and one that is suspended or
\* destroyed on none.
THEOREM FramesRunOnce == Spec => []RunsOnce
<1>1. ASSUME CoInv, NEW f \in Frames
      PROVE  IF st[f] \in {"running", "returned"}
               THEN \E t \in Threads :
                      \E i \in DOMAIN stack[t] : PlacesOf(f) = {<<t, i>>}
               ELSE PlacesOf(f) = {}
  <2>1. \A t \in Threads : DOMAIN stack[t] = 1 .. Len(stack[t])
    BY <1>1 DEF CoInv, TypeOK
  <2>2. \A z : z \in PlacesOf(f) <=>
          \E t \in Threads : \E i \in 1 .. Len(stack[t]) :
            z = <<t, i>> /\ stack[t][i] = f
    BY <2>1 DEF PlacesOf
  <2>3. CASE st[f] \in Live
    <3>1. PICK t \in Threads : \E i \in 1 .. Len(stack[t]) : stack[t][i] = f
      BY <1>1, <2>3 DEF CoInv, StackInv
    <3>2. PICK i \in 1 .. Len(stack[t]) : stack[t][i] = f
      BY <3>1
    <3>3. \A u \in Threads : \A j \in 1 .. Len(stack[u]) :
            stack[u][j] = f => u = t /\ j = i
      BY <1>1, <3>2 DEF CoInv, StackInv
    <3>4. PlacesOf(f) = {<<t, i>>}
      BY <2>2, <3>2, <3>3
    <3> QED
      BY <2>1, <2>3, <3>2, <3>4 DEF Live
  <2>4. CASE st[f] \notin Live
    <3>1. \A u \in Threads : \A j \in 1 .. Len(stack[u]) : stack[u][j] # f
      BY <1>1, <2>4 DEF CoInv, StackInv
    <3>2. PlacesOf(f) = {}
      BY <2>2, <3>1
    <3> QED
      BY <2>4, <3>2 DEF Live
  <2> QED
    BY <2>3, <2>4
<1>2. CoInv => RunsOnce
  BY <1>1 DEF RunsOnce
<1> QED
  BY <1>2, CoroutineCorrect, PTL

\* A suspended frame has exactly one operation or task that will resume it,
\* so none is forgotten and none resumed by two, and a task that keeps its
\* awaiter waiting is owned by it.
THEOREM FramesAreResumedByOne == Spec => []ResumedByOne
<1>1. ASSUME CoInv, NEW f \in Frames
      PROVE  IF st[f] \in {"in_task", "in_op"}
               THEN \E g \in Ops \cup Tasks :
                      /\ Resumers(f) = {g}
                      /\ g \in Tasks => st[f] = "in_task" /\ owner[g] = f
               ELSE Resumers(f) = {}
  <2>1. \A o \in Ops : phase[o] = "pending" /\ awaiter[o] = f => st[f] = "in_op"
    BY <1>1 DEF CoInv, OpInv
  <2>2. \A g \in Tasks : continuation_[g] = f /\ st[g] \in InCall => st[f] = "in_task"
    BY <1>1 DEF CoInv, TreeInv
  <2>3. CASE st[f] = "in_task"
    <3>1. PICK g \in Tasks : st[g] \in InCall /\ continuation_[g] = f
      BY <1>1, <2>3 DEF CoInv, TreeInv
    <3>2. owner[g] = f /\ \A h \in Tasks :
            st[h] \in InCall /\ continuation_[h] = f => h = g
      BY <1>1, <3>1 DEF CoInv, TreeInv
    <3>3. Resumers(f) = {g}
      BY <2>1, <2>3, <3>1, <3>2 DEF Resumers
    <3> QED
      BY <2>3, <3>2, <3>3
  <2>4. CASE st[f] = "in_op"
    <3>1. PICK o \in Ops : phase[o] = "pending" /\ awaiter[o] = f
      BY <1>1, <2>4 DEF CoInv, OpInv
    <3>2. \A p \in Ops : phase[p] = "pending" /\ awaiter[p] = f => p = o
      BY <1>1, <3>1 DEF CoInv, OpInv
    <3>3. Resumers(f) = {o}
      BY <2>2, <2>4, <3>1, <3>2 DEF Resumers
    <3>4. o \notin Tasks
      BY CoroutineAssumption
    <3> QED
      BY <2>4, <3>3, <3>4
  <2>5. CASE st[f] \notin {"in_task", "in_op"}
    <3>1. Resumers(f) = {}
      BY <2>1, <2>2, <2>5 DEF Resumers
    <3> QED
      BY <2>5, <3>1
  <2> QED
    BY <2>3, <2>4, <2>5
<1>2. CoInv => ResumedByOne
  BY <1>1 DEF ResumedByOne
<1> QED
  BY <1>2, CoroutineCorrect, PTL

\* As long as no connect() fails, whose callback is invoked twice, a callback
\* that is still to come resumes a frame that is there and is suspended in
\* that operation and in no other.
THEOREM CallbacksFindFrames ==
  ASSUME "connect" \notin Faults
  PROVE  Spec => []CallbackFindsFrame
<1> DEFINE NoSecond == erred \cap Connects = {}
<1>1. Init => NoSecond
  BY DEF Init
<1>2. NoSecond /\ [Next]_vars => NoSecond'
  <2> SUFFICES ASSUME NoSecond, [Next]_vars PROVE NoSecond'
    OBVIOUS
  <2>1. CASE \E o \in Ops : resume(o)
    BY <2>1, CoroutineAssumption DEF resume
  <2>2. CASE erred' = erred
    BY <2>2
  <2>3. ASSUME NEW t \in Threads, UserStep(t) PROVE erred' = erred
    BY <2>3
    DEF UserStep, create, drop, await_task, co_async, coro_transfer,
        coro_connect, coro_accept, await_op, Refused, co_return, loopVars
  <2> QED
    BY <2>1, <2>2, <2>3
    DEF Next, LoopStep, CoroutineStep, after_error, run_returns, run, get,
        get_returns, final_suspend, set_value, forget, loopVars, vars
<1>3. CoInv /\ NoSecond => CallbackFindsFrame
  <2> SUFFICES ASSUME CoInv, NoSecond PROVE CallbackFindsFrame
    OBVIOUS
  <2>1. ToCome = {o \in Ops : phase[o] = "pending"}
    BY DEF ToCome
  <2> QED
    BY <2>1 DEF CallbackFindsFrame, CoInv, OpInv
<1> QED
  BY <1>1, <1>2, <1>3, CoroutineCorrect, PTL DEF Spec

-----------------------------------------------------------------------------
(***************************************************************************)
(* The implementation of CallStack.  An await is a call, final_suspend()   *)
(* the return, and everything else that user code does to its tasks is     *)
(* invisible, because no call that is open is touched.                     *)
(***************************************************************************)
Open    == {f \in Tasks : st[f] \in InCall}
Waiting == {f \in Tasks : st[f] = "in_op"}

CallsStep == Calls!Next \/ UNCHANGED <<continuation_, Open, Waiting, future>>

LEMMA CallsQuiet ==
  ASSUME UNCHANGED <<continuation_, future>>,
         \A f \in Tasks : /\ st'[f] \in InCall <=> st[f] \in InCall
                          /\ st'[f] = "in_op" <=> st[f] = "in_op"
  PROVE  CallsStep
<1>1. Open' = Open /\ Waiting' = Waiting
  BY DEF Open, Waiting
<1> QED
  BY <1>1 DEF CallsStep

\* A task that executes is the innermost call of its series.
LEMMA CodeGoesOn ==
  ASSUME CoInv, NEW t \in Threads, Code(t) \in Tasks
  PROVE  Calls!GoesOn(Code(t))
<1>1. st[Code(t)] \in Live /\ Code(t) \in Frames
  BY CodeIsLive DEF CoInv, Frames
<1>2. Code(t) \in Open \ Waiting
  BY <1>1 DEF Open, Waiting, Live, InCall
<1>3. \A f \in Open : continuation_[f] # Code(t)
  BY CodeIsAwaitedByNone DEF CoInv, Open
<1> QED
  BY <1>2, <1>3 DEF Calls!GoesOn, Calls!Innermost, Open, Waiting

LEMMA CallsUserStep ==
  ASSUME CoInv, NEW t \in Threads, UserStep(t)
  PROVE  CallsStep
<1>1. TypeOK /\ TreeInv /\ StackInv
  BY DEF CoInv
<1>2. ASSUME NEW f \in Tasks, create(t, f) PROVE CallsStep
  <2>1. UNCHANGED <<continuation_, future>>
    BY <1>2 DEF create, futVars
  <2>2. st[f] = "none" /\ st'[f] = "created" /\ \A g \in Tasks \ {f} : st'[g] = st[g]
    BY <1>1, <1>2 DEF create, TypeOK, Frames
  <2> QED
    BY <2>1, <2>2, CallsQuiet DEF InCall
<1>3. ASSUME NEW f \in Tasks, drop(t, f) PROVE CallsStep
  <2>1. UNCHANGED <<continuation_, future>>
    BY <1>3 DEF drop, futVars
  <2>2. st[f] \in {"none", "created", "final"}
    BY <1>1, <1>3, OwnedIsIdle DEF drop
  <2>3. st'[f] = "destroyed" /\ \A g \in Tasks \ {f} : st'[g] = st[g]
    BY <1>3 DEF drop, destroy, Frames
  <2> QED
    BY <2>1, <2>2, <2>3, CallsQuiet DEF InCall
<1>4. ASSUME NEW f \in Tasks, await_task(t, f) PROVE CallsStep
  <2>0. PICK x : x = Code(t)
    OBVIOUS
  <2>1. /\ x \in Tasks /\ x \in Frames /\ f \in Frames /\ st[f] = "created"
        /\ st' = [st EXCEPT ![x] = "in_task", ![f] = "running"]
        /\ continuation_' = [continuation_ EXCEPT ![f] = x]
        /\ future' = future
    BY <1>4, <2>0 DEF await_task, Frames, futVars
  <2>2. Calls!GoesOn(x)
    BY <2>0, <2>1, CodeGoesOn
  <2>3. st[x] = "running" /\ continuation_[f] = Nobody
    BY <1>1, <1>4, <2>0, <2>1, CoroutineAssumption
    DEF await_task, UserCode, Code, TreeInv, Fresh
  <2>3a. st[f] = "created"
    BY <2>1
  <2>4. \A g \in Tasks : st'[g] = IF g = f THEN "running" ELSE
                                   IF g = x THEN "in_task" ELSE st[g]
    BY <1>1, <2>1 DEF TypeOK, Frames
  <2>5. Open' = Open \cup {f} /\ Waiting' = Waiting
    <3>1. ASSUME NEW g \in Tasks
          PROVE  /\ st'[g] \in InCall <=> g = f \/ st[g] \in InCall
                 /\ st'[g] = "in_op" <=> st[g] = "in_op"
      <4>1. CASE g = f
        BY <2>3, <2>3a, <2>4, <4>1 DEF InCall
      <4>2. CASE g = x /\ g # f
        BY <2>3, <2>3a, <2>4, <4>2 DEF InCall
      <4>3. CASE g # x /\ g # f
        BY <2>3, <2>3a, <2>4, <4>3 DEF InCall
      <4> QED
        BY <4>1, <4>2, <4>3
    <3> QED
      BY <3>1 DEF Open, Waiting
  <2>6. Calls!Push(x, f)
    BY <2>1, <2>3, <2>5 DEF Calls!Push, Open, Waiting
  <2>7. Calls!Call(x, f)
    BY <2>1, <2>2, <2>6 DEF Calls!Call
  <2> QED
    BY <2>1, <2>7 DEF CallsStep, Calls!Next
<1>5. ASSUME NEW s \in Series, NEW f \in Tasks, co_async(t, s, f)
      PROVE  CallsStep
  <2>1. /\ s \in Frames /\ s \notin Tasks /\ f \in Frames
        /\ st[s] = "none" /\ st[f] = "created"
        /\ st' = [st EXCEPT ![s] = "in_task", ![f] = "running"]
        /\ continuation_' = [continuation_ EXCEPT ![f] = s]
        /\ future' = [future EXCEPT ![s] = "pending"]
    BY <1>5, CoroutineAssumption DEF co_async, Frames
  <2>2. future[s] = "none" /\ continuation_[f] = Nobody
    BY <1>1, <2>1 DEF TreeInv, Fresh
  <2>2a. st[f] = "created"
    BY <2>1
  <2>3. \A g \in Tasks : st'[g] = IF g = f THEN "running" ELSE st[g]
    BY <1>1, <2>1 DEF TypeOK, Frames
  <2>4. Open' = Open \cup {f} /\ Waiting' = Waiting
    <3>1. ASSUME NEW g \in Tasks
          PROVE  /\ st'[g] \in InCall <=> g = f \/ st[g] \in InCall
                 /\ st'[g] = "in_op" <=> st[g] = "in_op"
      <4>1. CASE g = f
        BY <2>2a, <2>3, <4>1 DEF InCall
      <4>2. CASE g # f
        BY <2>2a, <2>3, <4>2 DEF InCall
      <4> QED
        BY <4>1, <4>2
    <3> QED
      BY <3>1 DEF Open, Waiting
  <2>5. Calls!Push(s, f)
    BY <2>1, <2>2, <2>4 DEF Calls!Push, Open, Waiting
  <2>6. Calls!Start(s, f)
    BY <2>1, <2>2, <2>5 DEF Calls!Start
  <2> QED
    BY <2>6 DEF CallsStep, Calls!Next
<1>6. ASSUME NEW o \in Ops, await_op(t, o) PROVE CallsStep
  <2>0. PICK x : x = Code(t)
    OBVIOUS
  <2>1. /\ x \in Tasks /\ x \in Frames
        /\ st' = [st EXCEPT ![x] = "in_op"]
        /\ UNCHANGED <<continuation_, future>>
    BY <1>6, <2>0 DEF await_op, Frames, futVars
  <2>2. Calls!GoesOn(x)
    BY <2>0, <2>1, CodeGoesOn
  <2>3. st[x] \in InCall
    BY <1>1, <2>0, <2>1, CodeIsLive DEF Live, InCall
  <2>4. \A g \in Tasks : st'[g] = IF g = x THEN "in_op" ELSE st[g]
    BY <1>1, <2>1 DEF TypeOK, Frames
  <2>5. Open' = Open /\ Waiting' = Waiting \cup {x}
    BY <2>1, <2>3, <2>4 DEF Open, Waiting, InCall
  <2>6. Calls!Wait(x)
    BY <2>1, <2>2, <2>5 DEF Calls!Wait, Open, Waiting
  <2> QED
    BY <2>1, <2>6 DEF CallsStep, Calls!Next
<1>7. ASSUME NEW o \in Ops, Refused(t, o) PROVE CallsStep
  BY <1>7, CallsQuiet DEF Refused, frameVars, futVars
<1>8. ASSUME co_return(t) PROVE CallsStep
  <2> DEFINE x == Code(t)
  <2>1. /\ x \in Tasks
        /\ st' = [f \in Frames |-> IF f = x THEN "returned"
                                   ELSE IF f \in Owned(x) THEN "destroyed"
                                   ELSE st[f]]
        /\ UNCHANGED <<continuation_, future>>
    BY <1>8 DEF co_return, futVars
  <2>2. st[x] = "running"
    BY <1>8, <2>1, CoroutineAssumption DEF co_return, UserCode, Code, Frames
  <2>3. \A f \in Owned(x) : f \in Tasks /\ st[f] \in {"none", "created", "final"}
    BY <1>1, OwnedIsIdle
  <2> HIDE DEF x
  <2>4. ASSUME NEW g \in Tasks
        PROVE  /\ st'[g] \in InCall <=> st[g] \in InCall
               /\ st'[g] = "in_op" <=> st[g] = "in_op"
    BY <2>1, <2>2, <2>3 DEF InCall, Frames
  <2> QED
    BY <2>1, <2>4, CallsQuiet
<1> QED
  BY <1>2, <1>3, <1>4, <1>5, <1>6, <1>7, <1>8
  DEF UserStep, coro_transfer, coro_connect, coro_accept

LEMMA CallsCoroutineStep ==
  ASSUME CoInv, NEW t \in Threads, CoroutineStep(t)
  PROVE  CallsStep
<1>1. TypeOK /\ TreeInv /\ StackInv
  BY DEF CoInv
<1>2. CASE UserStep(t)
  BY <1>2, CallsUserStep
<1>3. CASE final_suspend(t)
  <2>0. PICK x, y : x = Code(t) /\ y = continuation_[x]
    OBVIOUS
  <2>1. /\ x \in Tasks /\ x \in Frames /\ st[x] = "returned"
        /\ st' = [st EXCEPT ![x] = "final", ![y] = "running"]
        /\ UNCHANGED <<continuation_, future>>
    BY <1>3, <2>0 DEF final_suspend, Frames, futVars
  <2>2. Calls!GoesOn(x)
    BY <2>0, <2>1, CodeGoesOn
  <2>3. y \in Frames /\ st[y] = "in_task"
    BY <1>1, <2>0, <2>1 DEF TreeInv, InCall
  <2>3a. st[x] = "returned"
    BY <2>1
  <2>4. \A g \in Tasks : st'[g] = IF g = y THEN "running" ELSE
                                   IF g = x THEN "final" ELSE st[g]
    BY <1>1, <2>1, <2>3 DEF TypeOK, Frames
  <2>5. Open' = Open \ {x} /\ Waiting' = Waiting
    <3>1. ASSUME NEW g \in Tasks
          PROVE  /\ st'[g] \in InCall <=> g # x /\ st[g] \in InCall
                 /\ st'[g] = "in_op" <=> st[g] = "in_op"
      <4>1. CASE g = x
        BY <2>3, <2>3a, <2>4, <4>1 DEF InCall
      <4>2. CASE g = y
        BY <2>3, <2>3a, <2>4, <4>2 DEF InCall
      <4>3. CASE g # x /\ g # y
        BY <2>3, <2>3a, <2>4, <4>3 DEF InCall
      <4> QED
        BY <4>1, <4>2, <4>3
    <3> QED
      BY <3>1 DEF Open, Waiting
  <2>6. Calls!Return(x)
    BY <2>1, <2>2, <2>5 DEF Calls!Return, Open, Waiting
  <2> QED
    BY <2>1, <2>6 DEF CallsStep, Calls!Next
<1>4. CASE set_value(t)
  <2>0. PICK s : s = Code(t)
    OBVIOUS
  <2>1. /\ s \in Series /\ future[s] = "pending"
        /\ future' = [future EXCEPT ![s] = "ready"]
        /\ UNCHANGED <<continuation_, st>>
    BY <1>4, <2>0 DEF set_value, frameVars
  <2>2. \A f \in Open : continuation_[f] # s
    BY <1>1, <2>0, CodeIsAwaitedByNone DEF Open
  <2>3. Open' = Open /\ Waiting' = Waiting
    BY <2>1 DEF Open, Waiting
  <2>4. Calls!Answer(s)
    BY <2>1, <2>2, <2>3 DEF Calls!Answer, Calls!Innermost, Open, Waiting
  <2> QED
    BY <2>1, <2>4 DEF CallsStep, Calls!Next
<1>5. CASE forget(t)
  <2> DEFINE s == Code(t)
  <2>1. /\ s \in Series /\ s \notin Tasks
        /\ UNCHANGED <<continuation_, future>>
        /\ st' = [f \in Frames |-> IF f \in Owned(s) THEN "destroyed"
                                   ELSE [st EXCEPT ![s] = "destroyed"][f]]
    BY <1>5, CoroutineAssumption DEF forget, destroy, futVars
  <2>2. \A f \in Owned(s) : f \in Tasks /\ st[f] \in {"none", "created", "final"}
    BY <1>1, OwnedIsIdle
  <2> HIDE DEF s
  <2>3. \A g \in Tasks : st'[g] = IF g \in Owned(s) THEN "destroyed" ELSE st[g]
    BY <1>1, <2>1 DEF TypeOK, Frames
  <2> QED
    BY <2>1, <2>2, <2>3, CallsQuiet DEF InCall
<1> QED
  BY <1>2, <1>3, <1>4, <1>5 DEF CoroutineStep

LEMMA CallsResume ==
  ASSUME CoInv, NEW o \in Ops, resume(o)
  PROVE  CallsStep
<1>0. PICK x : x = awaiter[o]
  OBVIOUS
<1>1. /\ phase[o] = "pending" /\ st' = [st EXCEPT ![x] = "running"]
      /\ UNCHANGED <<continuation_, future>>
  BY <1>0 DEF resume, Ctx!Invoke, Ctx!Move, futVars
<1>2. x \in Tasks /\ st[x] = "in_op"
  BY <1>0, <1>1 DEF CoInv, OpInv
<1>3. \A g \in Tasks : st'[g] = IF g = x THEN "running" ELSE st[g]
  BY <1>1, <1>2 DEF CoInv, TypeOK, Frames
<1>4. Open' = Open /\ Waiting' = Waiting \ {x}
  BY <1>2, <1>3 DEF Open, Waiting, InCall
<1>5. Calls!Resume(x)
  BY <1>1, <1>2, <1>4 DEF Calls!Resume, Open, Waiting
<1> QED
  BY <1>2, <1>5 DEF CallsStep, Calls!Next

\* The coroutines of a series, with their continuations, symmetric transfers
\* and callbacks on any threads, implement one thread of function calls: a
\* task is called once, only the innermost call goes on, and the future is
\* ready after the outermost call has returned.
THEOREM TasksActLikeCalls == Spec => ActsLikeCalls
<1>1. Init => Calls!Init
  BY DEF Init, Calls!Init, InCall, Frames
<1>2. CoInv /\ [Next]_vars => CallsStep
  <2> SUFFICES ASSUME CoInv, [Next]_vars PROVE CallsStep
    OBVIOUS
  <2>1. CASE LoopStep \/ run \/ UNCHANGED vars
    BY <2>1, CallsQuiet
    DEF LoopStep, after_error, run_returns, run, vars, frameVars, futVars
  <2>2. CASE \E o \in Ops : resume(o)
    BY <2>2, CallsResume
  <2>3. ASSUME NEW t \in Threads, (\E s \in Series : get(t, s)) \/ get_returns(t)
        PROVE  CallsStep
    BY <2>3, CallsQuiet DEF get, get_returns, frameVars
  <2> QED
    BY <2>1, <2>2, <2>3, CallsUserStep, CallsCoroutineStep DEF Next
<1>3. CallsStep =>
        [Calls!Next]_<<continuation_, {f \in Tasks : st[f] \in InCall},
                       {f \in Tasks : st[f] = "in_op"}, future>>
  BY DEF CallsStep, Open, Waiting
<1> QED
  BY <1>1, <1>2, <1>3, CoroutineCorrect, PTL DEF Spec, ActsLikeCalls, Calls!Spec
=============================================================================
