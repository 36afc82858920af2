----------------------------- MODULE CallStack ------------------------------
(***************************************************************************)
(* What task<> and co_async() promise the code written with them: a series *)
(* of coroutines behaves as one thread of function calls.  A task is       *)
(* called once; only the innermost call of a series goes on: it calls,     *)
(* waits for an operation or returns to its caller; and the future of the  *)
(* series is ready when the outermost call has returned, and not before.   *)
(***************************************************************************)
CONSTANTS Series, Tasks, None

VARIABLES
  caller,     \* the task or series that has called a task
  open,       \* the calls that have not returned
  waiting,    \* those that wait for an operation
  outcome     \* what there is of the future of each series

TypeOK ==
  /\ caller \in [Tasks -> Tasks \cup Series \cup {None}]
  /\ open \subseteq Tasks
  /\ waiting \subseteq open
  /\ outcome \in [Series -> {"none", "pending", "ready"}]

Init ==
  /\ caller = [f \in Tasks |-> None]
  /\ open = {} /\ waiting = {}
  /\ outcome = [s \in Series |-> "none"]

\* x has no call that is open.
Innermost(x) == \A f \in open : caller[f] # x

GoesOn(x) == x \in open \ waiting /\ Innermost(x)

Push(x, f) ==
  /\ caller[f] = None
  /\ caller' = [caller EXCEPT ![f] = x]
  /\ open' = open \cup {f}
  /\ UNCHANGED waiting

Start(s, f) ==
  /\ outcome[s] = "none"
  /\ outcome' = [outcome EXCEPT ![s] = "pending"]
  /\ Push(s, f)

Call(x, f) == GoesOn(x) /\ Push(x, f) /\ UNCHANGED outcome

Wait(x) ==
  /\ GoesOn(x)
  /\ waiting' = waiting \cup {x}
  /\ UNCHANGED <<caller, open, outcome>>

Resume(x) ==
  /\ x \in waiting
  /\ waiting' = waiting \ {x}
  /\ UNCHANGED <<caller, open, outcome>>

Return(x) ==
  /\ GoesOn(x)
  /\ open' = open \ {x}
  /\ UNCHANGED <<caller, waiting, outcome>>

Answer(s) ==
  /\ outcome[s] = "pending" /\ Innermost(s)
  /\ outcome' = [outcome EXCEPT ![s] = "ready"]
  /\ UNCHANGED <<caller, open, waiting>>

Next ==
  \/ \E s \in Series : Answer(s) \/ \E f \in Tasks : Start(s, f)
  \/ \E x \in Tasks : \/ Wait(x) \/ Resume(x) \/ Return(x)
                      \/ \E f \in Tasks : Call(x, f)

Spec == Init /\ [][Next]_<<caller, open, waiting, outcome>>
=============================================================================
