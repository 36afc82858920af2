------------------------------ MODULE Proactor ------------------------------
(***************************************************************************)
(* What async_context promises the code above it, with no rings, mutexes   *)
(* or eventfd: a request that was accepted has its callback invoked at     *)
(* most once, only inside run(), unless it is cancelled first; a request   *)
(* that was refused never has.                                             *)
(***************************************************************************)
CONSTANT Requests

VARIABLES
  phase,     \* what has become of each request
  running    \* is the event loop inside run()

Phases == {"new", "pending", "refused", "cancelled", "done"}

TypeOK == phase \in [Requests -> Phases] /\ running \in BOOLEAN

Init == phase = [r \in Requests |-> "new"] /\ running = FALSE

Move(r, from, to) ==
  /\ phase[r] = from
  /\ phase' = [phase EXCEPT ![r] = to]

Accept(r) == Move(r, "new", "pending") /\ UNCHANGED running
Refuse(r) == Move(r, "new", "refused") /\ UNCHANGED running
Cancel(r) == Move(r, "pending", "cancelled") /\ UNCHANGED running
Invoke(r) == running /\ Move(r, "pending", "done") /\ UNCHANGED running

Start  == ~running /\ running' = TRUE /\ UNCHANGED phase
Return == running /\ running' = FALSE /\ UNCHANGED phase

Next ==
  \/ \E r \in Requests : Accept(r) \/ Refuse(r) \/ Cancel(r) \/ Invoke(r)
  \/ Start \/ Return

Spec == Init /\ [][Next]_<<phase, running>>
=============================================================================
