---------------------------- MODULE RunContract ----------------------------
(***************************************************************************)
(* What the outbox promises to whoever asks for an evaluation, with no     *)
(* mention of leases, attempts, messages or workers: a request is owed     *)
(* until one run answers it, it is never answered twice, and once answered *)
(* it stays answered.  A request whose retries are used up is parked; it   *)
(* may still be taken up again, by a late message or an operator.          *)
(* (docs/operations/recovery.md, "Invariants preserved throughout";        *)
(* specs/002-production-hardening/data-model.md, JobIntent.)               *)
(***************************************************************************)
CONSTANT
  Request   \* what may be asked for

VARIABLES
  request,  \* absent, owed, parked or answered
  runs      \* the committed runs that answer a request

vars == <<request, runs>>

Init ==
  /\ request = [r \in Request |-> "absent"]
  /\ runs = [r \in Request |-> {}]

Move(r, from, to) ==
  /\ request[r] = from
  /\ request' = [request EXCEPT ![r] = to]

Ask(r) == Move(r, "absent", "owed") /\ UNCHANGED runs

Park(r) == Move(r, "owed", "parked") /\ UNCHANGED runs

TakeUpAgain(r) == Move(r, "parked", "owed") /\ UNCHANGED runs

\* one run, whatever its name
Answer(r) ==
  /\ Move(r, "owed", "answered")
  /\ runs[r] = {}
  /\ \E n \in runs'[r] : runs' = [runs EXCEPT ![r] = {n}]

Next ==
  \E r \in Request :
    \/ Ask(r)
    \/ Park(r)
    \/ TakeUpAgain(r)
    \/ Answer(r)

Spec == Init /\ [][Next]_vars
=============================================================================
