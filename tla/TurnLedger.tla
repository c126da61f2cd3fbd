----------------------------- MODULE TurnLedger -----------------------------
(***************************************************************************)
(* What a project thread promises about its turns: one at a time is open,  *)
(* a finished turn waits for a user's decision or closes at once, and no   *)
(* later turn starts before that decision.                                 *)
(***************************************************************************)
CONSTANT Turns

VARIABLE status

Open     == {"running", "awaiting_approval"}
Decision == {"accepted", "reverted"}

Init == status = [t \in Turns |-> "none"]

Start(t) ==
    /\ status[t] = "none"
    /\ \A u \in Turns : status[u] \notin Open
    /\ status' = [status EXCEPT ![t] = "running"]

Finish(t) ==
    /\ status[t] = "running"
    /\ \E s \in {"awaiting_approval", "completed"} : status' = [status EXCEPT ![t] = s]

\* Accepting and reverting users may disagree: the last decision stands.
Resolve(t) ==
    /\ status[t] \in Decision \cup {"awaiting_approval", "completed"}
    /\ \E s \in Decision : status' = [status EXCEPT ![t] = s]

Next == \E t \in Turns : Start(t) \/ Finish(t) \/ Resolve(t)

Spec == Init /\ [][Next]_status
=============================================================================
