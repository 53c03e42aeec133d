--------------------------- MODULE AlertLifecycle ---------------------------
(***************************************************************************)
(* What the alerts promise the person who works through them (the table     *)
(* _TRANSITIONS of analysis/alerts.py): an alert is raised open, every      *)
(* change of its status is one legal move, and it goes away only with its   *)
(* email.                                                                   *)
(***************************************************************************)
CONSTANT Email   \* ids of emails

Status == {"open", "acknowledged", "resolved", "false_positive"}

Moves(s) ==
  CASE s = "open"         -> {"acknowledged", "resolved", "false_positive"}
    [] s = "acknowledged" -> {"resolved", "false_positive"}
    [] s \in {"resolved", "false_positive"} -> {"open"}

VARIABLE status   \* status[e]: the status of the alert of e, or "none"

Init == status = [e \in Email |-> "none"]

Raise(e) == status[e] = "none" /\ status' = [status EXCEPT ![e] = "open"]

Decide(e) == /\ status[e] # "none"
             /\ \E s \in Moves(status[e]) : status' = [status EXCEPT ![e] = s]

Drop(e) == status[e] # "none" /\ status' = [status EXCEPT ![e] = "none"]

Next == \E e \in Email : Raise(e) \/ Decide(e) \/ Drop(e)

Spec == Init /\ [][Next]_status
=============================================================================
