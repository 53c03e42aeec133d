------------------------------- MODULE MCVault -------------------------------
(* Instances of Vault for TLC. *)
EXTENDS Vault, TLC

CONSTANTS t1, t2, x, y

\* A mailbox with two messages.  When it is deleted and another one added under its
\* id, whatever is stored first gets row id 1 again.
MCMessage == {[account |-> 1, uid |-> 1, content |-> x],
              [account |-> 1, uid |-> 2, content |-> y]}

Limits(n, once) == [e \in Event |-> CASE e = "pass" -> n [] e \in once -> 1 [] OTHER -> 0]

LimitPass  == Limits(2, {"failure", "lose", "delete"})
LimitCrash == Limits(0, {"failure"})
=============================================================================
