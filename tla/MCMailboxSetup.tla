--------------------------- MODULE MCMailboxSetup ---------------------------
(* Instances of MailboxSetup for TLC. *)
EXTENDS MailboxSetup

CONSTANTS s1, blank

\* One address in two spellings.
MCEmail == {"ann", "Ann"}
MCLower == [e \in MCEmail |-> "ann"]

LimitKept == [e \in Event |-> CASE e = "stop" -> 2
                                 [] e \in {"lost", "provider"} -> 1
                                 [] OTHER -> 0]
LimitLost == [e \in Event |-> IF e \in {"stop", "removeFile", "setKey"} THEN 1 ELSE 0]
=============================================================================
