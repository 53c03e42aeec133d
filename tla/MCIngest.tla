------------------------------ MODULE MCIngest ------------------------------
(* Instances of Ingest for TLC. *)
EXTENDS Ingest, TLC

CONSTANTS t1, t2, b1, b2

\* Up to two requests and two messages, each event of the argument once.
AtMost(once) == [e \in Event |-> CASE e \in {"request", "deliver"} -> 2
                                   [] e \in once -> 1
                                   [] OTHER -> 0]

LimitSerial   == [AtMost({"imapError", "dbError", "reset", "retry"}) EXCEPT !["deliver"] = 3]
LimitRace     == [AtMost({"crash", "retry", "imapError", "delete", "expunge"}) EXCEPT !["deliver"] = 1]
LimitNone     == AtMost({})
LimitCrash    == AtMost({"crash"})

MCSymmetry == Permutations(Thread)
=============================================================================
