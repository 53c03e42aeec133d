---------------------------- MODULE MCFetchPage ----------------------------
(* The Fetch mail page and the server, for TLC. *)
EXTENDS FetchPage

CONSTANTS t1, t2, b1, p1

MCAsk == {[from |-> 0, to |-> 3]}

\* Two requests; the one message is there from the start.
MCLimit == [e \in Event |-> CASE e = "request" -> 2
                              [] e \in {"deliver", "crash", "dbError"} -> 1
                              [] OTHER -> 0]
=============================================================================
