----------------------------- MODULE MCRichQueue -----------------------------
(* A small instance of RichQueue for TLC. *)
EXTENDS RichQueue, TLC

CONSTANTS q1, q2, c1, c2

\* A consumer for each queue.
MCServes == [c \in Consumer |-> IF c = c1 THEN q1 ELSE q2]
=============================================================================
