-------------------------- MODULE MCGrpcIngestion --------------------------
(***************************************************************************)
(* Model-checking instance of GrpcIngestion: which slots carry how many    *)
(* transactions.                                                           *)
(***************************************************************************)
EXTENDS GrpcIngestion

\* Two transactions in the first slot a session can record, and one (that no
\* filter claims) in the first slot.
MCTxCount == [s \in Slots |-> CASE s = 1 -> 1 [] s = 3 -> 2 [] OTHER -> 0]
=============================================================================
