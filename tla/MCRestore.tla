----------------------------- MODULE MCRestore -----------------------------
(***************************************************************************)
(* Instances of Restore for TLC.                                           *)
(***************************************************************************)
EXTENDS Restore

CONSTANTS q1, q2, d1

\* All requests want the same dump.
SameDump == [r \in Req |-> d1]
=============================================================================
