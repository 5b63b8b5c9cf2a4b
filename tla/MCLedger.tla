------------------------------ MODULE MCLedger ------------------------------
(***************************************************************************)
(* Small instances of the ledger for TLC.                                  *)
(***************************************************************************)
EXTENDS LedgerProperties, TLC

CONSTANTS e1, e2

OldFiles == {<<>>, <<e1>>, <<e1, e2>>}

\* Every label: a process may die between any two statements.
Anywhere == Labels

\* Everywhere but between the last UPDATE of a rebuild and its anchor.
AnywhereButTip == Labels \ {"tip"}

ProcSymmetry == Permutations(Procs)

=============================================================================
