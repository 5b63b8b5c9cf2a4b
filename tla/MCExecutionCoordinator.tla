----------------------- MODULE MCExecutionCoordinator -----------------------
(***************************************************************************)
(* Small instances of the execution layer for TLC.                         *)
(***************************************************************************)
EXTENDS ExecutionProperties, TLC

Result(status, order, filled) ==
  [status |-> status, order |-> order, filled |-> filled,
   remaining |-> IF filled = None THEN None ELSE Qty - filled,
   message |-> "PROVIDER"]

\* A provider that reports the quantity of every fill.
Quantified ==
  {Result("REJECTED", None, None)} \cup
  UNION {{Result("ACCEPTED", o, None), Result("PARTIALLY_FILLED", o, 1),
          Result("FILLED", o, Qty), Result("CANCELED", o, 1)} : o \in OrderIds}

\* The same with fewer ways for an order to go.
Working == {r \in Quantified : r.status # "CANCELED"}

\* Orders that fill at once or in two parts.
Filling == {r \in Quantified : r.status \in {"PARTIALLY_FILLED", "FILLED"}}

\* A provider that reports FILLED without quantities.
Unquantified == {Result("ACCEPTED", o, None) : o \in OrderIds}
  \cup {Result("FILLED", o, None) : o \in OrderIds}

\* Answers nobody asked for: any result bound to any key.
Strays ==
  [key : Keys,
   result : {r \in Working : r.status \in {"ACCEPTED", "PARTIALLY_FILLED"}}]

Flat == [position |-> 0, cash |-> 4]
Long == [position |-> 2, cash |-> 4]

WorkerSymmetry == Permutations(Workers)

=============================================================================
