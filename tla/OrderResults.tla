---------------------------- MODULE OrderResults ----------------------------
(***************************************************************************)
(* Broker order results and the rules by which one durable result may      *)
(* replace another (broker.py, execution.py).                              *)
(*                                                                         *)
(* Every order asks for Qty units at a unit price, so a filled quantity is *)
(* also the notional it moves.  A result keeps the fields the rules read;  *)
(* "accepted" is a function of the status (broker.py:96-104) and is left   *)
(* out, "message" only tells the coordinator's own timeout record apart    *)
(* from what a provider sent.                                              *)
(***************************************************************************)
EXTENDS Integers

CONSTANTS Keys,      \* idempotency keys; a key stands for its order request
          OrderIds,  \* broker order ids
          Qty,       \* request.quantity
          None       \* Python's None / SQL NULL

ASSUME QtyAssumption == Qty \in Nat \ {0}
ASSUME NoneAssumption == None \notin OrderIds \cup Keys \cup Int

Terminal == {"FILLED", "CANCELED", "REJECTED"}
Statuses == {"UNKNOWN", "ACCEPTED", "PARTIALLY_FILLED"} \cup Terminal

Results == [status : Statuses, order : OrderIds \cup {None},
            filled : (0..Qty) \cup {None}, remaining : (0..Qty) \cup {None},
            message : {"PROVIDER", "BROKER_SUBMISSION_UNKNOWN"}]

ASSUME NoneIsNoResult == None \notin Results

\* What submit() records when broker.submit raises: the outcome is unknown.
TimeoutResult ==
  [status |-> "UNKNOWN", order |-> None, filled |-> None, remaining |-> None,
   message |-> "BROKER_SUBMISSION_UNKNOWN"]

\* A result the constructor accepts: any other is refused where it is built.
WellFormed(r) ==
  /\ (r.filled = None) <=> (r.remaining = None)
  /\ r.status \notin {"REJECTED", "UNKNOWN"} => r.order # None
  /\ r.status = "PARTIALLY_FILLED" =>
        r.filled # None /\ r.filled > 0 /\ r.remaining > 0
  /\ r.status = "FILLED" /\ r.filled # None => r.remaining = 0 /\ r.filled > 0

BrokerResults == {r \in Results : WellFormed(r)}

\* The cumulative fill a stored result reports; an absent result or an absent
\* quantity counts as nothing filled.
Filled(prev) == IF prev = None \/ prev.filled = None THEN 0 ELSE prev.filled

\* _validate_result_for_request: quantities add up, never fall, fit the status.
QuantitiesFit(prev, r) ==
  \/ r.filled = None /\ r.remaining = None /\ r.status # "PARTIALLY_FILLED"
  \/ /\ r.filled # None /\ r.remaining # None
     /\ r.filled + r.remaining = Qty
     /\ r.filled >= Filled(prev)
     /\ r.status = "PARTIALLY_FILLED" => r.filled \in 1..(Qty - 1)
     /\ r.status = "FILLED" => r.filled = Qty

\* Mutant: the order id of a later answer is believed.
SameOrder_Rebinds(prev, r) == TRUE

\* A broker order id, once durable, is never replaced or dropped.
SameOrder(prev, r) ==
  prev = None \/ prev.order = None \/ prev.order = r.order

\* Mutants: a recorded timeout blocks every answer but ACCEPTED; a late
\* ACCEPTED undoes a partial fill.
AllowedNext_UnknownOnlyAccepts(status) ==
  CASE status = "UNKNOWN"          -> {"ACCEPTED"}
    [] status = "ACCEPTED"         -> Statuses \ {"UNKNOWN"}
    [] status = "PARTIALLY_FILLED" -> {"PARTIALLY_FILLED", "FILLED", "CANCELED"}
    [] status \in Terminal         -> {status}

AllowedNext_PartialReopens(status) ==
  IF status \in Terminal THEN {status} ELSE Statuses \ {"UNKNOWN"}

\* The statuses that may follow each durable status.
AllowedNext(status) ==
  CASE status = "UNKNOWN"          -> Statuses \ {"UNKNOWN"}
    [] status = "ACCEPTED"         -> Statuses \ {"UNKNOWN"}
    [] status = "PARTIALLY_FILLED" -> {"PARTIALLY_FILLED", "FILLED", "CANCELED"}
    [] status \in Terminal         -> {status}

\* Repeating the durable result is always allowed; a different one must follow.
TransitionAllowed(prev, r) ==
  prev = None \/ prev = r \/ r.status \in AllowedNext(prev.status)

\* What _update_result_in_connection accepts.
Replaces(prev, r) ==
  QuantitiesFit(prev, r) /\ SameOrder(prev, r) /\ TransitionAllowed(prev, r)

=============================================================================
