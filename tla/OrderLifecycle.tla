--------------------------- MODULE OrderLifecycle ---------------------------
(***************************************************************************)
(* What the execution layer promises about each idempotency key, whatever  *)
(* the processes, the crashes and the provider's answers: the order is     *)
(* created once, its stage only advances, its final stage is final, its    *)
(* broker order id is written once, its fill never shrinks, and the        *)
(* authority it was created under never changes.                           *)
(***************************************************************************)
EXTENDS Integers

CONSTANTS Keys, OrderIds, Auths, Qty, None

VARIABLE orders  \* key -> None, or the order as far as it is known

Open   == {"unknown", "working"}
Closed == {"FILLED", "CANCELED", "REJECTED"}

Orders == [stage : Open \cup Closed, order : OrderIds \cup {None},
           filled : 0..Qty, auth : Auths \cup {None}]

\* The stages an order may show after it showed stage s.
Onward(s) == CASE s = "unknown" -> Open \cup Closed
               [] s = "working" -> {"working"} \cup Closed
               [] s \in Closed  -> {s}

Init == orders = [k \in Keys |-> None]

Create(k) ==
  /\ orders[k] = None
  /\ \E a \in Auths \cup {None} :
       orders' = [orders EXCEPT ![k] =
         [stage |-> "unknown", order |-> None, filled |-> 0, auth |-> a]]

Learn(k) ==
  /\ orders[k] # None
  /\ \E s \in Onward(orders[k].stage), o \in OrderIds \cup {None},
        f \in orders[k].filled..Qty :
       /\ orders[k].order # None => o = orders[k].order
       /\ orders' = [orders EXCEPT ![k] =
            [@ EXCEPT !.stage = s, !.order = o, !.filled = f]]

Next == \E k \in Keys : Create(k) \/ Learn(k)

Spec == Init /\ [][Next]_orders

=============================================================================
