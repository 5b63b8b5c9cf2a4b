---------------------------- MODULE PaperTrading ----------------------------
(***************************************************************************)
(* What the paper loop promises: the bars are decided one after the other, *)
(* each exactly once; a decision either fills at the bar's price, within   *)
(* what the book can carry, or is refused and changes nothing.             *)
(***************************************************************************)
EXTENDS RiskGate, Sequences

CONSTANTS StartingCash, Quantity, RiskLimits, Paths

VARIABLES price,    \* the market: one price per observation
          outcome,  \* bar -> "open", "filled" or "refused"
          cash, position

vars == <<price, outcome, cash, position>>

Bars == 2..Len(price)
Book == [cash |-> cash, position |-> position]

Turn(bar) == outcome[bar] = "open" /\ \A b \in Bars : b < bar => outcome[b] # "open"

Init ==
  /\ price \in Paths
  /\ outcome = [bar \in Bars |-> "open"]
  /\ cash = StartingCash
  /\ position = 0

Fill(bar, side) ==
  /\ Turn(bar)
  /\ Affordable(Book, side, Quantity, price[bar], RiskLimits)
  /\ outcome' = [outcome EXCEPT ![bar] = "filled"]
  /\ cash' = Filled(Book, side, Quantity, price[bar]).cash
  /\ position' = Filled(Book, side, Quantity, price[bar]).position
  /\ UNCHANGED price

Refuse(bar) ==
  /\ Turn(bar)
  /\ outcome' = [outcome EXCEPT ![bar] = "refused"]
  /\ UNCHANGED <<price, cash, position>>

Next == \E bar \in Bars :
  Refuse(bar) \/ \E side \in {"BUY", "SELL"} : Fill(bar, side)

Spec == Init /\ [][Next]_vars

=============================================================================
