--------------------------- MODULE PaperProperties ---------------------------
(***************************************************************************)
(* What the paper loop promises of its files, over crashes and restarts.   *)
(***************************************************************************)
EXTENDS PaperRuntime, PortfolioAudit

Decision == [bar : Bars, action : Actions, jev : BOOLEAN]

EventTypes == {"JEV_EVALUATION", "RISK_EVALUATION", "DECISION", "ORDER",
               "RISK_BLOCK", "KILL_SWITCH"}

BookState == [cash : Nat, position : Nat, applied : SUBSET Decision]

SessionState == [start : Nat, peak : Nat, current : Nat]

\* Types of files and memory; cash and position are never negative.
TypeOK ==
  /\ price \in Paths
  /\ jev \in JevChoices
  /\ ledger \subseteq [type : EventTypes, decision : Decision, approved : BOOLEAN]
  /\ bookFile \in BookState \cup {None}
  /\ sessionFile \in SessionState \cup {None}
  /\ runRecord \in BOOLEAN
  /\ promoted \subseteq Targets
  /\ pc \in {"down", "bar", "evaluate", "lookup", "risk", "decide", "act",
             "save_book", "save_session", "order"}
  /\ bar \in Nat
  /\ armed \in BOOLEAN
  /\ decision \in Decision \cup {None}
  /\ book \in BookState \cup {None}
  /\ session \in SessionState \cup {None}
  /\ logged \in BOOLEAN
  /\ approved \in BOOLEAN
  /\ owed \in BOOLEAN
  /\ crashes \in 0..MaxCrashes

Applied == IF bookFile = None THEN {} ELSE bookFile.applied

Executed == {e.decision : e \in {f \in ledger : f.type = "ORDER"}}
Refused == {e.decision : e \in {f \in ledger : f.type = "RISK_BLOCK"}}

\* The ledger explains the portfolio file and the other way round: an ORDER
\* event has its fill in the file; a fill has its recorded approval and its
\* DECISION, and is never also a RISK_BLOCK; a refusal has a recorded
\* disapproval; and a fill whose ORDER is still missing is the latest bar
\* anything was decided about, so that at most one is.
AuditTrail ==
  /\ Executed \subseteq Applied
  /\ Applied \cap Refused = {}
  /\ \A d \in Applied \cup Refused :
       /\ Has("DECISION", d)
       /\ \E e \in Recorded(d) : e.approved <=> d \in Applied
  /\ \A d \in Applied \ Executed, o \in Applied \cup Refused :
       o.bar < d.bar \/ o = d

\* The orders of a set of decisions, in the order of their bars.
OrdersOf(decisions) ==
  LET place(d) == Cardinality({e \in decisions : e.bar <= d.bar})
  IN [i \in 1..Cardinality(decisions) |->
        PaperOrder(CHOOSE d \in decisions : place(d) = i)]

\* The ORDER events in the order they were appended, which AuditTrail makes
\* the order of their bars.
Orders == OrdersOf(Executed)

\* Replaying the ledger's orders gives the amounts of the portfolio file, at
\* any moment and over any crash; only while a fill's ORDER is owed does the
\* reconciliation report it missing, with the amounts it accounts for, and
\* never a sale of what was not bought or an order recorded twice.  The state
\* is PaperPortfolio.state(): in the file the engine also puts the ledger's
\* identity, with which reconcile_portfolio would refuse it.
FileReconciles ==
  bookFile # None =>
    Reconcile(bookFile, Orders, StartingCash) =
      IF Applied \subseteq Executed THEN {}
      ELSE {"PORTFOLIO_ORDER_MISSING_FROM_LEDGER", "PORTFOLIO_CASH_MISMATCH",
            "PORTFOLIO_POSITION_QUANTITY_MISMATCH"}

\* A recorded approval that has not been executed still fits the portfolio on
\* disk, however many crashes lie between the record and the fill: taking it
\* over instead of evaluating again never breaks a limit or overdraws.
ApprovalStillFits ==
  \A e \in ledger :
    e.type = "RISK_EVALUATION" /\ e.approved /\ e.decision \notin Applied =>
      Affordable(bookFile, Side(e.decision), Quantity, price[e.decision.bar], RiskLimits)

\* The saved session is one that load() accepts, and its start, from which
\* the loss of the day is measured, is the equity the engine first started
\* with: one death before the first save does not move it.
SessionUsable ==
  sessionFile # None =>
    /\ sessionFile.peak >= sessionFile.current
    /\ crashes <= 1 => sessionFile.start = StartingCash

\* Once saved, the session keeps its start, and its peak never falls.
SessionKept ==
  [][sessionFile # None =>
       /\ sessionFile' # None
       /\ sessionFile'.start = sessionFile.start
       /\ sessionFile'.peak >= sessionFile.peak]_vars

Killed == \E e \in ledger : e.type = "KILL_SWITCH"

\* Once a KILL_SWITCH event is in the ledger, no process ever fills or refuses
\* anything again, whether it runs with the kill switch armed or not.
KillStopsTrading == [][Killed => Applied' = Applied /\ Refused' = Refused]_vars

DecidedBars == {d.bar : d \in Applied \cup Refused}

\* A promotion to PAPER was preceded by a run that decided every bar of the
\* data, and nothing promote can find makes it promote to LIVE.
PromotionFollowsTrading ==
  /\ "PAPER" \in promoted => DecidedBars = Bars /\ Bars # {}
  /\ "LIVE" \notin promoted

Trading == INSTANCE PaperTrading WITH
  outcome <- [b \in Bars |->
                IF \E d \in Applied : d.bar = b THEN "filled"
                ELSE IF \E d \in Refused : d.bar = b THEN "refused" ELSE "open"],
  cash <- IF bookFile = None THEN StartingCash ELSE bookFile.cash,
  position <- IF bookFile = None THEN 0 ELSE bookFile.position

\* The loop with its files, crashes and restarts implements PaperTrading: each
\* bar is decided once, in order, a fill and its booking are one step, and no
\* fill exceeds the limits on orders, positions and leverage.
ImplementsPaperTrading == Trading!Spec

\* A decision of a JEV whose risk outcome was recorded but not the decision.
Collided == \E e \in ledger :
  e.type = "RISK_EVALUATION" /\ Collision(e.decision)

\* With finitely many crashes every bar is decided, unless the kill switch
\* stops the loop or a JEV's decision collides with its own risk record.
EveryBarDecided == <>(DecidedBars = Bars \/ Killed \/ (jev /\ Collided))

----------------------------------------------------------------------------
\* Said by the code, and not so.

\* "a crash later in the cycle resumes from the recorded outcome": a decision
\* whose outcome is recorded is not refused as a collision.
RecordedOutcomeResumes ==
  pc = "lookup" /\ Recorded(decision) # {} => ~Collision(decision)

=============================================================================
