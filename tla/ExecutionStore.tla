--------------------------- MODULE ExecutionStore ---------------------------
(***************************************************************************)
(* The one SQLite file that holds execution intents, the halt flag, the    *)
(* active authorization, the aggregate LIVE risk basis and the audit       *)
(* ledger (execution.py, ledger.py and the transactions of                 *)
(* coordinator.py).                                                        *)
(*                                                                         *)
(* A BEGIN IMMEDIATE ... COMMIT block is one action: another process sees  *)
(* all of it or nothing, and a crash inside it leaves nothing.  A block    *)
(* that raises rolls back and changes nothing.                             *)
(*                                                                         *)
(* The ledger is kept per key, since only the order of one key's events is *)
(* ever read back; its other events have ids of their own and are sets.    *)
(***************************************************************************)
EXTENDS OrderResults, Sequences, FiniteSets

CONSTANTS Live,       \* BrokerMode.LIVE, or a broker that moves no money
          Auths,      \* authorization ids
          Sells,      \* the keys whose order is a SELL; the others BUY
          Prohibited  \* the keys the compliance policy does not ALLOW

ASSUME ModeAssumption == Live \in BOOLEAN
ASSUME AuthsAssumption == None \notin Auths
ASSUME SellsAssumption == Sells \subseteq Keys

VARIABLES
  intents,     \* execution_intents: key -> row or None
  audit,       \* key -> the key's EXECUTION_* ledger events, in order
  compliance,  \* keys with a COMPLIANCE_DECISION event
  halt,        \* execution_halt: active flag and reason (a set of errors)
  haltAudit,   \* EXECUTION_HALT_ASSERTED / _CLEARED events, as <<type, reason>>
  active,      \* execution_authorization_state: active id or None
  activated,   \* ids with an EXECUTION_AUTHORIZATION_ACTIVATED event
  revoked,     \* ids with an EXECUTION_AUTHORIZATION_REVOKED event
  risk,        \* live_risk_state: snapshot and version, or None
  limits       \* live_risk_limits: value and version, or None

storeVars == <<intents, audit, compliance, halt, haltAudit, active, activated,
               revoked, risk, limits>>

\* A risk snapshot: only the two fields a fill moves are told apart.
Snapshots == [position : Nat, cash : Nat]
\* An approved RiskDecision is the state and limits it was evaluated against.
Approvals == [state : Snapshots, limits : Nat]

ResultEvents == {"EXECUTION_RESULT", "EXECUTION_UNKNOWN",
                 "EXECUTION_RECOVERED", "EXECUTION_RECONCILED"}

Events == [type : ResultEvents \cup {"EXECUTION_INTENT_CREATED"},
           result : BrokerResults \cup {None}]

Intents == [result : BrokerResults \cup {None}, auth : Auths \cup {None},
            approval : Approvals \cup {None},
            stateVersion : Nat \cup {None}, limitsVersion : Nat \cup {None}]

\* Rows of live_risk_state and live_risk_limits.
Basis == [state : Snapshots, version : Nat]
Bounds == [value : Nat, version : Nat]

ASSUME NoneIsNoRow == None \notin Approvals \cup Intents \cup Basis \cup Bounds

-----------------------------------------------------------------------------
(* Queries *)

LocalKeys == {k \in Keys : intents[k] # None}

\* The status column: written with the result, UNKNOWN until there is one.
Status(k) ==
  IF intents[k].result = None THEN "UNKNOWN" ELSE intents[k].result.status

\* Mutant: an intent without a result is taken for one never sent.
UnknownKeys_OnlyAnswered ==
  {k \in LocalKeys : intents[k].result # None /\ Status(k) = "UNKNOWN"}

UnknownKeys == {k \in LocalKeys : Status(k) = "UNKNOWN"}
PendingKeys == {k \in LocalKeys : Status(k) \notin Terminal}

ActiveLiveAuthority == \E k \in PendingKeys : intents[k].auth # None

Authorized(a) == active = a

-----------------------------------------------------------------------------
(* Intent creation *)

NewIntent(a, e) ==
  [result |-> None, auth |-> a, approval |-> e,
   stateVersion  |-> IF Live THEN risk.version ELSE None,
   limitsVersion |-> IF Live THEN limits.version ELSE None]

\* Mutant: the halt is only checked when the call starts.
AuthorityHeld_NoHaltCheck(a, e) ==
  /\ risk # None /\ limits # None
  /\ e.state = risk.state
  /\ e.limits = limits.value
  /\ Authorized(a)

\* The authority the transaction demands before it touches a LIVE intent:
\* nothing moved since the approval, the authorization is active, no halt.
AuthorityHeld(a, e) ==
  /\ risk # None /\ limits # None
  /\ e.state = risk.state
  /\ e.limits = limits.value
  /\ Authorized(a)
  /\ ~halt.active

\* An existing row is only handed back to a caller with the same binding.
SameBinding(k, a, e) ==
  intents[k] # None =>
    intents[k] = [NewIntent(a, e) EXCEPT !.result = intents[k].result]

CanBind(k, a, e) == (Live => AuthorityHeld(a, e)) /\ SameBinding(k, a, e)

\* _record_in_connection: insert the row, or return the one that is there.
BindIntent(k, a, e) ==
  intents' = IF intents[k] = None
             THEN [intents EXCEPT ![k] = NewIntent(a, e)] ELSE intents

\* The transaction of prepare(): decision, intent and CREATED event together.
RecordIntent(k, a, e) ==
  /\ CanBind(k, a, e)
  /\ BindIntent(k, a, e)
  /\ audit' = IF intents[k] = None
              THEN [audit EXCEPT ![k] = Append(@,
                     [type |-> "EXECUTION_INTENT_CREATED", result |-> None])]
              ELSE audit
  /\ compliance' = compliance \cup {k}
  /\ UNCHANGED <<halt, haltAudit, active, activated, revoked, risk, limits>>

\* The same transaction for a request the policy refuses: only the decision.
RecordRefusal(k) ==
  /\ compliance' = compliance \cup {k}
  /\ UNCHANGED <<intents, audit, halt, haltAudit, active, activated, revoked,
                 risk, limits>>

\* The second acquisition, just before the broker call.
AcquireAuthority(k, a, e) ==
  /\ CanBind(k, a, e)
  /\ BindIntent(k, a, e)
  /\ UNCHANGED <<audit, compliance, halt, haltAudit, active, activated,
                 revoked, risk, limits>>

-----------------------------------------------------------------------------
(* Results *)

\* Mutant: the cumulative quantity is taken for the quantity of this fill.
FillDelta_Cumulative(k, r) ==
  IF intents[k].auth = None \/ r.filled = None THEN 0 ELSE r.filled

\* What r adds to the fill of k that the aggregate risk state has not seen.
FillDelta(k, r) ==
  LET prev == Filled(intents[k].result)
  IN  IF intents[k].auth = None \/ r.filled = None \/ r.filled <= prev
      THEN 0 ELSE r.filled - prev

SignedDelta(k, r) == IF k \in Sells THEN -FillDelta(k, r) ELSE FillDelta(k, r)

\* The snapshot constructor refuses negative amounts.
FillFits(k, r) ==
  FillDelta(k, r) > 0 =>
    /\ risk # None
    /\ risk.state.position + SignedDelta(k, r) >= 0
    /\ risk.state.cash - SignedDelta(k, r) >= 0

\* Mutant: position and cash move the wrong way.
AfterFill_Reversed(k, r) ==
  IF FillDelta(k, r) = 0 THEN risk
  ELSE [state |-> [position |-> risk.state.position - SignedDelta(k, r),
                   cash     |-> risk.state.cash + SignedDelta(k, r)],
        version |-> risk.version + 1]

AfterFill(k, r) ==
  IF FillDelta(k, r) = 0 THEN risk
  ELSE [state |-> [position |-> risk.state.position + SignedDelta(k, r),
                   cash     |-> risk.state.cash - SignedDelta(k, r)],
        version |-> risk.version + 1]

\* How _commit_result ends.  Event ids are digests of type, key and result,
\* so an event already there means this very result was recorded before: the
\* transaction rolls back, the call still succeeds.
ResultOutcome(k, r, type) ==
  LET prev == intents[k].result IN
  CASE ~(QuantitiesFit(prev, r) /\ SameOrder(prev, r)) -> "invalid"
    [] QuantitiesFit(prev, r) /\ SameOrder(prev, r)
         /\ ~TransitionAllowed(prev, r) -> "conflict"
    [] Replaces(prev, r) /\ ~FillFits(k, r) -> "invalid"
    [] Replaces(prev, r) /\ FillFits(k, r)
         /\ \E i \in DOMAIN audit[k] :
              audit[k][i] = [type |-> type, result |-> r] -> "recorded"
    [] OTHER -> "committed"

\* Mutant: the audit event is appended in a transaction of its own, first.
CommitResult_AuditFirst(k, r, type) ==
  /\ audit' = [audit EXCEPT ![k] = Append(@, [type |-> type, result |-> r])]
  /\ IF ResultOutcome(k, r, type) = "committed"
     THEN intents' = [intents EXCEPT ![k].result = r] /\ risk' = AfterFill(k, r)
     ELSE UNCHANGED <<intents, risk>>
  /\ UNCHANGED <<compliance, halt, haltAudit, active, activated, revoked,
                 limits>>

\* Result, fill and audit event in one transaction (H4).
CommitResult(k, r, type) ==
  \/ /\ ResultOutcome(k, r, type) = "committed"
     /\ intents' = [intents EXCEPT ![k].result = r]
     /\ risk' = AfterFill(k, r)
     /\ audit' = [audit EXCEPT ![k] = Append(@, [type |-> type, result |-> r])]
     /\ UNCHANGED <<compliance, halt, haltAudit, active, activated, revoked,
                    limits>>
  \/ /\ ResultOutcome(k, r, type) # "committed"
     /\ UNCHANGED storeVars

-----------------------------------------------------------------------------
(* Halt *)

\* Mutant: only the flag is written, as store.halt does.
AssertHaltFor_Unaudited(errors) ==
  /\ halt' = [active |-> TRUE, reason |-> errors]
  /\ UNCHANGED <<intents, audit, compliance, haltAudit, active, activated,
                 revoked, risk, limits>>

\* The flag and its event; a reason already in the ledger is not repeated.
AssertHaltFor(errors) ==
  /\ halt' = [active |-> TRUE, reason |-> errors]
  /\ haltAudit' = haltAudit \cup {<<"EXECUTION_HALT_ASSERTED", errors>>}
  /\ UNCHANGED <<intents, audit, compliance, active, activated, revoked, risk,
                 limits>>

\* clear_halt's transaction: it clears whatever halt is active by then.
ClearHaltOf(reason) ==
  /\ halt' = [halt EXCEPT !.active = FALSE]
  /\ haltAudit' = haltAudit \cup {<<"EXECUTION_HALT_CLEARED", reason>>}
  /\ UNCHANGED <<intents, audit, compliance, active, activated, revoked, risk,
                 limits>>

-----------------------------------------------------------------------------
(* Authorizations *)

\* Mutant: a second activation event is accepted.
ActivateAuthorization_Again(a) ==
  /\ active' = a
  /\ activated' = activated \cup {a}
  /\ UNCHANGED <<intents, audit, compliance, halt, haltAudit, revoked, risk,
                 limits>>

\* The event id is unique, so one authorization is activated at most once.
ActivateAuthorization(a) ==
  /\ a \notin activated
  /\ active' = a
  /\ activated' = activated \cup {a}
  /\ UNCHANGED <<intents, audit, compliance, halt, haltAudit, revoked, risk,
                 limits>>

\* A recorded UNKNOWN outcome under the authorization blocks its revocation.
RevocationBlocked(a) ==
  \E k \in UnknownKeys : intents[k].auth = a /\ intents[k].result # None

RevokeAuthorization(a) ==
  /\ active = a
  /\ a \notin revoked
  /\ ~RevocationBlocked(a)
  /\ active' = None
  /\ revoked' = revoked \cup {a}
  /\ UNCHANGED <<intents, audit, compliance, halt, haltAudit, activated, risk,
                 limits>>

-----------------------------------------------------------------------------
(* LIVE risk basis *)

SeedRiskState(snapshot) ==
  /\ risk' = IF risk = None THEN [state |-> snapshot, version |-> 0] ELSE risk
  /\ UNCHANGED <<intents, audit, compliance, halt, haltAudit, active,
                 activated, revoked, limits>>

SeedRiskLimits(value) ==
  /\ limits' = IF limits = None THEN [value |-> value, version |-> 0]
               ELSE limits
  /\ UNCHANGED <<intents, audit, compliance, halt, haltAudit, active,
                 activated, revoked, risk>>

\* Mutants: the last writer wins; limits move under a pending order.
RiskStateMutable_LastWriterWins(expected) ==
  ~ActiveLiveAuthority /\ risk # None

RiskLimitsMutable_Anytime(expected) ==
  limits # None /\ limits.version = expected

\* Optimistic concurrency, and no move under a live order.
RiskStateMutable(expected) ==
  ~ActiveLiveAuthority /\ risk # None /\ risk.version = expected

RiskLimitsMutable(expected) ==
  ~ActiveLiveAuthority /\ limits # None /\ limits.version = expected

MutateRiskState(snapshot, expected) ==
  /\ RiskStateMutable(expected)
  /\ risk' = [state |-> snapshot, version |-> expected + 1]
  /\ UNCHANGED <<intents, audit, compliance, halt, haltAudit, active,
                 activated, revoked, limits>>

MutateRiskLimits(value, expected) ==
  /\ RiskLimitsMutable(expected)
  /\ limits' = [value |-> value, version |-> expected + 1]
  /\ UNCHANGED <<intents, audit, compliance, halt, haltAudit, active,
                 activated, revoked, risk>>

-----------------------------------------------------------------------------

StoreInit ==
  /\ intents = [k \in Keys |-> None]
  /\ audit = [k \in Keys |-> <<>>]
  /\ compliance = {}
  /\ halt = [active |-> FALSE, reason |-> {}]
  /\ haltAudit = {}
  /\ active = None
  /\ activated = {}
  /\ revoked = {}
  /\ risk = None
  /\ limits = None

=============================================================================
