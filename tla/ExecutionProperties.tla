------------------------ MODULE ExecutionProperties ------------------------
(***************************************************************************)
(* What the execution layer is to guarantee, stated over its state.        *)
(***************************************************************************)
EXTENDS ExecutionCoordinator, FiniteSetsExt

ErrorKinds == {
  "AUDIT_ORPHAN", "BROKER_ORDER_ID_DUPLICATE", "INTENT_AUDIT_COUNT_MISMATCH",
  "STATE_MISSING_RESULT", "RESULT_AUDIT_MISSING", "UNKNOWN_AUDIT_MISMATCH",
  "RESULT_AUDIT_UNKNOWN", "AUDIT_STATE_MISMATCH", "FILL_AUDIT_REGRESSION",
  "UNKNOWN_HAS_RECONCILIATION", "DUPLICATE_REQUESTED_ORDER_ID",
  "PROVIDER_ORDER_ORPHAN", "PROVIDER_DUPLICATE_KEY", "UNREQUESTED_ORDER",
  "DUPLICATE_RESULT", "UNBOUND_ORDER", "STATE_CONFLICT", "OPERATOR"}

Errors == ErrorKinds \X (Keys \cup OrderIds \cup {None})

Labels == {"idle", "authorize", "read_ledger", "read_store", "assert_halt",
           "check_halt", "lookup", "prepare", "seed_state", "seed_limits",
           "commit_intent", "reauthorize", "acquire", "contact", "record",
           "read_reason", "clear", "ask", "local_keys", "match", "adopt",
           "settle", "mutate_state", "mutate_limits"}

(* Every table, ledger and call holds values of the kinds the code writes. *)
StoreTypeOK ==
  /\ intents \in [Keys -> Intents \cup {None}]
  /\ audit \in [Keys -> Seq(Events)]
  /\ compliance \subseteq Keys
  /\ halt \in [active : BOOLEAN, reason : SUBSET Errors]
  /\ haltAudit \subseteq
       {"EXECUTION_HALT_ASSERTED", "EXECUTION_HALT_CLEARED"} \X SUBSET Errors
  /\ active \in Auths \cup {None}
  /\ activated \subseteq Auths /\ revoked \subseteq Auths
  /\ risk \in Basis \cup {None}
  /\ limits \in Bounds \cup {None}

Calls == [op : {"none", "submit", "prepare", "enforce", "clear_halt", "recover",
                "reconcile", "discover", "mutate_state", "mutate_limits"},
          key : Keys \cup {None}, auth : Auths \cup {None},
          approval : Approvals \cup {None},
          view : [Keys -> Seq(Events)] \cup {None},
          basis : Basis \cup Bounds \cup {None},
          errors : SUBSET Errors, asked : SUBSET (Keys \cup OrderIds),
          items : SUBSET Items, item : Items \cup {None},
          seen : SUBSET (Keys \cup OrderIds \cup {None})]

TypeOK ==
  /\ StoreTypeOK
  /\ pc \in [Workers -> Labels]
  /\ call \in [Workers -> Calls]
  /\ venue \in [Keys -> BrokerResults \cup {None}]
  /\ contacts \in [Keys -> Nat]
  /\ expired \subseteq Auths

-----------------------------------------------------------------------------
(* Safety *)

(* The ledger and the intent table tell the same story in every state any  *)
(* process can observe: an intent has exactly one CREATED event, it comes   *)
(* first, and the last event carries the very result the row holds          *)
(* (README "commit or roll back as one SQLite transaction").                *)
AuditMatchesState ==
  \A k \in Keys :
    IF intents[k] = None THEN audit[k] = <<>>
    ELSE /\ audit[k] # <<>>
         /\ \A i \in DOMAIN audit[k] :
              /\ audit[k][i].type = "EXECUTION_INTENT_CREATED" <=> i = 1
              /\ audit[k][i].result = None <=> i = 1
         /\ audit[k][Len(audit[k])].result = intents[k].result

(* A revoked authorization never becomes active again, however activations  *)
(* and revocations interleave.                                              *)
RevokedStaysRevoked == revoked \subseteq activated /\ active \notin revoked

(* The broker is only ever called for a request that was allowed, audited    *)
(* and durable before the call: what a crash loses can be looked up again.  *)
WriteAhead ==
  \A k \in Keys : contacts[k] > 0 =>
    /\ k \in compliance \ Prohibited
    /\ intents[k] # None
    /\ Live => intents[k].auth \in activated

(* One key is sent to the broker at most once, whatever crashes and retries *)
(* happen in between (H3).                                                  *)
SingleContact == \A k \in Keys : contacts[k] <= 1

(* The quantity an intent says was executed. *)
Executed(k) ==
  IF Status(k) = "FILLED" THEN Qty ELSE Filled(intents[k].result)

(* The aggregate LIVE position is the position it started from plus every   *)
(* executed quantity, no matter how fills, late answers, duplicate answers  *)
(* and the risk owner's deposits interleave (H4).                           *)
RiskEqualsExecuted ==
  risk # None =>
    risk.state.position = ProviderSnapshot.position
      + MapThenSumSet(Executed, LocalKeys \ Sells)
      - MapThenSumSet(Executed, LocalKeys \cap Sells)

(* While a LIVE order is pending, the limits it was approved under are the  *)
(* limits in force: a limit change never slips between approval, submission *)
(* and outcome.                                                             *)
LimitsPinned ==
  \A k \in PendingKeys : intents[k].auth # None =>
    /\ limits # None
    /\ limits.version = intents[k].limitsVersion
    /\ limits.value = intents[k].approval.limits

(* No race leaves a durable result from which the provider's present result *)
(* could not be recorded: reconciliation can always catch up.               *)
CanCatchUp ==
  \A k \in LocalKeys : venue[k] # None => Replaces(intents[k].result, venue[k])

(* With a provider that reports known outcomes, an inspection that read     *)
(* everything at once would never find a discrepancy.                       *)
AlwaysHealthy == Discrepancies(audit) = {}

(* An order of this system is never taken for an orphan, although it may be *)
(* placed while provider orders and local keys are being compared.          *)
NoFalseOrphan ==
  \A k \in Keys :
    /\ <<"PROVIDER_ORDER_ORPHAN", k>> \notin halt.reason
    /\ \A w \in Workers : <<"PROVIDER_ORDER_ORPHAN", k>> \notin call[w].errors

(* Every halt that is not the operator's own has its event in the ledger,   *)
(* and so has every halt that was ever cleared.                             *)
HaltsAudited ==
  LET operator == {<<"OPERATOR", None>>} IN
  /\ halt.active => \/ halt.reason = operator
                    \/ <<"EXECUTION_HALT_ASSERTED", halt.reason>> \in haltAudit
  /\ \A h \in haltAudit : h[1] = "EXECUTION_HALT_CLEARED" =>
       \/ h[2] = operator
       \/ <<"EXECUTION_HALT_ASSERTED", h[2]>> \in haltAudit

-----------------------------------------------------------------------------
(* Liveness *)

(* An order that ended at the provider is eventually recorded as it ended:  *)
(* no lost answer, crash, stale answer or halt leaves it unresolved.        *)
OutcomesBecomeKnown ==
  \A k \in Keys :
    (venue[k] # None /\ venue[k].status \in Terminal)
      ~> (intents[k] # None /\ intents[k].result = venue[k])

-----------------------------------------------------------------------------
(* Action properties *)

(* A LIVE intent only comes into being while no halt is active, under an    *)
(* authorization that is active and was never revoked, and against exactly  *)
(* the risk basis it was approved on: the checks made earlier in the call   *)
(* are not enough.                                                          *)
IntentsUnderLiveAuthority ==
  [][\A k \in Keys : Live /\ intents[k] = None /\ intents'[k] # None =>
       /\ ~halt.active
       /\ intents'[k].auth = active /\ active \in activated \ revoked
       /\ intents'[k].approval = [state |-> risk.state, limits |-> limits.value]
    ]_vars

(* Revocation never strands an order whose outcome the store does not know: *)
(* an intent without a result is one the broker was not called for.         *)
RevocationLeavesNoExposure ==
  [][\A a \in revoked' \ revoked : \A k \in LocalKeys :
       intents[k].auth = a /\ intents[k].result = None => contacts[k] = 0]_vars

-----------------------------------------------------------------------------
(* Refinement *)

Stage(k) ==
  CASE Status(k) = "UNKNOWN"  -> "unknown"
    [] Status(k) \in Terminal -> Status(k)
    [] OTHER                  -> "working"

LifeOf(k) ==
  IF intents[k] = None THEN None
  ELSE [stage  |-> Stage(k),
        order  |-> IF intents[k].result = None THEN None
                   ELSE intents[k].result.order,
        filled |-> Filled(intents[k].result),
        auth   |-> intents[k].auth]

Lifecycle == INSTANCE OrderLifecycle WITH orders <- [k \in Keys |-> LifeOf(k)]

ASSUME NoneIsNoOrder == None \notin Lifecycle!Orders

(* The intent table implements the order lifecycle. *)
ImplementsLifecycle == Lifecycle!Spec

=============================================================================
