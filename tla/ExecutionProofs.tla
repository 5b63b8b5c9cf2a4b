--------------------------- MODULE ExecutionProofs ---------------------------
(***************************************************************************)
(* Proofs about the execution layer, for any number of keys, orders,       *)
(* authorizations and processes.                                           *)
(*                                                                         *)
(* Every step of the system is a stutter or one transaction of the store   *)
(* (StoreStep), so what concerns the tables and the ledger is proved once  *)
(* per transaction; CallsBound carries what a call in progress knows from  *)
(* one of its steps to the next.                                           *)
(***************************************************************************)
EXTENDS ExecutionProperties, TLAPS

-----------------------------------------------------------------------------
(* The transactions *)

(* One transaction of the store, with arguments of the right kinds; results *)
(* are only committed, and authority only acquired, for keys with a row.    *)
StoreStep ==
  \/ UNCHANGED storeVars
  \/ \E k \in Keys, a \in Auths \cup {None}, e \in Approvals \cup {None} :
       /\ IF Live THEN a \in Auths /\ e \in Approvals ELSE a = None
       /\ RecordIntent(k, a, e)
  \/ \E k \in LocalKeys, a \in Auths \cup {None}, e \in Approvals \cup {None} :
       AcquireAuthority(k, a, e)
  \/ \E k \in LocalKeys, r \in BrokerResults, type \in ResultEvents :
       CommitResult(k, r, type)
  \/ \E k \in Keys : RecordRefusal(k)
  \/ \E errors \in SUBSET Errors :
       \/ AssertHaltFor(errors) \/ ClearHaltOf(errors)
       \/ /\ halt' = [active |-> TRUE, reason |-> errors]
          /\ UNCHANGED <<intents, audit, compliance, haltAudit, active,
                         activated, revoked, risk, limits>>
  \/ \E a \in Auths : ActivateAuthorization(a) \/ RevokeAuthorization(a)
  \/ SeedRiskState(ProviderSnapshot) \/ SeedRiskLimits(EngineLimits)
  \/ \E s \in Snapshots, v \in Nat : MutateRiskState(s, v)
  \/ \E l, v \in Nat : MutateRiskLimits(l, v)

(* None is no row, no result and no authorization. *)
LEMMA NoneIsNothing ==
  /\ None \notin BrokerResults /\ None \notin Auths /\ None \notin Int
  /\ None \notin Keys \cup OrderIds
  /\ None \notin Intents /\ None \notin Approvals
  /\ None \notin Basis /\ None \notin Bounds
BY NoneAssumption, NoneIsNoResult, NoneIsNoRow, AuthsAssumption
   DEF BrokerResults

(* Each transaction of the store keeps the types of its tables. *)
LEMMA BindIntentTyped ==
  ASSUME StoreTypeOK, NEW k \in Keys, NEW a \in Auths \cup {None},
         NEW e \in Approvals \cup {None}, CanBind(k, a, e), BindIntent(k, a, e)
  PROVE  intents' \in [Keys -> Intents \cup {None}]
<1>1. NewIntent(a, e) \in Intents
  BY NoneIsNothing DEF StoreTypeOK, NewIntent, Intents, Basis, Bounds, CanBind,
     AuthorityHeld
<1> QED BY <1>1 DEF StoreTypeOK, BindIntent

(* Inserting an intent with its audit event keeps the types of the tables. *)
LEMMA RecordIntentTyped ==
  ASSUME StoreTypeOK, NEW k \in Keys, NEW a \in Auths \cup {None},
         NEW e \in Approvals \cup {None}, RecordIntent(k, a, e)
  PROVE  StoreTypeOK'
<1> DEFINE created == [type |-> "EXECUTION_INTENT_CREATED", result |-> None]
<1>1. intents' \in [Keys -> Intents \cup {None}]
  BY BindIntentTyped DEF RecordIntent
<1>2. audit' \in [Keys -> Seq(Events)]
  <2>1. created \in Events BY DEF Events
  <2>2. Append(audit[k], created) \in Seq(Events)
    BY <2>1 DEF StoreTypeOK
  <2> QED BY <2>2 DEF RecordIntent, StoreTypeOK
<1> QED BY <1>1, <1>2 DEF RecordIntent, StoreTypeOK

(* A fill that fits leaves a risk state without negative amounts. *)
LEMMA AfterFillTyped ==
  ASSUME StoreTypeOK, NEW k \in LocalKeys, NEW r \in BrokerResults, FillFits(k, r)
  PROVE  AfterFill(k, r) \in Basis \cup {None}
<1>1. /\ Qty \in Nat
      /\ r.filled \in (0..Qty) \cup {None}
      /\ Filled(intents[k].result) \in 0..Qty
  <2>1. intents[k] \in Intents BY DEF LocalKeys, StoreTypeOK
  <2> QED BY <2>1, QtyAssumption, NoneIsNothing
          DEF Intents, BrokerResults, Results, Filled
<1>2. FillDelta(k, r) \in Nat
  BY <1>1, NoneIsNothing DEF FillDelta
<1>3. CASE FillDelta(k, r) = 0 BY <1>3 DEF AfterFill, StoreTypeOK
<1>4. CASE FillDelta(k, r) > 0
  <2>1. SignedDelta(k, r) \in Int BY <1>2 DEF SignedDelta
  <2>2. risk \in Basis /\ risk.version \in Nat /\ risk.state \in Snapshots
    BY <1>4 DEF FillFits, StoreTypeOK, Basis
  <2>3. risk.state.position \in Nat /\ risk.state.cash \in Nat
    BY <2>2 DEF Snapshots
  <2>4. /\ risk.state.position + SignedDelta(k, r) \in Nat
        /\ risk.state.cash - SignedDelta(k, r) \in Nat
    BY <1>4, <2>1, <2>3 DEF FillFits
  <2> QED BY <1>4, <2>2, <2>4 DEF AfterFill, Basis, Snapshots
<1> QED BY <1>2, <1>3, <1>4

(* Committing a result keeps the types of the tables. *)
LEMMA CommitResultTyped ==
  ASSUME StoreTypeOK, NEW k \in LocalKeys, NEW r \in BrokerResults,
         NEW type \in ResultEvents, CommitResult(k, r, type)
  PROVE  StoreTypeOK'
<1>1. CASE UNCHANGED storeVars BY <1>1 DEF storeVars, StoreTypeOK
<1>2. CASE ResultOutcome(k, r, type) = "committed"
  <2> DEFINE event == [type |-> type, result |-> r]
  <2>1. k \in Keys /\ intents[k] \in Intents BY DEF LocalKeys, StoreTypeOK
  <2>2. /\ intents' = [intents EXCEPT ![k].result = r]
        /\ risk' = AfterFill(k, r)
        /\ audit' = [audit EXCEPT ![k] = Append(@, event)]
        /\ UNCHANGED <<compliance, halt, haltAudit, active, activated, revoked,
                       limits>>
    BY <1>2 DEF CommitResult
  <2>3. intents' \in [Keys -> Intents \cup {None}]
    BY <2>1, <2>2 DEF StoreTypeOK, Intents
  <2>4. audit' \in [Keys -> Seq(Events)]
    <3>1. event \in Events BY DEF Events
    <3>2. Append(audit[k], event) \in Seq(Events)
      BY <2>1, <3>1 DEF StoreTypeOK
    <3> QED BY <2>2, <3>2 DEF StoreTypeOK
  <2>5. risk' \in Basis \cup {None}
    <3>1. CASE FillFits(k, r) BY <2>2, <3>1, AfterFillTyped
    <3>2. CASE ~FillFits(k, r)
      BY <1>2, <3>2 DEF ResultOutcome, Replaces
    <3> QED BY <3>1, <3>2
  <2> QED BY <2>2, <2>3, <2>4, <2>5 DEF StoreTypeOK
<1> QED BY <1>1, <1>2 DEF CommitResult

(* So does every transaction. *)
LEMMA StoreStepTyped == ASSUME StoreTypeOK, StoreStep PROVE StoreTypeOK'
<1>1. CASE UNCHANGED storeVars BY <1>1 DEF storeVars, StoreTypeOK
<1>2. ASSUME NEW k \in Keys, NEW a \in Auths \cup {None},
             NEW e \in Approvals \cup {None}, RecordIntent(k, a, e)
      PROVE  StoreTypeOK'
  BY <1>2, RecordIntentTyped
<1>3. ASSUME NEW k \in LocalKeys, NEW a \in Auths \cup {None},
             NEW e \in Approvals \cup {None}, AcquireAuthority(k, a, e)
      PROVE  StoreTypeOK'
  BY <1>3, BindIntentTyped DEF AcquireAuthority, StoreTypeOK, LocalKeys
<1>4. ASSUME NEW k \in LocalKeys, NEW r \in BrokerResults,
             NEW type \in ResultEvents, CommitResult(k, r, type)
      PROVE  StoreTypeOK'
  BY <1>4, CommitResultTyped
<1>5. ASSUME NEW k \in Keys, RecordRefusal(k) PROVE StoreTypeOK'
  BY <1>5 DEF RecordRefusal, StoreTypeOK
<1>6. ASSUME NEW errors \in SUBSET Errors,
             \/ AssertHaltFor(errors) \/ ClearHaltOf(errors)
             \/ /\ halt' = [active |-> TRUE, reason |-> errors]
                /\ UNCHANGED <<intents, audit, compliance, haltAudit, active,
                               activated, revoked, risk, limits>>
      PROVE  StoreTypeOK'
  <2> DEFINE kinds == {"EXECUTION_HALT_ASSERTED", "EXECUTION_HALT_CLEARED"}
  <2>1. halt' \in [active : BOOLEAN, reason : SUBSET Errors]
    <3>1. halt \in [active : BOOLEAN, reason : SUBSET Errors] BY DEF StoreTypeOK
    <3>2. [halt EXCEPT !.active = FALSE] \in [active : BOOLEAN, reason : SUBSET Errors]
      BY <3>1
    <3>3. [active |-> TRUE, reason |-> errors]
            \in [active : BOOLEAN, reason : SUBSET Errors]
      OBVIOUS
    <3> QED BY <1>6, <3>2, <3>3 DEF AssertHaltFor, ClearHaltOf
  <2>2. haltAudit' \subseteq kinds \X SUBSET Errors
    <3>1. \A kind \in kinds : <<kind, errors>> \in kinds \X SUBSET Errors
      OBVIOUS
    <3>2. haltAudit \subseteq kinds \X SUBSET Errors BY DEF StoreTypeOK
    <3>3. haltAudit' \subseteq haltAudit \cup {<<kind, errors>> : kind \in kinds}
      BY <1>6 DEF AssertHaltFor, ClearHaltOf
    <3> HIDE DEF kinds
    <3> QED BY <3>1, <3>2, <3>3
  <2>3. UNCHANGED <<intents, audit, compliance, active, activated, revoked,
                    risk, limits>>
    BY <1>6 DEF AssertHaltFor, ClearHaltOf
  <2> QED BY <2>1, <2>2, <2>3 DEF StoreTypeOK
<1>7. ASSUME NEW a \in Auths, ActivateAuthorization(a) \/ RevokeAuthorization(a)
      PROVE  StoreTypeOK'
  BY <1>7 DEF ActivateAuthorization, RevokeAuthorization, StoreTypeOK
<1>8. CASE SeedRiskState(ProviderSnapshot)
  BY <1>8, ProviderAssumption DEF SeedRiskState, StoreTypeOK, Basis
<1>9. CASE SeedRiskLimits(EngineLimits)
  BY <1>9, ProviderAssumption DEF SeedRiskLimits, StoreTypeOK, Bounds
<1>10. ASSUME NEW s \in Snapshots, NEW v \in Nat, MutateRiskState(s, v)
       PROVE  StoreTypeOK'
  BY <1>10 DEF MutateRiskState, StoreTypeOK, Basis
<1>11. ASSUME NEW l \in Nat, NEW v \in Nat, MutateRiskLimits(l, v)
       PROVE  StoreTypeOK'
  BY <1>11 DEF MutateRiskLimits, StoreTypeOK, Bounds
<1> QED BY <1>1, <1>2, <1>3, <1>4, <1>5, <1>6, <1>7, <1>8, <1>9, <1>10, <1>11
        DEF StoreStep

-----------------------------------------------------------------------------
(* What every transaction preserves *)

(* A committed result replaces the row's result and extends its trail.      *)
LEMMA CommitResultAudit ==
  ASSUME StoreTypeOK, AuditMatchesState, NEW k \in LocalKeys,
         NEW r \in BrokerResults, NEW type \in ResultEvents,
         CommitResult(k, r, type)
  PROVE  AuditMatchesState'
<1>1. CASE UNCHANGED storeVars BY <1>1 DEF storeVars, AuditMatchesState
<1>2. CASE ResultOutcome(k, r, type) = "committed"
  <2> DEFINE event == [type |-> type, result |-> r]
             trail == audit[k]
  <2>1. /\ k \in Keys /\ intents[k] \in Intents
        /\ trail \in Seq(Events) /\ trail # <<>> /\ event \in Events
    BY NoneIsNothing DEF LocalKeys, StoreTypeOK, AuditMatchesState, Events
  <2>2. /\ intents' = [intents EXCEPT ![k].result = r]
        /\ audit' = [audit EXCEPT ![k] = Append(@, event)]
    BY <1>2 DEF CommitResult, ResultOutcome, storeVars
  <2>3. intents'[k] \in Intents /\ intents'[k] # None /\ intents'[k].result = r
    BY <2>1, <2>2, NoneIsNothing DEF StoreTypeOK, Intents
  <2>4. /\ audit'[k] = Append(trail, event)
        /\ Len(audit'[k]) = Len(trail) + 1 /\ Len(trail) >= 1
        /\ audit'[k][Len(trail) + 1] = event
        /\ \A i \in 1..Len(trail) : audit'[k][i] = trail[i]
    BY <2>1, <2>2 DEF StoreTypeOK
  <2>5. event.type # "EXECUTION_INTENT_CREATED" /\ event.result # None
    BY NoneIsNothing DEF ResultEvents
  <2>6. \A i \in DOMAIN audit'[k] :
          /\ audit'[k][i].type = "EXECUTION_INTENT_CREATED" <=> i = 1
          /\ audit'[k][i].result = None <=> i = 1
    <3> SUFFICES ASSUME NEW i \in 1..(Len(trail) + 1)
                 PROVE  /\ audit'[k][i].type = "EXECUTION_INTENT_CREATED" <=> i = 1
                        /\ audit'[k][i].result = None <=> i = 1
      BY <2>1, <2>4
    <3>1. CASE i = Len(trail) + 1 BY <2>4, <2>5, <3>1
    <3>2. CASE i \in 1..Len(trail)
      BY <2>1, <2>4, <3>2, NoneIsNothing DEF AuditMatchesState, LocalKeys
    <3> QED BY <2>1, <3>1, <3>2
  <2>7. ASSUME NEW j \in Keys \ {k}
        PROVE  intents'[j] = intents[j] /\ audit'[j] = audit[j]
    BY <2>1, <2>2 DEF StoreTypeOK
  <2>8. audit'[k] # <<>> /\ audit'[k][Len(audit'[k])].result = intents'[k].result
    BY <2>1, <2>3, <2>4
  <2> QED BY <2>1, <2>3, <2>6, <2>7, <2>8 DEF AuditMatchesState
<1> QED BY <1>1, <1>2 DEF CommitResult

(* A new intent and its CREATED event appear together.                      *)
LEMMA RecordIntentAudit ==
  ASSUME StoreTypeOK, AuditMatchesState, NEW k \in Keys,
         NEW a \in Auths \cup {None}, NEW e \in Approvals \cup {None},
         RecordIntent(k, a, e)
  PROVE  AuditMatchesState'
<1>1. CASE intents[k] # None
  BY <1>1 DEF RecordIntent, BindIntent, AuditMatchesState
<1>2. CASE intents[k] = None
  <2> DEFINE created == [type |-> "EXECUTION_INTENT_CREATED", result |-> None]
  <2>1. /\ intents' = [intents EXCEPT ![k] = NewIntent(a, e)]
        /\ audit' = [audit EXCEPT ![k] = Append(@, created)]
        /\ audit[k] = <<>>
    BY <1>2 DEF RecordIntent, BindIntent, AuditMatchesState
  <2>2. NewIntent(a, e) # None /\ NewIntent(a, e).result = None
    <3>1. NewIntent(a, e) \in Intents
      BY NoneIsNothing DEF StoreTypeOK, NewIntent, Intents, Basis, Bounds,
         CanBind, AuthorityHeld, RecordIntent
    <3> QED BY <3>1, NoneIsNothing DEF NewIntent
  <2>3. intents'[k] = NewIntent(a, e) /\ audit'[k] = <<created>>
    BY <2>1 DEF StoreTypeOK
  <2>4. ASSUME NEW j \in Keys \ {k}
        PROVE  intents'[j] = intents[j] /\ audit'[j] = audit[j]
    BY <2>1 DEF StoreTypeOK
  <2> QED BY <2>2, <2>3, <2>4 DEF AuditMatchesState
<1> QED BY <1>1, <1>2

(* No transaction sets the ledger and the intent table at odds. *)
LEMMA StoreStepAudit ==
  ASSUME StoreTypeOK, AuditMatchesState, StoreStep PROVE AuditMatchesState'
<1>1. ASSUME NEW k \in Keys, NEW a \in Auths \cup {None},
             NEW e \in Approvals \cup {None}, RecordIntent(k, a, e)
      PROVE  AuditMatchesState'
  BY <1>1, RecordIntentAudit
<1>2. ASSUME NEW k \in LocalKeys, NEW r \in BrokerResults,
             NEW type \in ResultEvents, CommitResult(k, r, type)
      PROVE  AuditMatchesState'
  BY <1>2, CommitResultAudit
<1>3. ASSUME UNCHANGED <<intents, audit>> PROVE AuditMatchesState'
  BY <1>3 DEF AuditMatchesState
<1>4. ASSUME NEW k \in LocalKeys, NEW a \in Auths \cup {None},
             NEW e \in Approvals \cup {None}, AcquireAuthority(k, a, e)
      PROVE  UNCHANGED <<intents, audit>>
  BY <1>4 DEF AcquireAuthority, BindIntent, LocalKeys
<1> QED
  BY <1>1, <1>2, <1>3, <1>4
     DEF StoreStep, storeVars, RecordRefusal, AssertHaltFor, ClearHaltOf,
         ActivateAuthorization, RevokeAuthorization, SeedRiskState,
         SeedRiskLimits, MutateRiskState, MutateRiskLimits

(* The active authorization was activated and never revoked: an activation  *)
(* needs an event id the ledger does not hold yet.                          *)
AuthorizationsInOrder ==
  RevokedStaysRevoked /\ active \in activated \cup {None}

(* No transaction brings a revoked authorization back. *)
LEMMA StoreStepAuthorizations ==
  ASSUME StoreTypeOK, AuthorizationsInOrder, StoreStep
  PROVE  AuthorizationsInOrder'
<1>1. ASSUME NEW a \in Auths, ActivateAuthorization(a)
      PROVE  AuthorizationsInOrder'
  BY <1>1 DEF ActivateAuthorization, AuthorizationsInOrder, RevokedStaysRevoked
<1>2. ASSUME NEW a \in Auths, RevokeAuthorization(a)
      PROVE  AuthorizationsInOrder'
  BY <1>2, NoneIsNothing
     DEF RevokeAuthorization, AuthorizationsInOrder, RevokedStaysRevoked,
         StoreTypeOK
<1>3. ASSUME UNCHANGED <<active, activated, revoked>>
      PROVE  AuthorizationsInOrder'
  BY <1>3 DEF AuthorizationsInOrder, RevokedStaysRevoked
<1> QED
  BY <1>1, <1>2, <1>3
     DEF StoreStep, storeVars, RecordIntent, AcquireAuthority, CommitResult,
         RecordRefusal, AssertHaltFor, ClearHaltOf, SeedRiskState,
         SeedRiskLimits, MutateRiskState, MutateRiskLimits

(* A committed result never reopens an order: an answer that follows a final *)
(* one has the same status.                                                  *)
LEMMA CommitResultKeepsClosed ==
  ASSUME StoreTypeOK, NEW k \in LocalKeys, NEW r \in BrokerResults,
         NEW type \in ResultEvents, CommitResult(k, r, type)
  PROVE  /\ LocalKeys' = LocalKeys
         /\ PendingKeys' \subseteq PendingKeys
         /\ \A j \in LocalKeys :
              intents'[j] = [intents[j] EXCEPT !.result = intents'[j].result]
<1>1. CASE UNCHANGED storeVars
  BY <1>1, Zenon DEF storeVars, LocalKeys, PendingKeys, Status, StoreTypeOK, Intents
<1>2. CASE ResultOutcome(k, r, type) = "committed"
  <2>1. k \in Keys /\ intents[k] \in Intents /\ r # None
    BY NoneIsNothing DEF LocalKeys, StoreTypeOK
  <2>2. intents' = [intents EXCEPT ![k].result = r]
    BY <1>2 DEF CommitResult, ResultOutcome, storeVars
  <2>3. intents'[k] = [intents[k] EXCEPT !.result = r] /\ intents'[k] # None
    BY <2>1, <2>2, NoneIsNothing DEF StoreTypeOK, Intents
  <2>4. ASSUME NEW j \in Keys \ {k} PROVE intents'[j] = intents[j]
    BY <2>2 DEF StoreTypeOK
  <2>5. LocalKeys' = LocalKeys BY <2>1, <2>3, <2>4 DEF LocalKeys
  <2>6. TransitionAllowed(intents[k].result, r)
    BY <1>2 DEF ResultOutcome, Replaces
  <2>7. Status(k) \in Terminal => Status(k)' \in Terminal
    <3>1. Status(k)' = r.status
      BY <2>1, <2>3 DEF Status, Intents
    <3>2. "UNKNOWN" \notin Terminal BY DEF Terminal
    <3> QED BY <2>6, <3>1, <3>2 DEF Status, TransitionAllowed, AllowedNext, Terminal
  <2>8. PendingKeys' \subseteq PendingKeys
    <3>1. ASSUME NEW j \in Keys \ {k} PROVE Status(j)' = Status(j)
      BY <2>4, <3>1 DEF Status
    <3> QED BY <2>1, <2>5, <2>7, <3>1 DEF PendingKeys, LocalKeys
  <2>9. ASSUME NEW j \in LocalKeys
        PROVE  intents'[j] = [intents[j] EXCEPT !.result = intents'[j].result]
    <3>1. CASE j = k BY <2>1, <2>3, <3>1 DEF Intents
    <3>2. CASE j # k
      BY <2>4, <3>2, NoneIsNothing DEF LocalKeys, StoreTypeOK, Intents
    <3> QED BY <3>1, <3>2
  <2> QED BY <2>5, <2>8, <2>9
<1> QED BY <1>1, <1>2 DEF CommitResult

(* No transaction changes the limits under a pending LIVE order. *)
LEMMA StoreStepLimits ==
  ASSUME StoreTypeOK, LimitsPinned, StoreStep PROVE LimitsPinned'
<1>1. ASSUME NEW k \in Keys, NEW a \in Auths \cup {None},
             NEW e \in Approvals \cup {None}, RecordIntent(k, a, e),
             IF Live THEN a \in Auths /\ e \in Approvals ELSE a = None
      PROVE  LimitsPinned'
  <2>1. CASE intents[k] # None
    BY <1>1, <2>1
       DEF RecordIntent, BindIntent, LimitsPinned, PendingKeys, LocalKeys, Status
  <2>2. CASE intents[k] = None
    <3>1. intents' = [intents EXCEPT ![k] = NewIntent(a, e)] /\ limits' = limits
      BY <1>1, <2>2 DEF RecordIntent, BindIntent
    <3>2. ASSUME NEW j \in Keys \ {k} PROVE intents'[j] = intents[j]
      BY <3>1 DEF StoreTypeOK
    <3>3. intents'[k] = NewIntent(a, e) BY <3>1 DEF StoreTypeOK
    <3>4. intents'[k].auth # None =>
            /\ limits # None
            /\ limits.version = intents'[k].limitsVersion
            /\ limits.value = intents'[k].approval.limits
      BY <1>1, <3>3 DEF NewIntent, RecordIntent, CanBind, AuthorityHeld
    <3>5. ASSUME NEW j \in Keys \ {k} PROVE j \in PendingKeys' <=> j \in PendingKeys
      BY <3>2 DEF PendingKeys, LocalKeys, Status
    <3>6. PendingKeys' \subseteq Keys BY DEF PendingKeys, LocalKeys
    <3> QED BY <3>1, <3>2, <3>4, <3>5, <3>6 DEF LimitsPinned
  <2> QED BY <2>1, <2>2
<1>2. ASSUME NEW k \in LocalKeys, NEW r \in BrokerResults,
             NEW type \in ResultEvents, CommitResult(k, r, type)
      PROVE  LimitsPinned'
  <2>1. limits' = limits BY <1>2 DEF CommitResult, storeVars
  <2>2. PendingKeys' \subseteq PendingKeys /\ PendingKeys \subseteq LocalKeys
    BY <1>2, CommitResultKeepsClosed DEF PendingKeys
  <2>3. ASSUME NEW j \in LocalKeys
        PROVE  /\ intents'[j].auth = intents[j].auth
               /\ intents'[j].approval = intents[j].approval
               /\ intents'[j].limitsVersion = intents[j].limitsVersion
    BY <1>2, CommitResultKeepsClosed DEF LocalKeys, StoreTypeOK, Intents
  <2> QED BY <2>1, <2>2, <2>3 DEF LimitsPinned
<1>3. ASSUME UNCHANGED <<intents, limits>> PROVE LimitsPinned'
  BY <1>3 DEF LimitsPinned, PendingKeys, LocalKeys, Status
<1>4. ASSUME NEW k \in LocalKeys, NEW a \in Auths \cup {None},
             NEW e \in Approvals \cup {None}, AcquireAuthority(k, a, e)
      PROVE  UNCHANGED <<intents, limits>>
  BY <1>4 DEF AcquireAuthority, BindIntent, LocalKeys
<1>5. CASE SeedRiskLimits(EngineLimits)
  BY <1>5 DEF SeedRiskLimits, LimitsPinned, PendingKeys, LocalKeys, Status
<1>6. ASSUME NEW l \in Nat, NEW v \in Nat, MutateRiskLimits(l, v)
      PROVE  LimitsPinned'
  BY <1>6 DEF MutateRiskLimits, RiskLimitsMutable, ActiveLiveAuthority,
     LimitsPinned, PendingKeys, LocalKeys, Status
<1> QED
  BY <1>1, <1>2, <1>3, <1>4, <1>5, <1>6
     DEF StoreStep, storeVars, RecordRefusal, AssertHaltFor, ClearHaltOf,
         ActivateAuthorization, RevokeAuthorization, SeedRiskState,
         MutateRiskState

-----------------------------------------------------------------------------
(* Calls in progress *)

(* Keys whose order may be at the broker: allowed, audited and durable, and *)
(* in LIVE mode bound to an authorization that was activated.               *)
SendableKeys ==
  {k \in LocalKeys : /\ k \in compliance \ Prohibited
                     /\ Live => intents[k].auth \in activated}

(* What a call about to take the step named label relies on: what its        *)
(* earlier steps established about the store and nobody can undo.            *)
Bound(label, c, local, sendable) ==
  /\ label \in {"authorize", "check_halt", "lookup", "prepare", "seed_state",
                "seed_limits", "commit_intent", "reauthorize", "acquire",
                "contact"} => c.op \in {"submit", "prepare"}
  /\ label \in {"ask", "local_keys", "match", "adopt", "settle"} =>
       c.op \in {"recover", "reconcile", "discover"}
  /\ c.op \in {"submit", "prepare"} =>
       /\ c.key \in Keys
       /\ IF Live THEN c.auth \in Auths /\ c.approval \in Approvals
          ELSE c.auth = None
  /\ label \in {"reauthorize", "acquire", "contact"} => c.key \in sendable
  /\ label = "record" => \A i \in c.items : i.key \in local
  /\ label \in {"match", "adopt", "settle"} /\ c.op = "discover" =>
       \A i \in c.items : i.key \in local
  /\ label \in {"adopt", "settle"} => c.key \in local /\ c.item \in Items
  /\ label = "mutate_state" => c.basis \in Basis
  /\ label = "mutate_limits" => c.basis \in Bounds

CallsBound ==
  \A w \in Workers : Bound(pc[w], call[w], LocalKeys, SendableKeys)

(* Worker w moves on, and may rely on what its next step relies on.         *)
Moves(w) ==
  /\ pc' = [pc EXCEPT ![w] = pc'[w]] /\ pc'[w] \in Labels
  /\ call' = [call EXCEPT ![w] = call'[w]] /\ call'[w] \in Calls
  /\ Bound(pc'[w], call'[w], LocalKeys', SendableKeys')

(* No transaction takes back what a call relies on.                         *)
LEMMA StoreStepKeeps ==
  ASSUME StoreTypeOK, StoreStep
  PROVE  LocalKeys \subseteq LocalKeys' /\ SendableKeys \subseteq SendableKeys'
<1>1. ASSUME NEW k \in Keys, NEW a \in Auths \cup {None},
             NEW e \in Approvals \cup {None}, RecordIntent(k, a, e)
      PROVE  /\ LocalKeys \subseteq LocalKeys'
             /\ SendableKeys \subseteq SendableKeys'
  <2>1. \A j \in LocalKeys : intents'[j] = intents[j]
    BY <1>1 DEF RecordIntent, BindIntent, LocalKeys, StoreTypeOK
  <2>2. compliance \subseteq compliance' /\ activated' = activated
    BY <1>1 DEF RecordIntent
  <2> QED BY <2>1, <2>2 DEF LocalKeys, SendableKeys
<1>2. ASSUME NEW k \in LocalKeys, NEW r \in BrokerResults,
             NEW type \in ResultEvents, CommitResult(k, r, type)
      PROVE  /\ LocalKeys \subseteq LocalKeys'
             /\ SendableKeys \subseteq SendableKeys'
  <2>1. LocalKeys' = LocalKeys BY <1>2, CommitResultKeepsClosed
  <2>2. \A j \in LocalKeys : intents'[j].auth = intents[j].auth
    BY <1>2, CommitResultKeepsClosed DEF LocalKeys, StoreTypeOK, Intents
  <2>3. UNCHANGED <<compliance, activated>> BY <1>2 DEF CommitResult, storeVars
  <2> QED BY <2>1, <2>2, <2>3 DEF SendableKeys
<1>3. ASSUME intents' = intents, compliance \subseteq compliance',
             activated \subseteq activated'
      PROVE  /\ LocalKeys \subseteq LocalKeys'
             /\ SendableKeys \subseteq SendableKeys'
  BY <1>3 DEF LocalKeys, SendableKeys
<1>4. ASSUME NEW k \in LocalKeys, NEW a \in Auths \cup {None},
             NEW e \in Approvals \cup {None}, AcquireAuthority(k, a, e)
      PROVE  UNCHANGED <<intents, compliance, activated>>
  BY <1>4 DEF AcquireAuthority, BindIntent, LocalKeys
<1> QED
  BY <1>1, <1>2, <1>3, <1>4
     DEF StoreStep, storeVars, RecordRefusal, AssertHaltFor, ClearHaltOf,
         ActivateAuthorization, RevokeAuthorization, SeedRiskState,
         SeedRiskLimits, MutateRiskState, MutateRiskLimits

(* The calls of the other workers stay as they are.                         *)
LEMMA MovesKeepCalls ==
  ASSUME TypeOK, CallsBound, StoreStep, NEW w \in Workers, Moves(w)
  PROVE  /\ pc' \in [Workers -> Labels] /\ call' \in [Workers -> Calls]
         /\ CallsBound'
<1>1. pc' \in [Workers -> Labels] /\ call' \in [Workers -> Calls]
  BY DEF TypeOK, Moves
<1>2. ASSUME NEW v \in Workers
      PROVE  Bound(pc'[v], call'[v], LocalKeys', SendableKeys')
  <2>1. CASE v = w BY <2>1 DEF Moves
  <2>2. CASE v # w
    <3>1. pc'[v] = pc[v] /\ call'[v] = call[v] BY <2>2 DEF TypeOK, Moves
    <3>2. LocalKeys \subseteq LocalKeys' /\ SendableKeys \subseteq SendableKeys'
      BY StoreStepKeeps DEF TypeOK
    <3>3. Bound(pc[v], call[v], LocalKeys, SendableKeys) BY DEF CallsBound
    <3> QED BY <3>1, <3>2, <3>3 DEF Bound
  <2> QED BY <2>1, <2>2
<1> QED BY <1>1, <1>2 DEF CallsBound

(* A call that ends, and a call that only changes its next step.            *)
LEMMA ReturnMoves ==
  ASSUME TypeOK, NEW w \in Workers, Return(w) PROVE Moves(w)
<1>1. NoCall \in Calls BY DEF NoCall, Calls
<1>2. pc'[w] = "idle" /\ call'[w] = NoCall BY DEF Return, TypeOK
<1>3. Bound("idle", NoCall, LocalKeys', SendableKeys') BY DEF Bound, NoCall
<1> QED BY <1>1, <1>2, <1>3 DEF Moves, Return, Labels

(* Moving on to another step, if the call holds what that step relies on. *)
LEMMA GotoMoves ==
  ASSUME TypeOK, NEW w \in Workers, NEW label \in Labels, Goto(w, label),
         call' = call, Bound(label, call[w], LocalKeys', SendableKeys')
  PROVE  Moves(w)
<1>1. pc' = [pc EXCEPT ![w] = label] /\ pc'[w] = label
  BY DEF Goto, TypeOK
<1>2. call' = [call EXCEPT ![w] = call'[w]] /\ call'[w] \in Calls
      /\ call'[w] = call[w]
  BY DEF TypeOK
<1> QED BY <1>1, <1>2 DEF Moves

(* The same, with something read or received stored in the call. *)
LEMMA LoadMoves ==
  ASSUME TypeOK, NEW w \in Workers, NEW label \in Labels, Goto(w, label),
         call' = [call EXCEPT ![w] = call'[w]], call'[w] \in Calls,
         Bound(label, call'[w], LocalKeys', SendableKeys')
  PROVE  Moves(w)
<1>1. pc' = [pc EXCEPT ![w] = label] /\ pc'[w] = label
  BY DEF Goto, TypeOK
<1> QED BY <1>1 DEF Moves

-----------------------------------------------------------------------------
(* The steps of a call *)

(* A step of w is one transaction and keeps what calls rely on.             *)
Effect(w) == StoreStep /\ Moves(w) /\ UNCHANGED <<venue, contacts, expired>>

(* A step that only reads is no transaction. *)
LEMMA LocalIsStutter ==
  ASSUME TypeOK, Local
  PROVE  /\ StoreStep /\ UNCHANGED <<venue, contacts, expired>>
         /\ LocalKeys' = LocalKeys /\ SendableKeys' = SendableKeys
BY DEF Local, StoreStep, storeVars, LocalKeys, SendableKeys

(* What a caller approves is of the right kind. *)
LEMMA ApprovalTyped ==
  ASSUME StoreTypeOK, NEW k \in Keys, NEW e \in ApprovalFor(k)
  PROVE  e \in IF Live THEN Approvals ELSE {None}
BY ProviderAssumption DEF ApprovalFor, StoreTypeOK, Basis, Bounds, Approvals

(* A discrepancy of a known kind about a key or an order is a known error. *)
LEMMA ErrorTyped ==
  ASSUME NEW kind \in ErrorKinds, NEW x \in Keys \cup OrderIds \cup {None}
  PROVE  {<<kind, x>>} \in SUBSET Errors
<1>1. <<kind, x>> \in Errors BY DEF Errors
<1> QED BY <1>1

(* Calls that begin. *)
LEMMA BeginEffect ==
  ASSUME TypeOK, NEW w \in Workers, Begin(w) PROVE Effect(w)
<1>1. ASSUME NEW c \in Calls, NEW label \in Labels, Start(w, c, label),
             Bound(label, c, LocalKeys, SendableKeys)
      PROVE  Effect(w)
  <2>1. call' = [call EXCEPT ![w] = c] /\ Goto(w, label) /\ Local
    BY <1>1 DEF Start, Local
  <2>2. call'[w] = c BY <2>1 DEF TypeOK
  <2>3. /\ StoreStep /\ UNCHANGED <<venue, contacts, expired>>
        /\ LocalKeys' = LocalKeys /\ SendableKeys' = SendableKeys
    BY <2>1, LocalIsStutter
  <2>4. Bound(label, call'[w], LocalKeys', SendableKeys')
    BY <1>1, <2>2, <2>3
  <2> QED BY <2>1, <2>2, <2>3, <2>4, LoadMoves DEF Effect
<1>2. ASSUME NEW k \in Keys, NEW a \in IF Live THEN Auths ELSE {None},
             NEW e \in ApprovalFor(k), NEW op \in {"submit", "prepare"},
             NEW label \in {"authorize", "prepare"},
             Start(w, [NoCall EXCEPT !.op = op, !.key = k, !.auth = a,
                                     !.approval = e], label)
      PROVE  Effect(w)
  <2> DEFINE c == [NoCall EXCEPT !.op = op, !.key = k, !.auth = a, !.approval = e]
  <2>1. e \in Approvals \cup {None} /\ a \in Auths \cup {None}
        /\ IF Live THEN a \in Auths /\ e \in Approvals ELSE a = None
    BY ModeAssumption, ApprovalTyped DEF TypeOK
  <2>2. c \in Calls BY <2>1 DEF NoCall, Calls
  <2>3. label \in Labels BY DEF Labels
  <2>4. Bound(label, c, LocalKeys, SendableKeys)
    BY <2>1 DEF Bound, NoCall
  <2> HIDE DEF c
  <2> QED BY <1>1, <1>2, <2>2, <2>3, <2>4 DEF c
<1>3. Submit(w) \/ Prepare(w) => Effect(w)
  BY <1>2, Zenon DEF Submit, Prepare
<1>4. Enforce(w) \/ ClearHalt(w) => Effect(w)
  <2>1. ASSUME NEW op \in {"enforce", "clear_halt"},
               Start(w, [NoCall EXCEPT !.op = op], "read_ledger")
        PROVE  Effect(w)
    <3>1. [NoCall EXCEPT !.op = op] \in Calls /\ "read_ledger" \in Labels
      BY DEF NoCall, Calls, Labels
    <3>2. Bound("read_ledger", [NoCall EXCEPT !.op = op], LocalKeys, SendableKeys)
      BY DEF Bound, NoCall
    <3> QED BY <1>1, <2>1, <3>1, <3>2
  <2> QED BY <2>1 DEF Enforce, ClearHalt
<1>5. Discover(w) => Effect(w)
  <2>1. [NoCall EXCEPT !.op = "discover"] \in Calls /\ "ask" \in Labels
    BY DEF NoCall, Calls, Labels
  <2>2. Bound("ask", [NoCall EXCEPT !.op = "discover"], LocalKeys, SendableKeys)
    BY DEF Bound, NoCall
  <2> QED BY <1>1, <2>1, <2>2 DEF Discover
<1>6. ASSUME NEW op \in {"recover", "reconcile"},
             NEW ids \in SUBSET (Keys \cup OrderIds),
             Start(w, [NoCall EXCEPT !.op = op, !.asked = ids], "ask")
      PROVE  Effect(w)
  <2>1. [NoCall EXCEPT !.op = op, !.asked = ids] \in Calls /\ "ask" \in Labels
    BY DEF NoCall, Calls, Labels
  <2>2. Bound("ask", [NoCall EXCEPT !.op = op, !.asked = ids], LocalKeys, SendableKeys)
    BY DEF Bound, NoCall
  <2> QED BY <1>1, <1>6, <2>1, <2>2
<1>7. Recover(w) => Effect(w)
  <2>1. UnknownKeys \in SUBSET (Keys \cup OrderIds)
    BY DEF UnknownKeys, LocalKeys
  <2> QED BY <1>6, <2>1 DEF Recover
<1>8. Reconcile(w) => Effect(w)
  <2> DEFINE orders == {intents[k].result.order :
                          k \in {j \in PendingKeys : intents[j].result # None}}
  <2>1. orders \ {None} \subseteq OrderIds
    <3> SUFFICES ASSUME NEW k \in PendingKeys, intents[k].result # None
                 PROVE  intents[k].result.order \in OrderIds \cup {None}
      OBVIOUS
    <3>1. intents[k] \in Intents
      BY DEF TypeOK, StoreTypeOK, PendingKeys, LocalKeys
    <3> QED BY <3>1 DEF Intents, BrokerResults, Results
  <2> HIDE DEF orders
  <2>2. ASSUME NEW ids \in SUBSET (orders \ {None})
        PROVE  ids \in SUBSET (Keys \cup OrderIds)
    BY <2>1
  <2> QED BY <1>6, <2>2 DEF Reconcile, orders
<1>9. ReconcileTwice(w) => Effect(w)
  <2> DEFINE errors == {<<"DUPLICATE_REQUESTED_ORDER_ID", None>>}
             c == [NoCall EXCEPT !.op = "reconcile", !.errors = errors]
  <2>1. errors \in SUBSET Errors
    <3>1. "DUPLICATE_REQUESTED_ORDER_ID" \in ErrorKinds BY DEF ErrorKinds
    <3> QED BY <3>1, ErrorTyped
  <2> HIDE DEF errors
  <2>2. c \in Calls /\ "assert_halt" \in Labels
    BY <2>1 DEF NoCall, Calls, Labels
  <2>3. Bound("assert_halt", c, LocalKeys, SendableKeys) BY DEF Bound, NoCall
  <2> QED BY <1>1, <2>2, <2>3 DEF ReconcileTwice, errors
<1>10. ReadRiskState(w) => Effect(w)
  <2> DEFINE c == [NoCall EXCEPT !.op = "mutate_state", !.basis = risk]
  <2> SUFFICES ASSUME risk # None, Start(w, c, "mutate_state") PROVE Effect(w)
    BY DEF ReadRiskState
  <2>1. risk \in Basis BY DEF TypeOK, StoreTypeOK
  <2>2. c \in Calls /\ "mutate_state" \in Labels
    BY <2>1 DEF NoCall, Calls, Labels
  <2>3. Bound("mutate_state", c, LocalKeys, SendableKeys)
    BY <2>1 DEF Bound, NoCall
  <2> QED BY <1>1, <2>2, <2>3
<1>11. ReadRiskLimits(w) => Effect(w)
  <2> DEFINE c == [NoCall EXCEPT !.op = "mutate_limits", !.basis = limits]
  <2> SUFFICES ASSUME limits # None, Start(w, c, "mutate_limits") PROVE Effect(w)
    BY DEF ReadRiskLimits
  <2>1. limits \in Bounds BY DEF TypeOK, StoreTypeOK
  <2>2. c \in Calls /\ "mutate_limits" \in Labels
    BY <2>1 DEF NoCall, Calls, Labels
  <2>3. Bound("mutate_limits", c, LocalKeys, SendableKeys)
    BY <2>1 DEF Bound, NoCall
  <2> QED BY <1>1, <2>2, <2>3
<1> QED BY <1>3, <1>4, <1>5, <1>7, <1>8, <1>9, <1>10, <1>11 DEF Begin

(* A step that is a stutter of the store and only changes the next step.    *)
LEMMA LocalGoto ==
  ASSUME TypeOK, NEW w \in Workers, NEW label \in Labels, Local,
         Goto(w, label), call' = call,
         Bound(label, call[w], LocalKeys, SendableKeys)
  PROVE  Effect(w)
BY LocalIsStutter, GotoMoves DEF Effect

(* A step that reads and ends the call is a step of the system as proved about. *)
LEMMA LocalReturn ==
  ASSUME TypeOK, NEW w \in Workers, Local, Return(w) PROVE Effect(w)
BY LocalIsStutter, ReturnMoves DEF Effect

(* So is one that reads and keeps what it read. *)
LEMMA LocalLoad ==
  ASSUME TypeOK, NEW w \in Workers, NEW label \in Labels, Local,
         Goto(w, label), call' = [call EXCEPT ![w] = call'[w]],
         call'[w] \in Calls, Bound(label, call'[w], LocalKeys, SendableKeys)
  PROVE  Effect(w)
BY LocalIsStutter, LoadMoves DEF Effect

(* A transaction after which the call ends, or only changes its next step.  *)
LEMMA StepReturn ==
  ASSUME TypeOK, NEW w \in Workers, StoreStep, Transaction, Return(w)
  PROVE  Effect(w)
BY ReturnMoves DEF Effect, Transaction

(* So is a transaction after which the call moves on. *)
LEMMA StepGoto ==
  ASSUME TypeOK, NEW w \in Workers, NEW label \in Labels, StoreStep,
         Transaction, Goto(w, label), call' = call,
         Bound(label, call[w], LocalKeys', SendableKeys')
  PROVE  Effect(w)
BY GotoMoves DEF Effect, Transaction

(* So is a transaction after which the call keeps what it learned. *)
LEMMA StepLoad ==
  ASSUME TypeOK, NEW w \in Workers, NEW label \in Labels, StoreStep,
         Transaction, Goto(w, label), call' = [call EXCEPT ![w] = call'[w]],
         call'[w] \in Calls, Bound(label, call'[w], LocalKeys', SendableKeys')
  PROVE  Effect(w)
BY LoadMoves DEF Effect, Transaction

(* submit and prepare, up to the call of the broker. *)
LEMMA SubmitEffect ==
  ASSUME TypeOK, CallsBound, AuthorizationsInOrder, NEW w \in Workers,
         \/ Authorize(w) \/ CheckHalt(w) \/ Lookup(w) \/ CheckPrepare(w)
         \/ SeedState(w) \/ SeedLimits(w) \/ CommitIntent(w) \/ Reauthorize(w)
         \/ Acquire(w)
  PROVE  Effect(w)
<1> DEFINE c == call[w]
<1>1. c \in Calls /\ Bound(pc[w], c, LocalKeys, SendableKeys)
  BY DEF TypeOK, CallsBound
<1>2. Authorize(w) => Effect(w)
  <2> SUFFICES ASSUME Authorize(w) PROVE Effect(w) OBVIOUS
  <2>1. "read_ledger" \in Labels /\ Bound("read_ledger", c, LocalKeys, SendableKeys)
    BY <1>1 DEF Labels, Bound
  <2> QED BY <2>1, LocalGoto, LocalReturn DEF Authorize, RequireAuthorization
<1>3. CheckHalt(w) => Effect(w)
  <2> SUFFICES ASSUME CheckHalt(w) PROVE Effect(w) OBVIOUS
  <2>1. "lookup" \in Labels /\ Bound("lookup", c, LocalKeys, SendableKeys)
    BY <1>1 DEF Labels, Bound, CheckHalt
  <2> QED BY <2>1, LocalGoto, LocalReturn DEF CheckHalt
<1>4. Lookup(w) => Effect(w)
  <2> SUFFICES ASSUME Lookup(w) PROVE Effect(w) OBVIOUS
  <2>1. "prepare" \in Labels /\ Bound("prepare", c, LocalKeys, SendableKeys)
    BY <1>1 DEF Labels, Bound, Lookup
  <2> QED BY <2>1, LocalGoto, LocalReturn DEF Lookup
<1>5. CheckPrepare(w) => Effect(w)
  <2> SUFFICES ASSUME CheckPrepare(w) PROVE Effect(w) OBVIOUS
  <2>1. /\ "seed_state" \in Labels /\ "commit_intent" \in Labels
        /\ Bound("seed_state", c, LocalKeys, SendableKeys)
        /\ Bound("commit_intent", c, LocalKeys, SendableKeys)
    BY <1>1 DEF Labels, Bound, CheckPrepare
  <2> QED BY <2>1, LocalGoto, LocalReturn DEF CheckPrepare
<1>6. SeedState(w) => Effect(w)
  <2> SUFFICES ASSUME SeedState(w) PROVE Effect(w) OBVIOUS
  <2>1. StoreStep BY DEF SeedState, StoreStep
  <2>2. "seed_limits" \in Labels /\ Bound("seed_limits", c, LocalKeys', SendableKeys')
    BY <1>1 DEF Labels, Bound, SeedState
  <2> QED BY <2>1, <2>2, StepGoto DEF SeedState
<1>7. SeedLimits(w) => Effect(w)
  <2> SUFFICES ASSUME SeedLimits(w) PROVE Effect(w) OBVIOUS
  <2>1. StoreStep BY DEF SeedLimits, StoreStep
  <2>2. /\ "commit_intent" \in Labels
        /\ Bound("commit_intent", c, LocalKeys', SendableKeys')
    BY <1>1 DEF Labels, Bound, SeedLimits
  <2> QED BY <2>1, <2>2, StepGoto DEF SeedLimits
<1>8. CommitIntent(w) => Effect(w)
  <2> SUFFICES ASSUME CommitIntent(w) PROVE Effect(w) OBVIOUS
  <2>1. /\ c.key \in Keys /\ c.approval \in Approvals \cup {None}
        /\ IF Live THEN c.auth \in Auths /\ c.approval \in Approvals
           ELSE c.auth = None
        /\ c.auth \in Auths \cup {None}
    BY <1>1 DEF CommitIntent, Bound, Calls
  <2>2. CASE Allowed(c.key) /\ RecordIntent(c.key, c.auth, c.approval)
    <3>1. StoreStep BY <2>1, <2>2 DEF StoreStep
    <3>2. StoreTypeOK' BY <3>1, StoreStepTyped DEF TypeOK
    <3>3. c.key \in SendableKeys'
      <4>1. intents'[c.key] # None
        <5>1. StoreTypeOK BY DEF TypeOK
        <5>2. NewIntent(c.auth, c.approval) \in Intents
          BY <2>1, <2>2, <5>1, NoneIsNothing
             DEF StoreTypeOK, NewIntent, Intents, Basis, Bounds, CanBind,
                 AuthorityHeld, RecordIntent
        <5> QED BY <2>1, <2>2, <5>1, <5>2, NoneIsNothing
                DEF RecordIntent, BindIntent, StoreTypeOK
      <4>2. Live => intents'[c.key].auth \in activated'
        <5> SUFFICES ASSUME Live PROVE intents'[c.key].auth \in activated'
          OBVIOUS
        <5>1. c.auth \in activated
          BY <2>1, <2>2, NoneIsNothing
             DEF RecordIntent, CanBind, AuthorityHeld, Authorized,
                 AuthorizationsInOrder
        <5>2. intents'[c.key].auth = c.auth
          BY <2>1, <2>2 DEF RecordIntent, CanBind, SameBinding, BindIntent,
             NewIntent, TypeOK, StoreTypeOK
        <5> QED BY <2>2, <5>1, <5>2 DEF RecordIntent
      <4>3. c.key \in compliance' BY <2>2 DEF RecordIntent
      <4> QED BY <2>1, <2>2, <4>1, <4>2, <4>3 DEF SendableKeys, LocalKeys, Allowed
    <3>4. /\ "reauthorize" \in Labels /\ "contact" \in Labels
          /\ Bound("reauthorize", c, LocalKeys', SendableKeys')
          /\ Bound("contact", c, LocalKeys', SendableKeys')
      BY <1>1, <3>3 DEF Labels, Bound, CommitIntent
    <3> QED BY <2>2, <3>1, <3>4, StepGoto, StepReturn DEF CommitIntent
  <2>3. CASE Return(w) /\ (UNCHANGED storeVars \/ RecordRefusal(c.key))
    <3>1. StoreStep BY <2>1, <2>3 DEF StoreStep
    <3> QED BY <2>3, <3>1, StepReturn DEF CommitIntent
  <2> QED BY <2>2, <2>3 DEF CommitIntent
<1>9. Reauthorize(w) => Effect(w)
  <2> SUFFICES ASSUME Reauthorize(w) PROVE Effect(w) OBVIOUS
  <2>1. "acquire" \in Labels /\ Bound("acquire", c, LocalKeys, SendableKeys)
    BY <1>1 DEF Labels, Bound, Reauthorize
  <2> QED BY <2>1, LocalGoto, LocalReturn DEF Reauthorize, RequireAuthorization
<1>10. Acquire(w) => Effect(w)
  <2> SUFFICES ASSUME Acquire(w) PROVE Effect(w) OBVIOUS
  <2>1. /\ c.key \in SendableKeys /\ c.key \in LocalKeys
        /\ c.approval \in Approvals \cup {None} /\ c.auth \in Auths \cup {None}
    BY <1>1 DEF Acquire, Bound, Calls, SendableKeys
  <2>2. CASE AcquireAuthority(c.key, c.auth, c.approval) /\ Goto(w, "contact")
             /\ UNCHANGED call
    <3>1. StoreStep BY <2>1, <2>2 DEF StoreStep
    <3>2. SendableKeys \subseteq SendableKeys' BY <3>1, StoreStepKeeps DEF TypeOK
    <3>3. "contact" \in Labels /\ Bound("contact", c, LocalKeys', SendableKeys')
      BY <1>1, <2>1, <3>2 DEF Labels, Bound, Acquire
    <3> QED BY <2>2, <3>1, <3>3, StepGoto DEF Acquire
  <2>3. CASE Return(w) /\ UNCHANGED storeVars
    BY <2>3, StepReturn DEF Acquire, StoreStep
  <2> QED BY <2>2, <2>3 DEF Acquire
<1> QED BY <1>2, <1>3, <1>4, <1>5, <1>6, <1>7, <1>8, <1>9, <1>10

(* The broker call and its answer. *)
LEMMA TimeoutIsResult == TimeoutResult \in BrokerResults
BY DEF TimeoutResult, BrokerResults, Results, Statuses, WellFormed

(* After the provider call, the answer is one for a key that has a row. *)
LEMMA ContactEffect ==
  ASSUME TypeOK, CallsBound, NEW w \in Workers, Contact(w)
  PROVE  /\ StoreStep /\ Moves(w)
         /\ venue' \in [Keys -> BrokerResults \cup {None}]
         /\ contacts' \in [Keys -> Nat] /\ expired' = expired
         /\ call[w].key \in SendableKeys
         /\ \A k \in Keys \ {call[w].key} : contacts'[k] = contacts[k]
<1> DEFINE k == call[w].key
<1>1. k \in SendableKeys /\ k \in LocalKeys /\ k \in Keys
  BY DEF CallsBound, Bound, Contact, SendableKeys, LocalKeys
<1>2. UNCHANGED <<storeVars, expired>> /\ StoreStep
  BY DEF Contact, StoreStep, storeVars
<1>3. LocalKeys' = LocalKeys BY <1>2 DEF LocalKeys, storeVars
<1>4. contacts' \in [Keys -> Nat] /\ \A j \in Keys \ {k} : contacts'[j] = contacts[j]
  BY <1>1 DEF Contact, TypeOK
<1>5. PICK placed \in BrokerResults \cup {None}, answer \in BrokerResults :
        /\ venue' = [venue EXCEPT ![k] = placed]
        /\ call' = [call EXCEPT ![w].items = {[key |-> k, result |-> answer]}]
  <2>1. PICK placed \in
           IF venue[k] # None THEN {venue[k]}
           ELSE {None} \cup {r \in ProviderResults :
                  QuantitiesFit(None, r) /\ \A j \in Keys : venue[j] # None =>
                    r.order = None \/ r.order # venue[j].order} :
        \E answer \in {placed, TimeoutResult} \ {None} :
          /\ venue' = [venue EXCEPT ![k] = placed]
          /\ call' = [call EXCEPT ![w].items = {[key |-> k, result |-> answer]}]
    BY DEF Contact
  <2>2. placed \in BrokerResults \cup {None}
    BY <1>1, <2>1, ProviderAssumption DEF TypeOK
  <2> QED BY <2>1, <2>2, TimeoutIsResult
<1>6. venue' \in [Keys -> BrokerResults \cup {None}]
  BY <1>1, <1>5 DEF TypeOK
<1>7. Moves(w)
  <2> DEFINE item == [key |-> k, result |-> answer]
             c == [call[w] EXCEPT !.items = {item}]
  <2>1. item \in Items /\ item.key \in LocalKeys BY <1>1, <1>5 DEF Items
  <2> HIDE DEF item
  <2>2. c \in Calls /\ c.items = {item} /\ c.op = call[w].op /\ c.key = k
        /\ c.auth = call[w].auth
    BY <2>1 DEF TypeOK, Calls
  <2>3. call' = [call EXCEPT ![w] = call'[w]] /\ call'[w] = c
    BY <1>5 DEF TypeOK, item
  <2>4. Goto(w, "record") /\ "record" \in Labels BY DEF Contact, Labels
  <2>5. Bound("record", c, LocalKeys', SendableKeys')
    BY <1>3, <2>1, <2>2 DEF Bound, CallsBound
  <2> HIDE DEF c
  <2> QED BY <2>2, <2>3, <2>4, <2>5, LoadMoves
<1> QED BY <1>1, <1>2, <1>4, <1>6, <1>7

(* Recording the answer commits a result of a key that has a row. *)
LEMMA RecordEffect ==
  ASSUME TypeOK, CallsBound, NEW w \in Workers, Record(w) PROVE Effect(w)
<1>1. PICK i \in call[w].items :
        CommitResult(i.key, i.result,
          IF i.result = TimeoutResult THEN "EXECUTION_UNKNOWN"
          ELSE "EXECUTION_RESULT")
  BY DEF Record
<1>2. i \in Items /\ i.key \in LocalKeys
  BY DEF Record, TypeOK, Calls, CallsBound, Bound
<1>3. StoreStep BY <1>1, <1>2 DEF StoreStep, Items, ResultEvents
<1> QED BY <1>3, StepReturn DEF Record

(* The findings of an inspection are errors of known kinds about keys.      *)
LEMMA DiscrepanciesTyped ==
  ASSUME NEW view PROVE Discrepancies(view) \in SUBSET Errors
<1>1. \A ks \in SUBSET Keys : \A kind \in ErrorKinds :
        {<<kind, k>> : k \in ks} \subseteq Errors
  BY DEF Errors
<1>2. LocalKeys \subseteq Keys BY DEF LocalKeys
<1> QED BY <1>1, <1>2 DEF Discrepancies, ErrorKinds

(* Inspections and halts. *)
LEMMA InspectEffect ==
  ASSUME TypeOK, CallsBound, NEW w \in Workers,
         \/ ReadLedger(w) \/ ReadStore(w) \/ AssertHalt(w) \/ ReadReason(w)
         \/ Clear(w)
  PROVE  Effect(w)
<1> DEFINE c == call[w]
<1>1. c \in Calls /\ Bound(pc[w], c, LocalKeys, SendableKeys)
  BY DEF TypeOK, CallsBound
<1>2. ReadLedger(w) => Effect(w)
  <2> SUFFICES ASSUME ReadLedger(w) PROVE Effect(w) OBVIOUS
  <2> DEFINE d == [c EXCEPT !.view = audit]
  <2>1. d \in Calls BY <1>1 DEF Calls, TypeOK, StoreTypeOK
  <2>2. call' = [call EXCEPT ![w] = call'[w]] /\ call'[w] = d
    BY DEF ReadLedger, TypeOK
  <2>3. "read_store" \in Labels /\ Bound("read_store", d, LocalKeys, SendableKeys)
    BY <1>1 DEF Labels, Bound, Calls
  <2> HIDE DEF d
  <2> QED BY <2>1, <2>2, <2>3, LocalLoad DEF ReadLedger
<1>3. ReadStore(w) => Effect(w)
  <2> SUFFICES ASSUME ReadStore(w) PROVE Effect(w) OBVIOUS
  <2> DEFINE errors == Discrepancies(c.view)
  <2>1. errors \in SUBSET Errors BY DiscrepanciesTyped
  <2>2. CASE /\ call' = [call EXCEPT ![w].view = None, ![w].errors = errors]
             /\ Goto(w, "assert_halt")
    <3> DEFINE d == [c EXCEPT !.view = None, !.errors = errors]
    <3> HIDE DEF errors
    <3>1. d \in Calls BY <1>1, <2>1 DEF Calls
    <3>2. call' = [call EXCEPT ![w] = call'[w]] /\ call'[w] = d
      BY <2>2 DEF TypeOK
    <3>3. "assert_halt" \in Labels /\ Bound("assert_halt", d, LocalKeys, SendableKeys)
      BY <1>1 DEF Labels, Bound, Calls
    <3> HIDE DEF d
    <3> QED BY <2>2, <3>1, <3>2, <3>3, LocalLoad DEF ReadStore
  <2>3. CASE /\ call' = [call EXCEPT ![w].view = None]
             /\ Goto(w, IF c.op = "submit" THEN "check_halt" ELSE "read_reason")
    <3> DEFINE d == [c EXCEPT !.view = None]
               label == IF c.op = "submit" THEN "check_halt" ELSE "read_reason"
    <3>1. d \in Calls BY <1>1 DEF Calls
    <3>2. call' = [call EXCEPT ![w] = call'[w]] /\ call'[w] = d
      BY <2>3 DEF TypeOK
    <3>3. label \in Labels /\ Bound(label, d, LocalKeys, SendableKeys)
      BY <1>1 DEF Labels, Bound, Calls
    <3>4. Goto(w, label) BY <2>3
    <3> HIDE DEF d, label
    <3> QED BY <3>1, <3>2, <3>3, <3>4, LocalLoad DEF ReadStore
  <2>4. CASE Return(w) BY <2>4, LocalReturn DEF ReadStore
  <2> QED BY <2>2, <2>3, <2>4 DEF ReadStore
<1>4. AssertHalt(w) => Effect(w)
  <2> SUFFICES ASSUME AssertHalt(w) PROVE Effect(w) OBVIOUS
  <2>1. StoreStep BY <1>1 DEF AssertHalt, StoreStep, Calls
  <2>2. CASE c.op = "submit"
    <3> DEFINE d == [c EXCEPT !.errors = {}]
    <3>1. d \in Calls BY <1>1 DEF Calls
    <3>2. call' = [call EXCEPT ![w] = call'[w]] /\ call'[w] = d
      BY <2>2 DEF TypeOK, AssertHalt
    <3>3. "check_halt" \in Labels /\ Bound("check_halt", d, LocalKeys', SendableKeys')
      BY <1>1, <2>2 DEF Labels, Bound, Calls
    <3> HIDE DEF d
    <3> QED BY <2>1, <2>2, <3>1, <3>2, <3>3, StepLoad DEF AssertHalt
  <2>3. CASE c.op # "submit" BY <2>1, <2>3, StepReturn DEF AssertHalt
  <2> QED BY <2>2, <2>3
<1>5. ReadReason(w) => Effect(w)
  <2> SUFFICES ASSUME ReadReason(w) PROVE Effect(w) OBVIOUS
  <2>1. CASE halt.active
    <3> DEFINE d == [c EXCEPT !.errors = halt.reason]
    <3>1. d \in Calls BY <1>1 DEF Calls, TypeOK, StoreTypeOK
    <3>2. call' = [call EXCEPT ![w] = call'[w]] /\ call'[w] = d
      BY <2>1 DEF TypeOK, ReadReason
    <3>3. "clear" \in Labels /\ Bound("clear", d, LocalKeys, SendableKeys)
      BY <1>1 DEF Labels, Bound, Calls
    <3> HIDE DEF d
    <3> QED BY <2>1, <3>1, <3>2, <3>3, LocalLoad DEF ReadReason
  <2>2. CASE ~halt.active BY <2>2, LocalReturn DEF ReadReason
  <2> QED BY <2>1, <2>2
<1>6. Clear(w) => Effect(w)
  <2> SUFFICES ASSUME Clear(w) PROVE Effect(w) OBVIOUS
  <2>1. StoreStep BY <1>1 DEF Clear, StoreStep, Calls
  <2> QED BY <2>1, StepReturn DEF Clear
<1> QED BY <1>2, <1>3, <1>4, <1>5, <1>6

(* Reconciliation: what the two sub-steps of a batch do to the call. *)
LEMMA HaltWithLoads ==
  ASSUME TypeOK, CallsBound, NEW w \in Workers, NEW kind \in ErrorKinds,
         NEW x \in Keys \cup OrderIds \cup {None},
         HaltWith(w, {<<kind, x>>}), StoreStep, Transaction
  PROVE  Effect(w)
<1> DEFINE errors == {<<kind, x>>}
           d == [call[w] EXCEPT !.errors = errors]
<1>1. errors \in SUBSET Errors BY ErrorTyped
<1> HIDE DEF errors
<1>2. d \in Calls
  <2>1. call[w] \in Calls BY DEF TypeOK
  <2> QED BY <1>1, <2>1 DEF Calls
<1>3. call' = [call EXCEPT ![w] = call'[w]] /\ call'[w] = d
  BY DEF HaltWith, TypeOK, errors
<1>4. "assert_halt" \in Labels /\ Bound("assert_halt", d, LocalKeys', SendableKeys')
  BY DEF Labels, Bound, Calls, CallsBound, TypeOK
<1>5. Goto(w, "assert_halt") BY DEF HaltWith
<1> HIDE DEF d
<1> QED BY <1>2, <1>3, <1>4, <1>5, StepLoad

(* Being done with one answer leaves the call ready for the next. *)
LEMMA FinishedLoads ==
  ASSUME TypeOK, CallsBound, NEW w \in Workers, StoreStep, Transaction,
         pc[w] \in {"match", "adopt", "settle"}, NEW i, NEW names,
         names \subseteq Keys \cup OrderIds \cup {None}, Finished(w, i, names)
  PROVE  Effect(w)
<1>1. CASE Return(w) BY <1>1, StepReturn
<1>2. CASE ~Return(w)
  <2> DEFINE d == [call[w] EXCEPT !.items = @ \ {i}, !.item = None, !.key = None,
                                  !.seen = @ \cup names]
  <2>1. d \in Calls
    <3>1. call[w] \in Calls BY DEF TypeOK
    <3> QED BY <3>1 DEF Calls
  <2>2. call' = [call EXCEPT ![w] = call'[w]] /\ call'[w] = d
    BY <1>2 DEF Finished, TypeOK
  <2>3. LocalKeys \subseteq LocalKeys' BY StoreStepKeeps DEF TypeOK
  <2>4. Bound(pc[w], call[w], LocalKeys, SendableKeys) BY DEF CallsBound
  <2>5. "match" \in Labels /\ Bound("match", d, LocalKeys', SendableKeys')
    BY <2>3, <2>4, NoneIsNothing DEF Labels, Bound, Calls, TypeOK
  <2>6. Goto(w, "match") BY <1>2 DEF Finished
  <2> HIDE DEF d
  <2> QED BY <2>1, <2>2, <2>5, <2>6, StepLoad
<1> QED BY <1>1, <1>2

(* Taking up an answer leaves the call with a key that has a row. *)
LEMMA SettlingLoads ==
  ASSUME TypeOK, CallsBound, NEW w \in Workers, Local, pc[w] = "match",
         NEW i \in call[w].items, NEW k \in LocalKeys,
         NEW label \in {"adopt", "settle"}, Settling(w, i, k, label)
  PROVE  Effect(w)
<1> DEFINE d == [call[w] EXCEPT !.item = i, !.key = k]
<1>1. k \in Keys /\ i \in Items BY DEF LocalKeys, TypeOK, Calls
<1>2. d \in Calls
  <2>1. call[w] \in Calls BY DEF TypeOK
  <2> QED BY <1>1, <2>1 DEF Calls
<1>3. call' = [call EXCEPT ![w] = call'[w]] /\ call'[w] = d
  BY DEF Settling, TypeOK
<1>4. Bound(pc[w], call[w], LocalKeys, SendableKeys) BY DEF CallsBound
<1>5. label \in Labels /\ Bound(label, d, LocalKeys, SendableKeys)
  BY <1>1, <1>4 DEF Labels, Bound, Calls, TypeOK
<1>6. Goto(w, label) BY DEF Settling
<1> HIDE DEF d
<1> QED BY <1>2, <1>3, <1>5, <1>6, LocalLoad

(* Asking the provider fills the call with well-formed answers. *)
LEMMA AskEffect ==
  ASSUME TypeOK, CallsBound, NEW w \in Workers, Ask(w) PROVE Effect(w)
<1>1. PICK stray \in {{}} \cup {{x} : x \in Anomalies} :
        LET answer == stray \cup
              {[key |-> k, result |-> venue[k]] : k \in Reported(call[w])} IN
        IF answer = {} THEN Return(w)
        ELSE /\ call' = [call EXCEPT ![w].items = answer]
             /\ Goto(w, IF call[w].op = "discover" THEN "local_keys" ELSE "match")
  BY DEF Ask
<1> DEFINE answer == stray \cup
             {[key |-> k, result |-> venue[k]] : k \in Reported(call[w])}
           label == IF call[w].op = "discover" THEN "local_keys" ELSE "match"
           d == [call[w] EXCEPT !.items = answer]
<1>2. Local BY DEF Ask
<1>3. answer \subseteq Items
  <2>1. stray \subseteq Items BY ProviderAssumption
  <2>2. ASSUME NEW k \in Reported(call[w])
        PROVE  [key |-> k, result |-> venue[k]] \in Items
    BY DEF Reported, TypeOK, Items
  <2> QED BY <2>1, <2>2
<1>4. CASE answer = {} BY <1>1, <1>2, <1>4, LocalReturn
<1>5. CASE answer # {}
  <2>1. call' = [call EXCEPT ![w].items = answer] /\ Goto(w, label)
    BY <1>1, <1>5
  <2> HIDE DEF answer
  <2>2. d \in Calls
    <3>1. call[w] \in Calls BY DEF TypeOK
    <3> QED BY <1>3, <3>1 DEF Calls, answer
  <2>3. call' = [call EXCEPT ![w] = call'[w]] /\ call'[w] = d
    BY <2>1 DEF TypeOK
  <2>4. label \in Labels /\ Bound(label, d, LocalKeys, SendableKeys)
    BY DEF Ask, Labels, Bound, Calls, CallsBound, TypeOK
  <2> HIDE DEF d, label
  <2> QED BY <1>2, <2>1, <2>2, <2>3, <2>4, LocalLoad
<1> QED BY <1>4, <1>5

(* After the orphan check every discovered order has a row. *)
LEMMA CheckOrphansEffect ==
  ASSUME TypeOK, CallsBound, NEW w \in Workers, CheckOrphans(w) PROVE Effect(w)
<1> DEFINE c == call[w]
           orphans == {i \in c.items : i.key \notin LocalKeys}
           errors == {<<"PROVIDER_ORDER_ORPHAN", i.key>> : i \in orphans}
<1>1. c \in Calls /\ Bound(pc[w], c, LocalKeys, SendableKeys)
  BY DEF TypeOK, CallsBound
<1>2. Local BY DEF CheckOrphans
<1>3. CASE orphans # {}
  <2> DEFINE d == [c EXCEPT !.errors = errors]
  <2>1. errors \in SUBSET Errors
    <3>1. ASSUME NEW i \in orphans PROVE <<"PROVIDER_ORDER_ORPHAN", i.key>> \in Errors
      BY <1>1 DEF Calls, Items, Errors, ErrorKinds
    <3> HIDE DEF orphans
    <3> QED BY <3>1
  <2>2. call' = [call EXCEPT ![w].errors = errors] /\ Goto(w, "assert_halt")
    BY <1>3 DEF CheckOrphans, HaltWith
  <2> HIDE DEF errors
  <2>3. d \in Calls BY <1>1, <2>1 DEF Calls
  <2>4. call' = [call EXCEPT ![w] = call'[w]] /\ call'[w] = d
    BY <2>2 DEF TypeOK
  <2>5. "assert_halt" \in Labels /\ Bound("assert_halt", d, LocalKeys, SendableKeys)
    BY <1>1 DEF Labels, Bound, Calls
  <2> HIDE DEF d
  <2> QED BY <1>2, <2>2, <2>3, <2>4, <2>5, LocalLoad
<1>4. CASE orphans = {}
  <2>1. "match" \in Labels /\ Bound("match", c, LocalKeys, SendableKeys)
    BY <1>1, <1>4 DEF Labels, Bound, CheckOrphans
  <2> QED BY <1>2, <1>4, <2>1, LocalGoto DEF CheckOrphans
<1> QED BY <1>3, <1>4

(* Matching an answer only ever takes it up for a key that has a row. *)
LEMMA MatchEffect ==
  ASSUME TypeOK, CallsBound, NEW w \in Workers, Match(w) PROVE Effect(w)
<1>1. PICK i \in call[w].items :
        MatchRecovered(w, i) \/ MatchDiscovered(w, i) \/ MatchReconciled(w, i)
  BY DEF Match
<1>2. /\ Local /\ Transaction /\ StoreStep /\ pc[w] = "match"
      /\ i \in Items /\ i.key \in Keys /\ i.result \in BrokerResults
      /\ i.result.order \in OrderIds \cup {None}
  BY DEF Match, Local, Transaction, StoreStep, storeVars, TypeOK, Calls, Items,
     BrokerResults, Results
<1>3. CASE MatchRecovered(w, i)
  <2>1. UnknownKeys \subseteq LocalKeys BY DEF UnknownKeys
  <2> QED BY <1>2, <1>3, <2>1, LocalReturn, SettlingLoads DEF MatchRecovered
<1>4. CASE MatchDiscovered(w, i)
  <2>1. i.key \in LocalKeys
    BY <1>2, <1>4 DEF CallsBound, Bound, MatchDiscovered
  <2>2. HaltWith(w, {<<"PROVIDER_DUPLICATE_KEY", i.key>>}) => Effect(w)
    BY <1>2, HaltWithLoads DEF ErrorKinds
  <2>3. Finished(w, i, {i.key}) => Effect(w) BY <1>2, FinishedLoads
  <2>4. ASSUME NEW label \in {"adopt", "settle"}, Settling(w, i, i.key, label)
        PROVE  Effect(w)
    BY <1>2, <2>1, <2>4, SettlingLoads
  <2> QED BY <1>4, <2>2, <2>3, <2>4 DEF MatchDiscovered
<1>5. CASE MatchReconciled(w, i)
  <2> DEFINE id == i.result.order
  <2>1. Finished(w, i, {}) => Effect(w) BY <1>2, FinishedLoads
  <2>2. ASSUME NEW kind \in {"UNREQUESTED_ORDER", "DUPLICATE_RESULT", "UNBOUND_ORDER"},
               HaltWith(w, {<<kind, id>>})
        PROVE  Effect(w)
    BY <1>2, <2>2, HaltWithLoads DEF ErrorKinds
  <2>3. ASSUME NEW k \in BoundKeys(id), Settling(w, i, k, "settle")
        PROVE  Effect(w)
    BY <1>2, <2>3, SettlingLoads DEF BoundKeys, PendingKeys
  <2> QED BY <1>5, <2>1, <2>2, <2>3 DEF MatchReconciled
<1> QED BY <1>1, <1>3, <1>4, <1>5

(* Committing a provider's answer is one transaction. *)
LEMMA CommitAnswerEffect ==
  ASSUME TypeOK, CallsBound, NEW w \in Workers, pc[w] \in {"adopt", "settle"},
         Transaction, CommitAnswer(w)
  PROVE  Effect(w)
<1> DEFINE c == call[w]
           names == {IF c.op = "reconcile" THEN c.item.result.order ELSE c.item.key}
<1>1. c.key \in LocalKeys /\ c.item \in Items BY DEF CallsBound, Bound
<1>2. StoreStep
  <2>1. c.item.result \in BrokerResults /\ AnswerType(c) \in ResultEvents
    BY <1>1 DEF Items, AnswerType, ResultEvents
  <2> QED BY <1>1, <2>1 DEF CommitAnswer, StoreStep
<1>3. names \subseteq Keys \cup OrderIds \cup {None}
  BY <1>1 DEF Items, BrokerResults, Results
<1>4. Finished(w, c.item, names) BY DEF CommitAnswer
<1> HIDE DEF names
<1> QED BY <1>2, <1>3, <1>4, FinishedLoads

(* So are all outcomes of taking over a provider's answer. *)
LEMMA AnswerEffect ==
  ASSUME TypeOK, CallsBound, NEW w \in Workers, Adopt(w) \/ Settle(w)
  PROVE  Effect(w)
<1>1. Transaction /\ pc[w] \in {"adopt", "settle"} BY DEF Adopt, Settle
<1>2. call[w].key \in Keys BY <1>1 DEF CallsBound, Bound, LocalKeys
<1>3. CASE CommitAnswer(w) BY <1>1, <1>3, CommitAnswerEffect
<1>4. CASE UNCHANGED storeVars /\ Return(w)
  BY <1>1, <1>4, StepReturn DEF StoreStep
<1>5. CASE UNCHANGED storeVars /\ HaltWith(w, {<<"STATE_CONFLICT", call[w].key>>})
  BY <1>1, <1>2, <1>5, HaltWithLoads DEF StoreStep, ErrorKinds
<1> QED BY <1>3, <1>4, <1>5 DEF Adopt, Settle

(* The owner of the risk basis. *)
LEMMA WriteRiskEffect ==
  ASSUME TypeOK, CallsBound, NEW w \in Workers,
         WriteRiskState(w) \/ WriteRiskLimits(w)
  PROVE  Effect(w)
<1> DEFINE read == call[w].basis
<1>1. Return(w) /\ Transaction BY DEF WriteRiskState, WriteRiskLimits
<1>2. CASE UNCHANGED storeVars BY <1>1, <1>2, StepReturn DEF StoreStep
<1>3. ASSUME pc[w] = "mutate_state", NEW d \in Deposits,
             MutateRiskState([read.state EXCEPT !.cash = @ + d], read.version)
      PROVE  Effect(w)
  <2>1. read \in Basis BY <1>3 DEF CallsBound, Bound
  <2>2. d \in Nat BY ProviderAssumption
  <2>3. [read.state EXCEPT !.cash = @ + d] \in Snapshots /\ read.version \in Nat
    BY <2>1, <2>2 DEF Basis, Snapshots
  <2>4. StoreStep BY <1>3, <2>3 DEF StoreStep
  <2> QED BY <1>1, <2>4, StepReturn
<1>4. ASSUME pc[w] = "mutate_limits", NEW l \in NewLimits,
             MutateRiskLimits(l, read.version)
      PROVE  Effect(w)
  <2>1. read \in Bounds BY <1>4 DEF CallsBound, Bound
  <2>2. l \in Nat /\ read.version \in Nat BY <2>1, ProviderAssumption DEF Bounds
  <2>3. StoreStep BY <1>4, <2>2 DEF StoreStep
  <2> QED BY <1>1, <2>3, StepReturn
<1> QED BY <1>2, <1>3, <1>4 DEF WriteRiskState, WriteRiskLimits

-----------------------------------------------------------------------------
(* The whole system *)

(* The inductive invariant. *)
IInv ==
  /\ TypeOK
  /\ AuditMatchesState
  /\ AuthorizationsInOrder
  /\ LimitsPinned
  /\ CallsBound
  /\ \A k \in Keys : contacts[k] > 0 => k \in SendableKeys

(* The invariant holds initially. *)
LEMMA InitIInv == Init => IInv
<1> SUFFICES ASSUME Init PROVE IInv OBVIOUS
<1>1. StoreTypeOK
  <2>1. audit \in [Keys -> Seq(Events)] BY DEF Init, StoreInit
  <2>2. halt \in [active : BOOLEAN, reason : SUBSET Errors]
    BY DEF Init, StoreInit
  <2> QED BY <2>1, <2>2 DEF Init, StoreInit, StoreTypeOK
<1>2. pc \in [Workers -> Labels] BY DEF Init, Labels
<1>3. call \in [Workers -> Calls]
  <2>1. NoCall \in Calls BY DEF NoCall, Calls
  <2> QED BY <2>1 DEF Init
<1>4. TypeOK BY <1>1, <1>2, <1>3 DEF TypeOK, Init
<1>5. LocalKeys = {} BY DEF Init, StoreInit, LocalKeys
<1>6. AuditMatchesState BY DEF Init, StoreInit, AuditMatchesState
<1>7. AuthorizationsInOrder
  BY DEF Init, StoreInit, AuthorizationsInOrder, RevokedStaysRevoked
<1>8. LimitsPinned BY <1>5 DEF LimitsPinned, PendingKeys
<1>9. CallsBound BY DEF Init, NoCall, CallsBound, Bound
<1> QED BY <1>4, <1>6, <1>7, <1>8, <1>9 DEF IInv, Init

(* Every step of the system is one transaction of the store, and keeps the  *)
(* types and what calls rely on.                                            *)
LEMMA NextIsStoreStep ==
  ASSUME IInv, [Next]_vars
  PROVE  /\ StoreStep /\ TypeOK' /\ CallsBound'
         /\ \A k \in Keys : contacts'[k] > 0 => k \in SendableKeys'
<1> USE DEF IInv
<1>1. ASSUME NEW w \in Workers, Effect(w)
      PROVE  /\ StoreStep /\ TypeOK' /\ CallsBound'
             /\ \A k \in Keys : contacts'[k] > 0 => k \in SendableKeys'
  <2>1. StoreStep /\ Moves(w) /\ UNCHANGED <<venue, contacts, expired>>
    BY <1>1 DEF Effect
  <2>2. StoreTypeOK' BY <2>1, StoreStepTyped DEF TypeOK
  <2>3. /\ pc' \in [Workers -> Labels] /\ call' \in [Workers -> Calls]
        /\ CallsBound'
    BY <2>1, MovesKeepCalls
  <2>4. SendableKeys \subseteq SendableKeys' BY <2>1, StoreStepKeeps DEF TypeOK
  <2> QED BY <2>1, <2>2, <2>3, <2>4 DEF TypeOK
<1>2. ASSUME NEW w \in Workers, Contact(w)
      PROVE  /\ StoreStep /\ TypeOK' /\ CallsBound'
             /\ \A k \in Keys : contacts'[k] > 0 => k \in SendableKeys'
  <2>1. /\ StoreStep /\ Moves(w)
        /\ venue' \in [Keys -> BrokerResults \cup {None}]
        /\ contacts' \in [Keys -> Nat] /\ expired' = expired
        /\ call[w].key \in SendableKeys
        /\ \A k \in Keys \ {call[w].key} : contacts'[k] = contacts[k]
    BY <1>2, ContactEffect
  <2>2. StoreTypeOK' BY <2>1, StoreStepTyped DEF TypeOK
  <2>3. /\ pc' \in [Workers -> Labels] /\ call' \in [Workers -> Calls]
        /\ CallsBound'
    BY <2>1, MovesKeepCalls
  <2>4. SendableKeys \subseteq SendableKeys' BY <2>1, StoreStepKeeps DEF TypeOK
  <2> QED BY <2>1, <2>2, <2>3, <2>4 DEF TypeOK
<1>3. ASSUME StoreStep, UNCHANGED <<pc, call, contacts>>,
             venue' \in [Keys -> BrokerResults \cup {None}], expired' \subseteq Auths
      PROVE  /\ StoreStep /\ TypeOK' /\ CallsBound'
             /\ \A k \in Keys : contacts'[k] > 0 => k \in SendableKeys'
  <2>1. StoreTypeOK' BY <1>3, StoreStepTyped DEF TypeOK
  <2>2. LocalKeys \subseteq LocalKeys' /\ SendableKeys \subseteq SendableKeys'
    BY <1>3, StoreStepKeeps DEF TypeOK
  <2>3. CallsBound'
    <3> SUFFICES ASSUME NEW w \in Workers
                 PROVE  Bound(pc[w], call[w], LocalKeys', SendableKeys')
      BY <1>3 DEF CallsBound
    <3>1. Bound(pc[w], call[w], LocalKeys, SendableKeys) BY DEF CallsBound
    <3> QED BY <2>2, <3>1 DEF Bound
  <2> QED BY <1>3, <2>1, <2>2, <2>3 DEF TypeOK
<1>4. ASSUME NEW w \in Workers, Begin(w) \/ Step(w) \/ Crash(w), ~Contact(w)
      PROVE  Effect(w)
  <2>1. Crash(w) => Effect(w) BY LocalReturn DEF Crash
  <2> QED BY <1>4, <2>1, BeginEffect, SubmitEffect, RecordEffect, InspectEffect,
             AskEffect, CheckOrphansEffect, MatchEffect, AnswerEffect,
             WriteRiskEffect DEF Step
<1>5. ASSUME NEW a \in Auths, Activate(a) \/ Revoke(a) \/ Expire(a)
      PROVE  /\ StoreStep /\ UNCHANGED <<pc, call, contacts>>
             /\ venue' \in [Keys -> BrokerResults \cup {None}]
             /\ expired' \subseteq Auths
  BY <1>5 DEF Activate, Revoke, Expire, StoreStep, storeVars, TypeOK
<1>6. ASSUME OperatorHalt
      PROVE  /\ StoreStep /\ UNCHANGED <<pc, call, contacts>>
             /\ venue' \in [Keys -> BrokerResults \cup {None}]
             /\ expired' \subseteq Auths
  <2> DEFINE errors == {<<"OPERATOR", None>>}
  <2>1. errors \in SUBSET Errors
    <3>1. "OPERATOR" \in ErrorKinds BY DEF ErrorKinds
    <3> QED BY <3>1, ErrorTyped
  <2>2. /\ halt' = [active |-> TRUE, reason |-> errors]
        /\ UNCHANGED <<intents, audit, compliance, haltAudit, active, activated,
                       revoked, risk, limits, pc, call, venue, contacts, expired>>
    BY <1>6 DEF OperatorHalt
  <2> HIDE DEF errors
  <2> QED BY <2>1, <2>2 DEF StoreStep, TypeOK
<1>7. ASSUME NEW k \in Keys, Progress(k)
      PROVE  /\ StoreStep /\ UNCHANGED <<pc, call, contacts>>
             /\ venue' \in [Keys -> BrokerResults \cup {None}]
             /\ expired' \subseteq Auths
  BY <1>7, ProviderAssumption DEF Progress, StoreStep, storeVars, TypeOK
<1>8. CASE UNCHANGED vars
  BY <1>3, <1>8 DEF vars, StoreStep, storeVars, TypeOK
<1> QED BY <1>1, <1>2, <1>3, <1>4, <1>5, <1>6, <1>7, <1>8 DEF Next

(* Every step keeps the invariant. *)
LEMMA NextIInv == IInv /\ [Next]_vars => IInv'
<1> SUFFICES ASSUME IInv, [Next]_vars PROVE IInv' OBVIOUS
<1>1. StoreTypeOK BY DEF IInv, TypeOK
<1> QED BY <1>1, NextIsStoreStep, StoreStepAudit, StoreStepAuthorizations,
           StoreStepLimits DEF IInv

(* The inductive invariant holds in every reachable state. *)
LEMMA Invariant == Spec => []IInv
<1>1. Init => IInv BY InitIInv
<1>2. IInv /\ [Next]_vars => IInv' BY NextIInv
<1> QED BY <1>1, <1>2, PTL DEF Spec

(* Every table, ledger entry and call in progress holds values of the kinds *)
(* the code writes.                                                         *)
THEOREM TypeCorrect == Spec => []TypeOK
<1>1. IInv => TypeOK BY DEF IInv
<1> QED BY <1>1, Invariant, PTL

(* The ledger and the intent table agree in every state a process can see   *)
(* or a crash can leave: every transaction that writes one writes the       *)
(* other (coordinator._commit_compliance_and_intent, _commit_result).       *)
THEOREM AuditAgrees == Spec => []AuditMatchesState
<1>1. IInv => AuditMatchesState BY DEF IInv
<1> QED BY <1>1, Invariant, PTL

(* An authorization that was revoked is never active again, because its     *)
(* activation event can be appended only once (coordinator.activate_,       *)
(* revoke_execution_authorization).                                         *)
THEOREM RevocationIsFinal == Spec => []RevokedStaysRevoked
<1>1. IInv => RevokedStaysRevoked BY DEF IInv, AuthorizationsInOrder
<1> QED BY <1>1, Invariant, PTL

(* The limits a pending LIVE order was approved under stay in force until   *)
(* its outcome is final (execution.mutate_live_risk_limits).                *)
THEOREM LimitsStayPinned == Spec => []LimitsPinned
<1>1. IInv => LimitsPinned BY DEF IInv
<1> QED BY <1>1, Invariant, PTL

(* The broker is only called for an order whose approval, audit event and   *)
(* row were durable before the call (coordinator.submit).                   *)
THEOREM WrittenAhead == Spec => []WriteAhead
<1>1. IInv => WriteAhead BY DEF IInv, WriteAhead, SendableKeys, LocalKeys
<1> QED BY <1>1, Invariant, PTL

(* Every LIVE intent is created under an active, never revoked authorization, *)
(* without a halt, on the risk basis it was approved against: whatever moved   *)
(* since the earlier checks of the call is seen by the transaction             *)
(* (execution._acquire_live_execution_authority_in_connection).                *)
THEOREM AuthorityAtCreation == Spec => IntentsUnderLiveAuthority
<1> DEFINE Created(k) ==
      Live /\ intents[k] = None /\ intents'[k] # None =>
        /\ ~halt.active
        /\ intents'[k].auth = active /\ active \in activated \ revoked
        /\ intents'[k].approval = [state |-> risk.state, limits |-> limits.value]
<1>1. ASSUME IInv, [Next]_vars, NEW k \in Keys PROVE Created(k)
  <2>1. StoreStep BY <1>1, NextIsStoreStep
  <2>2. ASSUME NEW j \in Keys, NEW a \in Auths \cup {None},
               NEW e \in Approvals \cup {None}, RecordIntent(j, a, e),
               IF Live THEN a \in Auths /\ e \in Approvals ELSE a = None
        PROVE  Created(k)
    <3> SUFFICES ASSUME Live, intents[k] = None, intents'[k] # None
                 PROVE  /\ ~halt.active
                        /\ intents'[k].auth = active
                        /\ active \in activated \ revoked
                        /\ intents'[k].approval =
                             [state |-> risk.state, limits |-> limits.value]
      OBVIOUS
    <3>1. AuthorityHeld(a, e) BY <2>2 DEF RecordIntent, CanBind
    <3>2. j = k /\ intents'[k] = NewIntent(a, e)
      BY <1>1, <2>2 DEF RecordIntent, BindIntent, IInv, TypeOK, StoreTypeOK
    <3>3. e = [state |-> risk.state, limits |-> limits.value]
      BY <2>2, <3>1 DEF AuthorityHeld, Approvals
    <3>4. active = a /\ a \in activated \ revoked
      BY <1>1, <2>2, <3>1, NoneIsNothing
         DEF AuthorityHeld, Authorized, IInv, AuthorizationsInOrder,
             RevokedStaysRevoked
    <3> QED BY <3>1, <3>2, <3>3, <3>4 DEF AuthorityHeld, NewIntent
  <2>3. ASSUME intents' = intents PROVE Created(k) BY <2>3
  <2>4. ASSUME NEW j \in LocalKeys, NEW r \in BrokerResults,
               NEW type \in ResultEvents, CommitResult(j, r, type)
        PROVE  Created(k)
    <3>1. LocalKeys' = LocalKeys
      BY <1>1, <2>4, CommitResultKeepsClosed DEF IInv, TypeOK
    <3> QED BY <3>1 DEF LocalKeys
  <2>5. ASSUME NEW j \in LocalKeys, NEW a \in Auths \cup {None},
               NEW e \in Approvals \cup {None}, AcquireAuthority(j, a, e)
        PROVE  intents' = intents
    BY <2>5 DEF AcquireAuthority, BindIntent, LocalKeys
  <2> HIDE DEF Created
  <2> QED
    BY <2>1, <2>2, <2>3, <2>4, <2>5
       DEF StoreStep, storeVars, RecordRefusal, AssertHaltFor, ClearHaltOf,
           ActivateAuthorization, RevokeAuthorization, SeedRiskState,
           SeedRiskLimits, MutateRiskState, MutateRiskLimits
<1>2. IInv /\ [Next]_vars => [\A k \in Keys : Created(k)]_vars
  BY <1>1
<1> QED BY <1>2, Invariant, PTL DEF Spec, IntentsUnderLiveAuthority

=============================================================================
