------------------------ MODULE ExecutionCoordinator ------------------------
(***************************************************************************)
(* Processes calling ExecutionCoordinator methods over one shared store,   *)
(* and the provider behind the broker (coordinator.py,                     *)
(* execution_reconciliation.py).                                           *)
(*                                                                         *)
(* A worker is a process with at most one call in progress.  A step is one *)
(* read of the database, one transaction or one provider call; whatever a  *)
(* step read is kept in the call and may be stale when a later step uses   *)
(* it.  An exception ends the call.  Consecutive reads of one query (the   *)
(* per-key SELECTs of an inspection, pending_keys() and its get()s) are    *)
(* one step.                                                               *)
(***************************************************************************)
EXTENDS ExecutionStore

CONSTANTS Workers,
          Ops,              \* the methods this configuration calls
          ProviderResults,  \* the results the provider reports
          Anomalies,        \* stray items a reconciliation answer may contain
          ProviderSnapshot, \* what risk_state_provider returns
          EngineLimits,     \* max_position_notional of the risk engine
          Deposits,         \* cash the owner of the risk basis may book at once
          NewLimits,        \* what mutate_live_risk_limits may be given
          MaxVersion,       \* bound on the versions mutations may reach
          MayExpire,        \* authorizations whose validity ends
          CrashOps          \* methods in the middle of which a process may die

\* An order as the provider reports it, bound to a client key.
Items == [key : Keys, result : BrokerResults]

ASSUME ProviderAssumption ==
  /\ ProviderResults \subseteq BrokerResults /\ Anomalies \subseteq Items
  /\ ProviderSnapshot \in Snapshots /\ EngineLimits \in Nat
  /\ Deposits \subseteq Nat /\ NewLimits \subseteq Nat
  /\ MaxVersion \in Nat /\ MayExpire \subseteq Auths

VARIABLES
  pc,       \* worker -> the next step of its call, or "idle"
  call,     \* worker -> arguments and what the call has read so far
  venue,    \* key -> the provider's order for it, as its latest result
  contacts, \* key -> how often broker.submit was called for it
  expired   \* authorizations past expires_at

vars == <<storeVars, pc, call, venue, contacts, expired>>

NoCall == [op |-> "none", key |-> None, auth |-> None, approval |-> None,
           view |-> None, basis |-> None, errors |-> {}, asked |-> {},
           items |-> {}, item |-> None, seen |-> {}]

-----------------------------------------------------------------------------
(* Calls *)

Goto(w, label) == pc' = [pc EXCEPT ![w] = label]

Return(w) ==
  /\ pc' = [pc EXCEPT ![w] = "idle"]
  /\ call' = [call EXCEPT ![w] = NoCall]

Start(w, c, label) ==
  /\ pc[w] = "idle"
  /\ c.op \in Ops
  /\ call' = [call EXCEPT ![w] = c]
  /\ Goto(w, label)
  /\ UNCHANGED <<storeVars, venue, contacts, expired>>

\* The step has no effect outside the call.
Local == UNCHANGED <<storeVars, venue, contacts, expired>>
\* The step is a transaction; its effect on the store is stated beside it.
Transaction == UNCHANGED <<venue, contacts, expired>>

-----------------------------------------------------------------------------
(* submit and prepare *)

\* What the deterministic risk engine approves: position and cash suffice.
RiskApproves(k, e) ==
  IF k \in Sells
  THEN Qty <= e.state.position /\ e.state.position - Qty <= e.limits
  ELSE Qty <= e.state.cash /\ e.state.position + Qty <= e.limits

\* The caller's approval: evaluated on the basis as it is when it calls.
ApprovalFor(k) ==
  LET e == [state  |-> IF risk = None THEN ProviderSnapshot ELSE risk.state,
            limits |-> IF limits = None THEN EngineLimits ELSE limits.value]
  IN  IF Live THEN {x \in {e} : RiskApproves(k, x)} ELSE {None}

Submit(w) ==
  \E k \in Keys, a \in IF Live THEN Auths ELSE {None} : \E e \in ApprovalFor(k) :
    Start(w, [NoCall EXCEPT !.op = "submit", !.key = k, !.auth = a,
                            !.approval = e], "authorize")

Prepare(w) ==
  \E k \in Keys, a \in IF Live THEN Auths ELSE {None} : \E e \in ApprovalFor(k) :
    Start(w, [NoCall EXCEPT !.op = "prepare", !.key = k, !.auth = a,
                            !.approval = e], "prepare")

\* validate_authorization: here, not yet expired.
Valid(a) == Live => a \notin expired

\* _require_execution_authorization
RequireAuthorization(w, label) ==
  /\ IF Valid(call[w].auth) /\ (Live => Authorized(call[w].auth))
     THEN Goto(w, label) /\ UNCHANGED call
     ELSE Return(w)
  /\ Local

Authorize(w) == pc[w] = "authorize" /\ RequireAuthorization(w, "read_ledger")

CheckHalt(w) ==
  /\ pc[w] = "check_halt"
  /\ IF halt.active THEN Return(w) ELSE Goto(w, "lookup") /\ UNCHANGED call
  /\ Local

\* Mutant: an intent without a result is sent again.
Lookup_Resubmits(w) ==
  /\ pc[w] = "lookup"
  /\ IF intents[call[w].key] # None /\ intents[call[w].key].result # None
     THEN Return(w) ELSE Goto(w, "prepare") /\ UNCHANGED call
  /\ Local

\* H3: an existing intent is answered or refused, never sent again.
Lookup(w) ==
  /\ pc[w] = "lookup"
  /\ IF intents[call[w].key] # None
     THEN Return(w) ELSE Goto(w, "prepare") /\ UNCHANGED call
  /\ Local

\* A new intent needs the active authorization, an existing one a valid one.
CheckPrepare(w) ==
  LET c == call[w] IN
  /\ pc[w] = "prepare"
  /\ IF Valid(c.auth) /\ (Live /\ intents[c.key] = None => Authorized(c.auth))
     THEN /\ Goto(w, IF Live /\ (risk = None \/ limits = None)
                     THEN "seed_state" ELSE "commit_intent")
          /\ UNCHANGED call
     ELSE Return(w)
  /\ Local

SeedState(w) ==
  /\ pc[w] = "seed_state"
  /\ SeedRiskState(ProviderSnapshot)
  /\ Goto(w, "seed_limits")
  /\ UNCHANGED call /\ Transaction

SeedLimits(w) ==
  /\ pc[w] = "seed_limits"
  /\ SeedRiskLimits(EngineLimits)
  /\ Goto(w, "commit_intent")
  /\ UNCHANGED call /\ Transaction

\* The verdict of the compliance policy on the request of k.
Allowed(k) == k \notin Prohibited

\* Mutant: the refusal is recorded, the order goes out.
CommitIntent_IgnoresRefusal(w) ==
  LET c == call[w] IN
  /\ pc[w] = "commit_intent"
  /\ RecordIntent(c.key, c.auth, c.approval)
  /\ IF c.op = "prepare" THEN Return(w) ELSE Goto(w, "contact") /\ UNCHANGED call
  /\ Transaction

CommitIntent(w) ==
  LET c == call[w] IN
  /\ pc[w] = "commit_intent"
  /\ \/ /\ Allowed(c.key)
        /\ RecordIntent(c.key, c.auth, c.approval)
        /\ IF c.op = "prepare" THEN Return(w)
           ELSE /\ Goto(w, IF Live THEN "reauthorize" ELSE "contact")
                /\ UNCHANGED call
     \/ /\ Allowed(c.key)
        /\ ~CanBind(c.key, c.auth, c.approval)
        /\ Return(w)
        /\ UNCHANGED storeVars
     \/ /\ ~Allowed(c.key)
        /\ RecordRefusal(c.key)
        /\ Return(w)
  /\ Transaction

Reauthorize(w) == pc[w] = "reauthorize" /\ RequireAuthorization(w, "acquire")

Acquire(w) ==
  LET c == call[w] IN
  /\ pc[w] = "acquire"
  /\ \/ /\ AcquireAuthority(c.key, c.auth, c.approval)
        /\ Goto(w, "contact")
        /\ UNCHANGED call
     \/ /\ ~CanBind(c.key, c.auth, c.approval)
        /\ Return(w)
        /\ UNCHANGED storeVars
  /\ Transaction

\* broker.submit: the provider answers, or the call raises with the order
\* placed or not.  The provider keeps one order per client key.
Contact(w) ==
  LET k == call[w].key IN
  /\ pc[w] = "contact"
  /\ contacts' = [contacts EXCEPT ![k] = @ + 1]
  /\ \E placed \in
        IF venue[k] # None THEN {venue[k]}
        ELSE {None} \cup {r \in ProviderResults :
               QuantitiesFit(None, r) /\ \A j \in Keys : venue[j] # None =>
                 r.order = None \/ r.order # venue[j].order} :
     \E answer \in {placed, TimeoutResult} \ {None} :
       /\ venue' = [venue EXCEPT ![k] = placed]
       /\ call' = [call EXCEPT ![w].items = {[key |-> k, result |-> answer]}]
  /\ Goto(w, "record")
  /\ UNCHANGED <<storeVars, expired>>

\* Mutant: a lost answer is audited like a received one.
Record_OneEventType(w) ==
  /\ pc[w] = "record"
  /\ \E i \in call[w].items : CommitResult(i.key, i.result, "EXECUTION_RESULT")
  /\ Return(w)
  /\ Transaction

\* The answer, or the uncertainty, becomes durable; a refused one raises.
Record(w) ==
  /\ pc[w] = "record"
  /\ \E i \in call[w].items :
       CommitResult(i.key, i.result,
         IF i.result = TimeoutResult THEN "EXECUTION_UNKNOWN"
         ELSE "EXECUTION_RESULT")
  /\ Return(w)
  /\ Transaction

-----------------------------------------------------------------------------
(* Inspection: enforce_reconciliation_safety and clear_halt *)

Count(events, types) == Cardinality({i \in DOMAIN events : events[i].type \in types})

\* What is wrong between the rows of the store now and a ledger read earlier.
Discrepancies(view) ==
  LET result(k)  == intents[k].result
      Logged(k)  == {i \in DOMAIN view[k] : view[k][i].type \in ResultEvents}
      Decided    == {k \in LocalKeys : result(k) # None}
      Audited    == {k \in Decided : Logged(k) # {}}
      Found(kind, ks) == {<<kind, k>> : k \in ks}
  IN UNION {
    Found("AUDIT_ORPHAN", {k \in Keys \ LocalKeys : view[k] # <<>>}),
    Found("BROKER_ORDER_ID_DUPLICATE",
      {k \in Decided : result(k).order # None /\
         \E j \in Decided \ {k} : result(j).order = result(k).order}),
    Found("INTENT_AUDIT_COUNT_MISMATCH",
      {k \in LocalKeys : Count(view[k], {"EXECUTION_INTENT_CREATED"}) # 1}),
    Found("STATE_MISSING_RESULT", {k \in LocalKeys \ Decided : Logged(k) # {}}),
    Found("RESULT_AUDIT_MISSING", Decided \ Audited),
    Found("UNKNOWN_AUDIT_MISMATCH", {k \in Audited : \E i \in Logged(k) :
      /\ view[k][i].type = "EXECUTION_UNKNOWN"
      /\ view[k][i].result.status # "UNKNOWN"}),
    Found("RESULT_AUDIT_UNKNOWN", {k \in Audited : \E i \in Logged(k) :
      /\ view[k][i].type = "EXECUTION_RESULT"
      /\ view[k][i].result.status = "UNKNOWN"}),
    Found("AUDIT_STATE_MISMATCH", {k \in Audited : \E i \in Logged(k) :
      /\ \A j \in Logged(k) : j <= i
      /\ view[k][i].result # result(k)}),
    Found("FILL_AUDIT_REGRESSION", {k \in Audited : \E i, j \in Logged(k) :
      /\ i < j
      /\ view[k][i].result.filled # None /\ view[k][j].result.filled # None
      /\ view[k][j].result.filled < view[k][i].result.filled}),
    Found("UNKNOWN_HAS_RECONCILIATION", {k \in Audited :
      /\ Status(k) = "UNKNOWN"
      /\ Count(view[k], {"EXECUTION_RECOVERED", "EXECUTION_RECONCILED"}) > 0})}

Healthy == Discrepancies(audit) = {}

Enforce(w)   == Start(w, [NoCall EXCEPT !.op = "enforce"], "read_ledger")
ClearHalt(w) == Start(w, [NoCall EXCEPT !.op = "clear_halt"], "read_ledger")

\* inspect_execution_consistency reads the ledger first (a read that races with
\* an append, and raises, is modelled in ImmutableLedger and not here) ...
ReadLedger(w) ==
  /\ pc[w] = "read_ledger"
  /\ call' = [call EXCEPT ![w].view = audit]
  /\ Goto(w, "read_store")
  /\ Local

\* ... and the intents afterwards, on other connections.
ReadStore(w) ==
  LET c == call[w]
      errors == Discrepancies(c.view) IN
  /\ pc[w] = "read_store"
  /\ \/ /\ errors # {} /\ c.op # "clear_halt"
        /\ call' = [call EXCEPT ![w].view = None, ![w].errors = errors]
        /\ Goto(w, "assert_halt")
     \/ /\ errors = {} /\ c.op # "enforce"
        /\ call' = [call EXCEPT ![w].view = None]
        /\ Goto(w, IF c.op = "submit" THEN "check_halt" ELSE "read_reason")
     \/ /\ IF errors = {} THEN c.op = "enforce" ELSE c.op = "clear_halt"
        /\ Return(w)
  /\ Local

\* The halt of an unhealthy inspection, or of a reconciliation; the former
\* inside submit goes on to its own check, every other one raises.
AssertHalt(w) ==
  /\ pc[w] = "assert_halt"
  /\ AssertHaltFor(call[w].errors)
  /\ IF call[w].op = "submit"
     THEN /\ call' = [call EXCEPT ![w].errors = {}]
          /\ Goto(w, "check_halt")
     ELSE Return(w)
  /\ Transaction

ReadReason(w) ==
  /\ pc[w] = "read_reason"
  /\ IF halt.active
     THEN /\ call' = [call EXCEPT ![w].errors = halt.reason]
          /\ Goto(w, "clear")
     ELSE Return(w)
  /\ Local

Clear(w) ==
  /\ pc[w] = "clear"
  /\ ClearHaltOf(call[w].errors)
  /\ Return(w)
  /\ Transaction

-----------------------------------------------------------------------------
(* Reconciliation: recover_unknown, reconcile, reconcile_discovered_orders *)

Recover(w) ==
  UnknownKeys # {} /\
    Start(w, [NoCall EXCEPT !.op = "recover", !.asked = UnknownKeys], "ask")

\* Callers reconcile the orders of pending intents.
Reconcile(w) ==
  \E ids \in SUBSET ({intents[k].result.order :
                        k \in {j \in PendingKeys : intents[j].result # None}}
                     \ {None}) \ {{}} :
    Start(w, [NoCall EXCEPT !.op = "reconcile", !.asked = ids], "ask")

\* A list that names an order twice is itself a reason to halt.
ReconcileTwice(w) ==
  /\ Anomalies # {}
  /\ Start(w, [NoCall EXCEPT !.op = "reconcile",
                 !.errors = {<<"DUPLICATE_REQUESTED_ORDER_ID", None>>}],
           "assert_halt")

Discover(w) == Start(w, [NoCall EXCEPT !.op = "discover"], "ask")

\* The keys whose orders an honest provider reports to the question asked.
Reported(c) ==
  {k \in Keys : /\ venue[k] # None
                /\ c.op = "discover" => venue[k].status \notin Terminal
                /\ c.op = "recover" => k \in c.asked
                /\ c.op = "reconcile" => venue[k].order \in c.asked}

Ask(w) ==
  /\ pc[w] = "ask"
  /\ \E stray \in {{}} \cup {{x} : x \in Anomalies} :
       LET answer == stray \cup
             {[key |-> k, result |-> venue[k]] : k \in Reported(call[w])} IN
       IF answer = {} THEN Return(w)
       ELSE /\ call' = [call EXCEPT ![w].items = answer]
            /\ Goto(w, IF call[w].op = "discover" THEN "local_keys" ELSE "match")
  /\ Local

HaltWith(w, errors) ==
  /\ call' = [call EXCEPT ![w].errors = errors]
  /\ Goto(w, "assert_halt")

\* Mutant: only intents of unknown outcome count as local.
CheckOrphans_UnknownOnly(w) ==
  LET orphans == {i \in call[w].items : i.key \notin UnknownKeys} IN
  /\ pc[w] = "local_keys"
  /\ IF orphans # {}
     THEN HaltWith(w, {<<"PROVIDER_ORDER_ORPHAN", i.key>> : i \in orphans})
     ELSE Goto(w, "match") /\ UNCHANGED call
  /\ Local

\* An order no local intent explains halts everything (the reason names it by
\* its order id, here by its key).  The keys are read after the provider
\* answered: an order is placed after its intent.
CheckOrphans(w) ==
  LET orphans == {i \in call[w].items : i.key \notin LocalKeys} IN
  /\ pc[w] = "local_keys"
  /\ IF orphans # {}
     THEN HaltWith(w, {<<"PROVIDER_ORDER_ORPHAN", i.key>> : i \in orphans})
     ELSE Goto(w, "match") /\ UNCHANGED call
  /\ Local

\* Take up item i for the intent k / leave it / be done with it under name.
Settling(w, i, k, label) ==
  /\ call' = [call EXCEPT ![w].item = i, ![w].key = k]
  /\ Goto(w, label)

Finished(w, i, names) ==
  IF call[w].items = {i} THEN Return(w)
  ELSE /\ call' = [call EXCEPT ![w].items = @ \ {i}, ![w].item = None,
                               ![w].key = None, ![w].seen = @ \cup names]
       /\ Goto(w, "match")

\* Unasked, repeated or no longer UNKNOWN: recovery raises without a halt.
MatchRecovered(w, i) ==
  /\ call[w].op = "recover"
  /\ IF i.key \in call[w].asked \ call[w].seen /\ i.key \in UnknownKeys
     THEN Settling(w, i, i.key, "adopt")
     ELSE Return(w)

MatchDiscovered(w, i) ==
  /\ call[w].op = "discover"
  /\ \/ /\ i.key \in call[w].seen
        /\ HaltWith(w, {<<"PROVIDER_DUPLICATE_KEY", i.key>>})
     \/ /\ i.key \notin call[w].seen
        /\ IF intents[i.key].result = i.result THEN Finished(w, i, {i.key})
           ELSE Settling(w, i, i.key, IF intents[i.key].result = None
                                      THEN "adopt" ELSE "settle")

BoundKeys(id) ==
  {k \in PendingKeys : intents[k].result # None /\ intents[k].result.order = id}

MatchReconciled(w, i) ==
  LET id == i.result.order IN
  /\ call[w].op = "reconcile"
  /\ \/ id = None /\ Finished(w, i, {})
     \/ /\ id # None /\ id \notin call[w].asked
        /\ HaltWith(w, {<<"UNREQUESTED_ORDER", id>>})
     \/ /\ id \in call[w].asked \cap call[w].seen
        /\ HaltWith(w, {<<"DUPLICATE_RESULT", id>>})
     \/ /\ id \in call[w].asked \ call[w].seen
        /\ IF BoundKeys(id) = {} THEN HaltWith(w, {<<"UNBOUND_ORDER", id>>})
           ELSE \E k \in BoundKeys(id) : Settling(w, i, k, "settle")

Match(w) ==
  /\ pc[w] = "match"
  /\ \E i \in call[w].items :
       MatchRecovered(w, i) \/ MatchDiscovered(w, i) \/ MatchReconciled(w, i)
  /\ Local

AnswerType(c) ==
  IF c.op = "recover" THEN "EXECUTION_RECOVERED" ELSE "EXECUTION_RECONCILED"

AnswerOutcome(c) == ResultOutcome(c.key, c.item.result, AnswerType(c))

\* Commit the provider's answer and go on with the next item.
CommitAnswer(w) ==
  /\ CommitResult(call[w].key, call[w].item.result, AnswerType(call[w]))
  /\ AnswerOutcome(call[w]) \in {"committed", "recorded"}
  /\ Finished(w, call[w].item,
       {IF call[w].op = "reconcile" THEN call[w].item.result.order
        ELSE call[w].item.key})

\* For an intent that had no result when it was looked at: refusals raise.
Adopt(w) ==
  /\ pc[w] = "adopt"
  /\ \/ CommitAnswer(w)
     \/ /\ AnswerOutcome(call[w]) \in {"conflict", "invalid"}
        /\ Return(w)
        /\ UNCHANGED storeVars
  /\ Transaction

\* For an intent that had one: an illegal transition is a reason to halt.
Settle(w) ==
  /\ pc[w] = "settle"
  /\ \/ CommitAnswer(w)
     \/ /\ AnswerOutcome(call[w]) = "conflict"
        /\ HaltWith(w, {<<"STATE_CONFLICT", call[w].key>>})
        /\ UNCHANGED storeVars
     \/ /\ AnswerOutcome(call[w]) = "invalid"
        /\ Return(w)
        /\ UNCHANGED storeVars
  /\ Transaction

-----------------------------------------------------------------------------
(* Operators *)

Activate(a) ==
  /\ "activate" \in Ops /\ a \notin expired
  /\ ActivateAuthorization(a)
  /\ UNCHANGED <<pc, call, venue, contacts, expired>>

Revoke(a) ==
  /\ "revoke" \in Ops
  /\ RevokeAuthorization(a)
  /\ UNCHANGED <<pc, call, venue, contacts, expired>>

\* store.halt leaves no event.
OperatorHalt ==
  /\ "halt" \in Ops
  /\ halt' = [active |-> TRUE, reason |-> {<<"OPERATOR", None>>}]
  /\ UNCHANGED <<intents, audit, compliance, haltAudit, active, activated,
                 revoked, risk, limits, pc, call, venue, contacts, expired>>

\* The owner of the risk basis reads a row and its version, then replaces it
\* by what it made of it: a booked deposit, other limits.
ReadRiskState(w) ==
  /\ risk # None /\ risk.version < MaxVersion
  /\ Start(w, [NoCall EXCEPT !.op = "mutate_state", !.basis = risk],
           "mutate_state")

ReadRiskLimits(w) ==
  /\ limits # None /\ limits.version < MaxVersion
  /\ Start(w, [NoCall EXCEPT !.op = "mutate_limits", !.basis = limits],
           "mutate_limits")

WriteRiskState(w) ==
  LET read == call[w].basis IN
  /\ pc[w] = "mutate_state"
  /\ \/ \E d \in Deposits :
          MutateRiskState([read.state EXCEPT !.cash = @ + d], read.version)
     \/ /\ ~RiskStateMutable(read.version)
        /\ UNCHANGED storeVars
  /\ Return(w)
  /\ Transaction

WriteRiskLimits(w) ==
  LET read == call[w].basis IN
  /\ pc[w] = "mutate_limits"
  /\ \/ \E l \in NewLimits : MutateRiskLimits(l, read.version)
     \/ /\ ~RiskLimitsMutable(read.version)
        /\ UNCHANGED storeVars
  /\ Return(w)
  /\ Transaction

-----------------------------------------------------------------------------
(* The environment *)

\* A process dies: what it knew is gone, what it committed stays.
Crash(w) ==
  /\ call[w].op \in CrashOps /\ pc[w] # "idle"
  /\ Return(w)
  /\ Local

\* An order at the provider only moves forward and ends in a final status.
MovesTo(r, s) ==
  /\ r # s /\ r.order = s.order
  /\ r.status \notin Terminal /\ Filled(r) <= Filled(s)
  /\ r.status = "PARTIALLY_FILLED" => s.status \notin {"ACCEPTED", "REJECTED"}
  /\ s.status # "UNKNOWN"

\* The provider's order moves on by itself.
Progress(k) ==
  /\ venue[k] # None
  /\ \E r \in ProviderResults :
       MovesTo(venue[k], r) /\ venue' = [venue EXCEPT ![k] = r]
  /\ UNCHANGED <<storeVars, pc, call, contacts, expired>>

Expire(a) ==
  /\ a \in MayExpire \ expired
  /\ expired' = expired \cup {a}
  /\ UNCHANGED <<storeVars, pc, call, venue, contacts>>

-----------------------------------------------------------------------------

Init ==
  /\ StoreInit
  /\ pc = [w \in Workers |-> "idle"]
  /\ call = [w \in Workers |-> NoCall]
  /\ venue = [k \in Keys |-> None]
  /\ contacts = [k \in Keys |-> 0]
  /\ expired = {}

Begin(w) ==
  \/ Submit(w) \/ Prepare(w) \/ Enforce(w) \/ ClearHalt(w)
  \/ Recover(w) \/ Reconcile(w) \/ ReconcileTwice(w) \/ Discover(w)
  \/ ReadRiskState(w) \/ ReadRiskLimits(w)

Step(w) ==
  \/ Authorize(w) \/ CheckHalt(w) \/ Lookup(w) \/ CheckPrepare(w)
  \/ SeedState(w) \/ SeedLimits(w) \/ CommitIntent(w) \/ Reauthorize(w)
  \/ Acquire(w) \/ Contact(w) \/ Record(w)
  \/ ReadLedger(w) \/ ReadStore(w) \/ AssertHalt(w) \/ ReadReason(w) \/ Clear(w)
  \/ Ask(w) \/ CheckOrphans(w) \/ Match(w) \/ Adopt(w) \/ Settle(w)
  \/ WriteRiskState(w) \/ WriteRiskLimits(w)

Next ==
  \/ \E w \in Workers : Begin(w) \/ Step(w) \/ Crash(w)
  \/ \E a \in Auths : Activate(a) \/ Revoke(a) \/ Expire(a)
  \/ OperatorHalt
  \/ \E k \in Keys : Progress(k)

Spec == Init /\ [][Next]_vars

\* A process that has started a call keeps running, and whoever operates the
\* system keeps asking for recovery and reconciliation.
Fairness ==
  \A w \in Workers :
    WF_vars(Step(w)) /\ SF_vars(Recover(w)) /\ SF_vars(Reconcile(w))

FairSpec == Spec /\ Fairness

=============================================================================
