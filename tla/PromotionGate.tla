---------------------------- MODULE PromotionGate ----------------------------
(***************************************************************************)
(* The evidence the promote command collects (evidence.py) and the gate    *)
(* that judges it (promotion.py).                                          *)
(***************************************************************************)
EXTENDS Naturals

Targets == {"PAPER", "LIVE"}

\* What promote finds besides its work directory and the data file: does the
\* test suite pass, are credentials of a live broker in the environment, is a
\* live broker adapter implemented, has a human attested approval.
Environment == [tests : BOOLEAN, credentials : BOOLEAN,
                adapter : BOOLEAN, attested : BOOLEAN]

RiskLimitsActive(limits) == \A field \in DOMAIN limits : limits[field] > 0

\* PaperExecution under a kill switch, which the engine uses and the evidence
\* probes armed and disarmed.
Refuses(switch) == switch

KillSwitchVerified == Refuses(TRUE) /\ ~Refuses(FALSE)

\* Two runs of the loop over the same data agree; with no cycle to compare
\* the check is not passed.
ReplayDeterministic(cycles) == cycles > 0

\* collect_evidence: a run record counts whichever run wrote it; live controls
\* are never verified.
Evidence(runRecord, cycles, limits, env) ==
  [tests_green |-> env.tests,
   paper_run_complete |-> runRecord,
   risk_limits_active |-> RiskLimitsActive(limits),
   kill_switch_verified |-> KillSwitchVerified,
   replay_deterministic |-> ReplayDeterministic(cycles),
   no_live_credentials |-> ~env.credentials,
   live_execution_implemented |-> env.adapter,
   live_controls_verified |-> FALSE,
   human_approval |-> env.attested,
   live_credentials_configured |-> env.credentials]

BaseRequirements == {"tests_green", "paper_run_complete", "risk_limits_active",
                     "kill_switch_verified", "replay_deterministic"}
PaperRequirements == {"no_live_credentials"}
LiveRequirements == {"live_credentials_configured", "live_execution_implemented",
                     "live_controls_verified", "human_approval"}

Requirements(target) ==
  BaseRequirements \cup (IF target = "PAPER" THEN PaperRequirements ELSE LiveRequirements)

Eligible(evidence, target) == \A field \in Requirements(target) : evidence[field]

=============================================================================
