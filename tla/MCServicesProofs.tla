-------------------------- MODULE MCServicesProofs --------------------------
(* The services side by side: every step of MCServices is, to each of them, *)
(* a step of its own or none, so what ServicesProofs and BillingProofs prove *)
(* of a service on its own holds of it among the others, for all values of   *)
(* its constants.                                                           *)
EXTENDS MCServices, ServicesProofs, BillingProofs

-----------------------------------------------------------------------------
LEMMA RegistryRuns == ServicesSpec => Registry!Spec
<1>1. ServicesInit => Registry!Init
  BY DEF ServicesInit
<1>2. [ServicesNext]_allVars => [Registry!Next]_Registry!registryVars
  <2>1. ServicesNext => [Registry!Next]_Registry!registryVars
    BY DEF ServicesNext, Rest, registryVars, Registry!registryVars
  <2>2. UNCHANGED allVars => UNCHANGED Registry!registryVars
    BY DEF allVars, registryVars, Registry!registryVars
  <2> QED
    BY <2>1, <2>2
<1> QED
  BY <1>1, <1>2, PTL DEF ServicesSpec, Registry!Spec

LEMMA BoardRuns == ServicesSpec => Board!Spec
<1>1. ServicesInit => Board!Init
  BY DEF ServicesInit
<1>2. [ServicesNext]_allVars => [Board!Next]_Board!boardVars
  <2>1. ServicesNext => [Board!Next]_Board!boardVars
    BY DEF ServicesNext, Rest, boardVars, Board!boardVars, Board!Next, Board!itemVars, Board!settingVars
  <2>2. UNCHANGED allVars => UNCHANGED Board!boardVars
    BY DEF allVars, boardVars, Board!boardVars, Board!itemVars, Board!settingVars
  <2> QED
    BY <2>1, <2>2
<1> QED
  BY <1>1, <1>2, PTL DEF ServicesSpec, Board!Spec

LEMMA LoginsRun == ServicesSpec => Login!Spec
<1>1. ServicesInit => Login!Init
  BY DEF ServicesInit
<1>2. [ServicesNext]_allVars => [Login!Next]_Login!sessionVars
  <2>1. ServicesNext => [Login!Next]_Login!sessionVars
    BY DEF ServicesNext, Rest, loginVars, Login!sessionVars
  <2>2. UNCHANGED allVars => UNCHANGED Login!sessionVars
    BY DEF allVars, loginVars, Login!sessionVars
  <2> QED
    BY <2>1, <2>2
<1> QED
  BY <1>1, <1>2, PTL DEF ServicesSpec, Login!Spec

LEMMA MonitorRuns == ServicesSpec => Health!Spec
<1>1. ServicesInit => Health!Init
  BY DEF ServicesInit
<1>2. [ServicesNext]_allVars => [Health!Next]_Health!healthVars
  <2>1. ServicesNext => [Health!Next]_Health!healthVars
    BY DEF ServicesNext, Rest, healthVars, Health!healthVars
  <2>2. UNCHANGED allVars => UNCHANGED Health!healthVars
    BY DEF allVars, healthVars, Health!healthVars
  <2> QED
    BY <2>1, <2>2
<1> QED
  BY <1>1, <1>2, PTL DEF ServicesSpec, Health!Spec

LEMMA GovernanceRuns == ServicesSpec => Gov!Spec
<1>1. ServicesInit => Gov!Init
  BY DEF ServicesInit
<1>2. [ServicesNext]_allVars => [Gov!Next]_Gov!govVars
  <2>1. ServicesNext => [Gov!Next]_Gov!govVars
    BY DEF ServicesNext, Rest, govVars, Gov!govVars, Gov!Next
  <2>2. UNCHANGED allVars => UNCHANGED Gov!govVars
    BY DEF allVars, govVars, Gov!govVars
  <2> QED
    BY <2>1, <2>2
<1> QED
  BY <1>1, <1>2, PTL DEF ServicesSpec, Gov!Spec

LEMMA MessagingRuns == ServicesSpec => Rm!Spec
<1>1. ServicesInit => Rm!Init
  BY DEF ServicesInit
<1>2. [ServicesNext]_allVars => [Rm!Next]_Rm!rmVars
  <2>1. ServicesNext => [Rm!Next]_Rm!rmVars
    BY DEF ServicesNext, Rest, rmVars, Rm!rmVars
  <2>2. UNCHANGED allVars => UNCHANGED Rm!rmVars
    BY DEF allVars, rmVars, Rm!rmVars
  <2> QED
    BY <2>1, <2>2
<1> QED
  BY <1>1, <1>2, PTL DEF ServicesSpec, Rm!Spec

LEMMA EnrollmentRuns == ServicesSpec => Enrol!Spec
<1>1. ServicesInit => Enrol!Init
  BY DEF ServicesInit
<1>2. [ServicesNext]_allVars => [Enrol!Next]_Enrol!enrollVars
  <2>1. ServicesNext => [Enrol!Next]_Enrol!enrollVars
    BY DEF ServicesNext, Rest, enrolVars, Enrol!enrollVars
  <2>2. UNCHANGED allVars => UNCHANGED Enrol!enrollVars
    BY DEF allVars, enrolVars, Enrol!enrollVars
  <2> QED
    BY <2>1, <2>2
<1> QED
  BY <1>1, <1>2, PTL DEF ServicesSpec, Enrol!Spec

LEMMA AggregatorRuns == ServicesSpec => AggregatorSpec
<1>1. ServicesInit => AggregatorInit
  BY DEF ServicesInit
<1>2. [ServicesNext]_allVars => [AggregatorNext]_costVars
  <2>1. ServicesNext => [AggregatorNext]_costVars
    BY DEF ServicesNext, Rest, costVars
  <2>2. UNCHANGED allVars => UNCHANGED costVars
    BY DEF allVars, costVars
  <2> QED
    BY <2>1, <2>2
<1> QED
  BY <1>1, <1>2, PTL DEF ServicesSpec, AggregatorSpec

LEMMA BudgetsRun == ServicesSpec => BudgetSpec
<1>1. ServicesInit => BudgetInit
  BY DEF ServicesInit
<1>2. [ServicesNext]_allVars => [BudgetNext]_budgetVars
  <2>1. ServicesNext => [BudgetNext]_budgetVars
    BY DEF ServicesNext, Rest, budgetVars
  <2>2. UNCHANGED allVars => UNCHANGED budgetVars
    BY DEF allVars, budgetVars
  <2> QED
    BY <2>1, <2>2
<1> QED
  BY <1>1, <1>2, PTL DEF ServicesSpec, BudgetSpec

LEMMA TenancyRuns == ServicesSpec => TenantSpec
<1>1. ServicesInit => TenantInit
  BY DEF ServicesInit
<1>2. [ServicesNext]_allVars => [TenantNext]_tenantVars
  <2>1. ServicesNext => [TenantNext]_tenantVars
    BY DEF ServicesNext, Rest, tenantVars
  <2>2. UNCHANGED allVars => UNCHANGED tenantVars
    BY DEF allVars, tenantVars
  <2> QED
    BY <2>1, <2>2
<1> QED
  BY <1>1, <1>2, PTL DEF ServicesSpec, TenantSpec

LEMMA AgentsRun == ServicesSpec => Agent!Spec
<1>1. ServicesInit => Agent!Init
  BY DEF ServicesInit
<1>2. [ServicesNext]_allVars => [Agent!Next]_Agent!agentVars
  <2>1. ServicesNext => [Agent!Next]_Agent!agentVars
    BY DEF ServicesNext, Rest, agentVars, Agent!agentVars
  <2>2. UNCHANGED allVars => UNCHANGED Agent!agentVars
    BY DEF allVars, agentVars, Agent!agentVars
  <2> QED
    BY <2>1, <2>2
<1> QED
  BY <1>1, <1>2, PTL DEF ServicesSpec, Agent!Spec

LEMMA ActivationsRun == ServicesSpec => Spec
<1>1. ServicesInit => Init
  BY DEF ServicesInit
<1>2. [ServicesNext]_allVars => [Next]_provVars
  <2>1. ServicesNext => [Next]_provVars
    BY DEF ServicesNext, Rest, provVars
  <2>2. UNCHANGED allVars => UNCHANGED provVars
    BY DEF allVars, provVars
  <2> QED
    BY <2>1, <2>2
<1> QED
  BY <1>1, <1>2, PTL DEF ServicesSpec, Spec

LEMMA RouterRuns == ServicesSpec => Llm!Spec
<1>1. ServicesInit => Llm!Init
  BY DEF ServicesInit
<1>2. [ServicesNext]_allVars => [Llm!Next]_Llm!llmVars
  <2>1. ServicesNext => [Llm!Next]_Llm!llmVars
    BY DEF ServicesNext, Rest, llmVars, Llm!llmVars
  <2>2. UNCHANGED allVars => UNCHANGED Llm!llmVars
    BY DEF allVars, llmVars, Llm!llmVars
  <2> QED
    BY <2>1, <2>2
<1> QED
  BY <1>1, <1>2, PTL DEF ServicesSpec, Llm!Spec

-----------------------------------------------------------------------------
\* However the requests, sweeps, dispatches and logins of any number of callers
\* overlap, what is reported of work done elsewhere is grounded in it
\* (tasks_api/reconciler.py:60-170, issues_api/router.py:218-255,
\* sessions_api/service.py:41-160, settings_api/repository.py:41,
\* topology/health_monitor.py:68-146), and the tables of agents and panes agree
\* until calls overlap (registry/repository.py:162-230).
THEOREM ReportsTellTheTruth == ServicesSpec => []ReportsTell
<1>1. ServicesSpec => []Registry!RowsAreGrounded
  <2>1. Registry!Spec => [](Registry!RowsAreGrounded /\ Registry!TypeOK)
    BY RegistryConfigured, RegistryIsGrounded
  <2> QED
    BY <2>1, RegistryRuns, PTL
<1>2. ServicesSpec => [](Board!StatusTells /\ Board!SettingsTell)
  <2>1. Board!Spec => [](Board!StatusTells /\ Board!SettingsTell)
    BY BoardConfigured, BoardTellsTheTruth
  <2> QED
    BY <2>1, BoardRuns, PTL
<1>3. ServicesSpec => []Login!LoginsIsolated
  <2>1. Login!Spec => [](Login!LoginsIsolated /\ Login!TypeOK)
    BY LoginsConfigured, LoginsStayIsolated
  <2> QED
    BY <2>1, LoginsRun, PTL
<1>4. ServicesSpec => []Health!ShowsTruth
  <2>1. Health!Spec => [](Health!ShowsTruth /\ Health!TypeOK)
    BY MonitorConfigured, MonitorShowsTruth
  <2> QED
    BY <2>1, MonitorRuns, PTL
<1>5. ServicesSpec => []Enrol!PanesAgree
  <2>1. Enrol!Spec => [](Enrol!PanesAgree /\ Enrol!TypeOK)
    BY EnrollmentConfigured, PanesAreAgreed
  <2> QED
    BY <2>1, EnrollmentRuns, PTL
<1>6. /\ Registry!RowsAreGrounded /\ Board!StatusTells /\ Board!SettingsTell
      /\ Login!LoginsIsolated /\ Health!ShowsTruth /\ Enrol!PanesAgree
      => ReportsTell
  BY DEF ReportsTell
<1> QED
  BY <1>1, <1>2, <1>3, <1>4, <1>5, <1>6, PTL

\* The chain of the audit trail tells what was altered, and a message is audited
\* as delivered only when it was, for any entries, squads, canvases and messages
\* (governance/audit_trail.py:336, messaging/service.py:60-181).
THEOREM TrailsTellTheTruth == ServicesSpec => []TrailsTell
<1>1. ServicesSpec => []Gov!ChainTells
  <2>1. Gov!Spec => [](Gov!ChainTells /\ Gov!TypeOK)
    BY GovernanceConfigured, ChainTellsTampering
  <2> QED
    BY <2>1, GovernanceRuns, PTL
<1>2. ServicesSpec => []Rm!AuditTells
  <2>1. Rm!Spec => [](Rm!AuditTells /\ Rm!TypeOK)
    BY MessagingConfigured, AuditsTell
  <2> QED
    BY <2>1, MessagingRuns, PTL
<1>3. Gov!ChainTells /\ Rm!AuditTells => TrailsTell
  BY DEF TrailsTell
<1> QED
  BY <1>1, <1>2, <1>3, PTL

\* Whatever is charged, admitted, consumed and allowed at one time, by any number
\* of callers: an overspent budget is warned about, a threshold crossed in order
\* raises its alert, a tenant stays within its quota unless admissions overlap,
\* and a permission that is denied is not used (billing/cost_allocation.py:269-330,
\* governance/cost_allocation.py:300-395, tenants/service.py:145-240,
\* governance/rbac.py:419-470).
THEOREM LimitsAreTold == ServicesSpec => []LimitsTold
<1>1. ServicesSpec => []OverspendTold
  <2>1. BudgetSpec => [](OverspendTold /\ BudgetTypeOK)
    BY BudgetsConfigured, OverspendsAreTold
  <2> QED
    BY <2>1, BudgetsRun, PTL
<1>2. ServicesSpec => []AlertsComplete
  <2>1. AggregatorSpec => [](AlertsComplete /\ AggregatorTypeOK)
    BY AggregatorConfigured, OverspendsAreAlerted
  <2> QED
    BY <2>1, AggregatorRuns, PTL
<1>3. ServicesSpec => [](QuotaHolds /\ TierHolds)
  <2>1. TenantSpec => [](QuotaHolds /\ TierHolds /\ TenantTypeOK)
    BY TenancyConfigured, QuotasHold
  <2> QED
    BY <2>1, TenancyRuns, PTL
<1>4. ServicesSpec => []Gov!PolicyHolds
  <2>1. Gov!Spec => []Gov!PolicyHolds
    BY GovernanceConfigured, PoliciesHold
  <2> QED
    BY <2>1, GovernanceRuns, PTL
<1>5. OverspendTold /\ AlertsComplete /\ QuotaHolds /\ TierHolds /\ Gov!PolicyHolds => LimitsTold
  BY DEF LimitsTold
<1> QED
  BY <1>1, <1>2, <1>3, <1>4, <1>5, PTL

\* What is closed stays closed, whoever calls meanwhile: agents that were stopped
\* (agent_runtime/runtime.py:243-352), breakers that are open
\* (llm/router.py:49-196) and rows that were deleted or archived
\* (issues_api/repository.py, projects_api/repository.py, inbox_api/repository.py).
THEOREM ClosedForGood == ServicesSpec => ClosedStaysClosed
<1>1. Llm!Spec => Llm!BreakersHold
  BY RouterConfigured, FailingIsNotAsked
<1> QED
  BY <1>1, AgentsRun, RouterRuns, BoardRuns, StoppedStaysShut, DeletedStays, PTL DEF ClosedStaysClosed

\* Whatever else runs, an activation of any number of steps, workers, retries and
\* kills keeps to its steps (activation.py:68-392, failure_handler.py:125-198).
THEOREM ActivationsHoldBeside == ServicesSpec => []ActivationHolds
<1>1. Spec => [](TypeOK /\ ActivationHolds)
  BY ProvisioningAssumption, ActivationsHold
<1> QED
  BY <1>1, ActivationsRun, PTL
=============================================================================
