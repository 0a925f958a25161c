----------------------------- MODULE MCServices -----------------------------
(***************************************************************************)
(* One instance for the components of the bridge and the agents that do    *)
(* not share state: a behaviour is a behaviour of the one that component   *)
(* names, while the others keep their initial state.                       *)
(***************************************************************************)
EXTENDS AuditLedger, CloseoutIngestion, CodeIndex, DocIndex, FileClaims, LogIngest,
        OrchestrationBus, PackMarketplace, PinLockout, SelfHealing, ShellSessions, TaskQueue,
        TokenBudget, WorkflowPlan

VARIABLE component

Components == {"audit", "budget", "bus", "claims", "closeout", "code", "docs", "healing", "ingest",
               "packs", "pin", "plan", "shells", "tasks"}

MCToolsOf == [p1 |-> {"t1", "t2"}, p2 |-> {"t2", "t3"}]

Only(c, vs) == component = c /\ UNCHANGED <<vs, component>>

ServicesInit ==
    /\ component \in Components
    /\ LedgerInit
    /\ BudgetInit
    /\ BusInit
    /\ ClaimsInit
    /\ CloseoutInit
    /\ CodeInit
    /\ HealInit
    /\ IndexInit
    /\ IngestInit
    /\ PacksInit
    /\ PinInit
    /\ PlanInit
    /\ ShellInit
    /\ TasksInit
    /\ component # "ingest" => running = Ingesters
    /\ component # "docs" => ~reloads
    /\ component # "code" => content = [f \in CodeFiles |-> Absent]
    /\ component # "plan" => dependsOn = [s \in PlanSteps |-> {}]

ServicesNext ==
    \/ /\ Only("audit", <<budgetVars, busVars, claimVars, closeoutVars, codeVars, indexVars, healVars,
                       ingestVars, packVars, pinVars, planVars, shellVars, taskVars>>)
       /\ LedgerNext
    \/ /\ Only("budget", <<ledgerVars, busVars, claimVars, closeoutVars, codeVars, indexVars, healVars,
                       ingestVars, packVars, pinVars, planVars, shellVars, taskVars>>)
       /\ BudgetNext
    \/ /\ Only("bus", <<ledgerVars, budgetVars, claimVars, closeoutVars, codeVars, indexVars, healVars,
                       ingestVars, packVars, pinVars, planVars, shellVars, taskVars>>)
       /\ BusNext
    \/ /\ Only("claims", <<ledgerVars, budgetVars, busVars, closeoutVars, codeVars, indexVars, healVars,
                       ingestVars, packVars, pinVars, planVars, shellVars, taskVars>>)
       /\ ClaimsNext
    \/ /\ Only("closeout", <<ledgerVars, budgetVars, busVars, claimVars, codeVars, indexVars, healVars,
                       ingestVars, packVars, pinVars, planVars, shellVars, taskVars>>)
       /\ CloseoutNext
    \/ /\ Only("code", <<ledgerVars, budgetVars, busVars, claimVars, closeoutVars, indexVars, healVars,
                       ingestVars, packVars, pinVars, planVars, shellVars, taskVars>>)
       /\ CodeNext
    \/ /\ Only("docs", <<ledgerVars, budgetVars, busVars, claimVars, closeoutVars, codeVars, healVars, ingestVars,
                       packVars, pinVars, planVars, shellVars, taskVars>>)
       /\ IndexNext
    \/ /\ Only("healing", <<ledgerVars, budgetVars, busVars, claimVars, closeoutVars, codeVars, indexVars, ingestVars,
                       packVars, pinVars, planVars, shellVars, taskVars>>)
       /\ HealNext
    \/ /\ Only("ingest", <<ledgerVars, budgetVars, busVars, claimVars, closeoutVars, codeVars, indexVars, healVars,
                       packVars, pinVars, planVars, shellVars, taskVars>>)
       /\ IngestNext
    \/ /\ Only("packs", <<ledgerVars, budgetVars, busVars, claimVars, closeoutVars, codeVars, indexVars, healVars,
                       ingestVars, pinVars, planVars, shellVars, taskVars>>)
       /\ PacksNext
    \/ /\ Only("pin", <<ledgerVars, budgetVars, busVars, claimVars, closeoutVars, codeVars, indexVars, healVars,
                       ingestVars, packVars, planVars, shellVars, taskVars>>)
       /\ PinNext
    \/ /\ Only("plan", <<ledgerVars, budgetVars, busVars, claimVars, closeoutVars, codeVars, indexVars, healVars,
                       ingestVars, packVars, pinVars, shellVars, taskVars>>)
       /\ PlanNext
    \/ /\ Only("shells", <<ledgerVars, budgetVars, busVars, claimVars, closeoutVars, codeVars, indexVars, healVars,
                       ingestVars, packVars, pinVars, planVars, taskVars>>)
       /\ ShellNext
    \/ /\ Only("tasks", <<ledgerVars, budgetVars, busVars, claimVars, closeoutVars, codeVars, indexVars, healVars,
                       ingestVars, packVars, pinVars, planVars, shellVars>>)
       /\ TasksNext

servicesVars == <<component, ledgerVars, budgetVars, busVars, claimVars, closeoutVars, codeVars, indexVars,
                  healVars, ingestVars, packVars, pinVars, planVars, shellVars, taskVars>>

\* The fairness of the two components that have any.
ServicesFairness ==
    /\ \A i \in Ingesters : WF_ingestVars(component = "ingest" /\ IngestStep(i))
    /\ WF_closeoutVars(component = "closeout" /\ CloseoutStep)

ServicesSpec == ServicesInit /\ [][ServicesNext]_servicesVars /\ ServicesFairness

(* Every component keeps its variables within their types.                  *)
ServicesTypeOK ==
    /\ component = "audit" => LedgerTypeOK
    /\ component = "budget" => BudgetTypeOK
    /\ component = "bus" => BusTypeOK
    /\ component = "claims" => ClaimsTypeOK
    /\ component = "closeout" => CloseoutTypeOK
    /\ component = "code" => CodeTypeOK
    /\ component = "docs" => IndexTypeOK
    /\ component = "healing" => HealTypeOK
    /\ component = "ingest" => IngestTypeOK
    /\ component = "packs" => PacksTypeOK
    /\ component = "pin" => PinTypeOK
    /\ component = "plan" => PlanTypeOK
    /\ component = "shells" => ShellTypeOK
    /\ component = "tasks" => TasksTypeOK
=============================================================================
