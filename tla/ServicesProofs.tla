--------------------------- MODULE ServicesProofs ---------------------------
(***************************************************************************)
(* What was proved of each service by itself holds of them side by side:   *)
(* a behaviour of the fourteen is a behaviour of each, which takes its own *)
(* steps or none.                                                          *)
(***************************************************************************)
EXTENDS MCServices, OrchestrationProofs, IngestProofs, BridgeProofs, RecoveryProofs

\* A step of one service leaves the variables of every other as they are.
LEMMA StepsOfOne ==
    ASSUME [ServicesNext]_servicesVars
    PROVE  /\ [LedgerNext]_ledgerVars
           /\ [BudgetNext]_budgetVars
           /\ [BusNext]_busVars
           /\ [ClaimsNext]_claimVars
           /\ [CloseoutNext]_closeoutVars
           /\ [CodeNext]_codeVars
           /\ [IndexNext]_indexVars
           /\ [HealNext]_healVars
           /\ [IngestNext]_ingestVars
           /\ [PacksNext]_packVars
           /\ [PinNext]_pinVars
           /\ [PlanNext]_planVars
           /\ [ShellNext]_shellVars
           /\ [TasksNext]_taskVars
  <1>1. CASE UNCHANGED servicesVars
    BY <1>1 DEF servicesVars
  <1>2. CASE ServicesNext
    BY <1>2 DEF ServicesNext, Only
  <1>3. QED
    BY <1>1, <1>2

(* The services side by side implement each of the services.  The two that  *)
(* are fair are so here only while they are the one that runs, so what      *)
(* they implement is their specification without its fairness.             *)
THEOREM ServicesImplementEach ==
    ServicesSpec => /\ LedgerSpec /\ BudgetSpec /\ BusSpec /\ ClaimsSpec /\ CodeSpec /\ IndexSpec
                    /\ HealSpec /\ PacksSpec /\ PinSpec /\ PlanSpec /\ ShellSpec /\ TasksSpec
                    /\ CloseoutInit /\ [][CloseoutNext]_closeoutVars
                    /\ IngestInit /\ [][IngestNext]_ingestVars
  <1>1. ServicesInit => /\ LedgerInit /\ BudgetInit /\ BusInit /\ ClaimsInit /\ CloseoutInit
                        /\ CodeInit /\ HealInit /\ IndexInit /\ IngestInit /\ PacksInit /\ PinInit
                        /\ PlanInit /\ ShellInit /\ TasksInit
    BY DEF ServicesInit
  <1>2. QED
    BY <1>1, StepsOfOne, PTL
       DEF ServicesSpec, LedgerSpec, BudgetSpec, BusSpec, ClaimsSpec, CodeSpec, IndexSpec, HealSpec,
           PacksSpec, PinSpec, PlanSpec, ShellSpec, TasksSpec

(* Whichever service runs, its variables stay within their types.           *)
THEOREM ServicesTypes == ServicesSpec => []ServicesTypeOK
  <1>1. /\ LedgerTypeOK /\ BudgetTypeOK /\ BusTypeOK /\ ClaimsTypeOK /\ CloseoutTypeOK
        /\ CodeTypeOK /\ IndexTypeOK /\ HealTypeOK /\ IngestTypeOK /\ PacksTypeOK /\ PinTypeOK
        /\ PlanTypeOK /\ ShellTypeOK /\ TasksTypeOK
        => ServicesTypeOK
    BY DEF ServicesTypeOK
  <1>2. QED
    BY <1>1, ServicesImplementEach, CloseoutSafe, IngestSafe, LedgerHolds, DailyLimitHolds,
       LevelsHold, ClaimsAreExclusive, PassedByHolds, RecordsAreIndexed, CooldownsHold, PacksHold,
       LockoutHolds, PlansHold, ShellsAreOwned, GrantsAreBounded, PTL

(* Every safety property that a service has by itself holds of the services *)
(* side by side, whatever the constants of each.                            *)
THEOREM ServicesAreSafe ==
    ServicesSpec => /\ [](/\ AuditAccounted /\ ForksBounded
                          /\ FailuresVisible
                          /\ ClaimsExclusive
                          /\ HealthAtLeastOnce /\ ScansAtMostOnce
                          /\ RecordedIsIndexed
                          /\ PassedByIsIndexed
                          /\ NestingBounded /\ LevelsAccounted
                          /\ InstalledFound
                          /\ EarlyTriesAccounted
                          /\ EveryShellIsOwned /\ ShellsBounded
                          /\ GrantsBounded
                          /\ DayWithinLimit /\ LimitPerStart
                          /\ CompletedIsClosed /\ CompleteMeansAll)
                    /\ OwnersKept
                    /\ CooldownHeld
  BY ServicesImplementEach, CloseoutSafe, IngestSafe, LedgerHolds, DailyLimitHolds,
     StartsLimitSpending, LevelsHold, ClaimsAreExclusive, PassedByHolds, RecordsAreIndexed,
     CooldownsHold, PacksHold, LockoutHolds, PlansHold, ShellsAreOwned, GrantsAreBounded, PTL
=============================================================================
