-------------------------- MODULE MCEscrowFunding --------------------------
EXTENDS EscrowFunding

OneAsset == <<"PRE">>
BothAssets == <<"PRE", "USDC">>

(* The projected goal and its schedule are the contract's, in the variables' *)
(* types (handleDecodedEscrowEvent, monthly-schedule.ts).                    *)
ProjectionFollowsContract == TypeOK /\ ProjectionMatchesContract /\ ScheduleMatchesContract

(* The history of the periods adds up, and a goal shown as settled is paid   *)
(* in full (PeriodSettled, funding-presenter.ts).                            *)
SettlementAddsUp == PeriodHistoryAddsUp /\ SettledMeansPaidInFull
=============================================================================
