------------------------------ MODULE MCGoals ------------------------------
(***************************************************************************)
(* The three protocols around goals, checked in one run: the goal managers *)
(* and the Safe's ownership, the actions on one monthly goal, and the      *)
(* publication of a draft.  They share no row.  `part' names the one that  *)
(* runs in a behavior; the others stay as they start.                      *)
(***************************************************************************)
EXTENDS Integers, Sequences, FiniteSets, SequencesExt

CONSTANTS Addr, InitialOwners, LegacyManagers, Intents,
          MaxEvents, MaxOwnerChanges, MaxRequests, MaxSubmits, MaxNonce,
          MonthlyIntents, MaxChainEvents, MaxSafeTx, MaxAttempts,
          Requests, MaxTokens, MaxRequested

VARIABLES part,
          owners, contract, log, projected, assign, proc, calls, intent, proposal,
          submit, pass, queue, spent, accept, choice, everOwner, bound,
          chain, events, goal, rows, prep, send, outside, safeQueue, executed, round, attempts,
          draft, request, links, revoked, publications, chainGoal, indexed, used

gmVars == <<owners, contract, log, projected, assign, proc, calls, intent, proposal,
            submit, pass, queue, spent, accept, choice, everOwner, bound>>
maVars == <<chain, events, goal, rows, prep, send, outside, safeQueue, executed, round, attempts>>
gdVars == <<draft, request, links, revoked, publications, chainGoal, indexed, used>>
allVars == <<part, gmVars, maVars, gdVars>>

Managers == INSTANCE GoalManagers
Monthly == INSTANCE MonthlyActions
Drafts == INSTANCE GoalDrafts

GoalsInit ==
    /\ part \in {"managers", "monthly", "drafts"}
    /\ Managers!GoalManagersInit /\ Monthly!MonthlyInit /\ Drafts!GoalDraftsInit
    /\ part # "managers" => contract.owner = "safe"
    /\ part # "monthly" => chain.monthly

ManagersStep(A) == part = "managers" /\ A /\ UNCHANGED <<part, maVars, gdVars>>
MonthlyStep(A) == part = "monthly" /\ A /\ UNCHANGED <<part, gmVars, gdVars>>
DraftsStep(A) == part = "drafts" /\ A /\ UNCHANGED <<part, gmVars, maVars>>

GoalsNext ==
    \/ ManagersStep(Managers!GoalManagersNext)
    \/ MonthlyStep(Monthly!MonthlyNext)
    \/ DraftsStep(Drafts!GoalDraftsNext)

\* The intents in some order.
Managing == SetToSeq(Intents)
Acting == SetToSeq(MonthlyIntents)

\* GoalManagersFairness and MonthlyFairness: one condition serves both, since
\* only one of them runs in a behavior.
GoalsSpec ==
    /\ GoalsInit /\ [][GoalsNext]_allVars
    /\ WF_allVars(\/ ManagersStep(Managers!PassBegin \/ Managers!PassEnd)
                  \/ MonthlyStep(Monthly!BeginRound \/ Monthly!EndRound))
    /\ \A i \in Intents : WF_allVars(ManagersStep(Managers!SubmitStep(i)))
    /\ \A n \in 1..Len(Managing) :
          SF_allVars(\/ ManagersStep(Managers!PassAnswered(Managing[n], TRUE))
                     \/ n <= Len(Acting) /\ MonthlyStep(Monthly!FollowAction(Acting[n])))

(* An EXECUTED action had its effect on the goal: ExecutedActionTookEffect  *)
(* of MonthlyActions.                                                       *)
ExecutedActionTookEffect == Monthly!ExecutedActionTookEffect

(* A retired intent is never submitted: RetiredIntentsStayRetired of        *)
(* MonthlyActions.                                                          *)
RetiredIntentsStayRetired == Monthly!RetiredIntentsStayRetired

(* A preview link opens until it is revoked, and a projected goal keeps the *)
(* draft it was created from, closed for edits: PreviewLinksOpen and        *)
(* GoalKeepsItsDraft of GoalDrafts (admin.service.ts).                      *)
DraftsInv == Drafts!PreviewLinksOpen /\ Drafts!GoalKeepsItsDraft

(* Authority follows the chain, through the handover to the Safe, the policy *)
(* of managers keeps every choice, and the pending proposal holds the key    *)
(* (goal-manager-assignments.ts, goal-manager-sync.ts).                      *)
ManagersInv ==
    Managers!AuthorityFollowsChain /\ Managers!PolicyInv /\ Managers!KeyIsHeldByThePending

(* No proposal stays pending for ever: one for another policy is flagged or  *)
(* ends, one whose nonce is spent ends (goal-manager-sync.ts,                *)
(* goal-action-sync.ts).                                                     *)
PendingProposalsEnd ==
    Managers!PolicyChangeIsFlagged /\ Managers!SpentProposalEnds /\ Monthly!SpentActionEnds
=============================================================================
