----------------------------- MODULE MCServices -----------------------------
(***************************************************************************)
(* Five parts that share nothing, checked in one run: the escrow indexer,  *)
(* the goal metadata job, the flush of ad metrics, the wallet reservation  *)
(* and the panels that follow a job of the worker.  `part' names the one   *)
(* that runs in a behavior; the others stay as they start, so the run      *)
(* visits the union of their states.                                       *)
(***************************************************************************)
EXTENDS AdMetrics, KeywordMarketWallet, SequencesExt

CONSTANTS Processes, Confirmations, ChunkSize, Kinds, MaxLogs, MaxHeight, MaxForks,
          MaxDepth, DeepWhenQuiet, MaxFailures, None,
          Goals, Limit, Documents, MaxOutages, MaxWrites, MaxCrashes

VARIABLES part,
          chain, forks, peak, indexerState, claimed, projection, job, failures,
          document, status, order, indexing, retrying, outages, writes, crashes,
          settings, panelJob, bound, visible, panel, save, saved, event

escrowVars == <<chain, forks, peak, indexerState, claimed, projection, job, failures>>
metadataVars == <<document, status, order, indexing, retrying, outages, writes, crashes>>

panelVars == <<settings, panelJob, bound, visible, panel, save, saved, event>>

\* What the behaviors of the panels may do: one panel and both, saves, a hidden
\* page, and lost requests.
Panel == {"charges", "price"}
Scenario(mounted, subject, saves, jobs, hides, faults) ==
  [mounted |-> mounted, subject |-> subject, saves |-> saves, jobs |-> jobs,
   hides |-> hides, faults |-> faults]
Scenarios ==
  {Scenario(Panel, "charges", 1, 0, 1, 0), Scenario({"charges"}, "charges", 1, 1, 0, 0),
   Scenario({"charges"}, "charges", 1, 0, 0, 1), Scenario({"charges"}, "charges", 0, 2, 0, 0)}
  \union {Scenario({p}, p, 0, 1, 1, 1) : p \in Panel}

Escrow == INSTANCE EscrowIndexer
Metadata == INSTANCE GoalMetadata
Jobs == INSTANCE JobPanels WITH job <- panelJob

ASSUME ServicesAssumption == Escrow!EscrowIndexerAssumption /\ Metadata!GoalMetadataAssumption

\* The jobs, goals and flushes in some order.
Job == SetToSeq(Processes)
Goal == SetToSeq(Goals)
Flusher == SetToSeq(Workers)

MCNonces == 0..3
MCAttempts == 0..2

Init2 ==
  /\ part \in {"escrow", "metadata", "metrics", "wallet", "panels"}
  /\ MetricsInit /\ Init /\ Escrow!Init /\ Metadata!Init /\ Jobs!Init
  /\ part # "panels" => bound = Scenario({"charges"}, "charges", 1, 1, 0, 0)
  /\ part # "metadata" => document = [g \in Goals |-> "valid"]

Step ==
  \/ /\ part = "escrow" /\ Escrow!Next
     /\ UNCHANGED <<part, metricsVars, vars, metadataVars, panelVars>>
  \/ /\ part = "metadata" /\ Metadata!Next
     /\ UNCHANGED <<part, metricsVars, vars, escrowVars, panelVars>>
  \/ /\ part = "metrics" /\ MetricsNext
     /\ UNCHANGED <<part, vars, escrowVars, metadataVars, panelVars>>
  \/ /\ part = "wallet" /\ Next
     /\ UNCHANGED <<part, metricsVars, escrowVars, metadataVars, panelVars>>
  \/ /\ part = "panels" /\ Jobs!Next
     /\ UNCHANGED <<part, metricsVars, vars, escrowVars, metadataVars>>

allVars == <<part, metricsVars, vars, escrowVars, metadataVars, panelVars>>

\* The fairness of each service (the wallet, an abstraction, has none).  Only
\* one of them runs in a behavior, so one condition serves several.
Fair(escrow, metadata, metrics, panels) ==
  \/ /\ part = "escrow" /\ escrow
     /\ UNCHANGED <<part, metricsVars, vars, metadataVars, panelVars>>
  \/ /\ part = "metadata" /\ metadata
     /\ UNCHANGED <<part, metricsVars, vars, escrowVars, panelVars>>
  \/ /\ part = "metrics" /\ metrics
     /\ UNCHANGED <<part, vars, escrowVars, metadataVars, panelVars>>
  \/ /\ part = "panels" /\ panels
     /\ UNCHANGED <<part, metricsVars, vars, escrowVars, metadataVars>>

ServicesSpec ==
  /\ Init2 /\ [][Step]_allVars
  /\ WF_allVars(Fair(Escrow!Mine, Metadata!StartRetry, FALSE, Jobs!JobAdvances))
  /\ WF_allVars(Fair(FALSE, FALSE, FALSE, Jobs!UpdateSettings \/ Jobs!SaveGoesOn))
  /\ WF_allVars(Fair(FALSE, FALSE, FALSE, Jobs!EventGoesOn))
  /\ WF_allVars(Fair(FALSE, FALSE, FALSE, Jobs!Show))
  /\ \A i \in 1..2 :
       LET p == <<"charges", "price">>[i] IN
       /\ WF_allVars(Fair(i \in DOMAIN Job /\ Escrow!IndexStep(Job[i]),
                          Metadata!IndexerFetch(Goal[i]), Flush(Flusher[i]), Jobs!Reading(p)))
       /\ WF_allVars(Fair(FALSE, Metadata!RetryFetch(Goal[i]), FALSE, Jobs!RefreshDue(p)))
       /\ WF_allVars(Fair(FALSE, FALSE, FALSE, Jobs!Requesting(p)))
       /\ WF_allVars(Fair(FALSE, FALSE, FALSE, Jobs!Polling(p)))

(* While its checkpoint is canonical, the projection of the escrow holds the *)
(* confirmed events of the chain, each once, in order and with none left     *)
(* out: EventsInOrder of EscrowIndexer (indexEscrow, handleEscrowEvent).     *)
EventsInOrder == Escrow!EventsInOrder

(* A panel that follows a job has a timer or a request for it, and shows the *)
(* settings that were saved: PanelsInv of JobPanels                          *)
(* (use-keyword-market-charges.ts, use-pre-usd-price.ts).                    *)
PanelsInv == Jobs!PanelsInv

(* Every service catches up: confirmed events are projected, metadata gets   *)
(* its verdict, increments are counted, though jobs stop (indexEscrow,       *)
(* retryUnavailableMetadata, flushAdResolutionMetrics), and a job a panel    *)
(* shows as pending ends there.                                              *)
ServicesCatchUp ==
  <>[](part = "escrow" => Escrow!Indexed) /\ Metadata!MetadataSettles /\ EventuallyCounted /\ Jobs!PendingEnds
=============================================================================
