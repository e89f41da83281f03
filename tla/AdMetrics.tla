----------------------------- MODULE AdMetrics -----------------------------
(***************************************************************************)
(* Ad analytics: the API counts resolutions, views and clicks in a Redis   *)
(* hash (apps/api/src/ads/ads-metrics.service.ts), the worker moves the    *)
(* hash aside, adds it to AdDailyMetric and deletes it                     *)
(* (flushAdResolutionMetrics in apps/worker/src/ads-maintenance.ts).       *)
(*                                                                         *)
(* One bucket (a metric and a day) is modelled.  A counter is the set of   *)
(* the increments it holds, so that one counted twice can be told from two *)
(* counted once.  A job that BullMQ takes for stalled may still run while  *)
(* its successor does; a job may stop anywhere.  The 14 days after which   *)
(* Redis drops a key, and counts of revisions that no longer exist, are    *)
(* left out.                                                               *)
(***************************************************************************)
EXTENDS Naturals

CONSTANTS Increments,  \* metric events the API counts
          Batches,     \* batch keys: active key, ":flush:" and a random UUID
          Workers,     \* runs of flushAdResolutionMetrics that may overlap
          MaxStops,    \* bound: runs that stop half-way
          NoBatch

ASSUME AdMetricsAssumption ==
  /\ MaxStops \in Nat
  /\ NoBatch \notin Batches

VARIABLES active,    \* the active hash; empty when the key does not exist
          batches,   \* batches[b]: the hash stored under b
          receipts,  \* AdMetricFlush rows
          counted,   \* counted[i]: how often AdDailyMetric includes i
          received,  \* increments that reached Redis
          rolled,    \* batch keys ever generated
          pc, todo, current, read, stops

redisVars == <<active, batches, received, rolled>>
dbVars == <<receipts, counted>>
jobVars == <<pc, todo, current, read>>
metricsVars == <<redisVars, dbVars, jobVars, stops>>

MetricsInit ==
  /\ active = {} /\ batches = [b \in Batches |-> {}] /\ received = {} /\ rolled = {}
  /\ receipts = {} /\ counted = [i \in Increments |-> 0]
  /\ pc = [w \in Workers |-> "idle"] /\ todo = [w \in Workers |-> {}]
  /\ current = [w \in Workers |-> NoBatch] /\ read = [w \in Workers |-> {}]
  /\ stops = 0

-----------------------------------------------------------------------------
\* incrementCounter of the API: HINCRBY on the active key.
Increment(i) ==
  /\ i \notin received
  /\ received' = received \cup {i}
  /\ active' = active \cup {i}
  /\ UNCHANGED <<batches, rolled, dbVars, jobVars, stops>>

\* What renaming does if it also leaves the active key in place.
CopyAside(b) ==
  /\ batches' = [batches EXCEPT ![b] = active]
  /\ UNCHANGED active

\* RENAME inside one script: the next increment starts a new active hash.
MoveAside(b) ==
  /\ batches' = [batches EXCEPT ![b] = active]
  /\ active' = {}

\* rollActiveCounters, when there is something to move.
Roll(w) ==
  /\ pc[w] = "idle"
  /\ active # {}
  /\ \E b \in Batches \ rolled :
       /\ MoveAside(b)
       /\ rolled' = rolled \cup {b}
  /\ pc' = [pc EXCEPT ![w] = "scan"]
  /\ UNCHANGED <<received, dbVars, todo, current, read, stops>>

\* A run that ends at once when there are no active counters.
RollNothingAndReturn(w) == UNCHANGED metricsVars

\* A run that finds no active counters still looks for batches left behind.
RollNothing(w) ==
  /\ pc[w] = "idle"
  /\ active = {}
  /\ pc' = [pc EXCEPT ![w] = "scan"]
  /\ UNCHANGED <<redisVars, dbVars, todo, current, read, stops>>

\* scanKeys lists the batches, those of other and of stopped runs included.
Scan(w) ==
  /\ pc[w] = "scan"
  /\ todo' = [todo EXCEPT ![w] = {b \in Batches : batches[b] # {}}]
  /\ pc' = [pc EXCEPT ![w] = "next"]
  /\ UNCHANGED <<redisVars, dbVars, current, read, stops>>

\* What reading does if it also consumes the batch.
ReadDeleting(w) ==
  /\ pc[w] = "next"
  /\ \E b \in todo[w] :
       /\ todo' = [todo EXCEPT ![w] = @ \ {b}]
       /\ current' = [current EXCEPT ![w] = b]
       /\ read' = [read EXCEPT ![w] = batches[b]]
       /\ batches' = [batches EXCEPT ![b] = {}]
  /\ pc' = [pc EXCEPT ![w] = "commit"]
  /\ UNCHANGED <<active, received, rolled, dbVars, stops>>

\* HGETALL of the next batch; empty if another run has deleted it.
Read(w) ==
  /\ pc[w] = "next"
  /\ \E b \in todo[w] :
       /\ todo' = [todo EXCEPT ![w] = @ \ {b}]
       /\ current' = [current EXCEPT ![w] = b]
       /\ read' = [read EXCEPT ![w] = batches[b]]
  /\ pc' = [pc EXCEPT ![w] = "commit"]
  /\ UNCHANGED <<redisVars, dbVars, stops>>

CountAlways(w) ==
  /\ counted' = [i \in Increments |-> IF i \in read[w] THEN counted[i] + 1 ELSE counted[i]]
  /\ receipts' = receipts \cup {current[w]}

\* The transaction: the receipt is inserted once, and only then is the batch
\* added to the daily metrics.
CountOnce(w) ==
  IF current[w] \in receipts THEN UNCHANGED dbVars
  ELSE /\ receipts' = receipts \cup {current[w]}
       /\ counted' = [i \in Increments |-> IF i \in read[w] THEN counted[i] + 1 ELSE counted[i]]

Commit(w) ==
  /\ pc[w] = "commit"
  /\ CountOnce(w)
  /\ pc' = [pc EXCEPT ![w] = "delete"]
  /\ UNCHANGED <<redisVars, todo, current, read, stops>>

\* DEL of the batch after its transaction.
Delete(w) ==
  /\ pc[w] = "delete"
  /\ batches' = [batches EXCEPT ![current[w]] = {}]
  /\ current' = [current EXCEPT ![w] = NoBatch]
  /\ read' = [read EXCEPT ![w] = {}]
  /\ pc' = [pc EXCEPT ![w] = "next"]
  /\ UNCHANGED <<active, received, rolled, dbVars, todo, stops>>

Finish(w) ==
  /\ pc[w] = "next"
  /\ todo[w] = {}
  /\ pc' = [pc EXCEPT ![w] = "idle"]
  /\ UNCHANGED <<redisVars, dbVars, todo, current, read, stops>>

\* The process ends, or a Redis or database call fails.
Stop(w) ==
  /\ pc[w] # "idle"
  /\ stops < MaxStops
  /\ stops' = stops + 1
  /\ pc' = [pc EXCEPT ![w] = "idle"]
  /\ todo' = [todo EXCEPT ![w] = {}]
  /\ current' = [current EXCEPT ![w] = NoBatch]
  /\ read' = [read EXCEPT ![w] = {}]
  /\ UNCHANGED <<redisVars, dbVars>>

\* retainAdsData drops receipts a year old; a batch and a run never are.
Retain ==
  /\ \E b \in receipts :
       /\ batches[b] = {}
       /\ \A w \in Workers : current[w] # b /\ b \notin todo[w]
       /\ receipts' = receipts \ {b}
  /\ UNCHANGED <<redisVars, counted, jobVars, stops>>

Flush(w) ==
  \/ Roll(w) \/ RollNothing(w) \/ Scan(w) \/ Read(w) \/ Commit(w) \/ Delete(w) \/ Finish(w)

MetricsNext ==
  \/ \E i \in Increments : Increment(i)
  \/ \E w \in Workers : Flush(w) \/ Stop(w)
  \/ Retain

MetricsSpec == MetricsInit /\ [][MetricsNext]_metricsVars

\* The job runs every minute (schedule.ts:107) and only MaxStops runs stop early.
MetricsFairSpec ==
  /\ MetricsSpec
  /\ \A w \in Workers : WF_metricsVars(Flush(w))

-----------------------------------------------------------------------------
Unflushed == {b \in Batches : b \notin receipts}

\* The variables have the shape the code gives them.
MetricsTypeOK ==
  /\ active \subseteq received /\ received \subseteq Increments
  /\ batches \in [Batches -> SUBSET Increments]
  /\ receipts \subseteq rolled /\ rolled \subseteq Batches
  /\ counted \in [Increments -> Nat]
  /\ pc \in [Workers -> {"idle", "scan", "next", "commit", "delete"}]
  /\ todo \in [Workers -> SUBSET Batches]
  /\ current \in [Workers -> Batches \cup {NoBatch}]
  /\ read \in [Workers -> SUBSET Increments]
  /\ stops \in Nat

\* "persists each batch exactly once": no increment is counted twice, whatever
\* runs overlap, stop after the transaction, or flush again what a stopped run
\* left behind.
CountedAtMostOnce == \A i \in Increments : counted[i] <= 1

\* No increment that reached Redis is lost: it is in the active hash, in a batch
\* still to be flushed, or in the daily metrics.
NothingLost ==
  \A i \in received :
    \/ i \in active
    \/ \E b \in Unflushed : i \in batches[b]
    \/ counted[i] = 1

\* An increment is in one place: the active hash, one batch, or (also while its
\* flushed batch is not yet deleted) the daily metrics.
InOnePlace ==
  /\ \A b \in Batches :
       /\ batches[b] \subseteq received \ active
       /\ batches[b] # {} => b \in rolled
       /\ \A c \in Batches : b # c => batches[b] \cap batches[c] = {}
  /\ \A i \in Increments :
       counted[i] # 0 => i \in received /\ i \notin active /\ \A b \in Unflushed : i \notin batches[b]

\* A batch with a receipt is counted in full.
FlushedIsCounted == \A b \in receipts : \A i \in batches[b] : counted[i] = 1

\* What a run holds: a batch it listed has a receipt or is still there, what it
\* read is the batch unless that has a receipt, and it deletes only a batch
\* with a receipt.
RunsAreCurrent ==
  \A w \in Workers :
    /\ todo[w] \subseteq rolled
    /\ pc[w] \in {"commit", "delete"} => current[w] \in rolled
    /\ pc[w] \notin {"commit", "delete"} => current[w] = NoBatch
    /\ pc[w] = "commit" /\ current[w] \notin receipts => read[w] = batches[current[w]]
    /\ pc[w] = "delete" => current[w] \in receipts

\* The invariant behind both: it holds between any two steps of any runs.
FlushInvariant ==
  MetricsTypeOK /\ CountedAtMostOnce /\ NothingLost /\ InOnePlace /\ FlushedIsCounted /\ RunsAreCurrent

\* Every increment is counted in the end, by the run after the last stopped one
\* at the latest.
EventuallyCounted == \A i \in Increments : i \in received ~> counted[i] = 1
=============================================================================
