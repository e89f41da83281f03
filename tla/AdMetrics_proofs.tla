------------------------- MODULE AdMetrics_proofs -------------------------
(***************************************************************************)
(* Proofs about AdMetrics, for any number of increments, batches and       *)
(* overlapping runs: the flush counts every increment that reached Redis   *)
(* at most once and loses none.  FlushInvariant is inductive; each action  *)
(* has a lemma.                                                            *)
(***************************************************************************)
EXTENDS AdMetrics, TLAPS

\* Before the first increment nothing is anywhere.
LEMMA InitFlush == MetricsInit => FlushInvariant
BY AdMetricsAssumption
   DEF MetricsInit, FlushInvariant, MetricsTypeOK, CountedAtMostOnce, NothingLost, InOnePlace,
       FlushedIsCounted, RunsAreCurrent, Unflushed

\* An increment enters the active hash and nothing else.
LEMMA IncrementFlush ==
  ASSUME FlushInvariant, NEW i \in Increments, Increment(i)
  PROVE  FlushInvariant'
<1> USE DEF FlushInvariant, Increment, dbVars, jobVars, Unflushed
<1>1. MetricsTypeOK'
  BY DEF MetricsTypeOK
<1>2. CountedAtMostOnce' /\ FlushedIsCounted' /\ RunsAreCurrent'
  BY DEF CountedAtMostOnce, FlushedIsCounted, RunsAreCurrent
<1>3. NothingLost'
  BY DEF NothingLost
<1>4. InOnePlace'
  BY DEF InOnePlace, MetricsTypeOK
<1> QED BY <1>1, <1>2, <1>3, <1>4

\* The active hash moves to a key that was never used, so no run holds it.
LEMMA RollFlush ==
  ASSUME FlushInvariant, NEW w \in Workers, Roll(w)
  PROVE  FlushInvariant'
<1> USE DEF FlushInvariant, dbVars, Unflushed
<1>1. PICK b \in Batches \ rolled : MoveAside(b) /\ rolled' = rolled \cup {b}
  BY DEF Roll
<1>2. /\ pc' = [pc EXCEPT ![w] = "scan"] /\ pc[w] = "idle"
      /\ UNCHANGED <<received, receipts, counted, todo, current, read, stops>>
  BY DEF Roll
<1>3. batches' = [batches EXCEPT ![b] = active] /\ active' = {}
  BY <1>1 DEF MoveAside
<1>4. batches[b] = {} /\ b \notin receipts
  BY <1>1 DEF InOnePlace, MetricsTypeOK
<1>5. MetricsTypeOK'
  BY <1>1, <1>2, <1>3 DEF MetricsTypeOK
<1>6. CountedAtMostOnce' /\ FlushedIsCounted'
  BY <1>1, <1>2, <1>3, <1>4 DEF CountedAtMostOnce, FlushedIsCounted, MetricsTypeOK
<1>7. NothingLost'
  BY <1>1, <1>2, <1>3, <1>4 DEF NothingLost, MetricsTypeOK
<1>8. InOnePlace'
  BY <1>1, <1>2, <1>3, <1>4 DEF InOnePlace, MetricsTypeOK
<1>9. RunsAreCurrent'
  BY <1>1, <1>2, <1>3, <1>4 DEF RunsAreCurrent, MetricsTypeOK
<1> QED BY <1>5, <1>6, <1>7, <1>8, <1>9

\* Steps that only move a run's program counter or its list of batches.
LEMMA LocalFlush ==
  ASSUME FlushInvariant, NEW w \in Workers, RollNothing(w) \/ Scan(w) \/ Finish(w)
  PROVE  FlushInvariant'
<1> USE DEF FlushInvariant, redisVars, dbVars, Unflushed, RollNothing, Scan, Finish
<1>1. UNCHANGED <<active, batches, received, rolled, receipts, counted, current, read, stops>>
  OBVIOUS
<1>2. MetricsTypeOK'
  BY <1>1 DEF MetricsTypeOK
<1>3. CountedAtMostOnce' /\ FlushedIsCounted' /\ NothingLost' /\ InOnePlace'
  BY <1>1 DEF CountedAtMostOnce, FlushedIsCounted, NothingLost, InOnePlace
<1>4. RunsAreCurrent'
  BY <1>1 DEF RunsAreCurrent, MetricsTypeOK, InOnePlace
<1> QED BY <1>2, <1>3, <1>4

\* What a run reads is the batch as it is.
LEMMA ReadFlush ==
  ASSUME FlushInvariant, NEW w \in Workers, Read(w)
  PROVE  FlushInvariant'
<1> USE DEF FlushInvariant, redisVars, dbVars, Unflushed
<1>1. PICK b \in todo[w] : /\ todo' = [todo EXCEPT ![w] = @ \ {b}]
                           /\ current' = [current EXCEPT ![w] = b]
                           /\ read' = [read EXCEPT ![w] = batches[b]]
  BY DEF Read
<1>2. /\ pc[w] = "next" /\ pc' = [pc EXCEPT ![w] = "commit"]
      /\ UNCHANGED <<active, batches, received, rolled, receipts, counted, stops>>
  BY DEF Read
<1>3. MetricsTypeOK'
  BY <1>1, <1>2 DEF MetricsTypeOK
<1>4. CountedAtMostOnce' /\ FlushedIsCounted' /\ NothingLost' /\ InOnePlace'
  BY <1>2 DEF CountedAtMostOnce, FlushedIsCounted, NothingLost, InOnePlace
<1>5. RunsAreCurrent'
  BY <1>1, <1>2 DEF RunsAreCurrent, MetricsTypeOK
<1> QED BY <1>3, <1>4, <1>5

\* A batch without a receipt holds increments not counted yet, all of which the
\* transaction counts together with the receipt.
LEMMA CommitFlush ==
  ASSUME FlushInvariant, NEW w \in Workers, Commit(w)
  PROVE  FlushInvariant'
<1> USE DEF FlushInvariant, redisVars, dbVars, Unflushed
<1>1. /\ pc[w] = "commit" /\ pc' = [pc EXCEPT ![w] = "delete"] /\ current[w] \in rolled
      /\ UNCHANGED <<active, batches, received, rolled, todo, current, read, stops>>
  BY DEF Commit, RunsAreCurrent
<1>2. CASE current[w] \in receipts
  <2>1. UNCHANGED <<receipts, counted>>
    BY <1>2 DEF Commit, CountOnce
  <2>2. MetricsTypeOK'
    BY <1>1, <2>1 DEF MetricsTypeOK
  <2>3. CountedAtMostOnce' /\ FlushedIsCounted' /\ NothingLost' /\ InOnePlace'
    BY <1>1, <2>1 DEF CountedAtMostOnce, FlushedIsCounted, NothingLost, InOnePlace
  <2>4. RunsAreCurrent'
    BY <1>1, <1>2, <2>1 DEF RunsAreCurrent, MetricsTypeOK
  <2> QED BY <2>2, <2>3, <2>4
<1>3. CASE current[w] \notin receipts
  <2>1. /\ receipts' = receipts \cup {current[w]}
        /\ counted' = [i \in Increments |-> IF i \in read[w] THEN counted[i] + 1 ELSE counted[i]]
    BY <1>3 DEF Commit, CountOnce
  <2>2. read[w] = batches[current[w]]
    BY <1>1, <1>3 DEF RunsAreCurrent
  <2>3. current[w] \in Batches
    BY <1>1 DEF MetricsTypeOK
  <2>4. \A i \in read[w] : i \in received /\ i \notin active /\ counted[i] = 0 /\ counted'[i] = 1
    BY <1>3, <2>1, <2>2, <2>3 DEF InOnePlace, MetricsTypeOK
  <2>5. \A i \in Increments \ read[w] : counted'[i] = counted[i]
    BY <2>1 DEF MetricsTypeOK
  <2>6. MetricsTypeOK'
    BY <1>1, <2>1 DEF MetricsTypeOK
  <2>7. CountedAtMostOnce'
    BY <2>4, <2>5 DEF CountedAtMostOnce
  <2>8. FlushedIsCounted'
    BY <1>1, <2>1, <2>2, <2>3, <2>4, <2>5 DEF FlushedIsCounted, MetricsTypeOK
  <2>9. NothingLost'
    BY <1>1, <2>1, <2>2, <2>3, <2>4, <2>5 DEF NothingLost, MetricsTypeOK
  <2>10. InOnePlace'
    <3>1. ASSUME NEW i \in Increments, counted'[i] # 0
          PROVE  i \in received /\ i \notin active /\ \A b \in Batches \ receipts' : i \notin batches[b]
      <4>1. CASE i \in read[w]
        <5>1. \A b \in Batches : b # current[w] => i \notin batches[b]
          BY <4>1, <2>2, <2>3 DEF InOnePlace
        <5> QED BY <4>1, <5>1, <2>1, <2>4
      <4>2. CASE i \notin read[w]
        BY <4>2, <3>1, <2>5, <2>1 DEF InOnePlace
      <4> QED BY <4>1, <4>2
    <3> QED BY <1>1, <3>1 DEF InOnePlace
  <2>11. RunsAreCurrent'
    BY <1>1, <2>1 DEF RunsAreCurrent, MetricsTypeOK
  <2> QED BY <2>6, <2>7, <2>8, <2>9, <2>10, <2>11
<1> QED BY <1>2, <1>3

\* Only a batch with a receipt is deleted, and all of it has been counted.
LEMMA DeleteFlush ==
  ASSUME FlushInvariant, NEW w \in Workers, Delete(w)
  PROVE  FlushInvariant'
<1> USE DEF FlushInvariant, dbVars, Unflushed
<1>1. /\ pc[w] = "delete" /\ pc' = [pc EXCEPT ![w] = "next"]
      /\ batches' = [batches EXCEPT ![current[w]] = {}]
      /\ current' = [current EXCEPT ![w] = NoBatch]
      /\ read' = [read EXCEPT ![w] = {}]
      /\ UNCHANGED <<active, received, rolled, receipts, counted, todo, stops>>
  BY DEF Delete
<1>2. current[w] \in receipts /\ current[w] \in Batches
  BY <1>1 DEF RunsAreCurrent, MetricsTypeOK
<1>3. MetricsTypeOK'
  BY <1>1, <1>2 DEF MetricsTypeOK
<1>4. CountedAtMostOnce' /\ FlushedIsCounted'
  BY <1>1, <1>2 DEF CountedAtMostOnce, FlushedIsCounted, MetricsTypeOK
<1>5. NothingLost'
  BY <1>1, <1>2 DEF NothingLost, MetricsTypeOK
<1>6. InOnePlace'
  BY <1>1, <1>2 DEF InOnePlace, MetricsTypeOK
<1>7. RunsAreCurrent'
  BY <1>1, <1>2 DEF RunsAreCurrent, MetricsTypeOK
<1> QED BY <1>3, <1>4, <1>5, <1>6, <1>7

\* A stopped run leaves everything where it was.
LEMMA StopFlush ==
  ASSUME FlushInvariant, NEW w \in Workers, Stop(w)
  PROVE  FlushInvariant'
<1> USE DEF FlushInvariant, Stop, redisVars, dbVars, Unflushed
<1>1. MetricsTypeOK'
  BY AdMetricsAssumption DEF MetricsTypeOK
<1>2. CountedAtMostOnce' /\ FlushedIsCounted' /\ NothingLost' /\ InOnePlace'
  BY DEF CountedAtMostOnce, FlushedIsCounted, NothingLost, InOnePlace
<1>3. RunsAreCurrent'
  BY DEF RunsAreCurrent, MetricsTypeOK
<1> QED BY <1>1, <1>2, <1>3

\* A receipt is dropped only when its batch is gone and no run holds it.
LEMMA RetainFlush ==
  ASSUME FlushInvariant, Retain
  PROVE  FlushInvariant'
<1> USE DEF FlushInvariant, redisVars, jobVars, Unflushed
<1>1. PICK b \in receipts : /\ batches[b] = {}
                            /\ \A w \in Workers : current[w] # b /\ b \notin todo[w]
                            /\ receipts' = receipts \ {b}
  BY DEF Retain
<1>2. UNCHANGED <<active, batches, received, rolled, counted, pc, todo, current, read, stops>>
  BY DEF Retain
<1>3. MetricsTypeOK'
  BY <1>1, <1>2 DEF MetricsTypeOK
<1>4. CountedAtMostOnce' /\ FlushedIsCounted' /\ NothingLost' /\ InOnePlace'
  BY <1>1, <1>2 DEF CountedAtMostOnce, FlushedIsCounted, NothingLost, InOnePlace, MetricsTypeOK
<1>5. RunsAreCurrent'
  BY <1>1, <1>2 DEF RunsAreCurrent
<1> QED BY <1>3, <1>4, <1>5

\* Every reachable state satisfies the flush invariant, for any number of
\* increments, batch keys and overlapping or stopping runs of
\* flushAdResolutionMetrics.
THEOREM FlushCorrect == MetricsSpec => []FlushInvariant
<1>1. MetricsInit => FlushInvariant
  BY InitFlush
<1>2. FlushInvariant /\ [MetricsNext]_metricsVars => FlushInvariant'
  <2> SUFFICES ASSUME FlushInvariant, [MetricsNext]_metricsVars PROVE FlushInvariant'
    OBVIOUS
  <2>1. CASE UNCHANGED metricsVars
    BY <2>1 DEF metricsVars, redisVars, dbVars, jobVars, FlushInvariant, MetricsTypeOK, CountedAtMostOnce,
                NothingLost, InOnePlace, FlushedIsCounted, RunsAreCurrent, Unflushed
  <2>2. CASE \E i \in Increments : Increment(i)
    BY <2>2, IncrementFlush
  <2>3. CASE \E w \in Workers : Flush(w) \/ Stop(w)
    <3>1. PICK w \in Workers : Flush(w) \/ Stop(w)
      BY <2>3
    <3> QED BY <3>1, RollFlush, LocalFlush, ReadFlush, CommitFlush, DeleteFlush, StopFlush DEF Flush
  <2>4. CASE Retain
    BY <2>4, RetainFlush
  <2> QED BY <2>1, <2>2, <2>3, <2>4 DEF MetricsNext
<1> QED BY <1>1, <1>2, PTL DEF MetricsSpec

\* "persists each batch exactly once" (ads-maintenance.ts:97), first half: no
\* increment is counted twice.
THEOREM NeverCountedTwice == MetricsSpec => []CountedAtMostOnce
<1>1. FlushInvariant => CountedAtMostOnce
  BY DEF FlushInvariant
<1> QED BY <1>1, FlushCorrect, PTL

\* Second half: an increment that reached Redis is there or in the metrics.
THEOREM IncrementsNeverLost == MetricsSpec => []NothingLost
<1>1. FlushInvariant => NothingLost
  BY DEF FlushInvariant
<1> QED BY <1>1, FlushCorrect, PTL
=============================================================================
