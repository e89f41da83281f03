--------------------------- MODULE EscrowIndexer ---------------------------
(***************************************************************************)
(* The escrow indexer: indexEscrow in apps/worker/src/indexer.ts.  The     *)
(* worker's index-escrow job and the backfill command may run it at the    *)
(* same time.  Unlike the Keyword Market indexer it commits every event in *)
(* a transaction of its own and moves its checkpoint afterwards, so a job  *)
(* that stops half-way leaves events beyond the checkpoint.                *)
(*                                                                         *)
(* What the handlers write depends on the order in which the events reach  *)
(* them, so the projection is that sequence.  A log is of one of three     *)
(* kinds: "event" has a handler; "malformed" is a profile update that      *)
(* isIndexableProfileEventArgs rejects; "global" names no goal and has no  *)
(* handler (Paused, TreasuryPayoutUpdated, ExcessTokenRecovered...), so    *)
(* handleDecodedEscrowEvent throws.  The hash of block n is the chain up   *)
(* to n; block 1 is the deployment block.  Block timestamps and the        *)
(* metadata of goals (GoalMetadata) are left out.                          *)
(***************************************************************************)
EXTENDS Integers, Sequences, FiniteSets, FiniteSetsExt, SequencesExt

CONSTANTS Processes,      \* the job and the backfill command
          Confirmations,  \* config.deployment.confirmations
          ChunkSize,      \* INDEXER_LOG_BLOCK_RANGE
          Kinds,          \* kinds of logs the contract emits
          MaxLogs,        \* bound: logs of a block
          MaxHeight,      \* bound: height of the chain
          MaxForks,       \* bound: reorganizations
          MaxDepth,       \* how far below the highest head a fork may start
          DeepWhenQuiet,  \* forks deeper than MaxDepth, while nothing is half done
          MaxFailures,    \* bound: jobs that stop on an error or a crash
          None

EscrowIndexerAssumption ==
  /\ Confirmations \in Nat
  /\ ChunkSize \in Nat \ {0}
  /\ Kinds \subseteq {"event", "malformed", "global"}
  /\ {MaxLogs, MaxHeight, MaxForks, MaxDepth, MaxFailures} \subseteq Nat
  /\ DeepWhenQuiet \in BOOLEAN

VARIABLES chain, forks, peak,  \* the node's chain, its reorganizations, its highest head
          indexerState,        \* the IndexerState row
          claimed,             \* ChainEvent rows, by transaction and log index
          projection,          \* the events the handlers applied, in their order
          job,                 \* job[p]: local state of a run of indexEscrow
          failures

chainVars == <<chain, forks, peak>>
dbVars == <<indexerState, claimed, projection>>
vars == <<chainVars, dbVars, job, failures>>

-----------------------------------------------------------------------------
\* The chain.

Height == Len(chain)
Hash(n) == SubSeq(chain, 1, n)
Canonical(c) == c.block <= Height /\ Hash(c.block) = c.hash

\* The log entries of blocks a..b, in the order of compareEscrowLogs.
LogSeq(c, a, b) ==
  FlattenSeq([i \in 1..(IF b < a THEN 0 ELSE b - a + 1) |->
    LET n == a + i - 1
    IN  IF n > Len(c) THEN <<>>
        ELSE [k \in 1..Len(c[n].logs) |->
                [block |-> n, logIndex |-> k, kind |-> c[n].logs[k], tx |-> c[n].tx]]])

\* A transaction keeps its hash when another fork includes it again.
Transactions == Cardinality({n \in 1..Height : chain[n].logs # <<>>})

Mine ==
  /\ Height < MaxHeight
  /\ \E logs \in BoundedSeq(Kinds, MaxLogs) :
       chain' = Append(chain, [fork |-> forks, logs |-> logs, tx |-> Transactions])
  /\ peak' = Max({peak, Height + 1})
  /\ UNCHANGED <<forks, dbVars, job, failures>>

\* No job is running and none has left events beyond the checkpoint.
Quiet ==
  /\ \A p \in Processes : job[p].pc = "idle"
  /\ Cardinality(claimed) = Len(SelectSeq(LogSeq(Hash(Height), 1,
                                  IF indexerState = None THEN 0 ELSE indexerState.block),
                                LAMBDA x : x.kind = "event"))

Reorganize ==
  /\ forks < MaxForks
  /\ \E n \in 1..(Height - 1) :
       /\ n >= peak - MaxDepth \/ (DeepWhenQuiet /\ Quiet)
       /\ chain' = Hash(n)
  /\ forks' = forks + 1
  /\ UNCHANGED <<peak, dbVars, job, failures>>

-----------------------------------------------------------------------------
\* Fault: one confirmation too few.
ConfirmedTooEarly(head) == IF head < Confirmations THEN 0 ELSE head - Confirmations + 1

\* confirmedHead; 0 stands for null.
ConfirmedHead(head) == IF head < 1 + Confirmations THEN 0 ELSE head - Confirmations

IdleJob == [pc |-> "idle", safe |-> 0, seen |-> None, start |-> 0, logs |-> <<>>,
            hash |-> None]

Init ==
  /\ chain = <<[fork |-> 0, logs |-> <<>>, tx |-> 0]>>
  /\ forks = 0 /\ peak = 1
  /\ indexerState = None /\ claimed = {} /\ projection = <<>>
  /\ job = [p \in Processes |-> IdleJob]
  /\ failures = 0

Pc(p, pc) == job[p].pc = pc
Set(p, j) == job' = [job EXCEPT ![p] = j]
Stop(p) == Set(p, IdleJob)
End(p) == Min({job[p].start + ChunkSize - 1, job[p].safe})

Begin(p) ==
  /\ Pc(p, "idle")
  /\ ConfirmedHead(Height) >= 1
  /\ Set(p, [IdleJob EXCEPT !.pc = "state", !.safe = ConfirmedHead(Height)])
  /\ UNCHANGED <<chainVars, dbVars, failures>>

\* The loop over chunks ends when the next one starts beyond the safe head.
Chunk(p, j) == IF j.start > j.safe THEN Stop(p) ELSE Set(p, [j EXCEPT !.pc = "logs"])

ReadState(p) ==
  /\ Pc(p, "state")
  /\ IF indexerState = None
     THEN Chunk(p, [job[p] EXCEPT !.start = 1])
     ELSE Set(p, [job[p] EXCEPT !.pc = "checkpoint", !.seen = indexerState,
                                !.start = indexerState.block + 1])
  /\ UNCHANGED <<chainVars, dbVars, failures>>

\* chainReorganized, for the canonical block of the checkpoint's number
CheckState(p) ==
  LET seen == job[p].seen
  IN  /\ Pc(p, "checkpoint")
      /\ \/ seen.block > Height /\ Stop(p)
         \/ /\ seen.block <= Height /\ ~Canonical(seen)
            /\ Set(p, [job[p] EXCEPT !.pc = "reset"])
         \/ Canonical(seen) /\ Chunk(p, job[p])
      /\ UNCHANGED <<chainVars, dbVars, failures>>

\* Fault: the reset keeps the claims of the events it forgets.
ResetWithoutClaims(p) ==
  /\ Pc(p, "reset")
  /\ indexerState' = None /\ projection' = <<>> /\ UNCHANGED claimed
  /\ Chunk(p, [job[p] EXCEPT !.start = 1])
  /\ UNCHANGED <<chainVars, failures>>

\* rebuildAfterReorg
RebuildAfterReorg(p) ==
  /\ Pc(p, "reset")
  /\ indexerState' = None /\ projection' = <<>> /\ claimed' = {}
  /\ Chunk(p, [job[p] EXCEPT !.start = 1])
  /\ UNCHANGED <<chainVars, failures>>

ReadLogs(p) ==
  /\ Pc(p, "logs")
  /\ Set(p, [job[p] EXCEPT !.pc = "apply", !.logs = LogSeq(chain, job[p].start, End(p))])
  /\ UNCHANGED <<chainVars, dbVars, failures>>

Rest(p) == Set(p, [job[p] EXCEPT !.logs = Tail(@)])

SkipMalformed(p) ==
  /\ Pc(p, "apply") /\ job[p].logs # <<>>
  /\ Head(job[p].logs).kind = "malformed"
  /\ Rest(p)
  /\ UNCHANGED <<chainVars, dbVars, failures>>

\* Fault: an event is applied whether or not this job claimed it.
ApplyUnclaimed(p) ==
  LET x == Head(job[p].logs)
  IN  /\ Pc(p, "apply") /\ job[p].logs # <<>> /\ x.kind # "malformed"
      /\ IF x.kind = "global"
         THEN Stop(p) /\ UNCHANGED <<claimed, projection>>
         ELSE /\ claimed' = claimed \cup {<<x.tx, x.logIndex>>}
              /\ projection' = Append(projection, x)
              /\ Rest(p)
      /\ UNCHANGED <<chainVars, indexerState, failures>>

\* One transaction: claimChainEvent, then the handler if the claim is new.  An
\* event without a goal throws, which rolls the claim back and ends the job.
ApplyEvent(p) ==
  LET x == Head(job[p].logs)
      key == <<x.tx, x.logIndex>>
  IN  /\ Pc(p, "apply") /\ job[p].logs # <<>> /\ x.kind # "malformed"
      /\ \/ /\ key \in claimed
            /\ Rest(p)
            /\ UNCHANGED <<claimed, projection>>
         \/ /\ key \notin claimed /\ x.kind = "event"
            /\ claimed' = claimed \cup {key}
            /\ projection' = Append(projection, x)
            /\ Rest(p)
         \/ /\ key \notin claimed /\ x.kind = "global"
            /\ Stop(p)
            /\ UNCHANGED <<claimed, projection>>
      /\ UNCHANGED <<chainVars, indexerState, failures>>

\* The hash of the chunk's last block is read after its events.
ReadEnd(p) ==
  /\ Pc(p, "apply") /\ job[p].logs = <<>>
  /\ IF End(p) > Height
     THEN Stop(p)
     ELSE Set(p, [job[p] EXCEPT !.pc = "save", !.hash = Hash(End(p))])
  /\ UNCHANGED <<chainVars, dbVars, failures>>

\* Fault: the checkpoint is the safe head although the chunk ended before it.
SaveSafeHead(p) ==
  /\ Pc(p, "save")
  /\ indexerState' = [block |-> job[p].safe, hash |-> job[p].hash]
  /\ Chunk(p, [job[p] EXCEPT !.start = job[p].safe + 1, !.hash = None])
  /\ UNCHANGED <<chainVars, claimed, projection, failures>>

\* The checkpoint is overwritten whatever another job has stored.
SaveState(p) ==
  /\ Pc(p, "save")
  /\ indexerState' = [block |-> End(p), hash |-> job[p].hash]
  /\ Chunk(p, [job[p] EXCEPT !.start = End(p) + 1, !.hash = None])
  /\ UNCHANGED <<chainVars, claimed, projection, failures>>

Fail(p) ==
  /\ job[p].pc # "idle"
  /\ failures < MaxFailures
  /\ failures' = failures + 1
  /\ Stop(p)
  /\ UNCHANGED <<chainVars, dbVars>>

IndexStep(p) ==
  \/ Begin(p) \/ ReadState(p) \/ CheckState(p) \/ RebuildAfterReorg(p)
  \/ ReadLogs(p) \/ SkipMalformed(p) \/ ApplyEvent(p) \/ ReadEnd(p) \/ SaveState(p)

Next ==
  \/ Mine \/ Reorganize
  \/ \E p \in Processes : IndexStep(p) \/ Fail(p)

Spec == Init /\ [][Next]_vars

\* The job is scheduled every 15 seconds and the network keeps mining.
FairSpec ==
  /\ Spec
  /\ WF_vars(Mine)
  /\ \A p \in Processes : WF_vars(IndexStep(p))

-----------------------------------------------------------------------------
\* Properties.

Events(c) == SelectSeq(LogSeq(c, 1, Len(c)), LAMBDA x : x.kind = "event")

\* While its checkpoint is canonical, the projection holds the confirmed events of
\* the canonical chain, each once, in the chain's order and with none left out,
\* although each is a transaction of its own, jobs overlap and stop anywhere, and the
\* checkpoint moves separately; the checkpoint never claims blocks whose events are
\* missing, on whatever fork it is.
EventsInOrder ==
  /\ indexerState # None => IsPrefix(Events(indexerState.hash), projection)
  /\ indexerState = None \/ Canonical(indexerState) =>
       IsPrefix(projection, Events(Hash(Min({Height, Max({0, peak - Confirmations})}))))

Indexed ==
  indexerState # None /\ indexerState.hash = Hash(ConfirmedHead(Height)) /\ projection = Events(indexerState.hash)

\* Confirmed events are projected in the end: the projection reaches the confirmed
\* head of the chain and stays there.
EventuallyIndexed == <>[]Indexed

=============================================================================
