--------------------------- MODULE GoalMetadata ---------------------------
(***************************************************************************)
(* The off-chain metadata of funding goals: refreshGoalMetadata and        *)
(* retryUnavailableMetadata in apps/worker/src/indexer.ts.  The indexer    *)
(* commits a goal as UNAVAILABLE and fetches its metadata after that       *)
(* transaction; the refresh-metadata job retries the goals that have       *)
(* waited longest, Limit at a time.  Indexer (in the backfill command) and *)
(* job may have a fetch for the same goal at the same time, and both may   *)
(* stop before the answer is stored.                                       *)
(*                                                                         *)
(* `order' is the table by updatedAt, oldest first: every write of a goal  *)
(* moves it to the end.  Documents are only told apart by what the schema  *)
(* makes of them.                                                          *)
(***************************************************************************)
EXTENDS Integers, Sequences, FiniteSets, SequencesExt

CONSTANTS Goals,
          Limit,        \* goals of one retry job
          Documents,    \* what the gateway may hold for a goal
          MaxOutages,   \* bound: fetches that fail although the document exists
          MaxWrites,    \* bound: writes of a goal by other events
          MaxCrashes    \* bound: jobs that stop half-way

GoalMetadataAssumption ==
  /\ Limit \in Nat \ {0}
  /\ Documents \subseteq {"valid", "invalid", "missing"}
  /\ {MaxOutages, MaxWrites, MaxCrashes} \subseteq Nat

VARIABLES document,   \* what the gateway holds for the goal's URI
          status,     \* metadataStatus; "none" before the goal is indexed
          order,      \* indexed goals by updatedAt
          indexing,   \* goals whose indexer has yet to store its fetch
          retrying,   \* goals of the running retry job
          outages, writes, crashes

vars == <<document, status, order, indexing, retrying, outages, writes, crashes>>

Init ==
  /\ document \in [Goals -> Documents]
  /\ status = [g \in Goals |-> "none"]
  /\ order = <<>>
  /\ indexing = {} /\ retrying = {}
  /\ outages = 0 /\ writes = 0 /\ crashes = 0

Touched(g) == Append(SelectSeq(order, LAMBDA x : x # g), g)

\* The GoalCreated transaction; its metadata URI is not empty.
CreateGoal(g) ==
  /\ status[g] = "none"
  /\ status' = [status EXCEPT ![g] = "UNAVAILABLE"]
  /\ order' = Touched(g)
  /\ indexing' = indexing \cup {g}
  /\ UNCHANGED <<document, retrying, outages, writes, crashes>>

\* What refreshGoalMetadata stores when the gateway answers.
Parsed(g) == IF document[g] = "valid" THEN "AVAILABLE" ELSE "INVALID"

\* Fault: a failed fetch leaves the row as it is.
FetchSilently(g) ==
  /\ \/ /\ document[g] # "missing"
        /\ status' = [status EXCEPT ![g] = Parsed(g)]
        /\ order' = Touched(g)
        /\ UNCHANGED outages
     \/ /\ document[g] = "missing" \/ outages < MaxOutages
        /\ outages' = IF document[g] = "missing" THEN outages ELSE outages + 1
        /\ UNCHANGED <<status, order>>
  /\ UNCHANGED <<document, writes, crashes>>

\* refreshGoalMetadata: every outcome writes the row.
Fetch(g) ==
  /\ \/ /\ document[g] # "missing"
        /\ status' = [status EXCEPT ![g] = Parsed(g)]
        /\ UNCHANGED outages
     \/ /\ document[g] = "missing" \/ outages < MaxOutages
        /\ outages' = IF document[g] = "missing" THEN outages ELSE outages + 1
        /\ status' = [status EXCEPT ![g] = "UNAVAILABLE"]
  /\ order' = Touched(g)
  /\ UNCHANGED <<document, writes, crashes>>

IndexerFetch(g) ==
  /\ g \in indexing
  /\ Fetch(g)
  /\ indexing' = indexing \ {g}
  /\ UNCHANGED retrying

\* retryUnavailableMetadata
StartRetry ==
  LET waiting == SelectSeq(order, LAMBDA g : status[g] = "UNAVAILABLE")
  IN  /\ retrying = {} /\ waiting # <<>>
      /\ retrying' = {waiting[i] : i \in 1..(IF Len(waiting) < Limit THEN Len(waiting)
                                             ELSE Limit)}
      /\ UNCHANGED <<document, status, order, indexing, outages, writes, crashes>>

RetryFetch(g) ==
  /\ g \in retrying
  /\ Fetch(g)
  /\ retrying' = retrying \ {g}
  /\ UNCHANGED indexing

\* The worker or the backfill command stops.
Crash ==
  /\ crashes < MaxCrashes
  /\ \/ indexing # {} /\ indexing' = {} /\ UNCHANGED retrying
     \/ retrying # {} /\ retrying' = {} /\ UNCHANGED indexing
  /\ crashes' = crashes + 1
  /\ UNCHANGED <<document, status, order, outages, writes>>

\* A later event of the goal writes its row.
OtherWrite(g) ==
  /\ status[g] # "none" /\ writes < MaxWrites
  /\ writes' = writes + 1
  /\ order' = Touched(g)
  /\ UNCHANGED <<document, status, indexing, retrying, outages, crashes>>

Next ==
  \/ \E g \in Goals : CreateGoal(g) \/ IndexerFetch(g) \/ RetryFetch(g) \/ OtherWrite(g)
  \/ StartRetry \/ Crash

\* The retry job runs every five minutes and every fetch has a timeout.
Spec ==
  /\ Init /\ [][Next]_vars
  /\ WF_vars(StartRetry)
  /\ \A g \in Goals : WF_vars(IndexerFetch(g)) /\ WF_vars(RetryFetch(g))

-----------------------------------------------------------------------------
\* Every indexed goal whose document the gateway holds ends with its verdict, for
\* good: a crash after the indexer's transaction, a late failure that overwrites a
\* success, other events of the goal and goals that can never be fetched, more of
\* them than one job takes, do not keep it from being retried.
MetadataSettles ==
  \A g \in Goals :
    status[g] # "none" /\ document[g] # "missing" ~> [](status[g] = Parsed(g))
=============================================================================
