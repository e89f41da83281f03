-------------------------- MODULE AdsIndexer_proofs --------------------------
(***************************************************************************)
(* A checkpoint of the Keyword Market indexer only moves along its own     *)
(* fork, for every number of overlapping jobs, every chunk size and        *)
(* reorganizations of every depth, provided that the node never returns to *)
(* a fork it has left (FreshForks).                                        *)
(*                                                                         *)
(* A job holds hashes it has read before: of its checkpoint and of the end *)
(* of its chunk.  The proof rests on one fact about them: a held hash that *)
(* is not canonical never becomes canonical again (ChainMoveKeeps).  So    *)
(* what a job has compared at its last check was also true at every        *)
(* earlier read, and its four reads of a chunk agree although the chain    *)
(* may move between them.                                                  *)
(***************************************************************************)
EXTENDS AdsIndexer, SequenceTheorems, TLAPS

\* h is the chain c up to its own length.
PrefixOf(h, c) == Len(h) <= Len(c) /\ \A i \in 1..Len(h) : h[i] = c[i]

IsSequence(h) == h \in Seq({h[i] : i \in DOMAIN h})

\* A sequence of blocks that the chain c, after f reorganizations, is or once was a
\* continuation of.  Where c has been cut below h, the block of h that comes next
\* belongs to an earlier fork, and the next one mined does not.
Held(h, c, f) ==
  /\ IsSequence(h) /\ Len(h) >= 1
  /\ \A i \in 1..Len(h) : h[i].fork \in 0..f
  /\ PrefixOf(c, h) /\ Len(c) < Len(h) => h[Len(c) + 1].fork # f

ChainShape(c, f) ==
  /\ IsSequence(c) /\ Len(c) >= 1 /\ f \in Nat
  /\ \A i \in 1..Len(c) : c[i].fork \in 0..f

\* A block is mined on the chain, or a part of it is abandoned.
ChainMoves(c, f, d, g) ==
  \/ /\ g = f
     /\ \E block : block.fork = f /\ d = Append(c, block)
  \/ /\ g = f + 1
     /\ \E n \in 1..Len(c) : d = SubSeq(c, 1, n)

\* A checkpoint names the block of its hash, and the configuration stored with it
\* is that of a block on its fork.
StateShape(s, c, f) ==
  s # None =>
    /\ Held(s.hash, c, f) /\ Len(s.hash) = s.block
    /\ s.config # None =>
         /\ s.config.block \in 1..s.block
         /\ s.config.value = s.hash[s.config.block].contract.config

EndOf(j) == Min({j.start + ChunkSize - 1, j.safe})
Names == {"PositionChanged", "StakeCharged"}
SeenSteps == {"checkpoint", "reset", "refresh", "recheck", "save"}
ReadSteps == {"logs", "snapshot", "again", "after", "commit"}
ChunkSteps == {"chunk", "end"} \cup ReadSteps

\* What a job at step pc may rely on.  A reading is right from the moment that the
\* hash it belongs to is found canonical; before, it is right if that hash still is
\* canonical.
SeenShape(j, c, f) ==
  j.seen # None \/ j.pc \in SeenSteps =>
    /\ Held(j.seen.hash, c, f) /\ Len(j.seen.hash) = j.seen.block
    /\ j.start = j.seen.block + 1

RefreshShape(j, c) ==
  /\ j.pc \in {"refresh", "recheck", "save"} => j.seen.block = j.safe
  /\ j.pc \in {"recheck", "save"} =>
       /\ j.config.block = j.safe
       /\ j.pc = "save" \/ PrefixOf(j.seen.hash, c) =>
            j.config.value = j.seen.hash[j.safe].contract.config

ReadShape(j, c, f) ==
  /\ j.pc \in {"state", "checkpoint", "reset", "chunk", "end", "logs", "snapshot"} =>
       j.config = None
  /\ j.pc \in ChunkSteps => j.start >= 1 /\ j.start <= j.safe
  /\ j.pc \in ReadSteps =>
       /\ Held(j.hash, c, f) /\ Len(j.hash) = EndOf(j)
       /\ j.seen # None /\ (j.pc = "commit" \/ PrefixOf(j.seen.hash, c)) =>
            PrefixOf(j.seen.hash, j.hash)
       /\ j.pc \in {"after", "commit"} \/ PrefixOf(j.hash, c) =>
            j.logs = LogsOf(j.hash, j.start, EndOf(j), Names \ j.unread)
       /\ j.pc # "logs" => j.unread = {}
       /\ EndOf(j) = j.safe \/ (j.config = None /\ j.pc # "snapshot")
       /\ j.config # None =>
            /\ j.config.block = EndOf(j)
            /\ j.pc \in {"after", "commit"} \/ PrefixOf(j.hash, c) =>
                 j.config.value = j.hash[EndOf(j)].contract.config

JobShape(j, c, f) ==
  /\ DOMAIN j = DOMAIN IdleJob
  /\ j.pc \in {"idle", "state"} \cup SeenSteps \cup ChunkSteps
  /\ j.safe \in Nat /\ j.start \in Nat
  /\ j.pc # "idle" => j.safe >= 1
  /\ j.unread \subseteq Names
  /\ SeenShape(j, c, f) /\ RefreshShape(j, c) /\ ReadShape(j, c, f)

ForkInv ==
  /\ ChainShape(chain, forks)
  /\ StateShape(state, chain, forks)
  /\ DOMAIN job = Processes
  /\ \A p \in Processes : JobShape(job[p], chain, forks)

-----------------------------------------------------------------------------
\* Sequences of blocks.

\* The domain and the elements of a sequence.
LEMMA SequenceShape ==
  ASSUME NEW h, IsSequence(h)
  PROVE  Len(h) \in Nat /\ DOMAIN h = 1..Len(h)
BY LenProperties DEF IsSequence

\* A part of a chain from its first block is a sequence that agrees with it.
LEMMA PartShape ==
  ASSUME NEW c, IsSequence(c), NEW n \in 1..Len(c)
  PROVE  /\ IsSequence(SubSeq(c, 1, n)) /\ Len(SubSeq(c, 1, n)) = n
         /\ PrefixOf(SubSeq(c, 1, n), c)
<1> DEFINE h == SubSeq(c, 1, n)
<1>1. Len(c) \in Nat /\ n \in Nat /\ n >= 1 /\ n <= Len(c)
  BY SequenceShape
<1>2. h = [i \in 1..n |-> c[i]]
  BY <1>1, SMT
<1>3. DOMAIN h = 1..n /\ \A i \in 1..n : h[i] = c[i]
  BY <1>2
<1> HIDE DEF h
<1>4. h \in [1..n -> {h[i] : i \in DOMAIN h}]
  BY <1>2, <1>3
<1>5. IsSequence(h)
  <2> DEFINE S == {h[i] : i \in DOMAIN h}
  <2>1. h \in [1..n -> S] /\ n \in Nat
    BY <1>1, <1>4
  <2> HIDE DEF S
  <2>2. h \in Seq(S)
    BY <2>1, SeqDef
  <2> QED
    BY <2>2 DEF IsSequence, S
<1>6. Len(h) = n
  <2>1. Len(h) \in Nat /\ 1..Len(h) = 1..n
    BY <1>3, <1>5, SequenceShape
  <2> QED
    BY <1>1, <2>1
<1>7. PrefixOf(h, c)
  BY <1>1, <1>3, <1>6 DEF PrefixOf
<1> QED
  BY <1>5, <1>6, <1>7 DEF h

\* A sequence is a part of the chain exactly when it agrees with it.
LEMMA PartIsPrefix ==
  ASSUME NEW c, IsSequence(c), NEW h, IsSequence(h), NEW n \in 1..Len(c), Len(h) = n
  PROVE  SubSeq(c, 1, n) = h <=> PrefixOf(h, c)
<1> DEFINE k == SubSeq(c, 1, n)
<1>1. IsSequence(k) /\ Len(k) = n /\ PrefixOf(k, c)
  BY PartShape
<1>2. Len(c) \in Nat /\ n \in Nat /\ n <= Len(c)
  BY SequenceShape
<1> HIDE DEF k
<1>3. CASE PrefixOf(h, c)
  <2>1. \A i \in 1..n : h[i] = k[i]
    BY <1>1, <1>2, <1>3 DEF PrefixOf
  <2>2. DOMAIN h = 1..n /\ DOMAIN k = 1..n
    BY <1>1, SequenceShape
  <2>3. h = [i \in 1..n |-> h[i]] /\ k = [i \in 1..n |-> k[i]]
    BY <2>2, <1>1 DEF IsSequence
  <2>4. h = k
    BY <2>1, <2>3
  <2> QED
    BY <1>3, <2>4 DEF k
<1>4. CASE ~PrefixOf(h, c)
  BY <1>1, <1>4 DEF k
<1> QED
  BY <1>3, <1>4

\* A mined block is added at the end.
LEMMA MinedShape ==
  ASSUME NEW c, IsSequence(c), NEW block
  PROVE  LET d == Append(c, block)
         IN  /\ IsSequence(d) /\ Len(d) = Len(c) + 1 /\ PrefixOf(c, d)
             /\ d[Len(c) + 1] = block
<1> DEFINE S == {c[i] : i \in DOMAIN c} \cup {block}
           d == Append(c, block)
<1>1. Len(c) \in Nat /\ DOMAIN c = 1..Len(c)
  BY SequenceShape
<1>2. c \in Seq(S)
  BY SeqMonotonic DEF IsSequence
<1>3. d \in Seq(S)
  BY <1>2
<1>4. Len(d) = Len(c) + 1 /\ d[Len(c) + 1] = block /\ \A i \in 1..Len(c) : d[i] = c[i]
  BY <1>1, <1>2
<1> HIDE DEF d
<1>5. IsSequence(d)
  <2>1. d \in [1..Len(d) -> S] /\ Len(d) \in Nat /\ DOMAIN d = 1..Len(d)
    BY <1>3, LenProperties
  <2>2. d \in [1..Len(d) -> {d[i] : i \in DOMAIN d}]
    BY <2>1
  <2> QED
    BY <2>1, <2>2 DEF IsSequence
<1>6. PrefixOf(c, d)
  BY <1>1, <1>4 DEF PrefixOf
<1> QED
  BY <1>4, <1>5, <1>6 DEF d

\* A part of the chain that a job reads is held from then on.
LEMMA ReadIsHeld ==
  ASSUME NEW c, NEW f, ChainShape(c, f), NEW n \in 1..Len(c)
  PROVE  Held(SubSeq(c, 1, n), c, f)
<1> DEFINE h == SubSeq(c, 1, n)
<1>1. IsSequence(h) /\ Len(h) = n /\ PrefixOf(h, c)
  BY PartShape DEF ChainShape
<1>2. Len(c) \in Nat /\ n <= Len(c) /\ n >= 1
  BY SequenceShape DEF ChainShape
<1> HIDE DEF h
<1>3. \A i \in 1..Len(h) : h[i].fork \in 0..f
  BY <1>1, <1>2 DEF PrefixOf, ChainShape
<1>4. ~(Len(c) < Len(h))
  BY <1>1, <1>2
<1>5. Held(h, c, f)
  BY <1>1, <1>2, <1>3, <1>4 DEF Held
<1> QED
  BY <1>5 DEF h

\* However the chain moves, a held sequence stays held, and one that is not
\* canonical stays so.
LEMMA ChainMoveKeeps ==
  ASSUME NEW c, NEW f, ChainShape(c, f), NEW d, NEW g, ChainMoves(c, f, d, g),
         NEW h, Held(h, c, f)
  PROVE  Held(h, d, g) /\ (PrefixOf(h, d) => PrefixOf(h, c))
<1>1. Len(c) \in Nat /\ Len(h) \in Nat /\ f \in Nat
  BY SequenceShape DEF ChainShape, Held
<1>2. ASSUME NEW block, block.fork = f, d = Append(c, block), g = f
      PROVE  Held(h, d, g) /\ (PrefixOf(h, d) => PrefixOf(h, c))
  <2>1. Len(d) = Len(c) + 1 /\ PrefixOf(c, d) /\ d[Len(c) + 1].fork = f
    BY <1>2, MinedShape DEF ChainShape
  <2>2. ASSUME Len(c) < Len(h), \A i \in 1..Len(c) : c[i] = h[i]
        PROVE  d[Len(c) + 1] # h[Len(c) + 1]
    <3>1. h[Len(c) + 1].fork # f
      BY <1>1, <2>2 DEF Held, PrefixOf
    <3> QED
      BY <2>1, <3>1
  <2>3. ASSUME PrefixOf(h, d)
        PROVE  PrefixOf(h, c)
    <3>1. CASE Len(h) <= Len(c)
      BY <1>1, <2>1, <2>3, <3>1 DEF PrefixOf
    <3>2. CASE Len(h) > Len(c)
      <4>1. \A i \in 1..Len(c) : c[i] = h[i]
        BY <1>1, <2>1, <2>3, <3>2 DEF PrefixOf
      <4>2. d[Len(c) + 1] = h[Len(c) + 1]
        BY <1>1, <2>1, <2>3, <3>2 DEF PrefixOf
      <4> QED
        BY <1>1, <2>2, <3>2, <4>1, <4>2
    <3> QED
      BY <1>1, <3>1, <3>2
  <2>4. ~(PrefixOf(d, h) /\ Len(d) < Len(h))
    <3> SUFFICES ASSUME PrefixOf(d, h), Len(d) < Len(h)
                 PROVE  FALSE
      OBVIOUS
    <3>1. \A i \in 1..Len(c) + 1 : d[i] = h[i]
      BY <2>1 DEF PrefixOf
    <3>2. \A i \in 1..Len(c) : c[i] = h[i]
      BY <1>1, <2>1, <3>1 DEF PrefixOf
    <3>3. d[Len(c) + 1] = h[Len(c) + 1]
      BY <1>1, <3>1
    <3> QED
      BY <1>1, <2>1, <2>2, <3>2, <3>3
  <2> QED
    BY <1>2, <2>3, <2>4 DEF Held
<1>3. ASSUME NEW n \in 1..Len(c), d = SubSeq(c, 1, n), g = f + 1
      PROVE  Held(h, d, g) /\ (PrefixOf(h, d) => PrefixOf(h, c))
  <2>1. Len(d) = n /\ PrefixOf(d, c) /\ n \in Nat /\ n <= Len(c)
    BY <1>1, <1>3, PartShape DEF ChainShape
  <2>2. PrefixOf(h, d) => PrefixOf(h, c)
    BY <1>1, <2>1 DEF PrefixOf
  <2>3. \A i \in 1..Len(h) : h[i].fork \in 0..g /\ h[i].fork # g
    BY <1>1, <1>3 DEF Held
  <2>4. Len(d) < Len(h) => h[Len(d) + 1].fork # g
    BY <1>1, <2>1, <2>3
  <2>5. IsSequence(h) /\ Len(h) >= 1
    BY DEF Held
  <2> QED
    BY <2>2, <2>3, <2>4, <2>5 DEF Held
<1> QED
  BY <1>2, <1>3 DEF ChainMoves

\* The chain stays a sequence of blocks of forks that there have been.
LEMMA ChainMoveShape ==
  ASSUME NEW c, NEW f, ChainShape(c, f), NEW d, NEW g, ChainMoves(c, f, d, g)
  PROVE  ChainShape(d, g)
<1>1. Len(c) \in Nat /\ f \in Nat
  BY SequenceShape DEF ChainShape
<1>2. ASSUME NEW block, block.fork = f, d = Append(c, block), g = f
      PROVE  ChainShape(d, g)
  <2>1. /\ IsSequence(d) /\ Len(d) = Len(c) + 1 /\ PrefixOf(c, d)
        /\ d[Len(c) + 1].fork = f
    BY <1>2, MinedShape DEF ChainShape
  <2>2. \A i \in 1..Len(d) : i = Len(c) + 1 \/ i \in 1..Len(c)
    BY <1>1, <2>1
  <2>3. \A i \in 1..Len(c) : d[i].fork \in 0..f
    BY <2>1 DEF PrefixOf, ChainShape
  <2> QED
    BY <1>1, <1>2, <2>1, <2>2, <2>3 DEF ChainShape
<1>3. ASSUME NEW n \in 1..Len(c), d = SubSeq(c, 1, n), g = f + 1
      PROVE  ChainShape(d, g)
  <2>1. IsSequence(d) /\ Len(d) = n /\ PrefixOf(d, c) /\ n \in Nat /\ n <= Len(c) /\ n >= 1
    BY <1>1, <1>3, PartShape DEF ChainShape
  <2>2. \A i \in 1..n : d[i].fork \in 0..g
    BY <1>1, <1>3, <2>1 DEF PrefixOf, ChainShape
  <2> QED
    BY <1>1, <1>3, <2>1, <2>2 DEF ChainShape
<1> QED
  BY <1>2, <1>3 DEF ChainMoves

-----------------------------------------------------------------------------
\* What a job reads.

\* Within their common part two chains have the same logs.
LEMMA LogsOfPrefix ==
  ASSUME NEW h, NEW c, PrefixOf(h, c), Len(h) \in Nat, Len(c) \in Nat,
         NEW from \in Nat, from >= 1, NEW names
  PROVE  LogsOf(c, from, Len(h), names) = LogsOf(h, from, Len(h), names)
<1> DEFINE P(k) == {y \in (from..Len(h)) \X (1..2) :
                      /\ y[1] <= Len(k)
                      /\ y[2] <= Len(k[y[1]].logs)
                      /\ k[y[1]].logs[y[2]].name \in names}
           E(k, x) == [block |-> x[1], logIndex |-> x[2], log |-> k[x[1]].logs[x[2]]]
<1>1. \A y \in (from..Len(h)) \X (1..2) :
        y[1] <= Len(h) /\ y[1] <= Len(c) /\ h[y[1]] = c[y[1]]
  <2> TAKE y \in (from..Len(h)) \X (1..2)
  <2>1. y[1] \in from..Len(h)
    OBVIOUS
  <2> QED
    BY <2>1 DEF PrefixOf
<1>2. P(c) = P(h)
  BY <1>1
<1>3. \A x \in P(h) : E(c, x) = E(h, x)
  BY <1>1
<1>4. {E(c, x) : x \in P(c)} = {E(h, x) : x \in P(h)}
  BY <1>2, <1>3
<1> QED
  BY <1>4 DEF LogsOf

\* The answers for two sets of events are together that for their union.
LEMMA LogsOfUnion ==
  ASSUME NEW c, NEW from, NEW to, NEW names, NEW others
  PROVE  LogsOf(c, from, to, names \cup others)
           = LogsOf(c, from, to, names) \cup LogsOf(c, from, to, others)
BY DEF LogsOf

\* No event, no log.
LEMMA LogsOfNothing == ASSUME NEW c, NEW from, NEW to PROVE LogsOf(c, from, to, {}) = {}
BY DEF LogsOf

\* A chunk ends between its start and the finalized block.
LEMMA EndOfChunk ==
  ASSUME NEW j, j.start \in Nat, j.safe \in Nat, j.start <= j.safe
  PROVE  EndOf(j) \in Nat /\ j.start <= EndOf(j) /\ EndOf(j) <= j.safe
<1> DEFINE a == j.start + ChunkSize - 1
           b == j.safe
<1>1. a \in Nat /\ b \in Nat /\ a >= j.start
  BY AdsIndexerAssumption
<1> HIDE DEF a, b
<1>2. \E x \in {a, b} : \A y \in {a, b} : x <= y
  BY <1>1
<1>3. Min({a, b}) \in {a, b} /\ Min({a, b}) <= b
  BY <1>2 DEF Min
<1> QED
  BY <1>1, <1>3 DEF EndOf, a, b

\* A checkpoint is canonical when its hash agrees with the chain.
LEMMA CanonicalIsPrefix ==
  ASSUME ChainShape(chain, forks), NEW r, Held(r.hash, chain, forks), Len(r.hash) = r.block
  PROVE  Canonical(r) <=> PrefixOf(r.hash, chain)
<1>1. Len(chain) \in Nat /\ Len(r.hash) \in Nat /\ r.block >= 1 /\ IsSequence(r.hash)
  BY SequenceShape DEF ChainShape, Held
<1>2. CASE r.block <= Height
  <2>1. r.block \in 1..Len(chain)
    BY <1>1, <1>2 DEF Height
  <2>2. SubSeq(chain, 1, r.block) = r.hash <=> PrefixOf(r.hash, chain)
    BY <1>1, <2>1, PartIsPrefix DEF ChainShape
  <2> QED
    BY <1>2, <2>2 DEF Canonical, Hash
<1>3. CASE ~(r.block <= Height)
  BY <1>3 DEF Canonical, PrefixOf, Height
<1> QED
  BY <1>2, <1>3

-----------------------------------------------------------------------------
\* The chain moves under the jobs and the checkpoint.

\* The six steps of the chain are moves of it, if forks are fresh.
LEMMA ChainStepMoves ==
  ASSUME FreshForks = TRUE, ChainShape(chain, forks), ChainStep
  PROVE  ChainMoves(chain, forks, chain', forks') /\ UNCHANGED <<dbVars, job>>
<1>1. Len(chain) \in Nat
  BY SequenceShape DEF ChainShape
<1>2. ASSUME NEW logs, NEW contract, Mine(logs, contract)
      PROVE  ChainMoves(chain, forks, chain', forks') /\ UNCHANGED <<dbVars, job>>
  <2>1. /\ chain' = Append(chain, [fork |-> forks, logs |-> logs, contract |-> contract])
        /\ forks' = forks /\ UNCHANGED <<dbVars, job>>
    BY <1>2 DEF Mine
  <2> QED
    BY <2>1 DEF ChainMoves
<1>3. ASSUME Reorganize
      PROVE  ChainMoves(chain, forks, chain', forks') /\ UNCHANGED <<dbVars, job>>
  <2>1. PICK n \in 1..(Height - 1) : chain' = SubSeq(chain, 1, n)
    BY <1>3 DEF Reorganize, Hash
  <2>2. n \in 1..Len(chain)
    BY <1>1, <2>1 DEF Height
  <2> QED
    BY <1>3, <2>1, <2>2 DEF ChainMoves, Reorganize
<1> QED
  BY <1>2, <1>3 DEF ChainStep, Stake, Unstake, Charge, Configure, MineEmpty

\* The checkpoint and its configuration are of a fork, canonical or not.
LEMMA StateUnderMove ==
  ASSUME NEW c, NEW f, ChainShape(c, f), NEW d, NEW g, ChainMoves(c, f, d, g),
         NEW s, StateShape(s, c, f)
  PROVE  StateShape(s, d, g)
BY ChainMoveKeeps DEF StateShape

\* What a job relies on survives every move of the chain.
LEMMA JobUnderMove ==
  ASSUME NEW c, NEW f, ChainShape(c, f), NEW d, NEW g, ChainMoves(c, f, d, g),
         NEW j, JobShape(j, c, f)
  PROVE  JobShape(j, d, g)
<1>1. SeenShape(j, d, g)
  BY ChainMoveKeeps DEF JobShape, SeenShape
<1>2. RefreshShape(j, d)
  <2>1. j.pc \in SeenSteps => (PrefixOf(j.seen.hash, d) => PrefixOf(j.seen.hash, c))
    BY ChainMoveKeeps DEF JobShape, SeenShape
  <2> QED
    BY <2>1 DEF JobShape, RefreshShape, SeenSteps
<1>3. ReadShape(j, d, g)
  <2>1. j.seen # None => (PrefixOf(j.seen.hash, d) => PrefixOf(j.seen.hash, c))
    BY ChainMoveKeeps DEF JobShape, SeenShape
  <2>2. j.pc \in ReadSteps =>
          Held(j.hash, d, g) /\ (PrefixOf(j.hash, d) => PrefixOf(j.hash, c))
    BY ChainMoveKeeps DEF JobShape, ReadShape
  <2> QED
    BY <2>1, <2>2 DEF JobShape, ReadShape
<1> QED
  BY <1>1, <1>2, <1>3 DEF JobShape

-----------------------------------------------------------------------------
\* The steps of a job, one lemma for each group.  They all read the chain as it is
\* at that moment.

Fields == {"pc", "safe", "seen", "start", "hash", "unread", "logs", "config"}

\* An idle job relies on nothing.
LEMMA IdleShape == ASSUME NEW c, NEW f PROVE JobShape(IdleJob, c, f)
BY DEF JobShape, IdleJob, SeenShape, RefreshShape, ReadShape, SeenSteps, ReadSteps, ChunkSteps

LEMMA IdleFields == DOMAIN IdleJob = Fields
BY DEF IdleJob, Fields

\* The job is replaced, and only it.
LEMMA SetJob ==
  ASSUME DOMAIN job = Processes, NEW p \in Processes, NEW j, Set(p, j)
  PROVE  job'[p] = j /\ DOMAIN job' = Processes /\ \A q \in Processes \ {p} : job'[q] = job[q]
BY DEF Set

\* Begin, ReadState: the job takes the checkpoint as it is in the database.
LEMMA BeginStep ==
  ASSUME ForkInv, NEW p \in Processes, Begin(p) \/ ReadState(p)
  PROVE  JobShape(job'[p], chain, forks)
<1>1. Len(chain) \in Nat /\ DOMAIN job[p] = Fields
  BY SequenceShape, IdleFields DEF ForkInv, ChainShape, JobShape
<1>2. CASE Begin(p)
  <2>1. FinalizedAdsBlock(Height) \in Nat /\ FinalizedAdsBlock(Height) >= 1
    BY <1>1, <1>2, AdsIndexerAssumption DEF Begin, FinalizedAdsBlock, Height
  <2> DEFINE j == [IdleJob EXCEPT !.pc = "state", !.safe = FinalizedAdsBlock(Height)]
  <2>2. job'[p] = j
    BY <1>2, SetJob DEF Begin, ForkInv
  <2>3. /\ j.pc = "state" /\ j.safe = FinalizedAdsBlock(Height) /\ j.seen = None
        /\ j.start = 0 /\ j.unread = {} /\ j.config = None /\ DOMAIN j = DOMAIN IdleJob
    BY DEF IdleJob
  <2> HIDE DEF j
  <2>4. JobShape(j, chain, forks)
    BY <2>1, <2>3 DEF JobShape, SeenShape, RefreshShape, ReadShape, SeenSteps, ReadSteps,
                      ChunkSteps
  <2> QED
    BY <2>2, <2>4
<1>3. CASE ReadState(p)
  <2> DEFINE j == [job[p] EXCEPT
       !.pc = IF state = None THEN "chunk" ELSE "checkpoint",
       !.seen = IF state = None THEN None ELSE [block |-> state.block, hash |-> state.hash],
       !.start = IF state = None THEN 1 ELSE state.block + 1]
  <2>1. job'[p] = j /\ job[p].pc = "state"
    BY <1>3, SetJob DEF ReadState, ForkInv, Pc
  <2>2. /\ job[p].safe \in Nat /\ job[p].safe >= 1 /\ job[p].unread \subseteq Names
    BY <2>1 DEF ForkInv, JobShape
  <2>3. /\ DOMAIN j = DOMAIN IdleJob /\ j.safe = job[p].safe /\ j.unread = job[p].unread
        /\ j.config = job[p].config
        /\ state = None => j.pc = "chunk" /\ j.seen = None /\ j.start = 1
        /\ state # None => /\ j.pc = "checkpoint" /\ j.seen.block = state.block
                           /\ j.seen.hash = state.hash /\ j.start = state.block + 1
    BY <1>1, IdleFields DEF Fields
  <2> HIDE DEF j
  <2>4. state # None => /\ Held(state.hash, chain, forks) /\ Len(state.hash) = state.block
                        /\ state.block \in Nat
    BY SequenceShape DEF ForkInv, StateShape, Held
  <2>5. job[p].config = None
    BY <2>1 DEF ForkInv, JobShape, ReadShape
  <2>6. JobShape(j, chain, forks)
    BY <2>2, <2>3, <2>4, <2>5
       DEF JobShape, SeenShape, RefreshShape, ReadShape, SeenSteps, ReadSteps, ChunkSteps
  <2> QED
    BY <2>1, <2>6
<1> QED
  BY <1>2, <1>3

\* CheckState, ResetAdsProjection: a checkpoint on the canonical chain is kept, one
\* on an abandoned fork is cleared with everything projected.
LEMMA CheckStep ==
  ASSUME ForkInv, NEW p \in Processes, CheckState(p) \/ ResetAdsProjection(p)
  PROVE  JobShape(job'[p], chain, forks)
<1>1. DOMAIN job[p] = Fields /\ JobShape(job[p], chain, forks)
  BY IdleFields DEF ForkInv, JobShape
<1>2. CASE CheckState(p)
  <2>1. job[p].pc = "checkpoint"
    BY <1>2 DEF CheckState, Pc
  <2>2. /\ Held(job[p].seen.hash, chain, forks) /\ Len(job[p].seen.hash) = job[p].seen.block
        /\ job[p].start = job[p].seen.block + 1 /\ job[p].seen.block \in Nat
    BY <1>1, <2>1, SequenceShape DEF JobShape, SeenShape, SeenSteps, Held
  <2>3. ASSUME NEW pc \in {"reset", "refresh", "chunk"}, Go(p, pc),
               pc = "refresh" => job[p].seen.block = job[p].safe,
               pc = "chunk" => job[p].seen.block < job[p].safe
        PROVE  JobShape(job'[p], chain, forks)
    <3> DEFINE j == [job[p] EXCEPT !.pc = pc]
    <3>1. job'[p] = j
      BY <2>3, SetJob DEF Go, ForkInv
    <3>2. /\ DOMAIN j = DOMAIN IdleJob /\ j.pc = pc /\ j.seen = job[p].seen
          /\ j.safe = job[p].safe /\ j.start = job[p].start /\ j.unread = job[p].unread
          /\ j.config = job[p].config
      BY <1>1, IdleFields DEF Fields
    <3> HIDE DEF j
    <3>3. JobShape(j, chain, forks)
      BY <1>1, <2>1, <2>2, <2>3, <3>2
         DEF JobShape, SeenShape, RefreshShape, ReadShape, SeenSteps, ReadSteps, ChunkSteps
    <3> QED
      BY <3>1, <3>3
  <2>4. CASE Stop(p)
    BY <2>4, SetJob, IdleShape DEF Stop, ForkInv
  <2> QED
    BY <1>2, <2>3, <2>4 DEF CheckState
<1>3. CASE ResetAdsProjection(p)
  <2> DEFINE j == [job[p] EXCEPT !.pc = "chunk", !.seen = None, !.start = 1]
  <2>1. job'[p] = j /\ job[p].pc = "reset"
    BY <1>3, SetJob DEF ResetAdsProjection, ForkInv, Pc
  <2>2. /\ DOMAIN j = DOMAIN IdleJob /\ j.pc = "chunk" /\ j.seen = None
        /\ j.safe = job[p].safe /\ j.start = 1 /\ j.unread = job[p].unread
        /\ j.config = job[p].config
    BY <1>1, IdleFields DEF Fields
  <2> HIDE DEF j
  <2>3. JobShape(j, chain, forks)
    BY <1>1, <2>1, <2>2
       DEF JobShape, SeenShape, RefreshShape, ReadShape, SeenSteps, ReadSteps, ChunkSteps
  <2> QED
    BY <2>1, <2>3
<1> QED
  BY <1>2, <1>3

\* ReadConfig, RecheckState: a configuration read for a checkpoint that afterwards is
\* still canonical is the one of the checkpoint's fork.
LEMMA RefreshStep ==
  ASSUME ForkInv, NEW p \in Processes, ReadConfig(p) \/ RecheckState(p)
  PROVE  JobShape(job'[p], chain, forks)
<1>1. DOMAIN job[p] = Fields /\ JobShape(job[p], chain, forks) /\ ChainShape(chain, forks)
  BY IdleFields DEF ForkInv, JobShape
<1>2. CASE Stop(p)
  BY <1>2, SetJob, IdleShape DEF Stop, ForkInv
<1>3. ASSUME job[p].pc \in {"refresh", "recheck"}
      PROVE  /\ Held(job[p].seen.hash, chain, forks)
             /\ Len(job[p].seen.hash) = job[p].seen.block
             /\ job[p].seen.block = job[p].safe /\ job[p].start = job[p].seen.block + 1
             /\ job[p].safe >= 1
  BY <1>1, <1>3 DEF JobShape, SeenShape, RefreshShape, SeenSteps
<1>4. CASE ReadConfig(p) /\ ~Stop(p)
  <2> DEFINE n == job[p].safe
             j == [job[p] EXCEPT !.pc = "recheck",
                     !.config = [value |-> chain[n].contract.config, block |-> n]]
  <2>1. job'[p] = j /\ job[p].pc = "refresh"
    BY <1>4, SetJob DEF ReadConfig, Snapshot, ForkInv, Pc
  <2>2. /\ DOMAIN j = DOMAIN IdleJob /\ j.pc = "recheck" /\ j.seen = job[p].seen
        /\ j.safe = job[p].safe /\ j.start = job[p].start /\ j.unread = job[p].unread
        /\ j.config = [value |-> chain[n].contract.config, block |-> n]
    BY <1>1, IdleFields DEF Fields
  <2> HIDE DEF j
  <2>3. PrefixOf(j.seen.hash, chain) => chain[n] = j.seen.hash[n]
    BY <1>1, <1>3, <2>1, <2>2 DEF PrefixOf, JobShape
  <2>4. JobShape(j, chain, forks)
    BY <1>1, <1>3, <2>1, <2>2, <2>3
       DEF JobShape, SeenShape, RefreshShape, ReadShape, SeenSteps, ReadSteps, ChunkSteps
  <2> QED
    BY <2>1, <2>4
<1>5. CASE RecheckState(p) /\ ~Stop(p)
  <2> DEFINE j == [job[p] EXCEPT !.pc = "save"]
  <2>1. job'[p] = j /\ job[p].pc = "recheck"
    BY <1>5, SetJob DEF RecheckState, Go, ForkInv, Pc
  <2>2. PrefixOf(job[p].seen.hash, chain)
    BY <1>1, <1>3, <1>5, <2>1, CanonicalIsPrefix DEF RecheckState
  <2>3. /\ DOMAIN j = DOMAIN IdleJob /\ j.pc = "save" /\ j.seen = job[p].seen
        /\ j.safe = job[p].safe /\ j.start = job[p].start /\ j.unread = job[p].unread
        /\ j.config = job[p].config
    BY <1>1, IdleFields DEF Fields
  <2> HIDE DEF j
  <2>4. JobShape(j, chain, forks)
    BY <1>1, <1>3, <2>1, <2>2, <2>3
       DEF JobShape, SeenShape, RefreshShape, ReadShape, SeenSteps, ReadSteps, ChunkSteps
  <2> QED
    BY <2>1, <2>4
<1> QED
  BY <1>2, <1>4, <1>5

\* CheckBefore, ReadEnd: the hash of a chunk's end continues that of the checkpoint,
\* unless the checkpoint has been abandoned.
LEMMA ChunkStep ==
  ASSUME ForkInv, NEW p \in Processes, CheckBefore(p) \/ ReadEnd(p)
  PROVE  JobShape(job'[p], chain, forks)
<1>1. DOMAIN job[p] = Fields /\ JobShape(job[p], chain, forks) /\ ChainShape(chain, forks)
  BY IdleFields DEF ForkInv, JobShape
<1>2. CASE Stop(p)
  BY <1>2, SetJob, IdleShape DEF Stop, ForkInv
<1>3. CASE CheckBefore(p) /\ ~Stop(p)
  <2> DEFINE j == [job[p] EXCEPT !.pc = "end"]
  <2>1. job'[p] = j /\ job[p].pc = "chunk"
    BY <1>3, SetJob DEF CheckBefore, AssertCanonical, Go, ForkInv, Pc
  <2>2. /\ DOMAIN j = DOMAIN IdleJob /\ j.pc = "end" /\ j.seen = job[p].seen
        /\ j.safe = job[p].safe /\ j.start = job[p].start /\ j.unread = job[p].unread
        /\ j.config = job[p].config
    BY <1>1, IdleFields DEF Fields
  <2> HIDE DEF j
  <2>3. JobShape(j, chain, forks)
    BY <1>1, <2>1, <2>2
       DEF JobShape, SeenShape, RefreshShape, ReadShape, SeenSteps, ReadSteps, ChunkSteps
  <2> QED
    BY <2>1, <2>3
<1>4. CASE ReadEnd(p) /\ ~Stop(p)
  <2> DEFINE n == EndOf(job[p])
             j == [job[p] EXCEPT !.pc = "logs", !.hash = Hash(n), !.logs = {}, !.unread = Names]
  <2>1. /\ job'[p] = j /\ job[p].pc = "end" /\ n <= Height
    <3>1. End(p) = n
      BY DEF End, EndOf
    <3>2. job[p].pc = "end"
      BY <1>4 DEF ReadEnd, Pc
    <3>3. n \in Nat /\ Height \in Nat
      BY <1>1, <3>2, EndOfChunk, SequenceShape
         DEF JobShape, ReadShape, ChunkSteps, ChainShape, Height
    <3>4. Set(p, j) /\ ~(End(p) > Height)
      BY <1>4, <3>1 DEF ReadEnd, Names
    <3>5. job'[p] = j
      BY <3>4, SetJob DEF ForkInv
    <3> QED
      BY <3>1, <3>2, <3>3, <3>4, <3>5
  <2>2. job[p].start >= 1 /\ job[p].start <= job[p].safe /\ job[p].config = None
    BY <1>1, <2>1 DEF JobShape, ReadShape, ChunkSteps
  <2>3. n \in Nat /\ job[p].start <= n
    BY <1>1, <2>2, EndOfChunk DEF JobShape
  <2>4. n \in 1..Len(chain) /\ Len(chain) \in Nat /\ IsSequence(chain)
    BY <1>1, <2>1, <2>2, <2>3, SequenceShape DEF Height, ChainShape, JobShape
  <2>5. Held(Hash(n), chain, forks) /\ Len(Hash(n)) = n /\ PrefixOf(Hash(n), chain)
    BY <1>1, <2>4, ReadIsHeld, PartShape DEF Hash
  <2>6. /\ DOMAIN j = DOMAIN IdleJob /\ j.pc = "logs" /\ j.seen = job[p].seen
        /\ j.safe = job[p].safe /\ j.start = job[p].start /\ j.unread = Names
        /\ j.config = job[p].config /\ j.logs = {} /\ j.hash = Hash(n)
    BY <1>1, IdleFields DEF Fields
  <2>7. EndOf(j) = n
    BY <2>6 DEF EndOf
  <2> HIDE DEF j, n
  <2>8. j.seen # None /\ PrefixOf(j.seen.hash, chain) => PrefixOf(j.seen.hash, j.hash)
    <3> SUFFICES ASSUME j.seen # None, PrefixOf(j.seen.hash, chain)
                 PROVE  PrefixOf(j.seen.hash, j.hash)
      OBVIOUS
    <3>1. j.start = Len(j.seen.hash) + 1 /\ Len(j.seen.hash) \in Nat
      BY <1>1, <2>6, SequenceShape DEF JobShape, SeenShape, Held
    <3>2. Len(j.seen.hash) <= n
      BY <2>3, <2>6, <3>1
    <3> QED
      BY <2>3, <2>5, <2>6, <3>1, <3>2 DEF PrefixOf
  <2>9. j.logs = LogsOf(j.hash, j.start, EndOf(j), Names \ j.unread)
    <3>1. Names \ j.unread = {}
      BY <2>6
    <3> QED
      BY <2>6, <3>1, LogsOfNothing
  <2>10. SeenShape(j, chain, forks)
    BY <1>1, <2>1, <2>6 DEF JobShape, SeenShape, SeenSteps
  <2>11. ReadShape(j, chain, forks)
    BY <2>2, <2>5, <2>6, <2>7, <2>8, <2>9 DEF ReadShape, ReadSteps, ChunkSteps
  <2>12. JobShape(j, chain, forks)
    BY <1>1, <2>1, <2>6, <2>10, <2>11 DEF JobShape, RefreshShape, ReadSteps, ChunkSteps
  <2> QED
    BY <2>1, <2>12
<1> QED
  BY <1>2, <1>3, <1>4

\* What a job at one of its reads relies on.
LEMMA ReadFacts ==
  ASSUME ForkInv, NEW p \in Processes, job[p].pc \in ReadSteps
  PROVE  /\ DOMAIN job[p] = Fields /\ ChainShape(chain, forks)
         /\ JobShape(job[p], chain, forks) /\ SeenShape(job[p], chain, forks)
         /\ ReadShape(job[p], chain, forks)
         /\ EndOf(job[p]) \in Nat /\ job[p].start <= EndOf(job[p]) /\ EndOf(job[p]) >= 1
         /\ job[p].start \in Nat /\ job[p].start >= 1
         /\ Held(job[p].hash, chain, forks) /\ Len(job[p].hash) = EndOf(job[p])
         /\ Len(chain) \in Nat /\ End(p) = EndOf(job[p])
<1>1. DOMAIN job[p] = Fields /\ JobShape(job[p], chain, forks) /\ ChainShape(chain, forks)
  BY IdleFields DEF ForkInv, JobShape
<1>2. SeenShape(job[p], chain, forks) /\ ReadShape(job[p], chain, forks)
  BY <1>1 DEF JobShape
<1>3. /\ job[p].start \in Nat /\ job[p].safe \in Nat /\ job[p].start >= 1
      /\ job[p].start <= job[p].safe
      /\ Held(job[p].hash, chain, forks) /\ Len(job[p].hash) = EndOf(job[p])
  BY <1>1 DEF JobShape, ReadShape, ChunkSteps
<1>4. EndOf(job[p]) \in Nat /\ job[p].start <= EndOf(job[p])
  BY <1>3, EndOfChunk
<1>5. EndOf(job[p]) >= 1
  BY <1>3, <1>4
<1>6. Len(chain) \in Nat
  BY <1>1, SequenceShape DEF ChainShape
<1> QED
  BY <1>1, <1>2, <1>3, <1>4, <1>5, <1>6 DEF End, EndOf

\* ReadLogs: whichever query is answered, its logs are those of the fork of the
\* chunk's end, unless that fork has been abandoned.
LEMMA LogsStep ==
  ASSUME ForkInv, NEW p \in Processes, ReadLogs(p)
  PROVE  JobShape(job'[p], chain, forks)
<1>1. job[p].pc = "logs"
  BY DEF ReadLogs, Pc
<1>2. PICK name \in job[p].unread :
        Set(p, [job[p] EXCEPT
             !.logs = @ \cup LogsOf(chain, job[p].start, End(p), {name}),
             !.unread = job[p].unread \ {name},
             !.pc = IF job[p].unread \ {name} # {} THEN "logs"
                    ELSE IF End(p) = job[p].safe THEN "snapshot" ELSE "again"])
  BY DEF ReadLogs
<1>3. /\ DOMAIN job[p] = Fields /\ ChainShape(chain, forks)
      /\ JobShape(job[p], chain, forks) /\ SeenShape(job[p], chain, forks)
      /\ ReadShape(job[p], chain, forks)
      /\ EndOf(job[p]) \in Nat /\ job[p].start \in Nat /\ job[p].start >= 1
      /\ Held(job[p].hash, chain, forks) /\ Len(job[p].hash) = EndOf(job[p])
      /\ Len(chain) \in Nat /\ End(p) = EndOf(job[p])
  BY <1>1, ReadFacts DEF ReadSteps
<1> DEFINE left == job[p].unread \ {name}
           new == LogsOf(chain, job[p].start, End(p), {name})
           pc == IF left # {} THEN "logs" ELSE IF End(p) = job[p].safe THEN "snapshot" ELSE "again"
           j == [job[p] EXCEPT !.logs = @ \cup new, !.unread = left, !.pc = pc]
<1>4. job'[p] = j
  BY <1>2, SetJob DEF ForkInv
<1>5. /\ DOMAIN j = DOMAIN IdleJob /\ j.pc = pc /\ j.seen = job[p].seen
      /\ j.safe = job[p].safe /\ j.start = job[p].start /\ j.unread = left
      /\ j.config = job[p].config /\ j.logs = job[p].logs \cup new /\ j.hash = job[p].hash
  BY <1>3, IdleFields DEF Fields
<1>6. EndOf(j) = EndOf(job[p])
  BY <1>5 DEF EndOf
<1>7. /\ pc \in {"logs", "snapshot", "again"} /\ (pc # "logs" => left = {})
      /\ pc = "snapshot" => End(p) = job[p].safe
      /\ left \subseteq Names
  BY <1>3 DEF JobShape
<1>8. job[p].unread \subseteq Names /\ name \in job[p].unread
  BY <1>3 DEF JobShape
<1> HIDE DEF j, pc
<1>9. ASSUME PrefixOf(j.hash, chain)
      PROVE  j.logs = LogsOf(j.hash, j.start, EndOf(j), Names \ j.unread)
  <2> DEFINE L(names) == LogsOf(job[p].hash, job[p].start, EndOf(job[p]), names)
  <2>1. job[p].logs = L(Names \ job[p].unread)
    BY <1>1, <1>3, <1>5, <1>9 DEF ReadShape, ReadSteps
  <2>2. new = L({name})
    BY <1>3, <1>5, <1>9, LogsOfPrefix
  <2>3. L((Names \ job[p].unread) \cup {name}) = L(Names \ job[p].unread) \cup L({name})
    BY LogsOfUnion
  <2>4. (Names \ job[p].unread) \cup {name} = Names \ left
    BY <1>8
  <2> QED
    BY <1>5, <1>6, <2>1, <2>2, <2>3, <2>4
<1>10. ReadShape(j, chain, forks)
  <2> HIDE DEF left, new
  <2>1. job[p].config = None /\ job[p].start <= job[p].safe
    BY <1>1, <1>3 DEF ReadShape, ReadSteps, ChunkSteps
  <2>2. j.seen # None /\ PrefixOf(j.seen.hash, chain) => PrefixOf(j.seen.hash, j.hash)
    BY <1>1, <1>3, <1>5 DEF ReadShape, ReadSteps
  <2> QED
    BY <1>3, <1>5, <1>6, <1>7, <1>9, <2>1, <2>2 DEF ReadShape, ReadSteps, ChunkSteps
<1>11. SeenShape(j, chain, forks)
  BY <1>1, <1>3, <1>5, <1>7 DEF SeenShape, SeenSteps
<1>12. JobShape(j, chain, forks)
  BY <1>1, <1>3, <1>5, <1>7, <1>10, <1>11 DEF JobShape, RefreshShape, ReadSteps, ChunkSteps
<1> QED
  BY <1>4, <1>12

\* ReadSnapshot: the configuration is read at the end of the last chunk.
LEMMA SnapshotStep ==
  ASSUME ForkInv, NEW p \in Processes, ReadSnapshot(p)
  PROVE  JobShape(job'[p], chain, forks)
<1>1. job[p].pc = "snapshot"
  BY DEF ReadSnapshot, Pc
<1>2. CASE Stop(p)
  BY <1>2, SetJob, IdleShape DEF Stop, ForkInv
<1>3. CASE ~Stop(p)
  <2> DEFINE n == EndOf(job[p])
             j == [job[p] EXCEPT !.pc = "again",
                     !.config = [value |-> chain[n].contract.config, block |-> n]]
  <2>1. /\ DOMAIN job[p] = Fields /\ JobShape(job[p], chain, forks)
        /\ SeenShape(job[p], chain, forks) /\ ReadShape(job[p], chain, forks)
        /\ n \in Nat /\ n >= 1 /\ Len(job[p].hash) = n /\ End(p) = n
    BY <1>1, ReadFacts DEF ReadSteps
  <2>2. Snapshot(p, n, "again")
    BY <2>1 DEF ReadSnapshot
  <2>3. job'[p] = j
    BY <1>3, <2>2, SetJob DEF Snapshot, ForkInv
  <2>4. /\ DOMAIN j = DOMAIN IdleJob /\ j.pc = "again" /\ j.seen = job[p].seen
        /\ j.safe = job[p].safe /\ j.start = job[p].start /\ j.unread = job[p].unread
        /\ j.hash = job[p].hash /\ j.logs = job[p].logs
        /\ j.config = [value |-> chain[n].contract.config, block |-> n]
    BY <2>1, IdleFields DEF Fields
  <2>5. EndOf(j) = n
    BY <2>4 DEF EndOf
  <2> HIDE DEF j, n
  <2>6. PrefixOf(j.hash, chain) => chain[n] = j.hash[n]
    BY <2>1, <2>4 DEF PrefixOf
  <2>7. /\ job[p].start >= 1 /\ job[p].start <= job[p].safe /\ job[p].unread = {}
        /\ n = job[p].safe
        /\ Held(job[p].hash, chain, forks)
        /\ job[p].seen # None /\ PrefixOf(job[p].seen.hash, chain) =>
             PrefixOf(job[p].seen.hash, job[p].hash)
        /\ PrefixOf(job[p].hash, chain) =>
             job[p].logs = LogsOf(job[p].hash, job[p].start, n, Names \ job[p].unread)
    BY <1>1, <2>1 DEF ReadShape, ReadSteps, ChunkSteps, n
  <2>8. ReadShape(j, chain, forks)
    BY <2>1, <2>4, <2>5, <2>6, <2>7 DEF ReadShape, ReadSteps, ChunkSteps
  <2>9. SeenShape(j, chain, forks)
    BY <1>1, <2>1, <2>4 DEF SeenShape, SeenSteps
  <2>10. JobShape(j, chain, forks)
    BY <1>1, <2>1, <2>4, <2>8, <2>9 DEF JobShape, RefreshShape, ReadSteps, ChunkSteps
  <2> QED
    BY <2>3, <2>10
<1> QED
  BY <1>2, <1>3

\* ReadEndAgain, CheckAfter: the end of the chunk was canonical when everything was
\* read, then the checkpoint was when the end was read.
LEMMA AgainStep ==
  ASSUME ForkInv, NEW p \in Processes, ReadEndAgain(p) \/ CheckAfter(p)
  PROVE  JobShape(job'[p], chain, forks)
<1>1. job[p].pc \in {"again", "after"}
  BY DEF ReadEndAgain, CheckAfter, Pc
<1>2. CASE Stop(p)
  BY <1>2, SetJob, IdleShape DEF Stop, ForkInv
<1>3. CASE ~Stop(p)
  <2> DEFINE n == EndOf(job[p])
             pc == IF job[p].pc = "again" THEN "after" ELSE "commit"
             j == [job[p] EXCEPT !.pc = pc]
  <2>1. /\ DOMAIN job[p] = Fields /\ JobShape(job[p], chain, forks) /\ ChainShape(chain, forks)
        /\ SeenShape(job[p], chain, forks) /\ ReadShape(job[p], chain, forks)
        /\ Held(job[p].hash, chain, forks)
        /\ n \in Nat /\ n >= 1 /\ Len(job[p].hash) = n /\ End(p) = n
    BY <1>1, ReadFacts DEF ReadSteps
  <2>2. Go(p, pc)
    BY <1>3 DEF ReadEndAgain, CheckAfter, AssertCanonical, Pc
  <2>3. job'[p] = j
    BY <2>2, SetJob DEF Go, ForkInv
  <2>4. job[p].pc = "again" => PrefixOf(job[p].hash, chain)
    <3> SUFFICES ASSUME job[p].pc = "again"
                 PROVE  PrefixOf(job[p].hash, chain)
      OBVIOUS
    <3> DEFINE r == [block |-> n, hash |-> job[p].hash]
    <3>1. Canonical(r)
      BY <1>3, <2>1 DEF ReadEndAgain, CheckAfter, Pc
    <3>2. r.hash = job[p].hash /\ r.block = n
      OBVIOUS
    <3> HIDE DEF r, n
    <3> QED
      BY <2>1, <3>1, <3>2, CanonicalIsPrefix
  <2>5. job[p].pc = "after" => job[p].seen = None \/ PrefixOf(job[p].seen.hash, chain)
    <3> SUFFICES ASSUME job[p].pc = "after", job[p].seen # None
                 PROVE  PrefixOf(job[p].seen.hash, chain)
      OBVIOUS
    <3>1. Canonical(job[p].seen)
      BY <1>3 DEF ReadEndAgain, CheckAfter, AssertCanonical, Pc
    <3>2. Held(job[p].seen.hash, chain, forks) /\ Len(job[p].seen.hash) = job[p].seen.block
      BY <2>1 DEF SeenShape
    <3> QED
      BY <2>1, <3>1, <3>2, CanonicalIsPrefix
  <2>6. /\ DOMAIN j = DOMAIN IdleJob /\ j.pc = pc /\ j.seen = job[p].seen
        /\ j.safe = job[p].safe /\ j.start = job[p].start /\ j.unread = job[p].unread
        /\ j.hash = job[p].hash /\ j.logs = job[p].logs /\ j.config = job[p].config
    BY <2>1, IdleFields DEF Fields
  <2>7. EndOf(j) = n
    BY <2>6 DEF EndOf
  <2>8. pc \in {"after", "commit"} /\ (pc = "commit" <=> job[p].pc = "after")
    BY <1>1
  <2> HIDE DEF j
  <2>9. ReadShape(j, chain, forks)
    <3>1. /\ j.start >= 1 /\ j.start <= j.safe /\ j.unread = {}
          /\ Held(j.hash, chain, forks) /\ Len(j.hash) = n
      BY <1>1, <2>1, <2>6 DEF ReadShape, ReadSteps, ChunkSteps
    <3>2. j.seen # None /\ (pc = "commit" \/ PrefixOf(j.seen.hash, chain)) =>
            PrefixOf(j.seen.hash, j.hash)
      BY <1>1, <2>1, <2>5, <2>6, <2>8 DEF ReadShape, ReadSteps
    <3>3. j.logs = LogsOf(j.hash, j.start, n, Names \ j.unread)
      BY <1>1, <2>1, <2>4, <2>6 DEF ReadShape, ReadSteps
    <3>4. j.config # None =>
            j.config.block = n /\ j.config.value = j.hash[n].contract.config
      BY <1>1, <2>1, <2>4, <2>6 DEF ReadShape, ReadSteps
    <3>5. n = j.safe \/ j.config = None
      BY <1>1, <2>1, <2>6 DEF ReadShape, ReadSteps
    <3> HIDE DEF pc, n
    <3> QED
      BY <2>6, <2>7, <2>8, <3>1, <3>2, <3>3, <3>4, <3>5 DEF ReadShape, ReadSteps, ChunkSteps
  <2>10. SeenShape(j, chain, forks)
    BY <1>1, <2>1, <2>6, <2>8 DEF SeenShape, SeenSteps
  <2>11. JobShape(j, chain, forks)
    BY <1>1, <2>1, <2>6, <2>8, <2>9, <2>10
       DEF JobShape, RefreshShape, ReadSteps, ChunkSteps
  <2> QED
    BY <2>3, <2>11
<1> QED
  BY <1>2, <1>3

-----------------------------------------------------------------------------
\* The transactions.

\* What one step may do with the checkpoint.
CheckpointMove ==
  state # None /\ state' # None =>
    /\ IsPrefix(state.hash, state'.hash)
    /\ state.config # None => state'.config.block >= state.config.block

\* A sequence that agrees with another is its prefix.
LEMMA PrefixIsPrefix ==
  ASSUME NEW h, NEW k, IsSequence(h), IsSequence(k), PrefixOf(h, k), Len(h) >= 1
  PROVE  IsPrefix(h, k)
<1>1. Len(h) \in Nat /\ Len(k) \in Nat /\ Len(h) <= Len(k)
  BY SequenceShape DEF PrefixOf
<1>2. Len(h) \in 1..Len(k) /\ Len(h) \in 1..Len(h)
  BY <1>1
<1>3. SubSeq(k, 1, Len(h)) = h
  BY <1>2, PartIsPrefix
<1>4. SubSeq(h, 1, Len(h)) = h
  BY <1>2, PartIsPrefix DEF PrefixOf
<1> QED
  BY <1>1, <1>3, <1>4 DEF IsPrefix

LEMMA SamePrefix == ASSUME NEW h, IsSequence(h), Len(h) >= 1 PROVE IsPrefix(h, h)
<1>1. PrefixOf(h, h)
  BY SequenceShape DEF PrefixOf
<1> QED
  BY <1>1, PrefixIsPrefix

\* A step that leaves the checkpoint alone.
LEMMA CheckpointRests ==
  ASSUME ForkInv, state' = state
  PROVE  CheckpointMove
<1>1. state # None => IsSequence(state.hash) /\ Len(state.hash) >= 1
  BY DEF ForkInv, StateShape, Held
<1>2. state # None /\ state.config # None => state.config.block >= state.config.block
  <2>1. state # None /\ state.config # None => state.config.block \in Int
    BY SequenceShape DEF ForkInv, StateShape, Held
  <2> QED
    BY <2>1
<1> QED
  BY <1>1, <1>2, SamePrefix DEF CheckpointMove

\* SaveConfig: the configuration of the checkpoint's block, if the checkpoint is still
\* the one it was read for.
LEMMA SaveConfigStep ==
  ASSUME ForkInv, NEW p \in Processes, SaveConfig(p)
  PROVE  /\ JobShape(job'[p], chain, forks) /\ StateShape(state', chain, forks)
         /\ CheckpointMove
<1> DEFINE seen == job[p].seen
           config == job[p].config
<1>1. JobShape(job'[p], chain, forks)
  BY SetJob, IdleShape DEF SaveConfig, Stop, ForkInv
<1>2. job[p].pc = "save" /\ JobShape(job[p], chain, forks) /\ StateShape(state, chain, forks)
  BY DEF SaveConfig, Pc, ForkInv
<1>3. /\ Held(seen.hash, chain, forks) /\ Len(seen.hash) = seen.block
      /\ seen.block = job[p].safe /\ config.block = seen.block
      /\ config.value = seen.hash[seen.block].contract.config
      /\ seen.block \in Nat /\ seen.block >= 1
  BY <1>2 DEF JobShape, SeenShape, RefreshShape, SeenSteps
<1>4. CASE state' = state
  BY <1>1, <1>2, <1>4, CheckpointRests
<1>5. CASE state' # state
  <2>1. /\ SameCheckpoint(state, seen)
        /\ state' = AdvanceAdsIndexerState(seen.block, seen.hash, config)
    BY <1>5 DEF SaveConfig
  <2> HIDE DEF seen, config
  <2>2. state # None => state.block = seen.block /\ state.hash = seen.hash
    BY <2>1 DEF SameCheckpoint
  <2>3. state' = [block |-> seen.block, hash |-> seen.hash,
                  config |-> IF config = None
                             THEN IF state = None THEN None ELSE state.config
                             ELSE config]
    BY <1>5, <2>1 DEF AdvanceAdsIndexerState
  <2>4. state # None /\ state.config # None =>
          /\ state.config.block \in 1..seen.block
          /\ state.config.value = seen.hash[state.config.block].contract.config
    BY <1>2, <2>2 DEF StateShape
  <2>5. StateShape(state', chain, forks)
    BY <1>3, <2>3, <2>4 DEF StateShape
  <2>6. CheckpointMove
    <3>1. state # None => IsPrefix(state.hash, state'.hash)
      BY <1>3, <2>2, <2>3, SamePrefix DEF Held
    <3>2. state # None /\ state.config # None => state'.config.block >= state.config.block
      BY <1>3, <2>3, <2>4
    <3> QED
      BY <3>1, <3>2 DEF CheckpointMove
  <2> QED
    BY <1>1, <2>5, <2>6
<1> QED
  BY <1>4, <1>5

\* CommitChunk: the checkpoint that is still the job's moves on to the chunk's end,
\* which lies on its fork.
LEMMA CommitChunkStep ==
  ASSUME ForkInv, NEW p \in Processes, CommitChunk(p)
  PROVE  /\ JobShape(job'[p], chain, forks) /\ StateShape(state', chain, forks)
         /\ CheckpointMove
<1> DEFINE n == EndOf(job[p])
           seen == job[p].seen
           hash == job[p].hash
           config == job[p].config
<1>1. /\ DOMAIN job[p] = Fields /\ JobShape(job[p], chain, forks)
      /\ SeenShape(job[p], chain, forks) /\ ReadShape(job[p], chain, forks)
      /\ n \in Nat /\ n >= 1 /\ job[p].start <= n /\ End(p) = n
      /\ Held(hash, chain, forks) /\ Len(hash) = n /\ job[p].pc = "commit"
  BY ReadFacts DEF ReadSteps, CommitChunk, Pc
<1>2. StateShape(state, chain, forks)
  BY DEF ForkInv
<1>3. CASE Stop(p) /\ UNCHANGED dbVars
  <2>1. state' = state
    BY <1>3 DEF dbVars
  <2> QED
    BY <1>2, <1>3, <2>1, SetJob, IdleShape, CheckpointRests DEF Stop, ForkInv
<1>4. CASE SameCheckpoint(state, seen) /\ Projected(p) /\ NextChunk(p)
  <2>1. state' = AdvanceAdsIndexerState(n, hash, config)
    BY <1>1, <1>4 DEF Projected
  <2>2. /\ seen # None => /\ Held(seen.hash, chain, forks) /\ Len(seen.hash) = seen.block
                          /\ PrefixOf(seen.hash, hash) /\ seen.block < n
        /\ config # None => config.block = n /\ config.value = hash[n].contract.config
    <3>1. seen # None => /\ Held(seen.hash, chain, forks) /\ Len(seen.hash) = seen.block
                         /\ job[p].start = seen.block + 1 /\ seen.block \in Nat
      BY <1>1, SequenceShape DEF SeenShape, Held
    <3>2. /\ seen # None => PrefixOf(seen.hash, hash)
          /\ config # None => config.block = n /\ config.value = hash[n].contract.config
      BY <1>1 DEF ReadShape, ReadSteps
    <3> QED
      BY <1>1, <3>1, <3>2
  <2>3. job[p].start \in Nat /\ job[p].safe \in Nat /\ job[p].safe >= 1
        /\ job[p].unread \subseteq Names
    BY <1>1 DEF JobShape
  <2>4. IdleJob.pc = "idle" /\ JobShape(IdleJob, chain, forks)
    BY IdleShape DEF IdleJob
  <2>5. job[p].unread = {} /\ n <= job[p].safe /\ (n = job[p].safe \/ config = None)
    <3>1. /\ job[p].start <= job[p].safe /\ job[p].unread = {}
          /\ n = job[p].safe \/ config = None
      BY <1>1 DEF ReadShape, ReadSteps, ChunkSteps
    <3>2. n <= job[p].safe
      BY <2>3, <3>1, EndOfChunk
    <3> QED
      BY <3>1, <3>2
  <2> HIDE DEF seen, hash, config, n
  <2>6. state # None => /\ seen # None /\ state.hash = seen.hash /\ state.block = seen.block
    BY <1>4 DEF SameCheckpoint
  <2>7. state # None => state.block \in Nat /\ state.block < n
    BY <2>2, <2>6, SequenceShape DEF Held
  <2>8. state' = [block |-> n, hash |-> hash,
                  config |-> IF config = None
                             THEN IF state = None THEN None ELSE state.config
                             ELSE config]
    BY <1>1, <2>1, <2>7 DEF AdvanceAdsIndexerState
  <2>9. state # None /\ state.config # None =>
          /\ state.config.block \in 1..n
          /\ state.config.value = hash[state.config.block].contract.config
    BY <1>1, <1>2, <2>2, <2>6, <2>7 DEF StateShape, PrefixOf
  <2>10. StateShape(state', chain, forks)
    BY <1>1, <2>2, <2>8, <2>9 DEF StateShape
  <2>11. CheckpointMove
    <3>1. state # None => IsPrefix(state.hash, state'.hash)
      BY <1>1, <2>2, <2>6, <2>8, PrefixIsPrefix DEF Held
    <3>2. state # None /\ state.config # None => state'.config.block >= state.config.block
      BY <1>1, <2>2, <2>8, <2>9
    <3> QED
      BY <3>1, <3>2 DEF CheckpointMove
  <2>12. JobShape(job'[p], chain, forks)
    <3>1. CASE n = job[p].safe
      <4>1. Stop(p)
        BY <1>1, <1>4, <3>1 DEF NextChunk
      <4> QED
        BY <2>4, <4>1, SetJob DEF Stop, ForkInv
    <3>2. CASE n # job[p].safe
      <4> DEFINE next == [block |-> n, hash |-> hash]
                 j == [job[p] EXCEPT !.pc = "chunk", !.start = n + 1, !.logs = {},
                         !.seen = next, !.hash = None]
      <4>1. Set(p, j)
        BY <1>1, <1>4, <3>2 DEF NextChunk, hash
      <4>2. job'[p] = j
        BY <4>1, SetJob DEF ForkInv
      <4>3. /\ DOMAIN j = DOMAIN IdleJob /\ j.pc = "chunk" /\ j.seen = next
            /\ j.safe = job[p].safe /\ j.start = n + 1 /\ j.unread = job[p].unread
            /\ j.config = config
        BY <1>1, IdleFields DEF Fields, config
      <4>4. next.hash = hash /\ next.block = n
        OBVIOUS
      <4> HIDE DEF j, next
      <4>5. SeenShape(j, chain, forks)
        BY <1>1, <4>3, <4>4 DEF SeenShape
      <4> QED
        BY <1>1, <2>3, <2>5, <3>2, <4>2, <4>3, <4>5
           DEF JobShape, RefreshShape, ReadShape, SeenSteps, ReadSteps, ChunkSteps
    <3> QED
      BY <3>1, <3>2
  <2> QED
    BY <2>10, <2>11, <2>12
<1> QED
  BY <1>3, <1>4 DEF CommitChunk

-----------------------------------------------------------------------------
\* Everything together.

LEMMA ForkInit == Init => ForkInv
<1> SUFFICES ASSUME Init
             PROVE  ForkInv
  OBVIOUS
<1> DEFINE block == [fork |-> 0, logs |-> <<>>,
                     contract |-> [stake |-> [s \in Stakers |-> 0],
                                   version |-> [s \in Stakers |-> 0], config |-> 0]]
<1>1. chain = <<block>> /\ forks = 0
  BY DEF Init
<1>2. block.fork = 0
  OBVIOUS
<1> HIDE DEF block
<1>3. Len(chain) = 1 /\ chain[1] = block /\ chain \in Seq({block}) /\ DOMAIN chain = 1..1
  BY <1>1
<1>4. {chain[i] : i \in DOMAIN chain} = {block}
  BY <1>3
<1>5. ChainShape(chain, forks)
  BY <1>1, <1>2, <1>3, <1>4 DEF ChainShape, IsSequence
<1>6. StateShape(state, chain, forks)
  BY DEF Init, StateShape
<1>7. DOMAIN job = Processes /\ \A p \in Processes : job[p] = IdleJob
  BY DEF Init
<1> QED
  BY <1>5, <1>6, <1>7, IdleShape DEF ForkInv

\* One step of one job.
LEMMA IndexStepKeeps ==
  ASSUME ForkInv, NEW p \in Processes, IndexStep(p) \/ Fail(p)
  PROVE  ForkInv' /\ CheckpointMove
<1>1. UNCHANGED chainVars
  BY DEF IndexStep, Begin, ReadState, CheckState, ResetAdsProjection, ReadConfig, RecheckState,
         SaveConfig, CheckBefore, ReadEnd, ReadLogs, ReadSnapshot, ReadEndAgain, CheckAfter,
         CommitChunk, Fail
<1>2. \E j : Set(p, j)
  BY DEF IndexStep, Begin, ReadState, CheckState, ResetAdsProjection, ReadConfig, RecheckState,
         SaveConfig, CheckBefore, ReadEnd, ReadLogs, ReadSnapshot, ReadEndAgain, CheckAfter,
         CommitChunk, Fail, Stop, Go, Snapshot, AssertCanonical, NextChunk
<1>3. ASSUME JobShape(job'[p], chain, forks), StateShape(state', chain, forks), CheckpointMove
      PROVE  ForkInv' /\ CheckpointMove
  <2>1. DOMAIN job' = Processes /\ \A q \in Processes : q # p => job'[q] = job[q]
    BY <1>2, SetJob DEF ForkInv
  <2>2. \A q \in Processes : JobShape(job'[q], chain, forks)
    BY <1>3, <2>1 DEF ForkInv
  <2>3. chain' = chain /\ forks' = forks
    BY <1>1 DEF chainVars
  <2> QED
    BY <1>3, <2>1, <2>2, <2>3 DEF ForkInv
<1>4. ASSUME JobShape(job'[p], chain, forks), state' = state
      PROVE  ForkInv' /\ CheckpointMove
  BY <1>3, <1>4, CheckpointRests DEF ForkInv
<1>5. CASE Begin(p) \/ ReadState(p)
  BY <1>4, <1>5, BeginStep DEF Begin, ReadState, dbVars
<1>6. CASE CheckState(p)
  BY <1>4, <1>6, CheckStep DEF CheckState, dbVars
<1>7. CASE ResetAdsProjection(p)
  <2>1. StateShape(state', chain, forks) /\ CheckpointMove
    BY <1>7 DEF ResetAdsProjection, StateShape, CheckpointMove
  <2> QED
    BY <1>3, <1>7, <2>1, CheckStep
<1>8. CASE ReadConfig(p) \/ RecheckState(p)
  BY <1>4, <1>8, RefreshStep DEF ReadConfig, RecheckState, dbVars
<1>9. CASE SaveConfig(p)
  BY <1>3, <1>9, SaveConfigStep
<1>10. CASE CheckBefore(p) \/ ReadEnd(p)
  BY <1>4, <1>10, ChunkStep DEF CheckBefore, ReadEnd, dbVars
<1>11. CASE ReadLogs(p)
  BY <1>4, <1>11, LogsStep DEF ReadLogs, dbVars
<1>12. CASE ReadSnapshot(p)
  BY <1>4, <1>12, SnapshotStep DEF ReadSnapshot, dbVars
<1>13. CASE ReadEndAgain(p) \/ CheckAfter(p)
  BY <1>4, <1>13, AgainStep DEF ReadEndAgain, CheckAfter, dbVars
<1>14. CASE CommitChunk(p)
  BY <1>3, <1>14, CommitChunkStep
<1>15. CASE Fail(p)
  <2>1. JobShape(job'[p], chain, forks)
    BY <1>15, SetJob, IdleShape DEF Fail, Stop, ForkInv
  <2> QED
    BY <1>4, <1>15, <2>1 DEF Fail, dbVars
<1> QED
  BY <1>5, <1>6, <1>7, <1>8, <1>9, <1>10, <1>11, <1>12, <1>13, <1>14, <1>15 DEF IndexStep

\* One step of the system.
LEMMA ForkStep ==
  ASSUME FreshForks = TRUE, ForkInv, [Next]_vars
  PROVE  ForkInv' /\ CheckpointMove
<1>1. CASE ChainStep
  <2>1. /\ ChainMoves(chain, forks, chain', forks') /\ ChainShape(chain, forks)
        /\ state' = state /\ job' = job
    BY <1>1, ChainStepMoves DEF ForkInv, dbVars
  <2>2. ChainShape(chain', forks')
    BY <2>1, ChainMoveShape
  <2>3. StateShape(state', chain', forks')
    BY <2>1, StateUnderMove DEF ForkInv
  <2>4. \A p \in Processes : JobShape(job'[p], chain', forks')
    BY <2>1, JobUnderMove DEF ForkInv
  <2> QED
    BY <2>1, <2>2, <2>3, <2>4, CheckpointRests DEF ForkInv
<1>2. ASSUME NEW p \in Processes, IndexStep(p) \/ Fail(p)
      PROVE  ForkInv' /\ CheckpointMove
  BY <1>2, IndexStepKeeps
<1>3. CASE UNCHANGED vars
  <2>1. chain' = chain /\ forks' = forks /\ state' = state /\ job' = job
    BY <1>3 DEF vars, chainVars, dbVars
  <2> QED
    BY <2>1, CheckpointRests DEF ForkInv
<1> QED
  BY <1>1, <1>2, <1>3 DEF Next

\* Whatever the chain does between the reads of the jobs, what each of them holds is
\* of one fork (index, commitChunk).
THEOREM ForkInvariant == ASSUME FreshForks = TRUE PROVE Spec => []ForkInv
<1>1. ForkInv /\ [Next]_vars => ForkInv'
  BY ForkStep
<1> QED
  BY <1>1, ForkInit, PTL DEF Spec

\* Until it is reset the checkpoint only moves along its own fork: a delayed job
\* never takes it back, nor sideways, and it never takes the configuration back.
THEOREM CheckpointFollows == ASSUME FreshForks = TRUE PROVE Spec => CheckpointFollowsOneFork
<1>1. ForkInv /\ [Next]_vars => CheckpointMove
  BY ForkStep
<1>2. ForkInv /\ [Next]_vars =>
        [state # None /\ state' # None =>
           /\ IsPrefix(state.hash, state'.hash)
           /\ state.config # None => state'.config.block >= state.config.block]_vars
  BY <1>1 DEF CheckpointMove
<1> QED
  BY <1>2, ForkInvariant, PTL DEF Spec, CheckpointFollowsOneFork

\* The configuration that the API serves is the contract's at the block it is stored
\* for, on the fork of the checkpoint (saveConfiguration, commitChunk).
THEOREM ConfigurationOfItsBlock ==
  ASSUME FreshForks = TRUE
  PROVE  Spec => []ConfigurationIsOfItsBlock
<1>1. ForkInv => ConfigurationIsOfItsBlock
  <2>1. ForkInv /\ state # None => state.block \in Nat
    BY SequenceShape DEF ForkInv, StateShape, Held
  <2> QED
    BY <2>1 DEF ForkInv, StateShape, ConfigurationIsOfItsBlock
<1> QED
  BY <1>1, ForkInvariant, PTL

\* The logs that the transaction of a chunk applies are exactly those of its blocks on
\* the fork whose hash becomes the checkpoint: none of another fork, none missing.
CommittedLogsAreOfOneFork ==
  \A p \in Processes : job[p].pc = "commit" =>
    job[p].logs = LogsOf(job[p].hash, job[p].start, End(p), {"PositionChanged", "StakeCharged"})

THEOREM CommittedLogs ==
  ASSUME FreshForks = TRUE
  PROVE  Spec => []CommittedLogsAreOfOneFork
<1>1. ForkInv => CommittedLogsAreOfOneFork
  <2> SUFFICES ASSUME ForkInv, NEW p \in Processes, job[p].pc = "commit"
               PROVE  job[p].logs = LogsOf(job[p].hash, job[p].start, End(p), Names)
    BY DEF CommittedLogsAreOfOneFork, Names
  <2>1. ReadShape(job[p], chain, forks) /\ End(p) = EndOf(job[p])
    BY ReadFacts DEF ReadSteps
  <2>2. job[p].unread = {}
    BY <2>1 DEF ReadShape, ReadSteps
  <2>3. Names \ job[p].unread = Names
    BY <2>2
  <2> QED
    BY <2>1, <2>3 DEF ReadShape, ReadSteps
<1> QED
  BY <1>1, ForkInvariant, PTL

=============================================================================
